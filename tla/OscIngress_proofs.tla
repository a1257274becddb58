------------------------- MODULE OscIngress_proofs -------------------------
(* Proofs about OscIngress: whatever the datagrams say, for every unit,    *)
(* grid and set of packets, the builder and its frames stay in range, and  *)
(* a field holds what the last message about it said, however the messages *)
(* are nested, and the raw dump prints them in the order of application.   *)
EXTENDS OscIngress, SequenceTheorems, WellFoundedInduction, TLAPS

-----------------------------------------------------------------------------
(* Recursion on a size: such functions exist and are what their equation   *)
(* says.                                                                   *)

\* Numbers have a least one among them.
LEMMA LeastNumber ==
    ASSUME NEW S \in SUBSET Nat, S # {}
    PROVE  \E m \in S : \A n \in S : m <= n
  <1>1. PICK m \in S : \A n \in S : <<n, m>> \notin OpToRel(<, Nat)
    BY NatLessThanWellFounded, WFMin
  <1>2. ASSUME NEW n \in S PROVE m <= n
    <2>1. n \in Nat /\ m \in Nat
      OBVIOUS
    <2>2. <<n, m>> \notin OpToRel(<, Nat)
      BY <1>1
    <2>3. ~(n < m)
      BY <2>1, <2>2 DEF OpToRel
    <2> QED BY <2>1, <2>3
  <1> QED BY <1>2

\* Among the elements of a set that have a size there is a smallest one.
LEMMA SmallestElement ==
    ASSUME NEW S, NEW size \in [S -> Nat], NEW B \in SUBSET S, B # {}
    PROVE  \E x \in B : \A y \in B : size[x] <= size[y]
  <1> DEFINE Sizes == {size[x] : x \in B}
  <1>1. Sizes \in SUBSET Nat /\ Sizes # {}
    OBVIOUS
  <1>2. PICK m \in Sizes : \A n \in Sizes : m <= n
    BY <1>1, LeastNumber
  <1> QED BY <1>2

\* What G makes of f at s depends only on what f is at smaller elements.
Narrowing(S, V, size, G) ==
    \A g, h \in [S -> V] : \A s \in S :
        (\A y \in S : size[y] < size[s] => g[y] = h[y]) => G[<<g, s>>] = G[<<h, s>>]

\* f obeys the equation at every element smaller than n.
UpTo(f, n, S, size, G) == \A s \in S : size[s] < n => f[s] = G[<<f, s>>]

\* Functions that obey the equation up to m and n agree up to the smaller.
LEMMA PartsAgree ==
    ASSUME NEW S, NEW V, NEW size \in [S -> Nat], NEW G, Narrowing(S, V, size, G),
           NEW f \in [S -> V], NEW g \in [S -> V], NEW n \in Nat, NEW m \in Nat, m <= n,
           UpTo(f, m, S, size, G), UpTo(g, n, S, size, G)
    PROVE  \A s \in S : size[s] < m => f[s] = g[s]
  <1> DEFINE B == {s \in S : size[s] < m /\ f[s] # g[s]}
  <1> SUFFICES ASSUME B # {} PROVE FALSE
    OBVIOUS
  <1>1. PICK s \in B : \A y \in B : size[s] <= size[y]
    BY SmallestElement
  <1>2. ASSUME NEW y \in S, size[y] < size[s] PROVE f[y] = g[y]
    <2>1. size[y] \in Nat /\ size[s] \in Nat /\ size[s] < m
      OBVIOUS
    <2>2. size[y] < m /\ ~(size[s] <= size[y])
      BY <1>2, <2>1
    <2>3. y \notin B
      BY <1>1, <2>2
    <2> QED BY <2>2, <2>3
  <1>3. G[<<f, s>>] = G[<<g, s>>]
    BY <1>2 DEF Narrowing
  <1>4. f[s] = G[<<f, s>>] /\ g[s] = G[<<g, s>>]
    <2>1. size[s] \in Nat /\ size[s] < m
      OBVIOUS
    <2>2. size[s] < n
      BY <2>1
    <2> QED BY <2>1, <2>2 DEF UpTo
  <1> QED BY <1>3, <1>4

\* For every n some function obeys the equation up to n.
LEMMA PartsExist ==
    ASSUME NEW S, NEW V, V # {}, NEW size \in [S -> Nat],
           NEW G \in [[S -> V] \X S -> V], Narrowing(S, V, size, G)
    PROVE  \A n \in Nat : \E f \in [S -> V] : UpTo(f, n, S, size, G)
  <1> DEFINE B == {n \in Nat : ~ \E f \in [S -> V] : UpTo(f, n, S, size, G)}
  <1> SUFFICES ASSUME B # {} PROVE FALSE
    OBVIOUS
  <1>1. PICK n \in B : \A m \in B : n <= m
    BY LeastNumber
  <1>2. CASE n = 0
    <2>1. PICK t \in V : TRUE
      OBVIOUS
    <2>2. [s \in S |-> t] \in [S -> V]
      BY <2>1
    <2>3. UpTo([s \in S |-> t], 0, S, size, G)
      BY DEF UpTo
    <2> QED BY <1>2, <2>2, <2>3
  <1>3. CASE n # 0
    <2>1. n - 1 \in Nat /\ n - 1 \notin B
      BY <1>1, <1>3
    <2>2. PICK f \in [S -> V] : UpTo(f, n - 1, S, size, G)
      BY <2>1
    <2> DEFINE g == [s \in S |-> G[<<f, s>>]]
    <2>3. g \in [S -> V]
      OBVIOUS
    <2>4. ASSUME NEW s \in S, size[s] < n PROVE G[<<g, s>>] = G[<<f, s>>]
      <3>1. ASSUME NEW y \in S, size[y] < size[s] PROVE g[y] = f[y]
        <4>1. size[y] < n - 1
          <5>1. size[y] \in Nat /\ size[s] \in Nat /\ n \in Nat
            OBVIOUS
          <5> QED BY <2>4, <3>1, <5>1
        <4> QED BY <2>2, <4>1 DEF UpTo
      <3> HIDE DEF g
      <3> QED BY <2>3, <3>1 DEF Narrowing
    <2>5. UpTo(g, n, S, size, G)
      BY <2>4 DEF UpTo
    <2> QED BY <2>3, <2>5
  <1> QED BY <1>2, <1>3

\* f solves the equation over S that G is the right-hand side of.
Solves(f, S, G) == \A s \in S : f[s] = G[<<f, s>>]

\* G is the right-hand side of a recursion on a size.
Recursor(S, V, size, G) ==
    /\ V # {}
    /\ size \in [S -> Nat]
    /\ G \in [[S -> V] \X S -> V]
    /\ Narrowing(S, V, size, G)

\* A function may be defined by recursion on a size.
LEMMA Recursion ==
    ASSUME NEW S, NEW V, NEW size, NEW G, Recursor(S, V, size, G)
    PROVE  \E f \in [S -> V] : Solves(f, S, G)
  <1>0. /\ V # {} /\ size \in [S -> Nat] /\ G \in [[S -> V] \X S -> V]
        /\ Narrowing(S, V, size, G)
    BY DEF Recursor
  <1> DEFINE part == [n \in Nat |-> CHOOSE f \in [S -> V] : UpTo(f, n, S, size, G)]
             whole == [s \in S |-> part[size[s] + 1][s]]
  <1>1. \A n \in Nat : part[n] \in [S -> V] /\ UpTo(part[n], n, S, size, G)
    BY <1>0, PartsExist
  <1> HIDE DEF part
  <1>2. whole \in [S -> V]
    BY <1>0, <1>1
  <1>3. ASSUME NEW s \in S PROVE whole[s] = G[<<whole, s>>]
    <2>0. size[s] \in Nat /\ size[s] + 1 \in Nat /\ size[s] < size[s] + 1
      BY <1>0
    <2> DEFINE f == part[size[s] + 1]
    <2>1. f \in [S -> V] /\ UpTo(f, size[s] + 1, S, size, G)
      BY <1>1, <2>0
    <2>2. ASSUME NEW y \in S, size[y] < size[s] PROVE whole[y] = f[y]
      <3>1. size[y] \in Nat /\ size[y] + 1 \in Nat /\ size[y] + 1 <= size[s] + 1
            /\ size[y] < size[y] + 1
        BY <1>0, <2>0, <2>2
      <3> DEFINE g == part[size[y] + 1]
      <3>2. g \in [S -> V] /\ UpTo(g, size[y] + 1, S, size, G)
        BY <1>1, <3>1
      <3>3. whole[y] = g[y]
        OBVIOUS
      <3> HIDE DEF f, g
      <3>4. g[y] = f[y]
        BY <1>0, <2>0, <2>1, <3>1, <3>2, PartsAgree
      <3> QED BY <3>3, <3>4
    <2>3. whole[s] = f[s]
      OBVIOUS
    <2> HIDE DEF f, whole
    <2>4. f[s] = G[<<f, s>>]
      BY <2>0, <2>1 DEF UpTo
    <2>5. G[<<whole, s>>] = G[<<f, s>>]
      BY <1>0, <1>2, <2>1, <2>2 DEF Narrowing
    <2> QED BY <2>3, <2>4, <2>5
  <1> QED BY <1>2, <1>3 DEF Solves

-----------------------------------------------------------------------------
(* Joining a sequence of sequences.                                        *)

\* w[i] joins the first i of the n sequences in c.
Joins(w, n, c) ==
    w = [i \in 1..n |-> IF i = 1 THEN c[i] ELSE w[i - 1] \o c[i]]

\* There is such a function.
LEMMA JoinsExist ==
    ASSUME NEW A, NEW n \in Nat, NEW c \in [1..n -> Seq(A)]
    PROVE  \E w : Joins(w, n, c)
  <1> DEFINE S == 1..n
             size == [i \in S |-> i]
             G == [x \in [S -> Seq(A)] \X S |->
                      IF x[2] = 1 THEN c[x[2]] ELSE x[1][x[2] - 1] \o c[x[2]]]
  <1>1. size \in [S -> Nat] /\ Seq(A) # {}
    OBVIOUS
  <1>2. ASSUME NEW i \in S, i # 1 PROVE i - 1 \in S /\ size[i - 1] < size[i]
    BY <1>2
  <1>3. ASSUME NEW f \in [S -> Seq(A)], NEW i \in S
        PROVE  G[<<f, i>>] = IF i = 1 THEN c[i] ELSE f[i - 1] \o c[i]
    OBVIOUS
  <1>4. G \in [[S -> Seq(A)] \X S -> Seq(A)]
    <2>1. ASSUME NEW f \in [S -> Seq(A)], NEW i \in S
          PROVE  (IF i = 1 THEN c[i] ELSE f[i - 1] \o c[i]) \in Seq(A)
      <3>1. CASE i = 1
        BY <3>1
      <3>2. CASE i # 1
        <4>1. f[i - 1] \in Seq(A) /\ c[i] \in Seq(A)
          BY <1>2, <3>2
        <4> QED BY <3>2, <4>1
      <3> QED BY <3>1, <3>2
    <2> QED BY <2>1
  <1> HIDE DEF G, size, S
  <1>5. Narrowing(S, Seq(A), size, G)
    <2> SUFFICES ASSUME NEW g \in [S -> Seq(A)], NEW h \in [S -> Seq(A)], NEW i \in S,
                        \A j \in S : size[j] < size[i] => g[j] = h[j]
                 PROVE  G[<<g, i>>] = G[<<h, i>>]
      BY DEF Narrowing
    <2>1. CASE i = 1
      BY <1>3, <2>1
    <2>2. CASE i # 1
      <3>1. g[i - 1] = h[i - 1]
        BY <1>2, <2>2
      <3>2. G[<<g, i>>] = g[i - 1] \o c[i] /\ G[<<h, i>>] = h[i - 1] \o c[i]
        BY <1>3, <2>2
      <3> QED BY <3>1, <3>2
    <2> QED BY <2>1, <2>2
  <1>6. PICK f \in [S -> Seq(A)] : Solves(f, S, G)
    <2>1. Recursor(S, Seq(A), size, G)
      BY <1>1, <1>4, <1>5 DEF Recursor
    <2> QED BY <2>1, Recursion
  <1>7. \A i \in S : f[i] = IF i = 1 THEN c[i] ELSE f[i - 1] \o c[i]
    BY <1>3, <1>6 DEF Solves
  <1>8. f = [i \in 1..n |-> IF i = 1 THEN c[i] ELSE f[i - 1] \o c[i]]
    BY <1>7 DEF S
  <1> QED BY <1>8 DEF Joins

\* What it joins are sequences over the same set.
LEMMA JoinsType ==
    ASSUME NEW A, NEW n \in Nat, NEW c \in [1..n -> Seq(A)], NEW w, Joins(w, n, c)
    PROVE  w \in [1..n -> Seq(A)]
  <1>1. /\ DOMAIN w = 1..n /\ w = [i \in 1..n |-> w[i]]
        /\ \A i \in 1..n : w[i] = IF i = 1 THEN c[i] ELSE w[i - 1] \o c[i]
    BY DEF Joins
  <1> DEFINE B == {i \in 1..n : w[i] \notin Seq(A)}
  <1>2. ASSUME B # {} PROVE FALSE
    <2>1. B \in SUBSET Nat
      OBVIOUS
    <2> HIDE DEF B
    <2>2. PICK i \in B : \A j \in B : i <= j
      BY <1>2, <2>1, LeastNumber
    <2> USE DEF B
    <2>3. i \in 1..n /\ w[i] \notin Seq(A) /\ c[i] \in Seq(A)
      OBVIOUS
    <2>4. i # 1
      BY <1>1, <2>3
    <2>5. i - 1 \in 1..n
      BY <2>3, <2>4
    <2>6. i - 1 \notin B
      BY <2>2, <2>3
    <2>7. w[i - 1] \in Seq(A)
      BY <2>5, <2>6
    <2>8. w[i] = w[i - 1] \o c[i]
      BY <1>1, <2>3, <2>4
    <2>9. w[i] \in Seq(A)
      BY <2>3, <2>7, <2>8
    <2> QED BY <2>3, <2>9
  <1>3. \A i \in 1..n : w[i] \in Seq(A)
    BY <1>2
  <1> QED BY <1>1, <1>3

\* u[i] joins the first i of the n sequences in c, none for i = 0.
Running(u, n, c, A) ==
    /\ n \in Nat /\ n = Len(c)
    /\ u \in [0..n -> Seq(A)]
    /\ u[0] = <<>>
    /\ \A i \in 1..n : u[i] = u[i - 1] \o c[i]

\* FlattenSeq joins the sequences one after the other.
LEMMA FlattenSteps ==
    ASSUME NEW A, NEW seqs \in Seq(Seq(A))
    PROVE  \E n, u : Running(u, n, seqs, A) /\ Seqs!FlattenSeq(seqs) = u[n]
  <1>0. PICK n \in Nat : n = Len(seqs)
    OBVIOUS
  <1>1. seqs \in [1..n -> Seq(A)]
    BY <1>0
  <1>2. CASE n = 0
    <2>1. seqs = <<>> /\ Seqs!FlattenSeq(seqs) = <<>>
      <3>1. seqs = <<>>
        <4>1. PICK U : U = Seq(A)
          OBVIOUS
        <4>2. seqs \in Seq(U)
          BY <4>1
        <4> QED BY <1>0, <1>2, <4>2, EmptySeq
      <3>2. Len(seqs) = 0
        BY <1>0, <1>2
      <3> QED BY <3>1, <3>2 DEF Seqs!FlattenSeq
    <2> DEFINE u == [i \in 0..n |-> <<>>]
    <2>2. u \in [0..n -> Seq(A)] /\ u[0] = <<>> /\ u[n] = <<>>
      BY <1>0, <1>2
    <2>3. \A i \in 1..n : u[i] = u[i - 1] \o seqs[i]
      BY <1>0, <1>2
    <2> HIDE DEF u
    <2> QED BY <1>0, <2>1, <2>2, <2>3 DEF Running
  <1>3. CASE n # 0
    <2> DEFINE w == CHOOSE f : Joins(f, n, seqs)
    <2>1. Joins(w, n, seqs)
      BY <1>1, JoinsExist
    <2>2. Seqs!FlattenSeq(seqs) = w[n]
      BY <1>0, <1>3 DEF Seqs!FlattenSeq, Joins
    <2> HIDE DEF w
    <2>3. w \in [1..n -> Seq(A)]
      BY <1>1, <2>1, JoinsType
    <2>6. \A i \in 1..n : w[i] = IF i = 1 THEN seqs[i] ELSE w[i - 1] \o seqs[i]
      BY <2>1 DEF Joins
    <2> DEFINE u == [i \in 0..n |-> IF i = 0 THEN <<>> ELSE w[i]]
    <2>4. u \in [0..n -> Seq(A)] /\ u[0] = <<>> /\ u[n] = w[n]
      BY <1>3, <2>3
    <2>5. ASSUME NEW i \in 1..n PROVE u[i] = u[i - 1] \o seqs[i]
      <3>0. seqs[i] \in Seq(A) /\ u[i] = w[i]
        BY <1>1
      <3>1. CASE i = 1
        BY <2>6, <3>0, <3>1
      <3>2. CASE i # 1
        <4>1. i - 1 \in 0..n /\ i - 1 # 0
          BY <3>2
        <4>2. u[i - 1] = w[i - 1]
          BY <4>1
        <4> QED BY <2>6, <3>0, <3>2, <4>2
      <3> QED BY <3>1, <3>2
    <2> HIDE DEF u
    <2> QED BY <1>0, <2>2, <2>4, <2>5 DEF Running
  <1> QED BY <1>2, <1>3

\* P holds 0, and i whenever it holds i - 1.
CountsUp(P, n) == 0 \in P /\ \A i \in 1..n : i - 1 \in P => i \in P

\* What counts up to n holds n.
LEMMA CountUp ==
    ASSUME NEW n \in Nat, NEW P, CountsUp(P, n)
    PROVE  n \in P
  <1>0. 0 \in P /\ \A i \in 1..n : i - 1 \in P => i \in P
    BY DEF CountsUp
  <1> DEFINE B == {i \in 0..n : i \notin P}
  <1> SUFFICES ASSUME n \notin P PROVE FALSE
    OBVIOUS
  <1>1. B \in SUBSET Nat /\ B # {}
    OBVIOUS
  <1> HIDE DEF B
  <1>2. PICK i \in B : \A j \in B : i <= j
    BY <1>1, LeastNumber
  <1> USE DEF B
  <1>3. i \in 1..n /\ i \notin P
    BY <1>0
  <1>4. i - 1 \in 0..n /\ i - 1 \notin B
    BY <1>2, <1>3
  <1> QED BY <1>0, <1>3, <1>4

\* Two lists of sequences joined are their joins joined.
LEMMA FlattenConcat ==
    ASSUME NEW A, NEW s \in Seq(Seq(A)), NEW t \in Seq(Seq(A))
    PROVE  Seqs!FlattenSeq(s \o t) = Seqs!FlattenSeq(s) \o Seqs!FlattenSeq(t)
  <1>1. PICK st : /\ st = s \o t
                  /\ st \in Seq(Seq(A))
                  /\ Len(st) = Len(s) + Len(t)
                  /\ \A i \in 1..Len(s) : st[i] = s[i]
                  /\ \A j \in 1..Len(t) : st[Len(s) + j] = t[j] /\ t[j] \in Seq(A)
    <2>1. PICK U : U = Seq(A)
      OBVIOUS
    <2>2. s \in Seq(U) /\ t \in Seq(U)
      BY <2>1
    <2>3. /\ s \o t \in Seq(U)
          /\ Len(s \o t) = Len(s) + Len(t)
          /\ \A i \in 1..Len(s) : (s \o t)[i] = s[i]
          /\ \A j \in 1..Len(t) : (s \o t)[Len(s) + j] = t[j] /\ t[j] \in U
      BY <2>2
    <2> QED BY <2>1, <2>3
  <1>2. PICK m, us : Running(us, m, s, A) /\ Seqs!FlattenSeq(s) = us[m]
    BY FlattenSteps
  <1>3. PICK n, ut : Running(ut, n, t, A) /\ Seqs!FlattenSeq(t) = ut[n]
    BY FlattenSteps
  <1>4. PICK k, v : Running(v, k, st, A) /\ Seqs!FlattenSeq(st) = v[k]
    <2>1. st \in Seq(Seq(A))
      BY <1>1
    <2> QED BY <2>1, FlattenSteps
  <1>5. m \in Nat /\ n \in Nat /\ m = Len(s) /\ n = Len(t) /\ k = m + n
    BY <1>1, <1>2, <1>3, <1>4 DEF Running
  <1>6. v[m] = us[m]
    <2> DEFINE P == {i \in 0..m : v[i] = us[i]}
    <2>1. 0 \in P
      BY <1>2, <1>4 DEF Running
    <2>2. ASSUME NEW i \in 1..m, i - 1 \in P PROVE i \in P
      <3>1. i \in 0..m /\ i \in 1..(m + n) /\ v[i - 1] = us[i - 1] /\ st[i] = s[i]
        BY <1>1, <1>5, <2>2
      <3>2. v[i] = v[i - 1] \o st[i] /\ us[i] = us[i - 1] \o s[i]
        BY <1>2, <1>4, <1>5, <3>1 DEF Running
      <3> QED BY <3>1, <3>2
    <2>3. CountsUp(P, m)
      BY <2>1, <2>2 DEF CountsUp
    <2> HIDE DEF P
    <2>4. m \in P
      BY <1>5, <2>3, CountUp
    <2> QED BY <2>4 DEF P
  <1>7. v[m + n] = us[m] \o ut[n]
    <2> DEFINE P == {j \in 0..n : v[m + j] = us[m] \o ut[j]}
    <2>0. us[m] \in Seq(A)
      BY <1>2 DEF Running
    <2>1. 0 \in P
      <3>1. us[m] \o <<>> = us[m]
        BY <2>0, ConcatEmptySeq
      <3>2. v[m + 0] = us[m] /\ ut[0] = <<>> /\ 0 \in 0..n
        BY <1>3, <1>5, <1>6 DEF Running
      <3>3. v[m + 0] = us[m] \o ut[0]
        BY <3>1, <3>2
      <3> QED BY <3>2, <3>3
    <2>2. ASSUME NEW j \in 1..n, j - 1 \in P PROVE j \in P
      <3>1. /\ j \in 0..n /\ j - 1 \in 0..n
            /\ m + j \in 1..(m + n) /\ (m + j) - 1 = m + (j - 1)
        BY <1>5
      <3>2. v[m + (j - 1)] = us[m] \o ut[j - 1] /\ st[m + j] = t[j]
        BY <1>1, <1>5, <2>2
      <3>3. v[m + j] = v[m + (j - 1)] \o st[m + j] /\ ut[j] = ut[j - 1] \o t[j]
        BY <1>3, <1>4, <1>5, <3>1 DEF Running
      <3>4. ut[j - 1] \in Seq(A) /\ t[j] \in Seq(A)
        BY <1>1, <1>3, <1>5, <3>1 DEF Running
      <3>5. (us[m] \o ut[j - 1]) \o t[j] = us[m] \o (ut[j - 1] \o t[j])
        <4>1. PICK x, y, z : x = us[m] /\ y = ut[j - 1] /\ z = t[j]
          OBVIOUS
        <4>2. (x \o y) \o z = x \o (y \o z)
          <5>1. x \in Seq(A) /\ y \in Seq(A) /\ z \in Seq(A)
            BY <2>0, <3>4, <4>1
          <5> QED BY <5>1
        <4> QED BY <4>1, <4>2
      <3>6. v[m + j] = us[m] \o ut[j]
        BY <3>2, <3>3, <3>5
      <3> QED BY <3>1, <3>6
    <2>3. CountsUp(P, n)
      BY <2>1, <2>2 DEF CountsUp
    <2> HIDE DEF P
    <2>4. n \in P
      BY <1>5, <2>3, CountUp
    <2> QED BY <2>4 DEF P
  <1> QED BY <1>1, <1>2, <1>3, <1>4, <1>5, <1>7

\* One sequence is its own join.
LEMMA FlattenOne ==
    ASSUME NEW A, NEW x \in Seq(A)
    PROVE  Seqs!FlattenSeq(<<x>>) = x
  <1>1. PICK c : c = <<x>> /\ c \in Seq(Seq(A)) /\ Len(c) = 1 /\ c[1] = x
    <2>1. PICK U : U = Seq(A)
      OBVIOUS
    <2>2. <<x>> \in Seq(U) /\ Len(<<x>>) = 1 /\ <<x>>[1] = x
      BY <2>1
    <2> QED BY <2>1, <2>2
  <1>2. PICK n, u : Running(u, n, c, A) /\ Seqs!FlattenSeq(c) = u[n]
    <2>1. c \in Seq(Seq(A))
      BY <1>1
    <2> QED BY <2>1, FlattenSteps
  <1>3. n = 1 /\ u[0] = <<>>
    BY <1>1, <1>2 DEF Running
  <1>4. u[1] = u[0] \o x
    <2>1. 1 \in 1..n /\ 1 - 1 = 0
      BY <1>3
    <2>2. u[1] = u[1 - 1] \o c[1]
      BY <1>2, <2>1 DEF Running
    <2> QED BY <1>1, <2>1, <2>2
  <1>5. <<>> \o x = x
    BY ConcatEmptySeq
  <1> QED BY <1>1, <1>2, <1>3, <1>4, <1>5

\* The join of sequences over a set is a sequence over it.
LEMMA FlattenType ==
    ASSUME NEW A, NEW seqs \in Seq(Seq(A))
    PROVE  Seqs!FlattenSeq(seqs) \in Seq(A)
  <1>1. PICK n, u : Running(u, n, seqs, A) /\ Seqs!FlattenSeq(seqs) = u[n]
    BY FlattenSteps
  <1> QED BY <1>1 DEF Running

-----------------------------------------------------------------------------
(* The builder's ranges.                                                   *)

\* The limits are numbers in the order their names suggest.
LEMMA LimitOrder ==
    /\ ONE \in Nat /\ ONE > 0
    /\ INFINITY \in Nat /\ INFINITY > 0
    /\ BPM_MIN \in Nat /\ BPM_MAX \in Nat
    /\ BPM_MIN <= 120 * ONE /\ 120 * ONE <= BPM_MAX
  BY UnitAssumption, InfinityAssumption, BpmAssumption DEF BPM_MIN, BPM_MAX

\* A value written to a field is in the field's range, if the old one was.
LEMMA WrittenInRange ==
    ASSUME NEW f \in Fields, NEW old \in RangeOf(f), NEW v \in Floats
    PROVE  Written(f, old, v) \in RangeOf(f)
  <1>1. CASE f = T
    BY <1>1, LimitOrder, NaNAssumption DEF Written, set_t, RangeOf, Floats
  <1>2. CASE f # T /\ f = BPM
    <2>1. CASE v = NaN
      BY <1>2, <2>1, LimitOrder DEF Written, clamp_with_log, RangeOf
    <2>2. CASE v # NaN
      <3>1. v \in Int
        BY <2>2, LimitOrder DEF Floats
      <3>2. Clamp(v, BPM_MIN, BPM_MAX) \in BPM_MIN..BPM_MAX
        BY <3>1, LimitOrder, NaNAssumption DEF Clamp
      <3> QED BY <1>2, <2>2, <3>2 DEF Written, clamp_with_log, RangeOf
    <2> QED BY <2>1, <2>2
  <1>3. CASE f # T /\ f # BPM
    <2>1. CASE v = NaN
      BY <1>3, <2>1, LimitOrder DEF Written, clamp_unit, RangeOf
    <2>2. CASE v # NaN
      <3>1. v \in Int
        BY <2>2, LimitOrder DEF Floats
      <3>2. Clamp(v, 0, ONE) \in 0..ONE
        BY <3>1, LimitOrder, NaNAssumption DEF Clamp
      <3> QED BY <1>3, <2>2, <3>2 DEF Written, clamp_unit, RangeOf
    <2> QED BY <2>1, <2>2
  <1> QED BY <1>1, <1>2, <1>3

\* first_float finds a float in usable arguments and nothing in others.
LEMMA FirstFloatType ==
    ASSUME NEW p \in Packets, p.kind = "message"
    PROVE  IF p.args = <<>> \/ p.args[1].type = "Other"
           THEN first_float(p.args) = NoFloat
           ELSE first_float(p.args) \in Floats
  <1>1. p.args \in Seq(Args)
    BY PacketsAssumption
  <1>2. CASE p.args = <<>> \/ p.args[1].type = "Other"
    BY <1>2 DEF first_float
  <1>3. CASE ~(p.args = <<>> \/ p.args[1].type = "Other")
    <2>1. 1 \in DOMAIN p.args /\ p.args[1] \in Args
      BY <1>1, <1>3
    <2>2. p.args[1].type \in {"Float", "Double", "Int"} /\ p.args[1].v \in Int \cup {NaN}
      BY <2>1, <1>3 DEF Args
    <2>3. CASE p.args[1].type = "Float"
      BY <1>3, <2>1, <2>3, ArgsAssumption DEF first_float
    <2>4. CASE p.args[1].type = "Int"
      <3>1. p.args[1].v \in Int
        BY <2>1, <2>4, ArgsAssumption
      <3>2. p.args[1].v * ONE \in Int
        BY <3>1, LimitOrder
      <3>3. Widen(p.args[1].v) \in -INFINITY..INFINITY
        BY <3>2, LimitOrder, NaNAssumption DEF Widen, Clamp
      <3> QED BY <1>3, <2>4, <3>3 DEF first_float, Floats
    <2>5. CASE p.args[1].type = "Double"
      <3>1. CASE p.args[1].v = NaN
        BY <1>3, <2>5, <3>1 DEF first_float, Narrow, Floats
      <3>2. CASE p.args[1].v # NaN
        <4>1. p.args[1].v \in Int
          BY <3>2, <2>2
        <4>2. (p.args[1].v + (FINE \div 2)) \div FINE \in Int
          BY <4>1, FineAssumption
        <4>3. Narrow(p.args[1].v) \in -INFINITY..INFINITY
          BY <4>2, <3>2, LimitOrder, NaNAssumption DEF Narrow, Clamp
        <4> QED BY <1>3, <2>5, <4>3 DEF first_float, Floats
      <3> QED BY <3>1, <3>2
    <2> QED BY <2>2, <2>3, <2>4, <2>5
  <1> QED BY <1>2, <1>3

\* The default frame is in range.
LEMMA DefaultInRange == \A f \in Fields : Default[f] \in RangeOf(f)
  <1> TAKE f \in Fields
  <1>1. CASE f = BPM
    <2>1. f # T
      BY <1>1 DEF BPM, T
    <2> QED BY <1>1, <2>1, LimitOrder DEF Default, RangeOf
  <1>2. CASE f # BPM
    <2>1. Default[f] \in {0, ONE} /\ (f = T => Default[f] = 0)
      BY <1>2 DEF Default, T
    <2> QED BY <1>2, <2>1, LimitOrder DEF RangeOf
  <1> QED BY <1>1, <1>2

-----------------------------------------------------------------------------
(* TypeOK and FieldsInRange are inductive together.                        *)

LEMMA InitRange == Init => TypeOK /\ FieldsInRange
  <1> SUFFICES ASSUME Init PROVE TypeOK /\ FieldsInRange
    OBVIOUS
  <1>1. TypeOK
    BY MaxCallsAssumption DEF Init, TypeOK, Default
  <1>2. FieldsInRange
    BY DefaultInRange DEF Init, FieldsInRange
  <1> QED BY <1>1, <1>2

LEMMA NextTypeOK == TypeOK /\ [Next]_vars => TypeOK'
  <1> SUFFICES ASSUME TypeOK, [Next]_vars PROVE TypeOK'
    OBVIOUS
  <1>1. ASSUME NEW packet \in Packets, Decoded(packet) PROVE TypeOK'
    <2>1. <<packet>> \in Seq(Packets)
      OBVIOUS
    <2> QED BY <1>1, <2>1, MaxCallsAssumption DEF TypeOK, Decoded, Call
  <1>2. ASSUME NEW r \in {"Io", "Decode"}, RecvErr(r) PROVE TypeOK'
    BY <1>2 DEF TypeOK, RecvErr
  <1>3. ASSUME ApplyMessage PROVE TypeOK'
    <2>1. Append(applied, Head(todo)) \in Seq(Packets)
      BY <1>3 DEF TypeOK, ApplyMessage
    <2> QED BY <1>3, <2>1 DEF TypeOK, ApplyMessage, apply_message
  <1>4. ASSUME ApplyBundle PROVE TypeOK'
    <2>1. Head(todo) \in Packets /\ Tail(todo) \in Seq(Packets)
      BY <1>4 DEF TypeOK, ApplyBundle
    <2>2. Head(todo).content \in Seq(Packets)
      BY <1>4, <2>1, PacketsAssumption DEF ApplyBundle
    <2> QED BY <1>4, <2>1, <2>2 DEF TypeOK, ApplyBundle
  <1>5. ASSUME RecvOk \/ DispatchOk PROVE TypeOK'
    BY <1>5 DEF TypeOK, RecvOk, DispatchOk, Applied
  <1>6. ASSUME NEW f \in Fields, NEW v \in SetterValues, Set(f, v) PROVE TypeOK'
    BY <1>6, MaxCallsAssumption DEF TypeOK, Set, Call
  <1>7. ASSUME UNCHANGED vars PROVE TypeOK'
    BY <1>7 DEF TypeOK, vars
  <1> QED BY <1>1, <1>2, <1>3, <1>4, <1>5, <1>6, <1>7 DEF Next

LEMMA NextRange == TypeOK /\ FieldsInRange /\ [Next]_vars => FieldsInRange'
  <1> SUFFICES ASSUME TypeOK, FieldsInRange, [Next]_vars PROVE FieldsInRange'
    OBVIOUS
  <1>1. ASSUME NEW packet \in Packets, Decoded(packet) PROVE FieldsInRange'
    BY <1>1 DEF FieldsInRange, Decoded
  <1>2. ASSUME NEW r \in {"Io", "Decode"}, RecvErr(r) PROVE FieldsInRange'
    BY <1>2 DEF FieldsInRange, RecvErr
  <1>3. ASSUME ApplyMessage PROVE FieldsInRange'
    <2>1. Head(todo) \in Packets
      BY <1>3 DEF TypeOK, ApplyMessage
    <2> DEFINE v == first_float(Head(todo).args)
    <2>2. v \in Floats \cup {NoFloat}
      BY <1>3, <2>1, FirstFloatType DEF ApplyMessage
    <2> HIDE DEF v
    <2>3. ASSUME NEW f \in Fields PROVE builder'[f] \in RangeOf(f)
      <3>1. builder[f] \in RangeOf(f)
        BY DEF FieldsInRange
      <3>2. builder'[f] \in {builder[f], Written(f, builder[f], v)}
            /\ (v = NoFloat => builder'[f] = builder[f])
        BY <1>3 DEF ApplyMessage, apply_message, v
      <3>3. v \in Floats => Written(f, builder[f], v) \in RangeOf(f)
        BY <3>1, WrittenInRange
      <3> QED BY <2>2, <3>1, <3>2, <3>3
    <2> QED BY <1>3, <2>3 DEF FieldsInRange, ApplyMessage
  <1>4. ASSUME ApplyBundle PROVE FieldsInRange'
    BY <1>4 DEF FieldsInRange, ApplyBundle
  <1>5. ASSUME RecvOk \/ DispatchOk PROVE FieldsInRange'
    BY <1>5 DEF FieldsInRange, RecvOk, DispatchOk, Applied
  <1>6. ASSUME NEW f \in Fields, NEW v \in SetterValues, Set(f, v) PROVE FieldsInRange'
    <2>1. Written(f, builder[f], v) \in RangeOf(f)
      BY SetterValuesAssumption, WrittenInRange DEF FieldsInRange
    <2>2. builder' = [builder EXCEPT ![f] = Written(f, builder[f], v)]
          /\ frame' = frame /\ before' = before
      BY <1>6 DEF Set
    <2>3. ASSUME NEW g \in Fields PROVE builder'[g] \in RangeOf(g)
      BY <2>1, <2>2 DEF TypeOK, FieldsInRange
    <2> QED BY <2>2, <2>3 DEF FieldsInRange
  <1>7. ASSUME UNCHANGED vars PROVE FieldsInRange'
    BY <1>7 DEF FieldsInRange, vars
  <1> QED BY <1>1, <1>2, <1>3, <1>4, <1>5, <1>6, <1>7 DEF Next

\* No NaN, infinity or out-of-range value ever gets into the builder or a
\* frame, whatever datagrams arrive (frame.rs:72-131, 176-202).
THEOREM FieldsStayInRange == Spec => []FieldsInRange
  <1>1. TypeOK /\ FieldsInRange /\ [Next]_vars => (TypeOK /\ FieldsInRange)'
    BY NextTypeOK, NextRange
  <1> QED BY InitRange, <1>1, PTL DEF Spec

-----------------------------------------------------------------------------
(* What a field holds is what the last message about it said.              *)

\* apply_message's arms and the documented addresses agree.
LEMMA RouteIsAddress ==
    ASSUME NEW addr \in STRING \X STRING, NEW f \in Fields
    PROVE  f \in Route(addr) <=> addr = AddressOf(f)
  <1>1. f \in Route(addr) <=> \E arm \in Arms : arm.addr = addr /\ arm.field = f
    BY DEF Route
  <1>2. ASSUME NEW arm \in Arms PROVE arm.addr = AddressOf(arm.field)
    <2>1. CASE \E band \in Bands : \/ arm = [addr |-> <<"level", Segment(band)>>,
                                             field |-> <<"levels", band>>]
                                   \/ arm = [addr |-> <<"hits", Segment(band)>>,
                                             field |-> <<"hits", band>>]
                                   \/ arm = [addr |-> <<"presence", Segment(band)>>,
                                             field |-> <<"presence", band>>]
      BY <2>1 DEF AddressOf
    <2>2. CASE ~(\E band \in Bands : \/ arm = [addr |-> <<"level", Segment(band)>>,
                                               field |-> <<"levels", band>>]
                                     \/ arm = [addr |-> <<"hits", Segment(band)>>,
                                               field |-> <<"hits", band>>]
                                     \/ arm = [addr |-> <<"presence", Segment(band)>>,
                                               field |-> <<"presence", band>>])
      <3>1. \/ arm = [addr |-> <<"beat", "onbeat">>, field |-> <<"frame", "on_beat">>]
            \/ arm = [addr |-> <<"bpm", "bpm">>, field |-> BPM]
            \/ arm = [addr |-> <<"bpm", "bpmconfidence">>,
                      field |-> <<"frame", "bpm_confidence">>]
            \/ arm = [addr |-> <<"energy", "intensity">>,
                      field |-> <<"frame", "intensity">>]
        BY <2>2 DEF Arms
      <3> QED BY <3>1 DEF AddressOf, BPM
    <2> QED BY <2>1, <2>2
  <1>3. ASSUME addr = AddressOf(f) PROVE [addr |-> addr, field |-> f] \in Arms
    <2>1. CASE f \in Views \X Bands
      <3>1. PICK view \in Views, band \in Bands : f = <<view, band>>
        BY <2>1
      <3>2. CASE view = "levels"
        <4>1. addr = <<"level", Segment(band)>> /\ f = <<"levels", band>>
          BY <1>3, <3>1, <3>2 DEF AddressOf
        <4> QED BY <4>1 DEF Arms
      <3>3. CASE view = "hits"
        <4>1. addr = <<"hits", Segment(band)>> /\ f = <<"hits", band>>
          BY <1>3, <3>1, <3>3 DEF AddressOf
        <4> QED BY <4>1 DEF Arms
      <3>4. CASE view = "presence"
        <4>1. addr = <<"presence", Segment(band)>> /\ f = <<"presence", band>>
          BY <1>3, <3>1, <3>4 DEF AddressOf
        <4> QED BY <4>1 DEF Arms
      <3> QED BY <3>2, <3>3, <3>4 DEF Views
    <2>2. CASE f \in {"frame"} \X Scalars
      <3>1. PICK scalar \in Scalars : f = <<"frame", scalar>>
        BY <2>2
      <3>2. scalar \in {"bpm", "bpm_confidence", "on_beat", "intensity"}
        BY <1>3, <3>1 DEF AddressOf, Scalars
      <3> QED BY <1>3, <3>1, <3>2 DEF AddressOf, Arms, BPM
    <2> QED BY <2>1, <2>2 DEF Fields
  <1> QED
    <2>1. f \in Route(addr) => addr = AddressOf(f)
      BY <1>1, <1>2
    <2>2. ASSUME addr = AddressOf(f) PROVE f \in Route(addr)
      <3>1. [addr |-> addr, field |-> f] \in Arms
        BY <1>3, <2>2
      <3> QED BY <1>1, <3>1
    <2> QED BY <2>1, <2>2

\* A field that has an address holds what is written to it, whatever it held.
LEMMA WrittenForgets ==
    ASSUME NEW f \in Fields, NEW addr \in STRING \X STRING, addr = AddressOf(f),
           NEW old, NEW older, NEW v
    PROVE  Written(f, old, v) = Written(f, older, v)
  <1>1. f # T
    BY DEF AddressOf, T
  <1> QED BY <1>1 DEF Written

\* A message writes field f exactly when it is one about f that is usable.
LEMMA WritesApplied ==
    ASSUME NEW b, NEW p \in Packets, p.kind = "message", NEW f \in Fields
    PROVE  apply_message(b, p)[f] =
              IF Writes(p, f) THEN Written(f, b[f], first_float(p.args)) ELSE b[f]
  <1>1. p.addr \in STRING \X STRING
    BY PacketsAssumption
  <1>2. f \in Route(p.addr) <=> p.addr = AddressOf(f)
    BY <1>1, RouteIsAddress
  <1>3. first_float(p.args) # NoFloat <=> p.args # <<>> /\ p.args[1].type # "Other"
    <2>1. NoFloat \notin Floats
      BY NoFloatAssumption, LimitOrder DEF Floats
    <2> QED BY <2>1, FirstFloatType
  <1> QED BY <1>2, <1>3 DEF apply_message, Writes

\* One more message at the end of the list has the last word, or changes nothing.
LEMMA LastWordAppend ==
    ASSUME NEW msgs \in Seq(Packets), NEW p \in Packets, p.kind = "message",
           NEW f \in Fields, NEW b, NEW old, LastWord(msgs, f, old, b[f])
    PROVE  LastWord(Append(msgs, p), f, old, apply_message(b, p)[f])
  <1> DEFINE more == Append(msgs, p)
             writers == {i \in DOMAIN msgs : Writes(msgs[i], f)}
             writers2 == {i \in DOMAIN more : Writes(more[i], f)}
             new == apply_message(b, p)[f]
  <1>1. /\ Len(msgs) \in Nat /\ DOMAIN msgs = 1..Len(msgs)
        /\ DOMAIN more = 1..(Len(msgs) + 1)
        /\ more[Len(msgs) + 1] = p
        /\ \A i \in DOMAIN msgs : more[i] = msgs[i]
    OBVIOUS
  <1>2. new = IF Writes(p, f) THEN Written(f, b[f], first_float(p.args)) ELSE b[f]
    BY WritesApplied
  <1> HIDE DEF more, new
  <1>3. CASE Writes(p, f)
    <2>1. Len(msgs) + 1 \in writers2 /\ \A j \in writers2 : j <= Len(msgs) + 1
      BY <1>1, <1>3
    <2>2. new = Written(f, old, first_float(p.args))
      <3>1. p.addr \in STRING \X STRING /\ p.addr = AddressOf(f)
        BY <1>3, PacketsAssumption DEF Writes
      <3> QED BY <1>2, <1>3, <3>1, WrittenForgets
    <2>3. \E i \in writers2 : /\ \A j \in writers2 : j <= i
                              /\ new = Written(f, old, first_float(more[i].args))
      BY <2>1, <2>2, <1>1
    <2>4. writers2 # {}
      BY <2>1
    <2> HIDE DEF writers2
    <2>5. LastWord(more, f, old, new)
      BY <2>3, <2>4 DEF LastWord, writers2
    <2> QED BY <2>5 DEF more, new
  <1>4. CASE ~Writes(p, f)
    <2>1. writers2 = writers
      BY <1>1, <1>4
    <2>2. new = b[f]
      BY <1>2, <1>4
    <2>3. CASE writers = {}
      BY <2>1, <2>2, <2>3 DEF LastWord, more, new
    <2>4. CASE writers # {}
      <3>1. PICK i \in writers : /\ \A j \in writers : j <= i
                                 /\ b[f] = Written(f, old, first_float(msgs[i].args))
        BY <2>4 DEF LastWord
      <3>2. i \in DOMAIN msgs /\ more[i] = msgs[i]
        BY <1>1
      <3>3. \E k \in writers2 : /\ \A j \in writers2 : j <= k
                                /\ new = Written(f, old, first_float(more[k].args))
        BY <2>1, <2>2, <3>1, <3>2
      <3> QED BY <2>1, <2>4, <3>3 DEF LastWord, more, new
    <2> QED BY <2>3, <2>4
  <1> QED BY <1>3, <1>4

\* While a datagram is applied, the builder is what the messages applied so
\* far made of what it was before.
AppliedSoFar ==
    pc = "applying" => \A f \in Fields : LastWord(applied, f, before[f], builder[f])

LEMMA NextAppliedSoFar == TypeOK /\ AppliedSoFar /\ [Next]_vars => AppliedSoFar'
  <1> SUFFICES ASSUME TypeOK, AppliedSoFar, [Next]_vars, pc' = "applying",
                      NEW f \in Fields
               PROVE  LastWord(applied', f, before'[f], builder'[f])
    BY DEF AppliedSoFar
  <1>1. ASSUME NEW packet \in Packets, Decoded(packet)
        PROVE  LastWord(applied', f, before'[f], builder'[f])
    BY <1>1 DEF Decoded, LastWord
  <1>2. ASSUME NEW r \in {"Io", "Decode"}, RecvErr(r) PROVE FALSE
    BY <1>2 DEF RecvErr
  <1>3. ASSUME ApplyMessage PROVE LastWord(applied', f, before'[f], builder'[f])
    <2>1. Head(todo) \in Packets /\ Head(todo).kind = "message"
      BY <1>3 DEF TypeOK, ApplyMessage
    <2>2. applied \in Seq(Packets) /\ LastWord(applied, f, before[f], builder[f])
      BY <1>3 DEF TypeOK, AppliedSoFar, ApplyMessage
    <2>3. LastWord(Append(applied, Head(todo)), f, before[f],
                   apply_message(builder, Head(todo))[f])
      BY <2>1, <2>2, LastWordAppend
    <2> QED BY <1>3, <2>3 DEF ApplyMessage
  <1>4. ASSUME ApplyBundle PROVE LastWord(applied', f, before'[f], builder'[f])
    BY <1>4 DEF AppliedSoFar, ApplyBundle
  <1>5. ASSUME RecvOk \/ DispatchOk PROVE FALSE
    BY <1>5 DEF RecvOk, DispatchOk, Applied
  <1>6. ASSUME NEW g \in Fields, NEW v \in SetterValues, Set(g, v) PROVE FALSE
    BY <1>6 DEF Set, Call
  <1>7. ASSUME UNCHANGED vars PROVE LastWord(applied', f, before'[f], builder'[f])
    BY <1>7 DEF AppliedSoFar, vars
  <1> QED BY <1>1, <1>2, <1>3, <1>4, <1>5, <1>6, <1>7 DEF Next

\* At every moment of the walk, whatever is still to come, each field is what
\* its last usable message so far said, or what it was before the datagram
\* (lib.rs:163-291, frame.rs:72-131).
THEOREM BuilderFollowsMessages == Spec => []AppliedSoFar
  <1>1. Init => AppliedSoFar
    BY DEF Init, AppliedSoFar
  <1> QED BY InitRange, <1>1, NextTypeOK, NextAppliedSoFar, PTL DEF Spec

-----------------------------------------------------------------------------
(* The raw dump.  walk_for_raw is a recursive function: that it obeys its  *)
(* equation has to be shown, from the sizes of packets.                    *)

Walked == Packets \cup {Nothing}

\* A packet's size; the empty bundle the walk starts from is no larger than any.
WalkSize == [p \in Walked |-> IF p \in Packets THEN Size[p] ELSE 0]

\* What a packet is walked to, if those in it are walked to what w says.
WalkStep(w, p) ==
    IF p.kind = "message" THEN <<p>>
    ELSE Seqs!FlattenSeq([i \in DOMAIN p.content |-> w[p.content[i]]])

\* A message is a packet; a bundle holds smaller packets.
LEMMA WalkedKinds ==
    ASSUME NEW p \in Walked
    PROVE  \/ p.kind = "message" /\ p \in Packets
           \/ /\ p.kind # "message" /\ p.content \in Seq(Packets)
              /\ \A i \in DOMAIN p.content :
                    p.content[i] \in Walked /\ WalkSize[p.content[i]] < WalkSize[p]
  <1>1. CASE p \in Packets /\ p.kind = "message"
    BY <1>1
  <1>2. CASE p \in Packets /\ p.kind # "message"
    <2>1. p.kind = "bundle" /\ p.content \in Seq(Packets)
      BY <1>2, PacketsAssumption
    <2>2. ASSUME NEW i \in DOMAIN p.content
          PROVE  p.content[i] \in Walked /\ WalkSize[p.content[i]] < WalkSize[p]
      <3>1. p.content[i] \in Packets
        BY <2>1
      <3>2. Size[p.content[i]] < Size[p]
        BY <1>2, <2>1, SizeAssumption
      <3> QED BY <1>2, <3>1, <3>2 DEF Walked, WalkSize
    <2> QED BY <1>2, <2>1, <2>2
  <1>3. CASE p \notin Packets
    <2>1. p = Nothing
      BY <1>3 DEF Walked
    <2>2. p.kind # "message" /\ p.content = <<>>
      BY <2>1 DEF Nothing
    <2> QED BY <2>2
  <1> QED BY <1>1, <1>2, <1>3

\* If the smaller packets are walked to sequences of packets, so is p.
LEMMA WalkStepType ==
    ASSUME NEW p \in Walked, NEW w,
           \A q \in Walked : WalkSize[q] < WalkSize[p] => w[q] \in Seq(Packets)
    PROVE  WalkStep(w, p) \in Seq(Packets)
  <1>1. CASE p.kind = "message"
    BY <1>1, WalkedKinds DEF WalkStep
  <1>2. CASE p.kind # "message"
    <2>1. PICK c : c = p.content
      OBVIOUS
    <2>2. /\ c \in Seq(Packets)
          /\ \A i \in DOMAIN c : w[c[i]] \in Seq(Packets)
      BY <1>2, <2>1, WalkedKinds
    <2>3. [i \in DOMAIN c |-> w[c[i]]] \in Seq(Seq(Packets))
      <3>1. PICK U : U = Seq(Packets)
        OBVIOUS
      <3>2. [i \in DOMAIN c |-> w[c[i]]] \in Seq(U)
        <4>1. DOMAIN c = 1..Len(c) /\ Len(c) \in Nat /\ \A i \in 1..Len(c) : w[c[i]] \in U
          BY <2>2, <3>1
        <4> QED BY <4>1
      <3> QED BY <3>1, <3>2
    <2>4. Seqs!FlattenSeq([i \in DOMAIN c |-> w[c[i]]]) \in Seq(Packets)
      BY <2>3, FlattenType
    <2> QED BY <1>2, <2>1, <2>4 DEF WalkStep
  <1> QED BY <1>1, <1>2

\* The equation of walk_for_raw has a solution.
LEMMA WalkExists == \E w : w = [p \in Walked |-> WalkStep(w, p)]
  <1>1. PICK U : U = Seq(Packets)
    OBVIOUS
  <1> DEFINE G == [x \in [Walked -> U] \X Walked |-> WalkStep(x[1], x[2])]
  <1>2. WalkSize \in [Walked -> Nat]
    BY SizeAssumption DEF WalkSize, Walked
  <1>3. ASSUME NEW w \in [Walked -> U], NEW p \in Walked PROVE G[<<w, p>>] = WalkStep(w, p)
    OBVIOUS
  <1>4. ASSUME NEW w \in [Walked -> U], NEW p \in Walked PROVE WalkStep(w, p) \in U
    BY <1>1, WalkStepType
  <1>5. G \in [[Walked -> U] \X Walked -> U]
    BY <1>4
  <1> HIDE DEF G
  <1>6. ASSUME NEW g \in [Walked -> U], NEW h \in [Walked -> U], NEW p \in Walked,
               \A q \in Walked : WalkSize[q] < WalkSize[p] => g[q] = h[q]
        PROVE  G[<<g, p>>] = G[<<h, p>>]
    <2>1. CASE p.kind = "message"
      BY <1>3, <2>1 DEF WalkStep
    <2>2. CASE p.kind # "message"
      <3>1. \A i \in DOMAIN p.content : g[p.content[i]] = h[p.content[i]]
        BY <1>6, <2>2, WalkedKinds
      <3>2. [i \in DOMAIN p.content |-> g[p.content[i]]] = [i \in DOMAIN p.content |-> h[p.content[i]]]
        BY <3>1
      <3>3. WalkStep(g, p) = WalkStep(h, p)
        BY <2>2, <3>2 DEF WalkStep
      <3> QED BY <1>3, <3>3
    <2> QED BY <2>1, <2>2
  <1>7. Recursor(Walked, U, WalkSize, G)
    <2>1. U # {}
      <3>1. <<>> \in Seq(Packets)
        OBVIOUS
      <3> QED BY <1>1, <3>1
    <2> QED BY <1>2, <1>5, <1>6, <2>1 DEF Recursor, Narrowing
  <1>8. PICK w \in [Walked -> U] : Solves(w, Walked, G)
    BY <1>7, Recursion
  <1>9. \A p \in Walked : w[p] = WalkStep(w, p)
    BY <1>3, <1>8 DEF Solves
  <1>10. w = [p \in Walked |-> WalkStep(w, p)]
    BY <1>9
  <1> QED BY <1>10

\* walk_for_raw obeys its equation.
LEMMA WalkEquation ==
    ASSUME NEW p \in Walked
    PROVE  walk_for_raw[p] = WalkStep(walk_for_raw, p)
  <1> DEFINE Right(w) == [q \in Walked |-> WalkStep(w, q)]
  <1>1. walk_for_raw = CHOOSE w : w = Right(w)
    BY DEF walk_for_raw, Walked, WalkStep
  <1>2. \E w : w = Right(w)
    BY WalkExists
  <1>3. walk_for_raw = Right(walk_for_raw)
    <2> HIDE DEF Right
    <2> QED BY <1>1, <1>2
  <1> QED BY <1>3

\* What it prints are packets.
LEMMA WalkType == \A p \in Walked : walk_for_raw[p] \in Seq(Packets)
  <1> DEFINE B == {p \in Walked : walk_for_raw[p] \notin Seq(Packets)}
  <1> SUFFICES ASSUME B # {} PROVE FALSE
    OBVIOUS
  <1>1. WalkSize \in [Walked -> Nat]
    BY SizeAssumption DEF WalkSize, Walked
  <1>2. PICK p \in B : \A q \in B : WalkSize[p] <= WalkSize[q]
    BY <1>1, SmallestElement
  <1>3. ASSUME NEW q \in Walked, WalkSize[q] < WalkSize[p]
        PROVE  walk_for_raw[q] \in Seq(Packets)
    <2>1. WalkSize[q] \in Nat /\ WalkSize[p] \in Nat
      BY <1>1
    <2>2. q \notin B
      BY <1>2, <1>3, <2>1
    <2> QED BY <2>2
  <1>4. WalkStep(walk_for_raw, p) \in Seq(Packets)
    BY <1>3, WalkStepType
  <1> QED BY <1>4, WalkEquation

\* What the dump prints of the packets ps, one after the other.
WalkOf(ps) == Seqs!FlattenSeq([i \in DOMAIN ps |-> walk_for_raw[ps[i]]])

\* The walks of the packets ps are sequences of packets.
LEMMA WalksType ==
    ASSUME NEW ps \in Seq(Packets)
    PROVE  [i \in DOMAIN ps |-> walk_for_raw[ps[i]]] \in Seq(Seq(Packets))
  <1>1. PICK U : U = Seq(Packets)
    OBVIOUS
  <1>2. /\ DOMAIN ps = 1..Len(ps) /\ Len(ps) \in Nat
        /\ \A i \in 1..Len(ps) : walk_for_raw[ps[i]] \in U
    BY <1>1, WalkType DEF Walked
  <1> QED BY <1>1, <1>2

\* Of no packets nothing is printed.
LEMMA WalkOfNone == WalkOf(<<>>) = <<>>
  <1>1. [i \in DOMAIN <<>> |-> walk_for_raw[<<>>[i]]] = <<>>
    OBVIOUS
  <1> QED BY <1>1 DEF WalkOf, Seqs!FlattenSeq

\* Of one packet its walk is printed.
LEMMA WalkOfOne ==
    ASSUME NEW p \in Packets
    PROVE  WalkOf(<<p>>) = walk_for_raw[p]
  <1>1. [i \in DOMAIN <<p>> |-> walk_for_raw[<<p>>[i]]] = <<walk_for_raw[p]>>
    OBVIOUS
  <1>2. walk_for_raw[p] \in Seq(Packets)
    BY WalkType DEF Walked
  <1> QED BY <1>1, <1>2, FlattenOne DEF WalkOf

\* Of two lists of packets first the one is printed, then the other.
LEMMA WalkOfConcat ==
    ASSUME NEW ps \in Seq(Packets), NEW qs \in Seq(Packets)
    PROVE  WalkOf(ps \o qs) = WalkOf(ps) \o WalkOf(qs)
  <1> DEFINE Walks(rs) == [i \in DOMAIN rs |-> walk_for_raw[rs[i]]]
  <1>1. Walks(ps \o qs) = Walks(ps) \o Walks(qs)
    OBVIOUS
  <1>2. Walks(ps) \in Seq(Seq(Packets)) /\ Walks(qs) \in Seq(Seq(Packets))
    BY WalksType
  <1>3. WalkOf(ps \o qs) = Seqs!FlattenSeq(Walks(ps) \o Walks(qs))
    BY <1>1 DEF WalkOf
  <1>4. WalkOf(ps) = Seqs!FlattenSeq(Walks(ps)) /\ WalkOf(qs) = Seqs!FlattenSeq(Walks(qs))
    BY DEF WalkOf
  <1>5. PICK a, b : a = Walks(ps) /\ b = Walks(qs)
    OBVIOUS
  <1> HIDE DEF Walks
  <1>6. a \in Seq(Seq(Packets)) /\ b \in Seq(Seq(Packets))
    BY <1>2, <1>5
  <1>7. Seqs!FlattenSeq(a \o b) = Seqs!FlattenSeq(a) \o Seqs!FlattenSeq(b)
    BY <1>6, FlattenConcat
  <1> QED BY <1>3, <1>4, <1>5, <1>7

\* A packet is walked to itself, if it is a message, and otherwise to what
\* its packets are walked to.
LEMMA WalkPacket ==
    ASSUME NEW p \in Packets
    PROVE  /\ p.kind = "message" => walk_for_raw[p] = <<p>>
           /\ p.kind = "bundle" => walk_for_raw[p] = WalkOf(p.content)
  BY WalkEquation DEF Walked, WalkStep, WalkOf

\* While a datagram is applied, the raw dump of it is what was applied so far
\* and what the walk has still to visit.
DumpSoFar ==
    pc = "applying" => walk_for_raw[datagram] = applied \o WalkOf(todo)

LEMMA NextDumpSoFar == TypeOK /\ DumpSoFar /\ [Next]_vars => DumpSoFar'
  <1> SUFFICES ASSUME TypeOK, DumpSoFar, [Next]_vars, pc' = "applying"
               PROVE  walk_for_raw[datagram'] = applied' \o WalkOf(todo')
    BY DEF DumpSoFar
  <1>1. ASSUME NEW packet \in Packets, Decoded(packet)
        PROVE  walk_for_raw[datagram'] = applied' \o WalkOf(todo')
    <2>1. walk_for_raw[packet] \in Seq(Packets) /\ WalkOf(<<packet>>) = walk_for_raw[packet]
      BY WalkType, WalkOfOne DEF Walked
    <2>2. walk_for_raw[packet] = <<>> \o WalkOf(<<packet>>)
      BY <2>1, ConcatEmptySeq
    <2> QED BY <1>1, <2>2 DEF Decoded
  <1>2. ASSUME NEW r \in {"Io", "Decode"}, RecvErr(r) PROVE FALSE
    BY <1>2 DEF RecvErr
  <1>3. ASSUME todo # <<>>, pc = "applying"
        PROVE  /\ Head(todo) \in Packets /\ Tail(todo) \in Seq(Packets)
               /\ applied \in Seq(Packets)
               /\ walk_for_raw[Head(todo)] \in Seq(Packets)
               /\ WalkOf(Tail(todo)) \in Seq(Packets)
               /\ walk_for_raw[datagram] =
                     applied \o (walk_for_raw[Head(todo)] \o WalkOf(Tail(todo)))
    <2>1. /\ Head(todo) \in Packets /\ Tail(todo) \in Seq(Packets)
          /\ todo = <<Head(todo)>> \o Tail(todo)
          /\ applied \in Seq(Packets)
      BY <1>3 DEF TypeOK
    <2>2. /\ walk_for_raw[Head(todo)] \in Seq(Packets)
          /\ WalkOf(<<Head(todo)>>) = walk_for_raw[Head(todo)]
      BY <2>1, WalkType, WalkOfOne DEF Walked
    <2>3. WalkOf(Tail(todo)) \in Seq(Packets)
      BY <2>1, WalksType, FlattenType DEF WalkOf
    <2>4. WalkOf(todo) = WalkOf(<<Head(todo)>>) \o WalkOf(Tail(todo))
      <3>1. <<Head(todo)>> \in Seq(Packets)
        BY <2>1
      <3> QED BY <2>1, <3>1, WalkOfConcat
    <2>5. walk_for_raw[datagram] = applied \o WalkOf(todo)
      BY <1>3 DEF DumpSoFar
    <2> QED BY <2>1, <2>2, <2>3, <2>4, <2>5
  <1>4. ASSUME ApplyMessage PROVE walk_for_raw[datagram'] = applied' \o WalkOf(todo')
    <2>1. PICK p, a, rest : /\ p = Head(todo) /\ a = applied /\ rest = WalkOf(Tail(todo))
                            /\ p \in Packets /\ p.kind = "message"
                            /\ a \in Seq(Packets) /\ rest \in Seq(Packets)
      BY <1>3, <1>4 DEF ApplyMessage
    <2>2. walk_for_raw[datagram] = a \o (<<p>> \o rest)
      BY <1>3, <1>4, <2>1, WalkPacket DEF ApplyMessage
    <2>3. a \o (<<p>> \o rest) = Append(a, p) \o rest
      BY <2>1
    <2> QED BY <1>4, <2>1, <2>2, <2>3 DEF ApplyMessage
  <1>5. ASSUME ApplyBundle PROVE walk_for_raw[datagram'] = applied' \o WalkOf(todo')
    <2>1. PICK p, rest : /\ p = Head(todo) /\ rest = Tail(todo)
                         /\ p \in Packets /\ p.kind = "bundle"
                         /\ rest \in Seq(Packets) /\ p.content \in Seq(Packets)
      <3>1. Head(todo) \in Packets /\ Tail(todo) \in Seq(Packets) /\ Head(todo).kind = "bundle"
        BY <1>3, <1>5 DEF ApplyBundle
      <3>2. Head(todo).content \in Seq(Packets)
        BY <3>1, PacketsAssumption
      <3> QED BY <3>1, <3>2
    <2>2. walk_for_raw[datagram] = applied \o (WalkOf(p.content) \o WalkOf(rest))
      BY <1>3, <1>5, <2>1, WalkPacket DEF ApplyBundle
    <2>3. WalkOf(p.content \o rest) = WalkOf(p.content) \o WalkOf(rest)
      BY <2>1, WalkOfConcat
    <2> QED BY <1>5, <2>1, <2>2, <2>3 DEF ApplyBundle
  <1>6. ASSUME RecvOk \/ DispatchOk PROVE FALSE
    BY <1>6 DEF RecvOk, DispatchOk, Applied
  <1>7. ASSUME NEW g \in Fields, NEW v \in SetterValues, Set(g, v) PROVE FALSE
    BY <1>7 DEF Set, Call
  <1>8. ASSUME UNCHANGED vars PROVE walk_for_raw[datagram'] = applied' \o WalkOf(todo')
    BY <1>8 DEF DumpSoFar, vars
  <1> QED BY <1>1, <1>2, <1>4, <1>5, <1>6, <1>7, <1>8 DEF Next

LEMMA DumpFollowsWalk == Spec => []DumpSoFar
  <1>1. Init => DumpSoFar
    BY DEF Init, DumpSoFar
  <1> QED BY InitRange, <1>1, NextTypeOK, NextDumpSoFar, PTL DEF Spec

\* Any messages, any nesting, any number of datagrams: the raw dump prints
\* every message of a datagram once, in the order in which it is applied
\* (main.rs:251-258, 292-303, against audiophore-audio/lib.rs:163-172).
THEOREM RawDumpIsAsApplied == Spec => RawDumpAsApplied
  <1>1. TypeOK /\ DumpSoFar /\ [Next]_vars
        => [pc = "applying" /\ pc' = "receiving" => applied = walk_for_raw[datagram]]_vars
    <2> SUFFICES ASSUME TypeOK, DumpSoFar, Next, pc = "applying", pc' = "receiving"
                 PROVE  applied = walk_for_raw[datagram]
      BY DEF vars
    <2>1. todo = <<>> /\ applied \in Seq(Packets)
      BY DEF TypeOK, Next, Decoded, RecvErr, ApplyMessage, ApplyBundle, RecvOk, DispatchOk,
             Applied, Set, Call
    <2>2. walk_for_raw[datagram] = applied \o <<>>
      BY <2>1, WalkOfNone DEF DumpSoFar
    <2> QED BY <2>1, <2>2, ConcatEmptySeq
  <1> QED BY InitRange, NextTypeOK, <1>1, DumpFollowsWalk, PTL DEF Spec, RawDumpAsApplied

\* Any messages, any nesting, any number of datagrams and setter calls: of a
\* datagram's messages, in the order they are written, each field keeps what
\* the last usable one for it says, and no field loses a value
\* (lib.rs:129-172, frame.rs:22-31, 130-148).
THEOREM LastWriterAlwaysWins == Spec => LastWriterWins
  <1>1. /\ AppliedSoFar /\ [Next]_vars
        /\ [pc = "applying" /\ pc' = "receiving" => applied = walk_for_raw[datagram]]_vars
        => [pc = "applying" /\ pc' = "receiving" =>
               \A f \in Fields : LastWord(walk_for_raw[datagram], f, before[f], builder'[f])]_vars
    <2> SUFFICES ASSUME AppliedSoFar, Next, pc = "applying", pc' = "receiving",
                        applied = walk_for_raw[datagram], NEW f \in Fields
                 PROVE  LastWord(walk_for_raw[datagram], f, before[f], builder'[f])
      BY DEF vars
    <2>1. builder' = builder
      BY DEF Next, Decoded, RecvErr, ApplyMessage, ApplyBundle, RecvOk, DispatchOk,
             Applied, Set, Call
    <2> QED BY <2>1 DEF AppliedSoFar
  <1> QED BY <1>1, BuilderFollowsMessages, RawDumpIsAsApplied, PTL
         DEF Spec, RawDumpAsApplied, LastWriterWins
=============================================================================
