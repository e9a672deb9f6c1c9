---------------------------- MODULE RecordsProofs ----------------------------
(***************************************************************************)
(* Theorems and lemmas about package records, for any words, labels and    *)
(* stores: what Normalise returns is a value that it and dns.NewRR take as *)
(* it is, and how the score orders the patterns that match a name.  The    *)
(* lists come first, which other proofs need, too.                         *)
(***************************************************************************)
EXTENDS Store, Values, SequencesExt, FiniteSetTheorems, SequenceTheorems,
        WellFoundedInduction, TLAPS

-----------------------------------------------------------------------------
(* Lists.                                                                  *)

Less == {p \in Nat \X Nat : p[1] < p[2]}

LEMMA LessIsWellFounded == IsWellFoundedOn(Less, Nat)
BY NatLessThanWellFounded DEF OpToRel, Less

LEMMA Least ==
    ASSUME NEW T \in SUBSET Nat, T # {}
    PROVE  \E n \in T : \A m \in T : n <= m
<1>1. PICK n \in T : \A m \in T : ~ (<<m, n>> \in Less)
  BY LessIsWellFounded, WFMin
<1>2. \A m \in T : ~ (m < n)  BY <1>1 DEF Less
<1>3. QED  BY <1>2

LEMMA Greatest ==
    ASSUME NEW n \in Nat, NEW T \in SUBSET (0..n), T # {}
    PROVE  \E k \in T : \A m \in T : k >= m
<1> DEFINE U == {n - k : k \in T}
<1>1. U \in SUBSET Nat /\ U # {}
  <2>1. \A k \in T : k \in 0..n  OBVIOUS
  <2>2. \A k \in 0..n : n - k \in Nat  OBVIOUS
  <2>3. U \in SUBSET Nat  BY <2>1, <2>2
  <2>4. PICK k \in T : TRUE  OBVIOUS
  <2>5. n - k \in U  BY <2>4
  <2>6. QED  BY <2>3, <2>5
<1>2. PICK u \in U : \A v \in U : u <= v
  <2> HIDE DEF U
  <2>1. QED  BY <1>1, Least
<1>3. PICK k \in T : u = n - k  BY <1>2
<1>4. ASSUME NEW m \in T PROVE k >= m
  <2>1. n - m \in U  OBVIOUS
  <2>2. n - k <= n - m  BY <2>1, <1>2, <1>3
  <2>3. QED  BY <2>2
<1>5. QED  BY <1>4

\* What is looked for from the front or from the back is in the list, or 0.
LEMMA FoundWithin ==
    ASSUME NEW n \in Nat, NEW I \in SUBSET (1..n)
    PROVE  /\ (IF I # {} THEN Min(I) ELSE 0) \in 0..n
           /\ (IF I # {} THEN Max(I) ELSE 0) \in 0..n
<1>1. I \in SUBSET Nat /\ I \in SUBSET (0..n) /\ 0 \in 0..n  OBVIOUS
<1>2. I # {} => Min(I) \in I  BY <1>1, Least DEF Min
<1>3. I # {} => Max(I) \in I  BY <1>1, Greatest DEF Max
<1>4. QED  BY <1>1, <1>2, <1>3

LEMMA PartIsSeq ==
    ASSUME NEW S, NEW s \in Seq(S), NEW m \in 1..Len(s) + 1, NEW n \in -1..Len(s)
    PROVE  SubSeq(s, m, n) \in Seq(S)
OBVIOUS

\* f[i] is the first i lists of ss, one after the other.
Flattens(f, ss, n) ==
    f = [i \in 1..n |-> IF i = 1 THEN ss[i] ELSE f[i-1] \o ss[i]]

\* By the least number of lists without.
LEMMA FlattensExists ==
    ASSUME NEW ss, NEW n \in Nat
    PROVE  \E f : Flattens(f, ss, n)
<1> DEFINE T == {m \in Nat : ~ \E f : Flattens(f, ss, m)}
<1> SUFFICES ASSUME T # {} PROVE FALSE  OBVIOUS
<1>1. PICK m \in T : \A l \in T : m <= l
  <2> T \in SUBSET Nat  OBVIOUS
  <2> HIDE DEF T
  <2>1. QED  BY Least
<1>2. CASE m = 0
  <2>1. Flattens([i \in 1..0 |-> ss], ss, 0)  BY DEF Flattens
  <2>2. QED  BY <2>1, <1>2
<1>3. CASE m # 0
  <2>1. m - 1 \in Nat /\ m - 1 \notin T  BY <1>1, <1>3
  <2>2. PICK f : Flattens(f, ss, m - 1)  BY <2>1
  <2> DEFINE last == IF m = 1 THEN ss[m] ELSE f[m-1] \o ss[m]
             g == [i \in 1..m |-> IF i = m THEN last ELSE f[i]]
  <2>3. \A i \in 1..(m-1) : f[i] = IF i = 1 THEN ss[i] ELSE f[i-1] \o ss[i]
    BY <2>2 DEF Flattens
  <2>4. ASSUME NEW i \in 1..m
        PROVE  g[i] = IF i = 1 THEN ss[i] ELSE g[i-1] \o ss[i]
    <3>1. CASE i = m
      <4>1. m # 1 => m - 1 \in 1..m /\ m - 1 # m  BY <1>3
      <4>2. QED  BY <3>1, <4>1
    <3>2. CASE i # m
      <4>1. i \in 1..(m-1) /\ g[i] = f[i] /\ (i # 1 => i - 1 \in 1..m /\ i - 1 # m)
        BY <3>2
      <4>2. i # 1 => g[i-1] = f[i-1]  BY <4>1
      <4> HIDE DEF g
      <4>3. QED  BY <4>1, <4>2, <2>3
    <3>3. QED  BY <3>1, <3>2
  <2>5. Flattens(g, ss, m)
    <3>1. g = [i \in 1..m |-> g[i]]  OBVIOUS
    <3> HIDE DEF g
    <3>2. QED  BY <3>1, <2>4 DEF Flattens
  <2>6. QED  BY <2>5
<1>4. QED  BY <1>2, <1>3

LEMMA FlattenSeqIs ==
    ASSUME NEW ss, Len(ss) \in Nat \ {0}
    PROVE  \E f : Flattens(f, ss, Len(ss)) /\ FlattenSeq(ss) = f[Len(ss)]
<1> DEFINE F(f) == f = [i \in 1..Len(ss) |-> IF i = 1 THEN ss[i] ELSE f[i-1] \o ss[i]]
<1>1. \E f : F(f)  BY FlattensExists DEF Flattens
<1>2. F(CHOOSE f : F(f))  BY <1>1
<1>3. FlattenSeq(ss) = (CHOOSE f : F(f))[Len(ss)]
  BY DEF FlattenSeq
<1> HIDE DEF F
<1>4. QED  BY <1>2, <1>3 DEF Flattens, F

LEMMA ListOf ==
    ASSUME NEW S, NEW s \in Seq(S), NEW T, NEW f, f = [i \in DOMAIN s |-> f[i]],
           \A i \in DOMAIN s : f[i] \in T
    PROVE  f \in Seq(T)
<1>1. Len(s) \in Nat /\ DOMAIN s = 1..Len(s)  OBVIOUS
<1>2. f \in [1..Len(s) -> T]  BY <1>1
<1>3. QED  BY <1>1, <1>2

LEMMA ConcatHas ==
    ASSUME NEW S, NEW s \in Seq(S), NEW t \in Seq(S)
    PROVE  /\ s \o t \in Seq(S)
           /\ \A i \in DOMAIN s : i \in DOMAIN (s \o t) /\ (s \o t)[i] = s[i]
           /\ \A i \in DOMAIN t : Len(s) + i \in DOMAIN (s \o t) /\ (s \o t)[Len(s) + i] = t[i]
<1>1. s \o t \in Seq(S) /\ Len(s \o t) = Len(s) + Len(t)  OBVIOUS
<1>2. \A i \in DOMAIN s : i \in DOMAIN (s \o t) /\ (s \o t)[i] = s[i]  OBVIOUS
<1>3. ASSUME NEW i \in DOMAIN t
      PROVE  Len(s) + i \in DOMAIN (s \o t) /\ (s \o t)[Len(s) + i] = t[i]
  <2>1. i \in 1..Len(t) /\ Len(s) \in Nat /\ Len(t) \in Nat  OBVIOUS
  <2>2. Len(s) + i \in 1..Len(s \o t)  BY <1>1, <2>1
  <2>3. QED  BY <2>1, <2>2
<1>4. QED  BY <1>1, <1>2, <1>3

\* t holds what the first n lists of ss hold.
Holds(t, ss, n) ==
    \A i \in 1..n : \A j \in DOMAIN ss[i] : \E k \in DOMAIN t : t[k] = ss[i][j]

LEMMA HoldsOneMore ==
    ASSUME NEW S, NEW s \in Seq(S), NEW ss, NEW m \in Nat, ss[m] \in Seq(S),
           Holds(s, ss, m - 1)
    PROVE  s \o ss[m] \in Seq(S) /\ Holds(s \o ss[m], ss, m)
<1>1. PICK t \in Seq(S) : t = ss[m]  OBVIOUS
<1>2. ASSUME NEW i \in 1..m, NEW j \in DOMAIN ss[i]
      PROVE  \E k \in DOMAIN (s \o t) : (s \o t)[k] = ss[i][j]
  <2>1. CASE i = m
    <3>1. Len(s) + j \in DOMAIN (s \o t) /\ (s \o t)[Len(s) + j] = t[j]
      BY <2>1, <1>1, ConcatHas
    <3>2. QED  BY <3>1, <2>1, <1>1
  <2>2. CASE i # m
    <3>1. i \in 1..(m-1)  BY <2>2
    <3>2. PICK k \in DOMAIN s : s[k] = ss[i][j]  BY <3>1 DEF Holds
    <3>3. k \in DOMAIN (s \o t) /\ (s \o t)[k] = s[k]  BY ConcatHas
    <3>4. QED  BY <3>2, <3>3
  <2>3. QED  BY <2>1, <2>2
<1>3. s \o t \in Seq(S)  OBVIOUS
<1>4. QED  BY <1>1, <1>2, <1>3 DEF Holds

\* What the lists hold is what the list of them all holds.
LEMMA FlattenSeqHolds ==
    ASSUME NEW S, NEW ss \in Seq(Seq(S))
    PROVE  /\ FlattenSeq(ss) \in Seq(S)
           /\ \A i \in DOMAIN ss : \A j \in DOMAIN ss[i] :
                 \E k \in DOMAIN FlattenSeq(ss) : FlattenSeq(ss)[k] = ss[i][j]
<1>1. CASE Len(ss) = 0
  <2>1. FlattenSeq(ss) = <<>> /\ ss = <<>>  BY <1>1 DEF FlattenSeq
  <2>2. QED  BY <2>1
<1>2. CASE Len(ss) # 0
  <2>1. PICK f : Flattens(f, ss, Len(ss)) /\ FlattenSeq(ss) = f[Len(ss)]
    BY <1>2, FlattenSeqIs
  <2>2. \A i \in 1..Len(ss) : f[i] = IF i = 1 THEN ss[i] ELSE f[i-1] \o ss[i]
    BY <2>1 DEF Flattens
  <2> DEFINE T == {m \in 1..Len(ss) : ~ (f[m] \in Seq(S) /\ Holds(f[m], ss, m))}
  <2>3. T = {}
    <3> SUFFICES ASSUME T # {} PROVE FALSE  OBVIOUS
    <3>1. PICK m \in T : \A l \in T : m <= l
      <4> T \in SUBSET Nat  OBVIOUS
      <4> HIDE DEF T
      <4>1. QED  BY Least
    <3>2. m \in 1..Len(ss) /\ ss[m] \in Seq(S)  OBVIOUS
    <3>3. CASE m = 1
      <4>1. f[m] = ss[m]  BY <2>2, <3>2, <3>3
      <4>2. Holds(f[m], ss, m)  BY <4>1, <3>2, <3>3 DEF Holds
      <4>3. QED  BY <4>1, <4>2, <3>2
    <3>4. CASE m # 1
      <4>1. m - 1 \in 1..Len(ss) /\ m - 1 \notin T
        <5> HIDE DEF T
        <5>1. m - 1 \in 1..Len(ss) /\ ~ (m <= m - 1)  BY <3>2, <3>4
        <5>2. QED  BY <5>1, <3>1
      <4>2. f[m-1] \in Seq(S) /\ Holds(f[m-1], ss, m - 1)  BY <4>1
      <4>3. f[m] = f[m-1] \o ss[m]  BY <2>2, <3>2, <3>4
      <4>4. f[m] \in Seq(S) /\ Holds(f[m], ss, m)
        BY <4>2, <4>3, <3>2, HoldsOneMore
      <4>5. QED  BY <4>4
    <3>5. QED  BY <3>3, <3>4
  <2>4. Len(ss) \in 1..Len(ss)  BY <1>2
  <2>5. FlattenSeq(ss) \in Seq(S) /\ Holds(FlattenSeq(ss), ss, Len(ss))
    BY <2>1, <2>3, <2>4
  <2>6. DOMAIN ss = 1..Len(ss)  OBVIOUS
  <2>7. QED  BY <2>5, <2>6 DEF Holds
<1>3. QED  BY <1>1, <1>2

\* t is the elements of the first n - 1 lists of ss, one each, then the n-th.
Lays(t, ss, n) ==
    /\ Len(t) = n - 1 + Len(ss[n])
    /\ \A i \in 1..n-1 : t[i] = ss[i][1]
    /\ \A i \in 1..Len(ss[n]) : t[n - 1 + i] = ss[n][i]

LEMMA LaysOneMore ==
    ASSUME NEW S, NEW s \in Seq(S), NEW t \in Seq(S), NEW ss, NEW m \in Nat,
           m # 0, Lays(s, ss, m), Len(ss[m]) = 1, t = ss[m + 1]
    PROVE  Lays(s \o t, ss, m + 1)
<1>1. Len(s) = m  BY DEF Lays
<1>2. Len(s \o t) = m + Len(t)  BY <1>1
<1>3. \A i \in 1..m : s[i] = ss[i][1]
  <2>1. s[m - 1 + 1] = ss[m][1]  BY DEF Lays
  <2>2. m - 1 + 1 = m  OBVIOUS
  <2>3. s[m] = ss[m][1]  BY <2>1, <2>2
  <2>4. \A i \in 1..m-1 : s[i] = ss[i][1]  BY DEF Lays
  <2>5. \A i \in 1..m : i = m \/ i \in 1..m-1  OBVIOUS
  <2>6. QED  BY <2>3, <2>4, <2>5
<1>4. DOMAIN s = 1..m /\ DOMAIN t = 1..Len(t)  BY <1>1
<1>5. \A i \in 1..m : (s \o t)[i] = ss[i][1]
  <2>1. \A i \in DOMAIN s : (s \o t)[i] = s[i]  BY ConcatHas
  <2>2. QED  BY <2>1, <1>3, <1>4
<1>6. ASSUME NEW i \in 1..Len(t) PROVE (s \o t)[m + i] = t[i]
  <2>1. i \in DOMAIN t  BY <1>4
  <2>2. (s \o t)[Len(s) + i] = t[i]  BY <2>1, SMTT(30)
  <2>3. QED  BY <2>2, <1>1
<1>7. m + 1 - 1 = m  OBVIOUS
<1>8. QED  BY <1>2, <1>5, <1>6, <1>7 DEF Lays

\* A list of lists, all but the last of them of one element.
LEMMA FlattenSingles ==
    ASSUME NEW S, NEW ss \in Seq(Seq(S)), Len(ss) # 0,
           \A i \in 1..Len(ss)-1 : Len(ss[i]) = 1
    PROVE  FlattenSeq(ss) \in Seq(S) /\ Lays(FlattenSeq(ss), ss, Len(ss))
<1>1. PICK f : Flattens(f, ss, Len(ss)) /\ FlattenSeq(ss) = f[Len(ss)]
  BY FlattenSeqIs
<1>2. \A i \in 1..Len(ss) : f[i] = IF i = 1 THEN ss[i] ELSE f[i-1] \o ss[i]
  BY <1>1 DEF Flattens
<1> DEFINE T == {m \in 1..Len(ss) : ~ (f[m] \in Seq(S) /\ Lays(f[m], ss, m))}
<1>3. T = {}
  <2> SUFFICES ASSUME T # {} PROVE FALSE  OBVIOUS
  <2>1. PICK m \in T : \A l \in T : m <= l
    <3> T \in SUBSET Nat  OBVIOUS
    <3> HIDE DEF T
    <3>1. QED  BY Least
  <2>2. m \in 1..Len(ss) /\ ss[m] \in Seq(S)  OBVIOUS
  <2>3. CASE m = 1
    <3>1. f[1] = ss[1] /\ ss[1] \in Seq(S)  BY <1>2, <2>2, <2>3
    <3>2. Lays(ss[1], ss, 1)  BY <3>1 DEF Lays
    <3>3. QED  BY <3>1, <3>2, <2>3
  <2>4. CASE m # 1
    <3>1. PICK l \in Nat : l # 0 /\ m = l + 1 /\ l \in 1..Len(ss)-1
      <4> HIDE DEF T
      <4>1. m - 1 \in Nat /\ m - 1 # 0 /\ m = (m - 1) + 1 /\ m - 1 \in 1..Len(ss)-1
        BY <2>2, <2>4
      <4>2. QED  BY <4>1
    <3>2. l \in 1..Len(ss) /\ l \notin T
      <4> HIDE DEF T
      <4>1. l \in 1..Len(ss) /\ ~ (m <= l)  BY <3>1
      <4>2. QED  BY <4>1, <2>1
    <3>3. f[l] \in Seq(S) /\ Lays(f[l], ss, l)  BY <3>2
    <3>4. f[m] = f[l] \o ss[m]
      <4> HIDE DEF T
      <4>1. m - 1 = l  BY <3>1
      <4>2. QED  BY <1>2, <2>2, <2>4, <4>1
    <3>5. f[m] \in Seq(S)
      <4> HIDE DEF T
      <4>1. QED  BY <2>2, <3>3, <3>4
    <3>6. Lays(f[m], ss, m)
      <4> HIDE DEF T
      <4>1. Len(ss[l]) = 1  BY <3>1
      <4>2. QED  BY <2>2, <3>1, <3>3, <3>4, <4>1, LaysOneMore
    <3>7. QED  BY <3>5, <3>6
  <2>5. QED  BY <2>3, <2>4
<1>4. Len(ss) \in 1..Len(ss)  OBVIOUS
<1>5. QED  BY <1>1, <1>3, <1>4

\* The first lists are flattened alike, whatever follows them.
LEMMA FlattensAlike ==
    ASSUME NEW ss, NEW tt, NEW n \in Nat, \A i \in 1..n : ss[i] = tt[i],
           NEW f, Flattens(f, ss, n), NEW g, Flattens(g, tt, n + 1)
    PROVE  \A i \in 1..n : f[i] = g[i]
<1> DEFINE T == {i \in 1..n : f[i] # g[i]}
<1> SUFFICES ASSUME T # {} PROVE FALSE  OBVIOUS
<1>1. PICK l \in T : \A i \in T : l <= i
  <2> T \in SUBSET Nat  OBVIOUS
  <2> HIDE DEF T
  <2>1. QED  BY Least
<1>2. l \in 1..n /\ l \in 1..n+1 /\ f[l] # g[l]  OBVIOUS
<1>3. l # 1 => f[l-1] = g[l-1]
  <2>1. l # 1 => l - 1 \in 1..n /\ ~ (l <= l - 1)  BY <1>2
  <2>2. l # 1 => l - 1 \notin T
    <3> HIDE DEF T
    <3>1. QED  BY <2>1, <1>1
  <2>3. QED  BY <2>1, <2>2
<1>4. f[l] = IF l = 1 THEN ss[l] ELSE f[l-1] \o ss[l]  BY <1>2 DEF Flattens
<1>5. g[l] = IF l = 1 THEN tt[l] ELSE g[l-1] \o tt[l]  BY <1>2 DEF Flattens
<1> HIDE DEF T
<1>6. QED  BY <1>2, <1>3, <1>4, <1>5

LEMMA FlattenOneMore ==
    ASSUME NEW ss, NEW tt, NEW n \in Nat \ {0}, Len(ss) = n, Len(tt) = n + 1,
           \A i \in 1..n : ss[i] = tt[i]
    PROVE  FlattenSeq(tt) = FlattenSeq(ss) \o tt[n + 1]
<1>0. n + 1 \in Nat \ {0} /\ n + 1 # 1 /\ n + 1 - 1 = n /\ n \in 1..n /\ n + 1 \in 1..(n + 1)
  OBVIOUS
<1>1. PICK f : Flattens(f, ss, n) /\ FlattenSeq(ss) = f[n]
  BY FlattenSeqIs
<1>2. PICK g : Flattens(g, tt, n + 1) /\ FlattenSeq(tt) = g[n + 1]
  BY <1>0, FlattenSeqIs
<1>3. f[n] = g[n]  BY <1>0, <1>1, <1>2, FlattensAlike
<1>4. \A i \in 1..(n + 1) : g[i] = IF i = 1 THEN tt[i] ELSE g[i-1] \o tt[i]
  BY <1>2 DEF Flattens
<1>5. g[n + 1] = g[n] \o tt[n + 1]
  <2>1. PICK m \in 1..(n + 1) : m = n + 1 /\ m # 1 /\ m - 1 = n  BY <1>0
  <2>2. g[m] = g[m-1] \o tt[m]  BY <2>1, <1>4
  <2>3. QED  BY <2>1, <2>2
<1>6. QED  BY <1>1, <1>2, <1>3, <1>5

LEMMA FlattenOne ==
    ASSUME NEW tt, Len(tt) = 1
    PROVE  FlattenSeq(tt) = tt[1]
<1>0. Len(tt) \in Nat \ {0}  OBVIOUS
<1>1. PICK g : Flattens(g, tt, 1) /\ FlattenSeq(tt) = g[1]  BY <1>0, FlattenSeqIs
<1>2. \A i \in 1..1 : g[i] = IF i = 1 THEN tt[i] ELSE g[i-1] \o tt[i]
  BY <1>1 DEF Flattens
<1>3. QED  BY <1>1, <1>2

LEMMA FlattenAppend ==
    ASSUME NEW S, NEW ss \in Seq(Seq(S)), NEW t \in Seq(S)
    PROVE  FlattenSeq(Append(ss, t)) = FlattenSeq(ss) \o t
<1> DEFINE n == Len(ss)
           tt == Append(ss, t)
<1>1. /\ n \in Nat /\ Len(tt) = n + 1 /\ tt[n + 1] = t
      /\ \A i \in 1..n : ss[i] = tt[i]
  OBVIOUS
<1>2. CASE n = 0
  <2>1. FlattenSeq(ss) = <<>>  BY <1>2 DEF FlattenSeq
  <2>2. <<>> \o t = t  OBVIOUS
  <2>3. FlattenSeq(tt) = t
    <3> HIDE DEF n, tt
    <3>1. QED  BY <1>1, <1>2, FlattenOne
  <2>4. QED  BY <2>1, <2>2, <2>3
<1>3. CASE n # 0
  <2> HIDE DEF tt
  <2>1. FlattenSeq(tt) = FlattenSeq(ss) \o tt[n + 1]
    BY <1>1, <1>3, FlattenOneMore
  <2>2. QED  BY <1>1, <2>1 DEF tt
<1>4. QED  BY <1>2, <1>3

\* The first m elements of a list, one more at a time.
Prefix(s, m) == SubSeq(s, 1, m)

LEMMA PrefixGrows ==
    ASSUME NEW S, NEW s \in Seq(S)
    PROVE  /\ Prefix(s, 0) = <<>> /\ Prefix(s, Len(s)) = s
           /\ \A m \in 0..Len(s)-1 :
                 /\ Prefix(s, m) \in Seq(S) /\ s[m + 1] \in S
                 /\ Prefix(s, m + 1) = Append(Prefix(s, m), s[m + 1])
<1>1. Prefix(s, 0) = <<>> /\ Prefix(s, Len(s)) = s  BY DEF Prefix
<1>2. ASSUME NEW m \in 0..Len(s)-1
      PROVE  /\ Prefix(s, m) \in Seq(S) /\ s[m + 1] \in S
             /\ Prefix(s, m + 1) = Append(Prefix(s, m), s[m + 1])
  BY DEF Prefix
<1>3. QED  BY <1>1, <1>2

LEMMA PrefixStep ==
    ASSUME NEW S, NEW s \in Seq(S), NEW m \in 1..Len(s)
    PROVE  /\ Prefix(s, m - 1) \in Seq(S) /\ s[m] \in S
           /\ Prefix(s, m) = Append(Prefix(s, m - 1), s[m])
<1>1. Len(s) \in Nat  OBVIOUS
<1>2. m - 1 \in 0..Len(s)-1 /\ m - 1 + 1 = m  BY <1>1
<1>3. QED  BY <1>2, PrefixGrows

\* What a part of a sequence holds.
LEMMA PartIs ==
    ASSUME NEW S, NEW s \in Seq(S), NEW a \in Nat, NEW b \in Nat, a <= b, b <= Len(s)
    PROVE  /\ SubSeq(s, a + 1, b) \in Seq(S) /\ Len(SubSeq(s, a + 1, b)) = b - a
           /\ \A i \in 1..(b - a) : SubSeq(s, a + 1, b)[i] = s[a + i]
<1>1. Len(s) \in Nat  OBVIOUS
<1>2. SubSeq(s, a + 1, b) \in Seq(S) /\ Len(SubSeq(s, a + 1, b)) = b - a
  OBVIOUS
<1>3. ASSUME NEW i \in 1..(b - a) PROVE SubSeq(s, a + 1, b)[i] = s[a + i]
  OBVIOUS
<1>4. QED  BY <1>2, <1>3

LEMMA PartsJoin ==
    ASSUME NEW S, NEW s \in Seq(S), NEW a \in Nat, NEW b \in Nat, a <= b, b <= Len(s)
    PROVE  Prefix(s, a) \o SubSeq(s, a + 1, b) = Prefix(s, b)
<1> DEFINE p == Prefix(s, a)
           q == SubSeq(s, a + 1, b)
           t == Prefix(s, b)
<1>0. Len(s) \in Nat  OBVIOUS
<1>1. /\ p \in Seq(S) /\ Len(p) = a /\ \A i \in 1..a : p[i] = s[i]
      /\ t \in Seq(S) /\ Len(t) = b /\ \A i \in 1..b : t[i] = s[i]
  BY <1>0 DEF Prefix
<1>2. q \in Seq(S) /\ Len(q) = b - a /\ \A i \in 1..(b - a) : q[i] = s[a + i]
  BY PartIs
<1> HIDE DEF p, q, t
<1>3. p \o q \in Seq(S) /\ Len(p \o q) = b /\ Len(p \o q) = Len(t)
  <2>1. p \o q \in Seq(S) /\ Len(p \o q) = Len(p) + Len(q)
    <3>1. p \in Seq(S) /\ q \in Seq(S)  BY <1>1, <1>2
    <3>2. QED  BY <3>1
  <2>2. a + (b - a) = b  OBVIOUS
  <2>3. QED  BY <2>1, <2>2, <1>1, <1>2
<1>4. ASSUME NEW i \in 1..b PROVE (p \o q)[i] = t[i]
  <2>1. CASE i <= a
    <3>1. (p \o q)[i] = p[i] /\ i \in 1..a  BY <1>1, <1>2, <2>1
    <3>2. QED  BY <3>1, <1>1
  <2>2. CASE i > a
    <3>1. (p \o q)[i] = q[i - a] /\ i - a \in 1..(b - a) /\ a + (i - a) = i
      BY <1>1, <1>2, <2>2
    <3>2. q[i - a] = s[a + (i - a)]  BY <1>2, <3>1
    <3>3. QED  BY <3>1, <3>2, <1>1
  <2>3. i <= a \/ i > a  OBVIOUS
  <2>4. QED  BY <2>1, <2>2, <2>3
<1>5. QED  BY <1>1, <1>3, <1>4, SeqEqual DEF p, q, t

\* What g makes of the elements of s, one after the other.
Maps(S, V) == [S -> Seq(V)]
Through(g, s) == FlattenSeq([i \in DOMAIN s |-> g[s[i]]])

LEMMA ThroughTyped ==
    ASSUME NEW S, NEW V, NEW g \in Maps(S, V), NEW s \in Seq(S)
    PROVE  Through(g, s) \in Seq(V)
<1>1. [i \in DOMAIN s |-> g[s[i]]] \in Seq(Seq(V))
  <2>1. Len(s) \in Nat /\ DOMAIN s = 1..Len(s) /\ \A i \in DOMAIN s : s[i] \in S
    OBVIOUS
  <2>2. QED  BY <2>1 DEF Maps
<1>2. QED  BY <1>1, FlattenSeqHolds DEF Through

LEMMA ThroughNone == \A g : Through(g, <<>>) = <<>>
<1> SUFFICES ASSUME NEW g PROVE Through(g, <<>>) = <<>>  OBVIOUS
<1>1. [i \in DOMAIN <<>> |-> g[<<>>[i]]] = <<>>  OBVIOUS
<1>2. FlattenSeq(<<>>) = <<>>  BY DEF FlattenSeq
<1>3. QED  BY <1>1, <1>2 DEF Through

LEMMA ThroughAppend ==
    ASSUME NEW S, NEW V, NEW g \in Maps(S, V), NEW s \in Seq(S), NEW x \in S
    PROVE  Through(g, Append(s, x)) = Through(g, s) \o g[x]
<1> DEFINE ss == [i \in DOMAIN s |-> g[s[i]]]
           tt == [i \in DOMAIN Append(s, x) |-> g[Append(s, x)[i]]]
<1>1. /\ Len(s) \in Nat /\ DOMAIN s = 1..Len(s)
      /\ DOMAIN Append(s, x) = 1..Len(s) + 1
      /\ \A i \in 1..Len(s) : s[i] \in S /\ Append(s, x)[i] = s[i]
      /\ Append(s, x)[Len(s) + 1] = x
  OBVIOUS
<1>2. ss \in Seq(Seq(V)) /\ Len(ss) = Len(s) /\ g[x] \in Seq(V)
  BY <1>1 DEF Maps
<1>3. tt = Append(ss, g[x])
  <2>1. /\ DOMAIN Append(ss, g[x]) = 1..Len(s) + 1
        /\ \A i \in 1..Len(s) : Append(ss, g[x])[i] = ss[i]
        /\ Append(ss, g[x])[Len(s) + 1] = g[x]
    <3> HIDE DEF ss
    <3>1. QED  BY <1>2
  <2>2. \A i \in 1..Len(s) : ss[i] = g[s[i]]  BY <1>1
  <2>3. \A i \in 1..Len(s) + 1 : i \in 1..Len(s) \/ i = Len(s) + 1  BY <1>1
  <2>4. \A i \in 1..Len(s) + 1 : Append(ss, g[x])[i] = g[Append(s, x)[i]]
    <3> HIDE DEF ss
    <3>1. QED  BY <1>1, <2>1, <2>2, <2>3
  <2>5. Append(ss, g[x]) = [i \in 1..Len(s) + 1 |-> Append(ss, g[x])[i]]
    <3>1. Append(ss, g[x]) = [i \in 1..Len(ss) + 1 |-> Append(ss, g[x])[i]]
      <4> HIDE DEF ss
      <4>1. QED  BY <1>2
    <3>2. QED  BY <3>1, <1>2
  <2> HIDE DEF ss
  <2>6. QED  BY <1>1, <2>4, <2>5
<1> HIDE DEF ss, tt
<1>4. QED  BY <1>2, <1>3, FlattenAppend DEF Through, ss, tt

\* A concatenation that the provers do not look into.
Joined(s, t) == s \o t

LEMMA ConcatThenOne ==
    ASSUME NEW S, NEW s \in Seq(S), NEW t \in Seq(S), NEW x \in S
    PROVE  s \o Append(t, x) = Append(s \o t, x)
<1>1. /\ s \o Append(t, x) \in Seq(S) /\ Append(s \o t, x) \in Seq(S)
      /\ Len(s \o Append(t, x)) = Len(s) + Len(t) + 1
      /\ Len(Append(s \o t, x)) = Len(s) + Len(t) + 1
  OBVIOUS
<1>2. ASSUME NEW i \in 1..Len(s) + Len(t) + 1
      PROVE  (s \o Append(t, x))[i] = Append(s \o t, x)[i]
  OBVIOUS
<1>3. QED  BY <1>1, <1>2, SeqEqual

LEMMA ThroughConcat ==
    ASSUME NEW S, NEW V, NEW g \in Maps(S, V), NEW s \in Seq(S), NEW t \in Seq(S)
    PROVE  Through(g, s \o t) = Through(g, s) \o Through(g, t)
<1> DEFINE T == {m \in 0..Len(t) : Through(g, s \o Prefix(t, m)) # Through(g, s) \o Through(g, Prefix(t, m))}
<1>0. Len(t) \in Nat  OBVIOUS
<1>1. T = {}
  <2> SUFFICES ASSUME T # {} PROVE FALSE  OBVIOUS
  <2>1. PICK m \in T : \A l \in T : m <= l
    <3> T \in SUBSET Nat  OBVIOUS
    <3> HIDE DEF T
    <3>1. QED  BY Least
  <2>2. m \in 0..Len(t)  OBVIOUS
  <2>3. Through(g, s \o Prefix(t, m)) # Through(g, s) \o Through(g, Prefix(t, m))  OBVIOUS
  <2>4. CASE m = 0
    <3>1. Prefix(t, m) = <<>>  BY <2>4, PrefixGrows
    <3>2. s \o <<>> = s /\ Through(g, s) \o <<>> = Through(g, s)
      BY ThroughTyped, ConcatEmptySeq
    <3>3. QED  BY <2>3, <3>1, <3>2, ThroughNone
  <2>5. CASE m # 0
    <3>1. PICK l \in 0..Len(t)-1 : m = l + 1
      <4>1. m - 1 \in 0..Len(t)-1 /\ m = (m - 1) + 1  BY <1>0, <2>2, <2>5
      <4>2. QED  BY <4>1
    <3>2. l \in 0..Len(t) /\ l \notin T
      <4> HIDE DEF T
      <4>1. l \in 0..Len(t) /\ ~ (m <= l)  BY <1>0, <3>1
      <4>2. QED  BY <4>1, <2>1
    <3>3. Through(g, s \o Prefix(t, l)) = Through(g, s) \o Through(g, Prefix(t, l))  BY <3>2
    <3> DEFINE x == t[l + 1]
    <3>4. Prefix(t, l) \in Seq(S) /\ x \in S /\ Prefix(t, m) = Append(Prefix(t, l), x)
      BY <3>1, PrefixGrows
    <3> HIDE DEF x, T
    <3>5a. Prefix(t, l) \in Seq(S) /\ x \in S  BY <3>4
    <3>5. s \o Append(Prefix(t, l), x) = Append(s \o Prefix(t, l), x)
      BY <3>5a, ConcatThenOne, SMT
    <3>6. s \o Prefix(t, l) \in Seq(S)  BY <3>4
    <3>7. Through(g, Append(s \o Prefix(t, l), x)) = Through(g, s \o Prefix(t, l)) \o g[x]
      BY <3>4, <3>6, ThroughAppend
    <3>8. Through(g, Append(Prefix(t, l), x)) = Through(g, Prefix(t, l)) \o g[x]
      BY <3>4, ThroughAppend
    <3>9. /\ Through(g, s) \in Seq(V) /\ Through(g, Prefix(t, l)) \in Seq(V)
          /\ g[x] \in Seq(V)
      BY <3>4, ThroughTyped DEF Maps
    <3>10. (Through(g, s) \o Through(g, Prefix(t, l))) \o g[x]
             = Through(g, s) \o (Through(g, Prefix(t, l)) \o g[x])
      <4>1. PICK a \in Seq(V), b \in Seq(V), c \in Seq(V) :
              a = Through(g, s) /\ b = Through(g, Prefix(t, l)) /\ c = g[x]
        BY <3>9
      <4>2. (a \o b) \o c = a \o (b \o c)  BY ConcatAssociative, SMTT(30)
      <4>3. QED  BY <4>1, <4>2
    <3>11. QED  BY <2>3, <3>3, <3>4, <3>5, <3>7, <3>8, <3>10
  <2>6. QED  BY <2>4, <2>5
<1>2. Len(t) \in 0..Len(t) /\ Prefix(t, Len(t)) = t  BY <1>0, PrefixGrows
<1>3. Len(t) \notin T  BY <1>1
<1>4. QED  BY <1>2, <1>3

LEMMA ThroughJoined ==
    ASSUME NEW S, NEW V, NEW g \in Maps(S, V), NEW s \in Seq(S), NEW t \in Seq(S)
    PROVE  Through(g, Joined(s, t)) = Joined(Through(g, s), Through(g, t))
BY ThroughConcat DEF Joined

LEMMA ThroughMore ==
    ASSUME NEW S, NEW V, NEW g \in Maps(S, V), NEW ss \in Seq(Seq(S)), NEW t \in Seq(S)
    PROVE  Through(g, FlattenSeq(Append(ss, t))) = Joined(Through(g, FlattenSeq(ss)), Through(g, t))
<1>1. FlattenSeq(Append(ss, t)) = Joined(FlattenSeq(ss), t)  BY FlattenAppend DEF Joined
<1>2. FlattenSeq(ss) \in Seq(S) /\ t \in Seq(S)  BY FlattenSeqHolds
<1>3. QED  BY <1>1, <1>2, ThroughJoined

\* Going through a list of them all is going through the lists.
LEMMA ThroughFlatten ==
    ASSUME NEW S, NEW V, NEW g \in Maps(S, V), NEW ss \in Seq(Seq(S)),
           NEW gs \in Maps(Seq(S), V), \A s \in Seq(S) : gs[s] = Through(g, s)
    PROVE  Through(g, FlattenSeq(ss)) = Through(gs, ss)
<1>a. ASSUME NEW s \in Seq(Seq(S)), NEW t \in Seq(S)
      PROVE  Through(gs, Append(s, t)) = Joined(Through(gs, s), gs[t])
  BY ThroughAppend DEF Joined
<1> DEFINE T == {m \in 0..Len(ss) : Through(g, FlattenSeq(Prefix(ss, m))) # Through(gs, Prefix(ss, m))}
<1>0. Len(ss) \in Nat  OBVIOUS
<1>1. T = {}
  <2> SUFFICES ASSUME T # {} PROVE FALSE  OBVIOUS
  <2>1. PICK m \in T : \A l \in T : m <= l
    <3> T \in SUBSET Nat  OBVIOUS
    <3> HIDE DEF T
    <3>1. QED  BY Least
  <2>2. m \in 0..Len(ss)  OBVIOUS
  <2>3. Through(g, FlattenSeq(Prefix(ss, m))) # Through(gs, Prefix(ss, m))  OBVIOUS
  <2>4. CASE m = 0
    <3>1. Prefix(ss, m) = <<>>  BY <2>4, PrefixGrows
    <3>2. FlattenSeq(<<>>) = <<>>  BY DEF FlattenSeq
    <3>3. QED  BY <2>3, <3>1, <3>2, ThroughNone
  <2>5. CASE m # 0
    <3>1. PICK l \in 0..Len(ss)-1 : m = l + 1
      <4>1. m - 1 \in 0..Len(ss)-1 /\ m = (m - 1) + 1  BY <1>0, <2>2, <2>5
      <4>2. QED  BY <4>1
    <3>2. l \in 0..Len(ss) /\ l \notin T
      <4> HIDE DEF T
      <4>1. l \in 0..Len(ss) /\ ~ (m <= l)  BY <1>0, <3>1
      <4>2. QED  BY <4>1, <2>1
    <3>3. Through(g, FlattenSeq(Prefix(ss, l))) = Through(gs, Prefix(ss, l))  BY <3>2
    <3> DEFINE x == ss[l + 1]
    <3>4. Prefix(ss, l) \in Seq(Seq(S)) /\ x \in Seq(S) /\ Prefix(ss, m) = Append(Prefix(ss, l), x)
      <4>1. /\ Prefix(ss, l) \in Seq(Seq(S)) /\ ss[l + 1] \in Seq(S)
            /\ Prefix(ss, l + 1) = Append(Prefix(ss, l), ss[l + 1])
        BY PrefixGrows
      <4>2. QED  BY <3>1, <4>1
    <3> HIDE DEF x, T
    <3>5. Through(g, FlattenSeq(Prefix(ss, m))) = Joined(Through(g, FlattenSeq(Prefix(ss, l))), Through(g, x))
      BY <3>4, ThroughMore
    <3>6. Through(gs, Prefix(ss, m)) = Joined(Through(gs, Prefix(ss, l)), gs[x])
      BY <3>4, <1>a
    <3>7. gs[x] = Through(g, x)  BY <3>4
    <3>8. QED  BY <2>3, <3>3, <3>5, <3>6, <3>7
  <2>6. QED  BY <2>4, <2>5
<1>2. Len(ss) \in 0..Len(ss) /\ Prefix(ss, Len(ss)) = ss  BY <1>0, PrefixGrows
<1>3. Len(ss) \notin T  BY <1>1
<1>4. QED  BY <1>2, <1>3

\* Lists of which at most one, the at-th, is not empty.
LEMMA FlattenOnly ==
    ASSUME NEW S, NEW ss \in Seq(Seq(S)), NEW at \in Nat,
           \A i \in DOMAIN ss : i # at => ss[i] = <<>>
    PROVE  FlattenSeq(ss) = IF at \in DOMAIN ss THEN ss[at] ELSE <<>>
<1> DEFINE only(m) == IF at \in 1..m THEN ss[at] ELSE <<>>
           T == {m \in 0..Len(ss) : FlattenSeq(Prefix(ss, m)) # only(m)}
<1>0. Len(ss) \in Nat /\ DOMAIN ss = 1..Len(ss)  OBVIOUS
<1>1. T = {}
  <2> SUFFICES ASSUME T # {} PROVE FALSE  OBVIOUS
  <2>1. PICK m \in T : \A l \in T : m <= l
    <3> T \in SUBSET Nat  OBVIOUS
    <3> HIDE DEF T
    <3>1. QED  BY Least
  <2>2. m \in 0..Len(ss)  OBVIOUS
  <2>3. FlattenSeq(Prefix(ss, m)) # only(m)  OBVIOUS
  <2>4. CASE m = 0
    <3>1. Prefix(ss, m) = <<>>  BY <2>4, PrefixGrows
    <3>2. FlattenSeq(<<>>) = <<>>  BY DEF FlattenSeq
    <3>3. only(m) = <<>>  BY <2>4
    <3> HIDE DEF only
    <3>4. QED  BY <2>3, <3>1, <3>2, <3>3
  <2>5. CASE m # 0
    <3>1. PICK l \in 0..Len(ss)-1 : m = l + 1
      <4>1. m - 1 \in 0..Len(ss)-1 /\ m = (m - 1) + 1  BY <1>0, <2>2, <2>5
      <4>2. QED  BY <4>1
    <3>2. l \in 0..Len(ss) /\ l \notin T
      <4> HIDE DEF T
      <4>1. l \in 0..Len(ss) /\ ~ (m <= l)  BY <1>0, <3>1
      <4>2. QED  BY <4>1, <2>1
    <3>3. FlattenSeq(Prefix(ss, l)) = only(l)  BY <3>2
    <3> DEFINE x == ss[l + 1]
    <3>4. Prefix(ss, l) \in Seq(Seq(S)) /\ x \in Seq(S) /\ Prefix(ss, m) = Append(Prefix(ss, l), x)
      <4> HIDE DEF T, only
      <4>1. /\ Prefix(ss, l) \in Seq(Seq(S)) /\ ss[l + 1] \in Seq(S)
            /\ Prefix(ss, l + 1) = Append(Prefix(ss, l), ss[l + 1])
        BY PrefixGrows
      <4>2. QED  BY <3>1, <4>1
    <3>5. FlattenSeq(Prefix(ss, m)) = only(l) \o x
      <4> HIDE DEF x, T, only
      <4>1. QED  BY <3>3, <3>4, FlattenAppend
    <3>6. x = IF m = at THEN ss[at] ELSE <<>>
      <4>1. l + 1 \in DOMAIN ss  BY <1>0, <3>1
      <4>2. QED  BY <3>1, <4>1
    <3>7. only(l) \in Seq(S)
      <4>1. l \in 0..Len(ss)  BY <3>2
      <4>2. at \in 1..l => at \in DOMAIN ss  BY <1>0, <4>1
      <4>3. at \in DOMAIN ss => ss[at] \in Seq(S)  OBVIOUS
      <4>4. <<>> \in Seq(S)  OBVIOUS
      <4> HIDE DEF x, T
      <4>5. QED  BY <4>2, <4>3, <4>4
    <3>8. CASE m = at
      <4>1. only(l) = <<>> /\ only(m) = x  BY <3>1, <3>6, <3>8
      <4>2. <<>> \o x = x
        <5> HIDE DEF x
        <5>1. QED  BY <3>4, ConcatEmptySeq
      <4> HIDE DEF x, T, only
      <4>3. QED  BY <2>3, <3>5, <4>1, <4>2
    <3>9. CASE m # at
      <4>1. only(l) = only(m) /\ x = <<>>  BY <3>1, <3>6, <3>9
      <4> HIDE DEF x, T, only
      <4>2. QED  BY <2>3, <3>5, <3>7, <4>1, ConcatEmptySeq
    <3>10. QED  BY <3>8, <3>9
  <2>6. QED  BY <2>4, <2>5
<1>2. Len(ss) \in 0..Len(ss) /\ Prefix(ss, Len(ss)) = ss  BY <1>0, PrefixGrows
<1>3. Len(ss) \notin T  BY <1>1
<1>4. QED  BY <1>0, <1>2, <1>3

-----------------------------------------------------------------------------
(* Addresses.                                                              *)

LEMMA FamiliesAreTypes == Error \notin {"A", "AAAA"}
BY ValuesAssumption DEF KnownTypes

LEMMA CanonicalKeepsFamily ==
    ASSUME NEW v, AddressType(v) # Error
    PROVE  /\ AddressType(Canonical(v)) = AddressType(v)
           /\ Canonical(Canonical(v)) = Canonical(v)
<1> DEFINE w == v[1].text
           c == (IF AddressType(v) = "A" THEN IPv4 ELSE IPv6)[w]
<1>1. Canonical(v) = <<Plain(c)>>  BY DEF Canonical
<1>2. /\ Len(Canonical(v)) = 1 /\ Canonical(v)[1].text = c
      /\ Canonical(v)[1].dot = FALSE /\ Canonical(v)[1].quoted = FALSE
  BY <1>1 DEF Plain
<1>3. CASE AddressType(v) = "A"
  <2>1. w \in DOMAIN IPv4  BY <1>3, FamiliesAreTypes DEF AddressType
  <2>2. c \in DOMAIN IPv4 /\ IPv4[c] = c  BY <1>3, <2>1, ValuesAssumption
  <2>3. AddressType(Canonical(v)) = "A"  BY <1>2, <2>2 DEF AddressType
  <2>4. Canonical(Canonical(v)) = <<Plain(c)>>  BY <1>2, <2>2, <2>3 DEF Canonical
  <2>5. QED  BY <1>1, <1>3, <2>3, <2>4
<1>4. CASE AddressType(v) # "A"
  <2>1. AddressType(v) = "AAAA" /\ w \in DOMAIN IPv6
    BY <1>4 DEF AddressType
  <2>2. c \in DOMAIN IPv6 /\ c \notin DOMAIN IPv4 /\ IPv6[c] = c
    BY <1>4, <2>1, ValuesAssumption
  <2>3. AddressType(Canonical(v)) = "AAAA"  BY <1>2, <2>2 DEF AddressType
  <2>4. Canonical(Canonical(v)) = <<Plain(c)>>  BY <1>2, <2>2, <2>3 DEF Canonical
  <2>5. QED  BY <1>1, <2>1, <2>3, <2>4
<1>5. QED  BY <1>3, <1>4

-----------------------------------------------------------------------------
(* The types with a form.                                                  *)

LEMMA MXHasTwoFields == "MX" \in DOMAIN Forms /\ Forms["MX"].fields = 2
BY DEF Forms, Form

LEMMA PreferTyped ==
    ASSUME NEW type, NEW v \in Seq(Field)
    PROVE  Prefer(type, v) \in Seq(Field)
<1>1. <<Plain("10")>> \in Seq(Field)  BY ValuesAssumption DEF Plain, Field
<1>2. QED  BY <1>1 DEF Prefer

\* Spelling out does not change the number of fields, and twice is once.
LEMMA SpellOnce ==
    ASSUME NEW type \in DOMAIN Forms, NEW v \in Seq(Field)
    PROVE  /\ Len(Spell(type, v)) = Len(v)
           /\ Spell(type, Spell(type, v)) = Spell(type, v)
<1> DEFINE F(f, i) == CASE i \in Forms[type].hosts  -> Fqdn(f)
                        [] i \in Forms[type].quotes -> Quote(f)
                        [] OTHER                    -> f
           s == Spell(type, v)
<1>1. s = [i \in 1..Len(v) |-> F(v[i], i)]  BY DEF Spell
<1>2. Len(v) \in Nat  OBVIOUS
<1>3. Len(s) = Len(v)
  <2> HIDE DEF F
  <2>1. Len([i \in 1..Len(v) |-> F(v[i], i)]) = Len(v)  BY <1>2
  <2>2. QED  BY <1>1, <2>1
<1>4. \A i \in 1..Len(v) : F(F(v[i], i), i) = F(v[i], i)
  <2> SUFFICES ASSUME NEW i \in 1..Len(v) PROVE F(F(v[i], i), i) = F(v[i], i)
    OBVIOUS
  <2>1. v[i] \in Field  OBVIOUS
  <2>2. Fqdn(Fqdn(v[i])) = Fqdn(v[i])  BY <2>1 DEF Fqdn, Field
  <2>3. Quote(Quote(v[i])) = Quote(v[i])  BY <2>1 DEF Quote, Field
  <2>4. QED  BY <2>2, <2>3
<1>5. Spell(type, s) = [i \in 1..Len(v) |-> F(s[i], i)]  BY <1>3 DEF Spell
<1>6. \A i \in 1..Len(v) : F(s[i], i) = F(v[i], i)
  <2> HIDE DEF F, s
  <2>1. QED  BY <1>1, <1>4
<1>7. Spell(type, s) = s
  <2> HIDE DEF F, s
  <2>1. QED  BY <1>1, <1>5, <1>6
<1>8. QED  BY <1>3, <1>7

LEMMA SpellTyped ==
    ASSUME NEW type \in DOMAIN Forms, NEW v \in Seq(Field)
    PROVE  /\ Spell(type, v) \in Seq(Field) /\ Len(Spell(type, v)) = Len(v)
           /\ \A i \in 1..Len(v) \ (Forms[type].hosts \cup Forms[type].quotes) :
                 Spell(type, v)[i] = v[i]
<1> DEFINE s == Spell(type, v)
<1>1. \A i \in 1..Len(v) : v[i] \in Field  OBVIOUS
<1>2. \A x \in Field : Fqdn(x) \in Field /\ Quote(x) \in Field
  BY DEF Fqdn, Quote, Field
<1>3. s = [i \in 1..Len(v) |-> s[i]] /\ \A i \in 1..Len(v) : s[i] \in Field
  BY <1>1, <1>2 DEF Spell
<1>4. \A i \in 1..Len(v) \ (Forms[type].hosts \cup Forms[type].quotes) : s[i] = v[i]
  BY DEF Spell
<1>5. Len(s) = Len(v)  BY SpellOnce
<1>6. DOMAIN v = 1..Len(v)  OBVIOUS
<1> HIDE DEF s
<1>7. s \in Seq(Field)  BY <1>3, <1>6, ListOf
<1>8. QED  BY <1>4, <1>5, <1>7 DEF s

\* What Normalise makes of a value is a value that it leaves as it is: a record
\* written out strictly, with dots, quotes and a preference, is not spelled out a
\* second time (record.go:118-213).
THEOREM NormaliseOnce ==
    ASSUME NEW type, NEW v \in Seq(Field),
           Normalise(type, v) # Error
    PROVE  Normalise(type, Normalise(type, v)) = Normalise(type, v)
<1> DEFINE w == Prefer(type, v)
           s == Spell(type, w)
<1>1. CASE type \in {"A", "AAAA"}
  <2>1. AddressType(v) = type /\ Normalise(type, v) = Canonical(v)
    BY <1>1 DEF Normalise
  <2>2. AddressType(v) # Error  BY <1>1, <2>1, FamiliesAreTypes
  <2>3. AddressType(Canonical(v)) = type /\ Canonical(Canonical(v)) = Canonical(v)
    BY <2>1, <2>2, CanonicalKeepsFamily
  <2>4. QED  BY <1>1, <2>1, <2>3 DEF Normalise
<1>2. CASE type \notin {"A", "AAAA"} /\ type \notin DOMAIN Forms
  BY <1>2 DEF Normalise
<1>3. CASE type \notin {"A", "AAAA"} /\ type \in DOMAIN Forms
  <2>1. Fits(type, w) /\ Normalise(type, v) = s  BY <1>3 DEF Normalise
  <2>2. w \in Seq(Field)  BY PreferTyped
  <2>3. Len(s) = Len(w) /\ Spell(type, s) = s  BY <1>3, <2>2, SpellOnce
  <2>4. Fits(type, s)  BY <2>1, <2>3 DEF Fits
  <2>5. Prefer(type, s) = s
    <3>1. type = "MX" => Len(w) = 2  BY <2>1, MXHasTwoFields DEF Fits
    <3>2. QED  BY <3>1, <2>3 DEF Prefer
  <2>6. QED  BY <1>3, <2>1, <2>3, <2>4, <2>5 DEF Normalise
<1>4. QED  BY <1>1, <1>2, <1>3

LEMMA NormalisedTyped ==
    ASSUME NEW type, NEW v \in Seq(Field), v # <<>>, Normalise(type, v) # Error
    PROVE  Normalise(type, v) \in Seq(Field) /\ Normalise(type, v) # <<>>
<1> DEFINE w == Prefer(type, v)
           s == Spell(type, w)
<1>1. CASE type \in {"A", "AAAA"}
  <2>1. AddressType(v) = type /\ Normalise(type, v) = Canonical(v)
    BY <1>1 DEF Normalise
  <2>2. AddressType(v) \in {"A", "AAAA"}  BY <1>1, <2>1
  <2> DEFINE x == (IF AddressType(v) = "A" THEN IPv4 ELSE IPv6)[v[1].text]
  <2>3. x \in Words
    <3>1. CASE AddressType(v) = "A"
      <4>1. v[1].text \in DOMAIN IPv4  BY <3>1, FamiliesAreTypes DEF AddressType
      <4>2. QED  BY <3>1, <4>1, ValuesAssumption
    <3>2. CASE AddressType(v) # "A"
      <4>1. v[1].text \in DOMAIN IPv6  BY <3>2, <2>2, FamiliesAreTypes DEF AddressType
      <4>2. QED  BY <3>2, <4>1, ValuesAssumption
    <3>3. QED  BY <3>1, <3>2
  <2>4. Canonical(v) = <<Plain(x)>>  BY DEF Canonical
  <2> HIDE DEF x
  <2>5. Plain(x) \in Field  BY <2>3 DEF Plain, Field
  <2>6. QED  BY <2>1, <2>4, <2>5
<1>2. CASE type \notin {"A", "AAAA"} /\ type \notin DOMAIN Forms
  BY <1>2 DEF Normalise
<1>3. CASE type \notin {"A", "AAAA"} /\ type \in DOMAIN Forms
  <2>1. Normalise(type, v) = s  BY <1>3 DEF Normalise
  <2>2. w \in Seq(Field)  BY PreferTyped
  <2>3. w # <<>>
    <3>1. Len(v) # 0  OBVIOUS
    <3>2. Len(<<Plain("10")>> \o v) # 0 \/ type # "MX"
      <4>1. <<Plain("10")>> \in Seq(Field)  BY ValuesAssumption DEF Plain, Field
      <4>2. Len(<<Plain("10")>> \o v) = 1 + Len(v)  BY <4>1
      <4>3. QED  BY <4>2
    <3>3. w # <<>>  BY <3>1, <3>2 DEF Prefer
    <3>4. QED  BY <3>3
  <2> HIDE DEF w
  <2>4. s \in Seq(Field) /\ Len(s) = Len(w)  BY <1>3, <2>2, SpellTyped
  <2> HIDE DEF s
  <2>5. Len(w) \in Nat \ {0}  BY <2>2, <2>3
  <2>6. s # <<>>  BY <2>4, <2>5
  <2>7. QED  BY <2>1, <2>4, <2>6
<1>4. QED  BY <1>1, <1>2, <1>3

\* A value that makes a record, written out strictly, makes one, too
\* (record.go:74-86).
THEOREM StrictSpellingRenders ==
    ASSUME NEW type, NEW v \in Seq(Field), Renders(type, v)
    PROVE  Renders(type, Normalise(type, v))
<1>1. Normalise(type, v) # Error /\ Reads(type, Normalise(type, v))
  BY DEF Renders
<1>2. Normalise(type, Normalise(type, v)) = Normalise(type, v)
  BY <1>1, NormaliseOnce
<1>3. QED  BY <1>1, <1>2 DEF Renders

-----------------------------------------------------------------------------
(* Scores.                                                                 *)

LEMMA LiteralsNone ==
    ASSUME NEW p PROVE LiteralsUpTo(p, 0) = 0
BY FS_EmptySet DEF LiteralsUpTo

LEMMA LiteralsFinite ==
    ASSUME NEW p, NEW j \in Nat
    PROVE  /\ IsFiniteSet({m \in 1..j : p[m] # Star})
           /\ LiteralsUpTo(p, j) \in Nat
<1>1. IsFiniteSet(1..j)  BY FS_Interval
<1>2. IsFiniteSet({m \in 1..j : p[m] # Star})  BY <1>1, FS_Subset
<1>3. QED  BY <1>2, FS_CardinalityType DEF LiteralsUpTo

\* One label more counts if it is spelled out.
LEMMA LiteralsStep ==
    ASSUME NEW p, NEW j \in Nat
    PROVE  LiteralsUpTo(p, j + 1) =
              LiteralsUpTo(p, j) + (IF p[j + 1] = Star THEN 0 ELSE 1)
<1> DEFINE L(m) == {x \in 1..m : p[x] # Star}
<1>1. IsFiniteSet(L(j))  BY LiteralsFinite
<1>2. LiteralsUpTo(p, j) \in Nat  BY LiteralsFinite
<1>3. CASE p[j + 1] = Star
  <2>1. L(j + 1) = L(j)  BY <1>3
  <2>2. QED  BY <2>1, <1>2, <1>3 DEF LiteralsUpTo
<1>4. CASE p[j + 1] # Star
  <2>1. L(j + 1) = L(j) \cup {j + 1}  BY <1>4
  <2>2. j + 1 \notin L(j)  OBVIOUS
  <2>3. Cardinality(L(j + 1)) = Cardinality(L(j)) + 1
    BY <2>1, <2>2, <1>1, FS_AddElement
  <2>4. QED  BY <2>3, <1>4 DEF LiteralsUpTo
<1>5. QED  BY <1>3, <1>4

\* Every pattern scores more than the -1 that stands for no match.
LEMMA ScorePositive ==
    ASSUME NEW S, NEW p \in Seq(S) PROVE Score(p) \in Nat
<1>1. Len(p) \in Nat  OBVIOUS
<1>2. LiteralsUpTo(p, Len(p)) \in Nat  BY <1>1, LiteralsFinite
<1>3. QED  BY <1>1, <1>2 DEF Score, ScoreOf, Literals

LEMMA LiteralsBound ==
    ASSUME NEW p, NEW j \in Nat PROVE LiteralsUpTo(p, j) <= j
<1>1. IsFiniteSet(1..j) /\ Cardinality(1..j) = j  BY FS_Interval
<1>2. {m \in 1..j : p[m] # Star} \in SUBSET (1..j)  OBVIOUS
<1>3. QED  BY <1>1, <1>2, FS_Subset DEF LiteralsUpTo

\* A name spells out whatever a pattern that matches it does, and the rest.
LEMMA MatchIsLess ==
    ASSUME NEW S, NEW p \in Seq(S), NEW n \in Seq(S), MatchPattern(p, n)
    PROVE  /\ Len(p) \in Nat \ {0} /\ Len(n) \in Nat /\ Len(p) <= Len(n)
           /\ Literals(p) \in Nat /\ Literals(n) \in Nat /\ Literals(p) <= Literals(n)
           /\ LeadingStar(n) => LeadingStar(p)
           /\ Len(p) = Len(n) /\ Literals(p) = Literals(n) => p = n
<1> DEFINE L(s) == {j \in 1..Len(s) : s[j] # Star}
<1>1. Len(p) \in Nat \ {0} /\ Len(n) \in Nat /\ Len(p) <= Len(n)
  BY DEF MatchPattern, LeadingStar
<1>2. /\ IsFiniteSet(L(n)) /\ Literals(p) \in Nat /\ Literals(n) \in Nat
      /\ Literals(p) = Cardinality(L(p)) /\ Literals(n) = Cardinality(L(n))
  BY <1>1, LiteralsFinite DEF Literals, LiteralsUpTo
<1>3. L(p) \in SUBSET L(n)  BY <1>1 DEF MatchPattern
<1>4. Literals(p) <= Literals(n) /\ (Literals(p) = Literals(n) => L(p) = L(n))
  <2> HIDE DEF L
  <2>1. /\ Cardinality(L(p)) <= Cardinality(L(n))
        /\ Cardinality(L(p)) = Cardinality(L(n)) => L(p) = L(n)
    BY <1>2, <1>3, FS_Subset
  <2>2. QED  BY <2>1, <1>2
<1>5. LeadingStar(n) => LeadingStar(p)  BY <1>1 DEF MatchPattern, LeadingStar
<1>6. ASSUME Len(p) = Len(n), L(p) = L(n) PROVE p = n
  <2>1. ASSUME NEW j \in 1..Len(p) PROVE p[j] = n[j]
    <3>1. CASE p[j] = Star
      <4>1. j \notin L(n)  BY <1>6, <3>1
      <4>2. QED  BY <4>1, <3>1, <1>6
    <3>2. CASE p[j] # Star  BY <3>2 DEF MatchPattern
    <3>3. QED  BY <3>1, <3>2
  <2>2. QED  BY <2>1, <1>6
<1>7. QED  BY <1>1, <1>2, <1>4, <1>5, <1>6

\* No pattern that matches a name scores more than the name itself.
LEMMA ExactScoresMost ==
    ASSUME NEW S, NEW p \in Seq(S), NEW n \in Seq(S), MatchPattern(p, n)
    PROVE  Score(p) <= Score(n) /\ (Score(p) = Score(n) => p = n)
<1> DEFINE bonus(s) == IF LeadingStar(s) THEN 0 ELSE 100000
<1>1. Score(p) = Literals(p) * 1000 + Len(p) * 10 + bonus(p)
  BY DEF Score, ScoreOf
<1>2. Score(n) = Literals(n) * 1000 + Len(n) * 10 + bonus(n)
  BY DEF Score, ScoreOf
<1>3. bonus(p) \in Nat /\ bonus(n) \in Nat /\ bonus(p) <= bonus(n)
  BY MatchIsLess
<1> HIDE DEF bonus
<1>4. Score(p) <= Score(n)  BY <1>1, <1>2, <1>3, MatchIsLess
<1>5. Score(p) = Score(n) => Len(p) = Len(n) /\ Literals(p) = Literals(n)
  BY <1>1, <1>2, <1>3, MatchIsLess
<1>6. QED  BY <1>4, <1>5, MatchIsLess

\* The last label of a fixed pattern is spelled out, that of the other is not:
\* what 100000 must outweigh is the rest of the other's labels.
LEMMA FixedScoresMore ==
    ASSUME NEW S, NEW p \in Seq(S), NEW q \in Seq(S), NEW n \in Seq(S),
           MatchPattern(p, n), ~ LeadingStar(p),
           MatchPattern(q, n), LeadingStar(q), Len(n) <= 101
    PROVE  Score(q) < Score(p)
<1>1. Score(p) = Literals(p) * 1000 + Len(p) * 10 + 100000
  BY DEF Score, ScoreOf
<1>2. Score(q) = Literals(q) * 1000 + Len(q) * 10 + 0
  BY DEF Score, ScoreOf
<1>3. Len(p) = Len(n)  BY DEF MatchPattern
<1>4. Literals(p) >= 1
  <2>1. Len(p) \in {j \in 1..Len(p) : p[j] # Star}
    BY MatchIsLess DEF LeadingStar
  <2>2. Literals(p) # 0
    <3> DEFINE l == {j \in 1..Len(p) : p[j] # Star}
    <3>1. IsFiniteSet(l) /\ l # {}  BY <2>1, LiteralsFinite, MatchIsLess
    <3> HIDE DEF l
    <3>2. Cardinality(l) # 0  BY <3>1, FS_EmptySet
    <3>3. Literals(p) = Cardinality(l)  BY Zenon DEF Literals, LiteralsUpTo, l
    <3>4. QED  BY <3>2, <3>3
  <2>3. QED  BY <2>2, MatchIsLess
<1>5. Literals(q) <= 100
  <2>1. PICK m \in Nat : Len(q) = m + 1
    <3>1. Len(q) - 1 \in Nat /\ Len(q) = (Len(q) - 1) + 1  BY MatchIsLess
    <3>2. QED  BY <3>1
  <2>2. q[m + 1] = Star  BY <2>1 DEF LeadingStar
  <2>3. Literals(q) = LiteralsUpTo(q, m) + 0
    BY <2>1, <2>2, LiteralsStep DEF Literals
  <2>4. LiteralsUpTo(q, m) \in Nat /\ LiteralsUpTo(q, m) <= m
    BY LiteralsFinite, LiteralsBound
  <2>5. QED  BY <2>1, <2>3, <2>4, MatchIsLess
<1>6. /\ Literals(p) \in Nat /\ Literals(q) \in Nat /\ Len(p) \in Nat
      /\ Len(q) \in Nat /\ Len(q) <= Len(n)
  BY MatchIsLess
<1>7. QED  BY <1>1, <1>2, <1>3, <1>4, <1>5, <1>6

-----------------------------------------------------------------------------
(* What a lookup finds for a name that no star is in.                      *)

LEMMA FirstIsIn ==
    ASSUME NEW K \in SUBSET Nat, K # {}
    PROVE  First(K) \in K /\ \A k \in K : First(K) <= k
BY Least DEF First

\* A store whose patterns are made of the labels S.
StoreOf(S, store) == DOMAIN store \in SUBSET Nat /\ \A k \in DOMAIN store : store[k].name \in Seq(S)

LEMMA BestScores ==
    ASSUME NEW S, NEW store, StoreOf(S, store), NEW t, NEW n \in Seq(S)
    PROVE  /\ Best(store, t, n) = {} => Lookup(store, t, n) = {} /\ LookupScore(store, t, n) = -1
           /\ Best(store, t, n) # {} =>
                \E f \in Best(store, t, n) :
                   /\ Lookup(store, t, n) = {k \in Best(store, t, n) : store[k].name = store[f].name}
                   /\ LookupScore(store, t, n) = Score(store[f].name)
<1> DEFINE B == Best(store, t, n)
<1>1. B \in SUBSET Nat  BY DEF Best, Matching, ByType, StoreOf
<1>2. Lookup(store, t, n) = {k \in B : store[k].name = store[First(B)].name}
  BY DEF Lookup
<1>3. LookupScore(store, t, n) = IF B = {} THEN -1 ELSE Score(store[First(B)].name)
  BY DEF LookupScore
<1> HIDE DEF B
<1>4. B # {} => First(B) \in B  BY <1>1, FirstIsIn
<1>5. QED  BY <1>2, <1>3, <1>4 DEF B

LEMMA MatchesScore ==
    ASSUME NEW S, NEW store, StoreOf(S, store), NEW t, NEW n \in Seq(S),
           NEW k \in Matching(store, t, n)
    PROVE  /\ Score(store[k].name) \in Nat /\ Score(store[k].name) <= Score(n)
           /\ Score(store[k].name) = Score(n) => store[k].name = n
<1>1. store[k].name \in Seq(S) /\ MatchPattern(store[k].name, n)
  BY DEF Matching, ByType, StoreOf
<1>2. QED  BY <1>1, ExactScoresMost, ScorePositive

\* Where a record names the name, the records that do are what is returned.
LEMMA NamedWins ==
    ASSUME NEW S, NEW store, StoreOf(S, store), NEW t, NEW n \in Seq(S), n # <<>>,
           \A i \in DOMAIN n : n[i] # Star,
           NEW e \in ByType(store, t), store[e].name = n
    PROVE  /\ Lookup(store, t, n) = {k \in ByType(store, t) : store[k].name = n}
           /\ LookupScore(store, t, n) = Score(n)
<1> DEFINE M == Matching(store, t, n)
           B == Best(store, t, n)
           E == {k \in ByType(store, t) : store[k].name = n}
<1>1. MatchPattern(n, n)
  <2>1. Len(n) \in DOMAIN n  OBVIOUS
  <2>2. ~ LeadingStar(n)  BY <2>1 DEF LeadingStar
  <2>3. QED  BY <2>2 DEF MatchPattern
<1>2. E \subseteq M /\ e \in E  BY <1>1 DEF Matching
<1>3. \A k \in M : Score(store[k].name) \in Nat /\ Score(store[k].name) <= Score(n)
                   /\ (Score(store[k].name) = Score(n) => store[k].name = n)
  BY MatchesScore
<1>4. M \subseteq ByType(store, t)  BY DEF Matching
<1>5. B = {k \in M : \A j \in M : Score(store[j].name) <= Score(store[k].name)}
  BY DEF Best
<1>6. Score(n) \in Nat  BY ScorePositive
<1>7. B = E
  <2> HIDE DEF M, B
  <2>1. ASSUME NEW k \in B PROVE k \in E
    <3>1. k \in M /\ Score(store[e].name) <= Score(store[k].name)  BY <1>2, <1>5
    <3>2. Score(store[k].name) = Score(n)  BY <3>1, <1>3, <1>6
    <3>3. QED  BY <3>1, <3>2, <1>3, <1>4
  <2>2. ASSUME NEW k \in E PROVE k \in B
    <3>1. k \in M /\ store[k].name = n  BY <1>2
    <3>2. QED  BY <3>1, <1>3, <1>5
  <2> HIDE DEF E
  <2>3. QED  BY <2>1, <2>2
<1>8. QED
  <2>1. PICK f \in B : /\ Lookup(store, t, n) = {k \in B : store[k].name = store[f].name}
                       /\ LookupScore(store, t, n) = Score(store[f].name)
    BY <1>2, <1>7, BestScores
  <2>2. store[f].name = n  BY <1>7
  <2>3. QED  BY <2>1, <2>2, <1>7

\* No lookup of a name scores more than the name, nor as much without a record
\* that names it.
LEMMA NamedScoresMost ==
    ASSUME NEW S, NEW store, StoreOf(S, store), NEW t, NEW n \in Seq(S)
    PROVE  /\ LookupScore(store, t, n) <= Score(n)
           /\ LookupScore(store, t, n) = Score(n) =>
                \E k \in ByType(store, t) : store[k].name = n
<1>1. Score(n) \in Nat  BY ScorePositive
<1>2. CASE Best(store, t, n) = {}
  <2>1. LookupScore(store, t, n) = -1  BY <1>2, BestScores
  <2>2. QED  BY <2>1, <1>1
<1>3. CASE Best(store, t, n) # {}
  <2>1. PICK f \in Best(store, t, n) : LookupScore(store, t, n) = Score(store[f].name)
    BY <1>3, BestScores
  <2>2. f \in Matching(store, t, n)  BY DEF Best
  <2>3. f \in ByType(store, t)  BY <2>2 DEF Matching
  <2>4. /\ Score(store[f].name) <= Score(n)
        /\ Score(store[f].name) = Score(n) => store[f].name = n
    BY <2>2, MatchesScore
  <2>5. QED  BY <2>1, <2>3, <2>4
<1>4. QED  BY <1>2, <1>3
=============================================================================
