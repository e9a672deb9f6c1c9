-------------------------- MODULE ResolverProofs --------------------------
(***************************************************************************)
(* Theorems about Resolver for any number of exchanges and servers and any *)
(* width of int: type correctness, and that no exchange panics before the  *)
(* offsets come close to the largest int.                                  *)
(***************************************************************************)
EXTENDS Resolver, FiniteSetTheorems, TLAPS

-----------------------------------------------------------------------------
(* Go's integers.                                                          *)

Ints == (-(IntMax + 1))..IntMax

LEMMA Modular ==
    ASSUME NEW x \in Nat, NEW n \in Nat \ {0}
    PROVE  x % n \in 0..(n - 1)
OBVIOUS

LEMMA RemainderRange ==
    ASSUME NEW x \in Int
    PROVE  /\ GoRem(x, N) \in Int
           /\ x >= 0 => GoRem(x, N) \in Servers
           /\ GoRem(x, N) >= 0 => GoRem(x, N) \in Servers
<1>1. N \in Nat \ {0}  BY ResolverAssumption
<1>2. CASE x >= 0
  <2>1. x % N \in 0..(N - 1)  BY <1>1, <1>2, Modular
  <2>2. QED  BY <1>2, <2>1, <1>1 DEF GoRem, Servers
<1>3. CASE ~ (x >= 0)
  <2>1. (- x) % N \in 0..(N - 1)  BY <1>1, <1>3, Modular
  <2>2. GoRem(x, N) \in Int /\ GoRem(x, N) <= 0
    BY <1>3, <2>1, <1>1 DEF GoRem
  <2>3. QED  BY <1>1, <1>3, <2>2 DEF Servers
<1>4. QED  BY <1>2, <1>3

LEMMA WrapTyped ==
    /\ \A x \in Int : Wrap(x) \in Int
    /\ \A x \in 0..(Modulus - 1) : Wrap(x) \in Ints
    /\ \A x \in 0..IntMax : Wrap(x) = x
BY ResolverAssumption DEF Wrap, Modulus, Ints

-----------------------------------------------------------------------------
(* The inductive invariant.                                                *)

\* A retry asks a server there is.
RetryInv == \A e \in Exchanges : pc[e] = "retrying" => Index(e) \in UDP

ResolverInv == TypeOK /\ RetryInv /\ PanicsOnlyPastIntMax

LEMMA ResolverInit == Init => ResolverInv
<1> SUFFICES ASSUME Init PROVE ResolverInv  OBVIOUS
<1>1. 0 \in 0..(Modulus - 1) /\ 0 \in Ints /\ 0 \in Servers
  BY ResolverAssumption DEF Modulus, Ints, Servers
<1>2. TypeOK  BY <1>1 DEF Init, TypeOK, Ints
<1>3. QED  BY <1>2 DEF Init, RetryInv, PanicsOnlyPastIntMax, ResolverInv

\* What the invariant says of one exchange.
LEMMA Offsets ==
    ASSUME ResolverInv, NEW e \in Exchanges
    PROVE  /\ start[e] \in Ints /\ start[e] \in Int /\ i[e] \in Servers /\ i[e] \in Int
           /\ Index(e) \in Int
           /\ Index(e) >= 0 => Index(e) \in Servers
<1>1. start[e] \in Ints /\ i[e] \in Servers
  BY DEF ResolverInv, TypeOK, Ints
<1>2. start[e] \in Int /\ i[e] \in Int /\ start[e] + i[e] \in Int
  BY <1>1, ResolverAssumption DEF Ints, Servers
<1>3. Wrap(start[e] + i[e]) \in Int  BY <1>2, WrapTyped
<1>4. QED  BY <1>1, <1>2, <1>3, RemainderRange DEF Index

LEMMA BeginStep ==
    ASSUME ResolverInv, NEW e \in Exchanges, Begin(e) PROVE ResolverInv'
<1> USE DEF Begin
<1>1. cursor' \in 0..(Modulus - 1)
  <2>1. Modulus \in Nat \ {0} /\ cursor + 1 \in Nat
    BY ResolverAssumption DEF ResolverInv, TypeOK, Modulus
  <2>2. QED  BY <2>1, Modular
<1>2. start' \in [Exchanges -> Ints]
  BY WrapTyped DEF ResolverInv, TypeOK, Ints
<1>3. TypeOK'  BY <1>1, <1>2 DEF ResolverInv, TypeOK, Ints, Modulus
<1>4. RetryInv'
  <2>1. ASSUME NEW f \in Exchanges, pc'[f] = "retrying" PROVE Index(f)' \in UDP
    <3>1. f # e /\ pc[f] = "retrying" /\ start'[f] = start[f]
      BY <2>1 DEF ResolverInv, TypeOK
    <3>2. QED  BY <3>1 DEF ResolverInv, RetryInv, Index
  <2>2. QED  BY <2>1 DEF RetryInv
<1>5. PanicsOnlyPastIntMax'  BY DEF PanicsOnlyPastIntMax
<1>6. QED  BY <1>3, <1>4, <1>5 DEF ResolverInv

LEMMA PanicStep ==
    ASSUME ResolverInv, NEW e \in Exchanges, Panic(e) PROVE ResolverInv'
<1> USE DEF Panic
<1>1. start[e] \notin 0..(IntMax - N + 1)
  <2>1. SUFFICES ASSUME start[e] \in 0..(IntMax - N + 1) PROVE FALSE  OBVIOUS
  <2>2. start[e] + i[e] \in 0..IntMax
    BY <2>1, Offsets, ResolverAssumption DEF Servers
  <2>3. Wrap(start[e] + i[e]) = start[e] + i[e]  BY <2>2, WrapTyped
  <2>4. Index(e) \in Servers  BY <2>2, <2>3, RemainderRange DEF Index
  <2>5. QED  BY <2>4, ResolverAssumption DEF Servers
<1>2. TypeOK'  BY DEF ResolverInv, TypeOK, Modulus
<1>3. RetryInv'  BY DEF ResolverInv, RetryInv, Index
<1>4. PanicsOnlyPastIntMax'  BY <1>1 DEF PanicsOnlyPastIntMax
<1>5. QED  BY <1>2, <1>3, <1>4 DEF ResolverInv

LEMMA ServerFailsStep ==
    ASSUME ResolverInv, NEW e \in Exchanges, ServerFails(e) PROVE ResolverInv'
<1> USE DEF ServerFails, Trying
<1>1. i[e] + 1 \in Servers  BY Offsets, ResolverAssumption DEF Servers
<1>2. TypeOK'  BY <1>1 DEF ResolverInv, TypeOK, Modulus
<1>3. RetryInv'  BY DEF ResolverInv, TypeOK, RetryInv, Index
<1>4. PanicsOnlyPastIntMax'  BY DEF PanicsOnlyPastIntMax
<1>5. QED  BY <1>2, <1>3, <1>4 DEF ResolverInv

LEMMA ReplyIsCutStep ==
    ASSUME ResolverInv, NEW e \in Exchanges, ReplyIsCut(e) PROVE ResolverInv'
<1> USE DEF ReplyIsCut, Trying
<1>1. TypeOK'  BY DEF ResolverInv, TypeOK, Modulus
<1>2. RetryInv'  BY DEF ResolverInv, TypeOK, RetryInv, Index
<1>3. PanicsOnlyPastIntMax'  BY DEF PanicsOnlyPastIntMax
<1>4. QED  BY <1>1, <1>2, <1>3 DEF ResolverInv

LEMMA EndStep ==
    ASSUME ResolverInv, NEW e \in Exchanges, ~ crashed,
           NEW result \in {None, Failed} \cup
                          [server : Servers, how : {"reply", "retry", "cut"}],
           End(e, result)
    PROVE  ResolverInv'
<1> USE DEF End
<1>1. TypeOK'  BY DEF ResolverInv, TypeOK, Modulus
<1>2. RetryInv'  BY DEF ResolverInv, TypeOK, RetryInv, Index
<1>3. PanicsOnlyPastIntMax'  BY DEF PanicsOnlyPastIntMax
<1>4. QED  BY <1>1, <1>2, <1>3 DEF ResolverInv

LEMMA ReturnSteps ==
    ASSUME ResolverInv, NEW e \in Exchanges,
           AllFail(e) \/ ServerReplies(e) \/ RetryReplies(e) \/ RetryFails(e)
    PROVE  ResolverInv'
<1>1. CASE AllFail(e)  BY <1>1, EndStep DEF AllFail, Trying
<1>2. CASE ServerReplies(e) \/ RetryReplies(e) \/ RetryFails(e)
  <2>1. Index(e) \in Servers
    BY <1>2, Offsets, ResolverAssumption
    DEF ServerReplies, RetryReplies, RetryFails, Trying, ResolverInv, RetryInv
  <2>2. ~ crashed
    BY <1>2 DEF ServerReplies, RetryReplies, RetryFails, Trying
  <2>3. PICK how \in {"reply", "retry", "cut"} : Returns(e, how)
    BY <1>2 DEF ServerReplies, RetryReplies, RetryFails
  <2>4. QED  BY <2>1, <2>2, <2>3, EndStep DEF Returns
<1>3. QED  BY <1>1, <1>2

LEMMA ResolverStep == ResolverInv /\ [Next]_vars => ResolverInv'
<1> SUFFICES ASSUME ResolverInv, [Next]_vars PROVE ResolverInv'  OBVIOUS
<1>1. CASE UNCHANGED vars
  BY <1>1 DEF vars, ResolverInv, TypeOK, RetryInv, PanicsOnlyPastIntMax, Index, Modulus
<1>2. CASE Next
  BY <1>2, BeginStep, PanicStep, ServerFailsStep, ReplyIsCutStep, ReturnSteps
  DEF Next, Step
<1>3. QED  BY <1>1, <1>2

LEMMA ResolverInvariant == Spec => []ResolverInv
BY ResolverInit, ResolverStep, PTL DEF Spec

-----------------------------------------------------------------------------
(* Every server at most once.                                              *)

LEMMA Residues ==
    ASSUME NEW a \in Nat, NEW b \in Nat, a < b, b - a < N
    PROVE  a % N # b % N
<1> SUFFICES ASSUME a % N = b % N PROVE FALSE  OBVIOUS
<1> DEFINE p == a \div N
           q == b \div N
           r == a % N
<1>1. p \in Int /\ q \in Int /\ r \in Int /\ N \in Nat /\ N > 0
  BY ResolverAssumption
<1>2. a = N * p + r /\ b = N * q + r  BY ResolverAssumption
<1> HIDE DEF p, q, r
<1>3. N * (q - p) = b - a  BY <1>1, <1>2
<1>4. CASE q - p <= 0
  <2>1. N * (q - p) <= 0  BY <1>1, <1>4
  <2>2. QED  BY <1>3, <2>1
<1>5. CASE q - p >= 1
  <2>1. N * (q - p) >= N  BY <1>1, <1>5
  <2>2. QED  BY <1>1, <1>3, <2>1
<1>6. QED  BY <1>1, <1>4, <1>5

\* The server at position j of an exchange that began at offset s.
ServerAt(s, j) == GoRem(Wrap(s + j), N)

\* Two positions of one exchange are two servers, unless the index panics on
\* the way: where the sum overflows, and below zero, the remainder is negative
\* or 0, and never 0 twice running.
LEMMA Distinct ==
    ASSUME NEW s \in Ints, NEW k \in Servers, NEW j \in 0..(k - 1),
           \A m \in 0..k : ServerAt(s, m) >= 0
    PROVE  ServerAt(s, j) # ServerAt(s, k)
<1>1. /\ N \in Nat /\ N >= 2 /\ s \in Int /\ k \in Nat /\ j \in Nat
      /\ k < N /\ j < k /\ IntMax \in Nat /\ IntMax >= N
      /\ s <= IntMax /\ s >= -(IntMax + 1)
  BY ResolverAssumption DEF Ints, Servers
<1>2. CASE s >= 0 /\ s + k <= IntMax
  <2>1. Wrap(s + j) = s + j /\ Wrap(s + k) = s + k  BY <1>1, <1>2 DEF Wrap
  <2>2. (s + j) % N # (s + k) % N
    <3> DEFINE a == s + j
               b == s + k
    <3>1. a \in Nat /\ b \in Nat /\ a < b /\ b - a < N  BY <1>1, <1>2
    <3> HIDE DEF a, b
    <3>2. a % N # b % N  BY <1>1, <3>1, Residues
    <3>3. QED  BY <3>2 DEF a, b
  <2>3. QED  BY <1>1, <1>2, <2>1, <2>2 DEF ServerAt, GoRem
<1>3. CASE s >= 0 /\ s + k > IntMax
  <2> DEFINE x == IntMax + 1 - s
  <2>1. x \in 1..k /\ s + x = IntMax + 1  BY <1>1, <1>3
  <2>2. (IntMax + 1) % N = 0
    <3>1. Wrap(s + x) = -(IntMax + 1)  BY <1>1, <2>1 DEF Wrap, Modulus
    <3>2. ServerAt(s, x) >= 0  BY <1>1, <2>1
    <3>3. - ((IntMax + 1) % N) >= 0
      BY <1>1, <3>1, <3>2 DEF ServerAt, GoRem
    <3>4. (IntMax + 1) % N \in 0..(N - 1)  BY <1>1, Modular
    <3>5. QED  BY <3>3, <3>4
  <2>3. k = x
    <3>1. SUFFICES ASSUME k > x PROVE FALSE  BY <1>1, <2>1
    <3>2. x + 1 \in 0..k /\ s + (x + 1) = IntMax + 2  BY <1>1, <2>1, <3>1
    <3>3. Wrap(s + (x + 1)) = - IntMax  BY <1>1, <3>2 DEF Wrap, Modulus
    <3>4. - (IntMax % N) >= 0
      BY <1>1, <3>2, <3>3 DEF ServerAt, GoRem
    <3>5. IntMax % N \in 0..(N - 1)  BY <1>1, Modular
    <3>6. IntMax % N # (IntMax + 1) % N
      <4> DEFINE b == IntMax + 1
      <4>1. b \in Nat /\ IntMax < b /\ b - IntMax < N  BY <1>1
      <4> HIDE DEF b
      <4>2. IntMax % N # b % N  BY <1>1, <4>1, Residues
      <4>3. QED  BY <4>2 DEF b
    <3>7. QED  BY <2>2, <3>4, <3>5, <3>6
  <2>4. ServerAt(s, k) = 0
    <3>1. Wrap(s + k) = -(IntMax + 1)  BY <1>1, <2>1, <2>3 DEF Wrap, Modulus
    <3>2. QED  BY <1>1, <2>2, <3>1 DEF ServerAt, GoRem
  <2>5. ServerAt(s, j) = (s + j) % N
    <3>1. Wrap(s + j) = s + j  BY <1>1, <2>1, <2>3 DEF Wrap
    <3>2. QED  BY <1>1, <1>3, <3>1 DEF ServerAt, GoRem
  <2>6. (s + j) % N # (IntMax + 1) % N
    <3> DEFINE a == s + j
               b == IntMax + 1
    <3>1. a \in Nat /\ b \in Nat /\ a < b /\ b - a < N
      BY <1>1, <1>3, <2>1, <2>3
    <3> HIDE DEF a, b
    <3>2. a % N # b % N  BY <1>1, <3>1, Residues
    <3>3. QED  BY <3>2 DEF a, b
  <2>7. QED  BY <2>2, <2>4, <2>5, <2>6
<1>4. CASE s < 0
  <2>1. Wrap(s + 0) = s /\ Wrap(s + 1) = s + 1  BY <1>1, <1>4 DEF Wrap
  <2>2. ServerAt(s, 0) >= 0 /\ ServerAt(s, 1) >= 0  BY <1>1
  <2>3. (- s) % N \in 0..(N - 1) /\ (- (s + 1)) % N \in 0..(N - 1)
    BY <1>1, <1>4, Modular
  <2>4. (- s) % N = 0
    BY <1>1, <1>4, <2>1, <2>2, <2>3 DEF ServerAt, GoRem
  <2>5. (- (s + 1)) % N = 0
    <3>1. CASE s + 1 < 0
      BY <1>1, <3>1, <2>1, <2>2, <2>3 DEF ServerAt, GoRem
    <3>2. CASE s + 1 = 0
      BY <1>1, <3>2
    <3>3. QED  BY <1>1, <1>4, <3>1, <3>2
  <2>6. (- (s + 1)) % N # (- s) % N
    <3> DEFINE a == - (s + 1)
               b == - s
    <3>1. a \in Nat /\ b \in Nat /\ a < b /\ b - a < N  BY <1>1, <1>4
    <3> HIDE DEF a, b
    <3>2. a % N # b % N  BY <1>1, <3>1, Residues
    <3>3. QED  BY <3>2 DEF a, b
  <2>7. QED  BY <2>4, <2>5, <2>6
<1>5. QED  BY <1>1, <1>2, <1>3, <1>4

-----------------------------------------------------------------------------
(* Failing over, as module Failover promises it.                           *)

\* An exchange draws its offset before it asks anyone, has an outcome exactly
\* when it is over, and did not panic at the servers it has moved on from.
FailoverInv ==
    \A e \in Exchanges :
        /\ pc[e] = "idle" => i[e] = 0
        /\ outcome[e] = None <=> pc[e] # "done"
        /\ \A j \in 0..(i[e] - 1) : ServerAt(start[e], j) >= 0

LEMMA FailoverInit == Init => FailoverInv
BY DEF Init, FailoverInv

\* The outcomes there are.
LEMMA Outcomes ==
    ASSUME NEW s \in Servers, NEW how \in {"reply", "retry", "cut"}
    PROVE  [server |-> s, how |-> how] \notin {None, Failed}
BY ResolverAssumption

LEMMA IndexIsServerAt ==
    ASSUME NEW e \in Exchanges PROVE Index(e) = ServerAt(start[e], i[e])
BY DEF Index, ServerAt

\* What the steps that end an exchange have in common.
LEMMA Ends ==
    ASSUME ResolverInv, NEW e \in Exchanges,
           ServerReplies(e) \/ RetryReplies(e) \/ RetryFails(e)
    PROVE  /\ Index(e) \in Servers /\ pc[e] \in {"trying", "retrying"}
           /\ \E how \in {"reply", "retry", "cut"} : Returns(e, how)
<1>1. CASE ServerReplies(e)
  BY <1>1, Offsets DEF ServerReplies, Trying
<1>2. CASE RetryReplies(e) \/ RetryFails(e)
  BY <1>2, ResolverAssumption DEF RetryReplies, RetryFails, ResolverInv, RetryInv
<1>3. QED  BY <1>1, <1>2

LEMMA FailoverStep ==
    ResolverInv /\ FailoverInv /\ [Next]_vars => FailoverInv'
<1> SUFFICES ASSUME ResolverInv, FailoverInv, [Next]_vars PROVE FailoverInv'
  OBVIOUS
<1>1. CASE UNCHANGED vars  BY <1>1 DEF vars, FailoverInv
<1>2. ASSUME NEW e \in Exchanges, Begin(e) PROVE FailoverInv'
  BY <1>2, ResolverAssumption DEF Begin, FailoverInv, ResolverInv, TypeOK, Servers
<1>3. ASSUME NEW e \in Exchanges, Panic(e) PROVE FailoverInv'
  BY <1>3 DEF Panic, FailoverInv
<1>4. ASSUME NEW e \in Exchanges, ServerFails(e) PROVE FailoverInv'
  <2> USE <1>4 DEF ServerFails, Trying
  <2>1. \A j \in 0..(i'[e] - 1) : ServerAt(start[e], j) >= 0
    <3>1. i'[e] = i[e] + 1 /\ i[e] \in Nat
      BY ResolverAssumption DEF ResolverInv, TypeOK, Servers
    <3>2. ServerAt(start[e], i[e]) >= 0  BY IndexIsServerAt
    <3>3. QED  BY <3>1, <3>2 DEF FailoverInv
  <2>2. \A f \in Exchanges \ {e} : i'[f] = i[f]  BY DEF ResolverInv, TypeOK
  <2>3. QED  BY <2>1, <2>2 DEF FailoverInv
<1>5. ASSUME NEW e \in Exchanges, ReplyIsCut(e) PROVE FailoverInv'
  BY <1>5 DEF ReplyIsCut, Trying, FailoverInv, ResolverInv, TypeOK
<1>6. ASSUME NEW e \in Exchanges, AllFail(e) PROVE FailoverInv'
  BY <1>6, ResolverAssumption
  DEF AllFail, Trying, End, FailoverInv, ResolverInv, TypeOK
<1>7. ASSUME NEW e \in Exchanges,
             ServerReplies(e) \/ RetryReplies(e) \/ RetryFails(e)
      PROVE  FailoverInv'
  <2>1. PICK how \in {"reply", "retry", "cut"} : Returns(e, how)  BY <1>7, Ends
  <2>2. [server |-> Index(e), how |-> how] # None  BY <1>7, Ends, Outcomes
  <2>3. QED  BY <2>1, <2>2 DEF Returns, End, FailoverInv, ResolverInv, TypeOK
<1>8. QED
  BY <1>1, <1>2, <1>3, <1>4, <1>5, <1>6, <1>7 DEF Next, Step

LEMMA FailoverInvariant == Spec => []FailoverInv
BY FailoverInit, FailoverStep, ResolverInvariant, PTL DEF Spec

\* The server an exchange is at is not one that has failed it.
LEMMA NotYetRefused ==
    ASSUME ResolverInv, FailoverInv, NEW e \in Exchanges, Index(e) >= 0
    PROVE  /\ Index(e) \in Servers
           /\ Index(e) \notin {ServerAt(start[e], j) : j \in 0..(i[e] - 1)}
<1>1. Index(e) \in Servers /\ start[e] \in Ints /\ i[e] \in Servers /\ i[e] \in Nat
  BY Offsets, ResolverAssumption DEF Servers
<1>2. \A m \in 0..i[e] : ServerAt(start[e], m) >= 0
  BY <1>1, IndexIsServerAt DEF FailoverInv
<1>3. \A j \in 0..(i[e] - 1) : ServerAt(start[e], j) # ServerAt(start[e], i[e])
  BY <1>1, <1>2, Distinct
<1>4. QED  BY <1>1, <1>3, IndexIsServerAt

\* After k distinct servers all have been asked exactly if there are k.
LEMMA Exhausted ==
    ASSUME NEW s \in Ints, NEW k \in Servers,
           \A m \in 0..k : ServerAt(s, m) >= 0
    PROVE  {ServerAt(s, j) : j \in 0..k} = Servers <=> k + 1 = N
<1> DEFINE f == [j \in 0..k |-> ServerAt(s, j)]
<1>1. k \in Nat /\ N \in Nat /\ s \in Int /\ 0 \in Int /\ N - 1 \in Int
  BY ResolverAssumption DEF Servers, Ints
<1>2. \A j \in 0..k : ServerAt(s, j) \in Servers
  <2>1. SUFFICES ASSUME NEW j \in 0..k PROVE ServerAt(s, j) \in Servers  OBVIOUS
  <2>2. Wrap(s + j) \in Int  BY <1>1, <2>1, WrapTyped
  <2>3. QED  BY <2>1, <2>2, RemainderRange DEF ServerAt
<1>3. f \in Injection(0..k, Servers)
  <2>1. ASSUME NEW a \in 0..k, NEW b \in 0..k, a < b PROVE f[a] # f[b]
    <3>1. b \in Servers /\ a \in 0..(b - 1) /\ \A m \in 0..b : ServerAt(s, m) >= 0
      BY <2>1, <1>1 DEF Servers
    <3>2. QED  BY <3>1, Distinct
  <2>2. \A a, b \in 0..k : f[a] = f[b] => a = b
    BY <1>1, <2>1
  <2>3. QED  BY <1>2, <2>2 DEF Injection, IsInjective
<1>4. IsFiniteSet(0..k) /\ Cardinality(0..k) = k + 1
  BY <1>1, FS_Interval
<1>5. IsFiniteSet(Servers) /\ Cardinality(Servers) = N
  BY <1>1, FS_Interval, ResolverAssumption DEF Servers
<1>6. k + 1 = N <=> f \in Surjection(0..k, Servers)
  BY <1>3, <1>4, <1>5, FS_Injection
<1>7. f \in Surjection(0..k, Servers) <=> {f[j] : j \in 0..k} = Servers
  BY <1>2 DEF Surjection
<1>8. {f[j] : j \in 0..k} = {ServerAt(s, j) : j \in 0..k}  OBVIOUS
<1>9. QED  BY <1>6, <1>7, <1>8

\* The state of the promise: the servers an exchange has moved on from.
Refused(e) ==
    IF outcome[e] = Failed THEN Servers
    ELSE {ServerAt(start[e], j) : j \in 0..(i[e] - 1)}

Refusals == [e \in Exchanges |-> Refused(e)]

LEMMA FailoverMapsInit == Init => Promise!Init
<1> SUFFICES ASSUME Init PROVE Promise!Init  OBVIOUS
<1>1. ASSUME NEW e \in Exchanges
      PROVE  {GoRem(Wrap(start[e] + j), N) : j \in 0..(i[e] - 1)} = {}
  BY DEF Init
<1>2. \A e \in Exchanges : outcome[e] # Failed
  BY ResolverAssumption DEF Init
<1>3. QED  BY <1>1, <1>2 DEF Init, Promise!Init

\* A step that ends no exchange and moves none on is a stutter.
LEMMA SameRefusals ==
    ASSUME \A e \in Exchanges : Refused(e)' = Refused(e), UNCHANGED outcome
    PROVE  UNCHANGED Promise!vars
BY DEF Promise!vars, Refused, ServerAt

LEMMA StutteringSteps ==
    ASSUME ResolverInv, FailoverInv, NEW e \in Exchanges,
           Begin(e) \/ Panic(e) \/ ReplyIsCut(e)
    PROVE  UNCHANGED Promise!vars
<1>1. CASE Begin(e)
  <2>1. ASSUME NEW f \in Exchanges PROVE Refused(f)' = Refused(f)
    <3>1. CASE f = e
      <4>1. i[e] = 0 /\ i'[e] = 0  BY <1>1 DEF Begin, FailoverInv
      <4>2. \A j : j \notin 0..(i[e] - 1) /\ j \notin 0..(i'[e] - 1)  BY <4>1
      <4>3. /\ {ServerAt(start[e], j) : j \in 0..(i[e] - 1)} = {}
            /\ {ServerAt(start'[e], j) : j \in 0..(i'[e] - 1)} = {}
        BY <4>2
      <4>4. UNCHANGED outcome  BY <1>1 DEF Begin
      <4>5. Refused(e)' = Refused(e)
        <5> DEFINE now == {ServerAt(start[e], j) : j \in 0..(i[e] - 1)}
                   next == {ServerAt(start'[e], j) : j \in 0..(i'[e] - 1)}
        <5>1. /\ Refused(e) = IF outcome[e] = Failed THEN Servers ELSE now
              /\ Refused(e)' = IF outcome'[e] = Failed THEN Servers ELSE next
          BY DEF Refused, ServerAt
        <5> HIDE DEF now, next
        <5>2. now = next  BY <4>3 DEF now, next
        <5>3. QED  BY <4>4, <5>1, <5>2
      <4>6. QED  BY <3>1, <4>5
    <3>2. CASE f # e
      <4>1. start'[f] = start[f]  BY <1>1, <3>2 DEF Begin, ResolverInv, TypeOK
      <4>2. QED  BY <1>1, <4>1 DEF Begin, Refused
    <3>3. QED  BY <3>1, <3>2
  <2>2. QED  BY <1>1, <2>1, SameRefusals DEF Begin
<1>2. CASE Panic(e)
  BY <1>2, SameRefusals DEF Panic, Refused
<1>3. CASE ReplyIsCut(e)
  BY <1>3, SameRefusals DEF ReplyIsCut, Refused
<1>4. QED  BY <1>1, <1>2, <1>3

\* ServerFails is Refuse: another server is left.
LEMMA RefuseStep ==
    ASSUME ResolverInv, FailoverInv, NEW e \in Exchanges, ServerFails(e)
    PROVE  Promise!Refuse(e)
<1> USE DEF ServerFails, Trying
<1> DEFINE s == Index(e)
<1>1. /\ outcome[e] = None /\ outcome[e] # Failed
      /\ i[e] \in Nat /\ i'[e] = i[e] + 1 /\ i[e] \in Servers /\ start[e] \in Ints
  BY Offsets, ResolverAssumption DEF FailoverInv, ResolverInv, TypeOK, Servers
<1>2. s \in Servers /\ s \notin Refused(e)
  BY <1>1, NotYetRefused DEF Refused
<1>3. {ServerAt(start[e], j) : j \in 0..i[e]} = Refused(e) \cup {s}
  BY <1>1, IndexIsServerAt DEF Refused
<1>4. Refused(e)' = Refused(e) \cup {s}
  <2>1. i'[e] - 1 = i[e] /\ start' = start /\ outcome'[e] # Failed  BY <1>1
  <2>2. Refused(e)' = {ServerAt(start[e], j) : j \in 0..i[e]}
    BY <2>1 DEF Refused, ServerAt
  <2>3. QED  BY <1>3, <2>2
<1>5. Refused(e) \cup {s} # Servers
  <2>1. \A m \in 0..i[e] : ServerAt(start[e], m) >= 0
    BY <1>1, IndexIsServerAt DEF FailoverInv
  <2>2. i[e] + 1 # N  BY <1>1, ResolverAssumption
  <2>3. QED  BY <1>1, <1>3, <2>1, <2>2, Exhausted
<1>6. \A f \in Exchanges \ {e} : Refused(f)' = Refused(f)
  BY DEF Refused, ServerAt, ResolverInv, TypeOK
<1>7. Refusals' = [Refusals EXCEPT ![e] = @ \cup {s}]
  BY <1>4, <1>6 DEF Refusals
<1>8. QED
  BY <1>1, <1>2, <1>5, <1>7 DEF Promise!Refuse, Refusals, Refused, ServerAt

\* AllFail is Fail: every server has failed.
LEMMA FailStep ==
    ASSUME ResolverInv, FailoverInv, NEW e \in Exchanges, AllFail(e)
    PROVE  Promise!Fail(e)
<1> USE DEF AllFail, Trying, End
<1> DEFINE s == Index(e)
<1>1. /\ outcome[e] = None /\ outcome[e] # Failed /\ outcome'[e] = Failed
      /\ i[e] \in Nat /\ i[e] \in Servers /\ start[e] \in Ints
  BY Offsets, ResolverAssumption DEF FailoverInv, ResolverInv, TypeOK, Servers
<1>2. s \in Servers /\ s \notin Refused(e)
  BY <1>1, NotYetRefused DEF Refused
<1>3. {ServerAt(start[e], j) : j \in 0..i[e]} = Refused(e) \cup {s}
  BY <1>1, IndexIsServerAt DEF Refused
<1>4. Refused(e) \cup {s} = Servers
  <2>1. \A m \in 0..i[e] : ServerAt(start[e], m) >= 0
    BY <1>1, IndexIsServerAt DEF FailoverInv
  <2>2. QED  BY <1>1, <1>3, <2>1, Exhausted
<1>5. Refusals' = [Refusals EXCEPT ![e] = Servers]
  <2>1. \A f \in Exchanges \ {e} : Refused(f)' = Refused(f)
    BY DEF Refused, ServerAt, ResolverInv, TypeOK
  <2>2. Refused(e)' = Servers  BY <1>1 DEF Refused
  <2>3. QED  BY <2>1, <2>2 DEF Refusals
<1>6. QED
  BY <1>1, <1>2, <1>4, <1>5 DEF Promise!Fail, Refusals, Refused, ServerAt

\* The steps that return a reply are Answer.
LEMMA AnswerStep ==
    ASSUME ResolverInv, FailoverInv, NEW e \in Exchanges,
           ServerReplies(e) \/ RetryReplies(e) \/ RetryFails(e)
    PROVE  Promise!Answer(e)
<1> USE DEF Returns, End
<1> DEFINE s == Index(e)
<1>1. PICK how \in {"reply", "retry", "cut"} : Returns(e, how)  BY Ends
<1>2. s \in Servers /\ pc[e] # "done"  BY Ends
<1>3. outcome[e] = None /\ outcome[e] # Failed
  BY <1>2, ResolverAssumption DEF FailoverInv
<1>4. s \notin Refused(e)
  BY <1>2, <1>3, NotYetRefused, ResolverAssumption DEF Refused, Servers
<1>5. \A f \in Exchanges : Refused(f)' = Refused(f)
  <2>1. outcome'[e] # Failed
    BY <1>1, <1>2, Outcomes DEF ResolverInv, TypeOK
  <2>2. QED  BY <1>1, <1>3, <2>1 DEF Refused, ServerAt, ResolverInv, TypeOK
<1>6. Refusals' = Refusals  BY <1>5 DEF Refusals
<1>7. QED
  BY <1>1, <1>2, <1>3, <1>4, <1>6 DEF Promise!Answer, Refusals, Refused, ServerAt

LEMMA FailoverMapsSteps ==
    ResolverInv /\ FailoverInv /\ [Next]_vars => [Promise!Next]_Promise!vars
<1> SUFFICES ASSUME ResolverInv, FailoverInv, [Next]_vars
             PROVE  [Promise!Next]_Promise!vars
  OBVIOUS
<1>1. CASE UNCHANGED vars
  BY <1>1, SameRefusals DEF vars, Refused
<1>2. CASE Next
  BY <1>2, StutteringSteps, RefuseStep, FailStep, AnswerStep
  DEF Next, Step, Promise!Next
<1>3. QED  BY <1>1, <1>2

-----------------------------------------------------------------------------
(* A cut reply.                                                            *)

LEMMA CutStep ==
    ASSUME ResolverInv, [Next]_vars, NEW e \in Exchanges,
           outcome'[e] # outcome[e], outcome'[e] # Failed,
           outcome'[e].how = "cut", outcome'[e].server \in UDP
    PROVE  pc[e] = "retrying" /\ outcome'[e].server = Index(e)
<1>1. PICK f \in Exchanges : Begin(f) \/ Step(f)
  BY DEF vars, Next
<1>2. AllFail(f) \/ ServerReplies(f) \/ RetryReplies(f) \/ RetryFails(f)
  BY <1>1 DEF Step, Begin, Panic, ServerFails, ReplyIsCut
<1>3. f = e  BY <1>2
  DEF AllFail, ServerReplies, RetryReplies, RetryFails, Returns, End, ResolverInv, TypeOK
<1>4. CASE AllFail(f)
  BY <1>3, <1>4 DEF AllFail, End, ResolverInv, TypeOK
<1>5. CASE ServerReplies(f)
  BY <1>3, <1>5 DEF ServerReplies, Returns, End, ResolverInv, TypeOK
<1>6. CASE RetryReplies(f)
  BY <1>3, <1>6 DEF RetryReplies, Returns, End, ResolverInv, TypeOK
<1>7. CASE RetryFails(f)
  BY <1>3, <1>7 DEF RetryFails, Returns, End, ResolverInv, TypeOK
<1>8. QED  BY <1>2, <1>4, <1>5, <1>6, <1>7

-----------------------------------------------------------------------------
(* Load is spread.                                                         *)

\* Until an offset wraps, the exchanges that have begun drew the offsets below
\* the cursor, each of them once.
Begun == {e \in Exchanges : pc[e] # "idle"}
OffsetsFit == \A e \in Exchanges : start[e] >= 0

SpreadInv ==
    /\ \A e \in Exchanges : pc[e] = "idle" => start[e] = 0
    /\ OffsetsFit =>
          /\ cursor <= IntMax + 1
          /\ \A e \in Begun : start[e] \in 0..(cursor - 1)
          /\ \A e, f \in Begun : start[e] = start[f] => e = f
          /\ \A v \in 0..(cursor - 1) : \E e \in Begun : start[e] = v

LEMMA SpreadInit == Init => SpreadInv
BY ResolverAssumption DEF Init, SpreadInv, Begun

LEMMA SpreadBegins ==
    ASSUME ResolverInv, SpreadInv, NEW e \in Exchanges, Begin(e)
    PROVE  SpreadInv'
<1> USE DEF Begin
<1>1. \A f \in Exchanges : pc'[f] = "idle" => start'[f] = 0
  BY DEF SpreadInv, ResolverInv, TypeOK
<1>2. ASSUME OffsetsFit'
      PROVE  /\ cursor' <= IntMax + 1
             /\ \A f \in Begun' : start'[f] \in 0..(cursor' - 1)
             /\ \A f, g \in Begun' : start'[f] = start'[g] => f = g
             /\ \A v \in 0..(cursor' - 1) : \E f \in Begun' : start'[f] = v
  <2>1. /\ cursor \in Nat /\ IntMax \in Nat /\ IntMax >= 1
        /\ cursor < Modulus /\ Modulus = 2 * (IntMax + 1)
    BY ResolverAssumption DEF ResolverInv, TypeOK, Modulus
  <2>2. start'[e] = Wrap(cursor) /\ \A f \in Exchanges \ {e} : start'[f] = start[f]
    BY DEF ResolverInv, TypeOK
  <2>3. cursor <= IntMax /\ start'[e] = cursor
    BY <1>2, <2>1, <2>2 DEF OffsetsFit, Wrap
  <2>4. OffsetsFit
    BY <1>2, <2>2 DEF OffsetsFit, SpreadInv
  <2>5. cursor' = cursor + 1
    <3>1. cursor + 1 < Modulus /\ cursor + 1 \in Nat /\ Modulus \in Nat  BY <2>1, <2>3
    <3>2. QED  BY <3>1
  <2>6. Begun' = Begun \cup {e} /\ e \notin Begun
    BY DEF Begun, ResolverInv, TypeOK
  <2>7. \A f \in Begun : start'[f] = start[f] /\ start[f] \in 0..(cursor - 1)
    BY <2>2, <2>4, <2>6 DEF SpreadInv, Begun
  <2>8. \A f \in Begun' : start'[f] \in 0..(cursor' - 1)
    BY <2>1, <2>3, <2>5, <2>6, <2>7
  <2>9. \A f, g \in Begun' : start'[f] = start'[g] => f = g
    BY <2>1, <2>3, <2>4, <2>6, <2>7 DEF SpreadInv
  <2>10. \A v \in 0..(cursor' - 1) : \E f \in Begun' : start'[f] = v
    <3>1. SUFFICES ASSUME NEW v \in 0..cursor PROVE \E f \in Begun' : start'[f] = v
      BY <2>1, <2>5
    <3>2. CASE v = cursor  BY <2>3, <2>6, <3>2
    <3>3. CASE v # cursor
      <4>1. PICK f \in Begun : start[f] = v
        BY <2>1, <2>4, <3>3 DEF SpreadInv
      <4>2. QED  BY <2>6, <2>7, <4>1
    <3>4. QED  BY <3>2, <3>3
  <2>11. QED  BY <2>1, <2>3, <2>5, <2>8, <2>9, <2>10
<1>3. QED  BY <1>1, <1>2 DEF SpreadInv

LEMMA SpreadStep == ResolverInv /\ SpreadInv /\ [Next]_vars => SpreadInv'
<1> SUFFICES ASSUME ResolverInv, SpreadInv, [Next]_vars PROVE SpreadInv'
  OBVIOUS
<1>1. CASE UNCHANGED vars
  BY <1>1 DEF vars, SpreadInv, OffsetsFit, Begun
<1>2. ASSUME NEW e \in Exchanges, Step(e) PROVE SpreadInv'
  <2>1. /\ UNCHANGED <<cursor, start>> /\ pc[e] # "idle"
        /\ \/ UNCHANGED pc
           \/ \E p \in {"retrying", "done"} : pc' = [pc EXCEPT ![e] = p]
    BY <1>2 DEF Step, Panic, ServerFails, AllFail, ServerReplies, ReplyIsCut,
                RetryReplies, RetryFails, Returns, End, Trying
  <2>2. \A f \in Exchanges : pc'[f] = "idle" <=> pc[f] = "idle"
    BY <2>1 DEF ResolverInv, TypeOK
  <2>3. Begun' = Begun  BY <2>2 DEF Begun
  <2>4. QED  BY <2>1, <2>2, <2>3 DEF SpreadInv, OffsetsFit
<1>3. QED  BY <1>1, <1>2, SpreadBegins DEF Next

LEMMA SpreadInvariant == Spec => []SpreadInv
BY SpreadInit, SpreadStep, ResolverInvariant, PTL DEF Spec

\* One round on: from an offset with remainder s to one with remainder t.
LEMMA ShiftRemainder ==
    ASSUME NEW v \in Nat, NEW t \in Servers, v >= N
    PROVE  /\ v - (v % N) - N + t \in Nat
           /\ (v - (v % N) - N + t) % N = t
<1> DEFINE p == v \div N
           s == v % N
           u == N * (p - 1) + t
<1>1. N \in Nat /\ N > 0 /\ t \in Nat /\ t < N
  BY ResolverAssumption DEF Servers
<1>2. p \in Int /\ s \in 0..(N - 1) /\ v = N * p + s  BY <1>1
<1> HIDE DEF p, s
<1>3. p >= 1
  <2>1. SUFFICES ASSUME p <= 0 PROVE FALSE  BY <1>2
  <2>2. N * p <= 0  BY <1>1, <1>2, <2>1
  <2>3. QED  BY <1>1, <1>2, <2>2
<1>4. u = v - s - N + t /\ u \in Nat
  <2>1. N * (p - 1) = N * p - N  BY <1>1, <1>2
  <2>2. N * (p - 1) >= 0  BY <1>1, <1>2, <1>3
  <2>3. QED  BY <1>1, <1>2, <2>1, <2>2
<1>5. u % N = t  BY <1>1, <1>2, <1>3
<1>6. QED  BY <1>4, <1>5 DEF s

\* The exchanges that began with server s, but for the very first.
AfterFirst(s) == {e \in BeganWith(s) : start[e] # s}

\* Each exchange after the first that began with s has one of its own that began
\* with t in the round before.
LEMMA OneRoundBefore ==
    ASSUME ResolverInv, SpreadInv, OffsetsFit, NEW s \in Servers, NEW t \in Servers
    PROVE  \E h : h \in Injection(AfterFirst(s), BeganWith(t))
<1> DEFINE w(e) == start[e] - s - N + t
           h == [e \in AfterFirst(s) |-> CHOOSE f \in Begun : start[f] = w(e)]
<1>1. /\ N \in Nat \ {0} /\ s \in Nat /\ t \in Nat /\ s < N /\ t < N /\ cursor \in Nat
  BY ResolverAssumption DEF Servers, ResolverInv, TypeOK
<1>2. \A e \in Exchanges : start[e] \in Nat /\ GoRem(start[e], N) = start[e] % N
  BY ResolverAssumption DEF OffsetsFit, ResolverInv, TypeOK, GoRem
<1>3. ASSUME NEW e \in AfterFirst(s)
      PROVE  w(e) \in 0..(cursor - 1) /\ w(e) % N = t
  <2>1. /\ e \in Begun /\ start[e] \in Nat /\ start[e] % N = s /\ start[e] # s
        /\ start[e] \in 0..(cursor - 1)
    BY <1>2 DEF AfterFirst, BeganWith, Begun, SpreadInv
  <2>2. start[e] >= N
    <3>1. SUFFICES ASSUME start[e] < N PROVE FALSE  BY <1>1, <2>1
    <3>2. start[e] % N = start[e]  BY <1>1, <2>1, <3>1
    <3>3. QED  BY <2>1, <3>2
  <2>3. w(e) \in Nat /\ w(e) % N = t  BY <2>1, <2>2, ShiftRemainder
  <2>4. QED  BY <1>1, <2>1, <2>3
<1>4. ASSUME NEW e \in AfterFirst(s)
      PROVE  h[e] \in BeganWith(t) /\ start[h[e]] = w(e)
  <2>1. \E f \in Begun : start[f] = w(e)  BY <1>3 DEF SpreadInv
  <2>2. h[e] \in Begun /\ start[h[e]] = w(e)  BY <2>1
  <2>3. QED  BY <1>2, <1>3, <2>2 DEF BeganWith, Begun
<1>5. ASSUME NEW e \in AfterFirst(s), NEW f \in AfterFirst(s), h[e] = h[f]
      PROVE  e = f
  <2>1. w(e) = w(f)  BY <1>4, <1>5
  <2>2. start[e] \in Nat /\ start[f] \in Nat  BY <1>2 DEF AfterFirst, BeganWith
  <2>3. start[e] = start[f]  BY <1>1, <2>1, <2>2
  <2>4. QED  BY <2>3 DEF SpreadInv, AfterFirst, BeganWith, Begun
<1>6. h \in Injection(AfterFirst(s), BeganWith(t))
  <2>1. h \in [AfterFirst(s) -> BeganWith(t)]  BY <1>4
  <2>2. IsInjective(h)  BY <1>5 DEF IsInjective
  <2>3. QED  BY <2>1, <2>2 DEF Injection
<1>7. QED  BY <1>6

LEMMA BeganFinite ==
    ASSUME ResolverInv, SpreadInv, OffsetsFit, NEW s \in Servers
    PROVE  IsFiniteSet(BeganWith(s))
<1> DEFINE h == [e \in BeganWith(s) |-> start[e]]
<1>1. h \in Injection(BeganWith(s), 0..(cursor - 1))
  BY DEF Injection, IsInjective, BeganWith, Begun, SpreadInv
<1>2. cursor - 1 \in Int  BY DEF ResolverInv, TypeOK
<1>3. IsFiniteSet(0..(cursor - 1))  BY <1>2, FS_Interval
<1>4. QED  BY <1>1, <1>3, FS_Injection

LEMMA SpreadBound == ResolverInv /\ SpreadInv => LoadIsSpread
<1> SUFFICES ASSUME ResolverInv, SpreadInv, OffsetsFit,
                    NEW s \in Servers, NEW t \in Servers
             PROVE  Cardinality(BeganWith(s)) <= Cardinality(BeganWith(t)) + 1
  BY DEF LoadIsSpread, OffsetsFit
<1>1. IsFiniteSet(BeganWith(s)) /\ IsFiniteSet(BeganWith(t))  BY BeganFinite
<1>2. /\ IsFiniteSet(AfterFirst(s))
      /\ Cardinality(AfterFirst(s)) <= Cardinality(BeganWith(t))
  <2>1. PICK h : h \in Injection(AfterFirst(s), BeganWith(t))  BY OneRoundBefore
  <2>2. QED  BY <1>1, <2>1, FS_Injection
<1>3. CASE \E e \in BeganWith(s) : start[e] = s
  <2>1. PICK e \in BeganWith(s) : start[e] = s  BY <1>3
  <2>2. AfterFirst(s) = BeganWith(s) \ {e}
    BY <2>1 DEF AfterFirst, BeganWith, SpreadInv, Begun
  <2>3. Cardinality(AfterFirst(s)) = Cardinality(BeganWith(s)) - 1
    BY <1>1, <2>1, <2>2, FS_RemoveElement
  <2>4. QED  BY <1>1, <1>2, <2>3, FS_CardinalityType
<1>4. CASE ~ \E e \in BeganWith(s) : start[e] = s
  <2>1. AfterFirst(s) = BeganWith(s)  BY <1>4 DEF AfterFirst
  <2>2. QED  BY <1>1, <1>2, <2>1, FS_CardinalityType
<1>5. QED  BY <1>3, <1>4

-----------------------------------------------------------------------------
(* The theorems.                                                           *)

\* The cursor and the offsets stay ints, every outcome names a server there is,
\* and no exchange goes round its servers twice (resolver.go:184-206).
THEOREM TypeCorrect == Spec => []TypeOK
<1>1. ResolverInv => TypeOK  BY DEF ResolverInv
<1>2. QED  BY <1>1, ResolverInvariant, PTL

\* The index into the servers is never negative while every offset drawn leaves
\* room for N servers below the largest int (resolver.go:184-188).
THEOREM NoPanicBelowIntMax == Spec => []PanicsOnlyPastIntMax
<1>1. ResolverInv => PanicsOnlyPastIntMax  BY DEF ResolverInv
<1>2. QED  BY <1>1, ResolverInvariant, PTL

\* A reply with its TC bit set, of a server asked over UDP, is what a client gets
\* only once the same server has been asked over TCP in vain, whatever the
\* exchanges beside it do (resolver.go:196-203).
THEOREM TruncatedOnlyAfterTCP == Spec => CutOnlyAfterTCP
<1>1. ResolverInv /\ [Next]_vars =>
        [\A e \in Exchanges :
            (outcome'[e] # outcome[e] /\ outcome'[e] # Failed) =>
                (outcome'[e].how = "cut" /\ outcome'[e].server \in UDP
                    => pc[e] = "retrying" /\ outcome'[e].server = Index(e))]_vars
  BY CutStep
<1>2. QED  BY <1>1, ResolverInvariant, PTL DEF Spec, CutOnlyAfterTCP

\* Exchange implements Failover: at whatever offset an exchange begins, and
\* wherever the sum overflows, it asks a server that has not failed it yet, and
\* it fails only when all of them have (resolver.go:184-208).
THEOREM ImplementsFailover == Spec => FailsOver
BY FailoverMapsInit, FailoverMapsSteps, ResolverInvariant, FailoverInvariant, PTL
DEF Spec, FailsOver, Promise!Spec

\* However the exchanges interleave on the cursor, no server is begun with by
\* two more exchanges than another, as long as no offset has wrapped: round robin
\* is exact, whatever the order in which exchanges are scheduled
\* (resolver.go:117-121 and resolver.go:184).
THEOREM RoundRobinIsFair == Spec => []LoadIsSpread
BY SpreadBound, ResolverInvariant, SpreadInvariant, PTL
=============================================================================
