--------------------------- MODULE ServiceProofs ---------------------------
(***************************************************************************)
(* What Handler keeps of its promises, for any number of queries, any      *)
(* configurations, any reloads and any upstream: the counters add up, and  *)
(* every query is answered as module DnsService answers it, by the one     *)
(* runtime in force when it came in.                                       *)
(***************************************************************************)
EXTENDS HandlerProofs, FiniteSetTheorems

-----------------------------------------------------------------------------
(* The service judges by the same policy as the handler.                   *)

LEMMA SamePatterns ==
    /\ \A p, n : Service!MatchPattern(p, n) <=> MatchPattern(p, n)
    /\ \A p : Service!Score(p) = Score(p)
<1>1. \A p : Service!LeadingStar(p) <=> LeadingStar(p)
  BY DEF Service!LeadingStar, LeadingStar
<1>2. \A p, n : Service!MatchPattern(p, n) <=> MatchPattern(p, n)
  BY <1>1 DEF Service!MatchPattern, MatchPattern
<1>3. ASSUME NEW p PROVE Service!Literals(p) = Literals(p)
  BY Zenon DEF Service!Literals, Literals, Service!LiteralsUpTo, LiteralsUpTo,
               Service!Cardinality, Cardinality
<1>4. \A p : Service!Score(p) = Score(p)
  BY <1>1, <1>3 DEF Service!Score, Score, Service!ScoreOf, ScoreOf
<1>5. QED  BY <1>2, <1>4

LEMMA SameFilter ==
    ASSUME NEW f, NEW n
    PROVE  Service!ShouldFake(f, n) <=> ShouldFake(f, n)
<1>1. (\E p \in f.patterns : Service!MatchPattern(p, n))
         <=> (\E p \in f.patterns : MatchPattern(p, n))
  BY SamePatterns
<1>2. QED  BY <1>1 DEF Service!ShouldFake, ShouldFake

LEMMA SameLookups ==
    ASSUME NEW store, NEW t, NEW n
    PROVE  /\ Service!Lookup(store, t, n) = Lookup(store, t, n)
           /\ Service!LookupScore(store, t, n) = LookupScore(store, t, n)
           /\ Service!TypesFor(store, n) = TypesFor(store, n)
           /\ Service!Knows(store, n) <=> Knows(store, n)
<1>1. Service!Matching(store, t, n) = Matching(store, t, n)
  BY SamePatterns DEF Service!Matching, Matching, Service!ByType, ByType
<1>2. Service!Best(store, t, n) = Best(store, t, n)
  BY <1>1, SamePatterns DEF Service!Best, Best
<1>3. \A K : Service!First(K) = First(K)  BY DEF Service!First, First
<1>4. Service!Lookup(store, t, n) = Lookup(store, t, n)
  BY <1>2, <1>3 DEF Service!Lookup, Lookup
<1>5. Service!LookupScore(store, t, n) = LookupScore(store, t, n)
  BY <1>2, <1>3, SamePatterns DEF Service!LookupScore, LookupScore
<1>6. /\ Service!TypesFor(store, n) = TypesFor(store, n)
      /\ Service!Knows(store, n) <=> Knows(store, n)
  BY SamePatterns DEF Service!TypesFor, TypesFor, Service!Knows, Knows
<1>7. QED  BY <1>4, <1>5, <1>6

LEMMA SamePolicy ==
    ASSUME NEW c, NEW n, NEW type
    PROVE  /\ Service!AliasWins(c, n, type) <=> AliasWins(c, n, type)
           /\ Service!AliasRR(c, n) = AliasRR(c, n)
           /\ Service!Builds(n) <=> Builds(n)
           /\ Service!Build(c, Service!Direct(c, n, type), n)
                 = Build(c, Direct(c, n, type), n)
           /\ Service!AnyAnswer(c, n) = AnyAnswer(c, n)
<1>1. \A t : Service!Direct(c, n, t) = Direct(c, n, t)
  BY SameLookups DEF Service!Direct, Direct
<1>2. Service!Aliases(c, n) = Aliases(c, n)
  BY SameLookups DEF Service!Aliases, Aliases
<1>3. Service!AliasWins(c, n, type) <=> AliasWins(c, n, type)
  BY <1>1, <1>2, SameLookups
  DEF Service!AliasWins, AliasWins, Service!Chases, Chases, Service!Address, Address
<1>4. Service!AliasRR(c, n) = AliasRR(c, n)
  <2>1. Service!First(Aliases(c, n)) = First(Aliases(c, n))
    BY DEF Service!First, First
  <2>2. QED  BY <1>2, <2>1 DEF Service!AliasRR, AliasRR, Service!RR, RR
<1>5. Service!Builds(n) <=> Builds(n)  BY DEF Service!Builds, Builds
<1>6. \A K : Service!Build(c, K, n) = Build(c, K, n)
  BY <1>5 DEF Service!Build, Build, Service!RR, RR
<1>7. Service!AnyAnswer(c, n) = AnyAnswer(c, n)
  <2>1. Service!TypesFor(c.records, n) = TypesFor(c.records, n)  BY SameLookups
  <2>2. QED  BY <1>1, <1>6, <2>1 DEF Service!AnyAnswer, AnyAnswer
<1>8. QED  BY <1>1, <1>3, <1>4, <1>5, <1>6, <1>7

LEMMA SameAnswers ==
    /\ Service!BlockRcode = BlockRcode
    /\ \A ch, t, type : Service!Dangles(ch, t, type) <=> Dangles(ch, t, type)
    /\ \A ch : Service!Target(ch) = Target(ch)
BY DEF Service!BlockRcode, BlockRcode, Service!Dangles, Dangles,
       Service!Address, Address, Service!Target, Target

-----------------------------------------------------------------------------
(* A step of one goroutine leaves the others alone.                        *)

SameAt(r) ==
    /\ phase'[r] = phase[r] /\ req'[r] = req[r] /\ rt'[r] = rt[r]
    /\ name'[r] = name[r] /\ chain'[r] = chain[r] /\ tail'[r] = tail[r]
    /\ asked'[r] = asked[r] /\ result'[r] = result[r] /\ resp'[r] = resp[r]

LEMMA OthersUntouched ==
    ASSUME TypeOK, NEW q \in Queries, Receive(q) \/ Serve(q),
           NEW r \in Queries, r # q
    PROVE  SameAt(r)
<1> USE DEF TypeOK, Goto, Respond, SameAt, shared, cooking, upstream
<1>1. CASE Receive(q)  BY <1>1 DEF Receive
<1>2. CASE RejectUnsupported(q) \/ RejectClass(q) \/ NotEligible(q)
  BY <1>2 DEF RejectUnsupported, RejectClass, NotEligible
<1>3. CASE CookAny(q) \/ StartCook(q) \/ GiveUp(q)
  BY <1>3 DEF CookAny, StartCook, GiveUp
<1>4. CASE FollowAlias(q) \/ AliasUnbuildable(q) \/ TakeDirect(q)
  BY <1>4 DEF FollowAlias, AliasUnbuildable, TakeDirect
<1>5. CASE AnswerLocally(q) \/ Chase(q) \/ NoData(q) \/ NotOurs(q)
  BY <1>5 DEF AnswerLocally, Chase, NoData, NotOurs
<1>6. CASE Block(q) \/ Forward(q)
  BY <1>6 DEF Block, Forward
<1>7. CASE Upstream(q)
  BY <1>7 DEF Upstream, ChaseReply, ChaseFail, ProxyReply, ProxyFail
<1>8. CASE Write(q) \/ WriteFail(q)
  BY <1>8 DEF Write, WriteFail
<1>9. QED  BY <1>1, <1>2, <1>3, <1>4, <1>5, <1>6, <1>7, <1>8 DEF Serve, Cook

-----------------------------------------------------------------------------
(* What becomes of a query, by its place in the handler.                   *)

Kept(q) == rt[q].noData /\ Knows(rt[q].records, req[q].name)
LocalAnswer(q) == [chain |-> chain[q], tail |-> tail[q]]
Sent(q) == {a.name : a \in asked[q]}

Staged(q) ==
    /\ phase[q] = "idle" => req[q] = None /\ rt[q] = None
    /\ phase[q] \notin {"writing", "done"} => result[q] = None /\ resp[q] = None
    /\ phase[q] \notin {"idle", "opened", "writing", "done"} => Plain(q)
    /\ phase[q] = "cooking" => req[q].type # "ANY"
    /\ phase[q] = "chasing" =>
          /\ Eligible(q) /\ NeedsChase(q) /\ asked[q] # {}
    /\ phase[q] = "proxying" =>
          /\ NothingCooked(q) /\ ~ (Eligible(q) /\ Kept(q))
          /\ rt[q].fallback = "proxy" /\ asked[q] # {}
    /\ phase[q] = "writing" =>
          /\ resp[q] \in Messages
          /\ Service!Allowed(rt[q], req[q], LocalAnswer(q), Sent(q), resp[q])

\* Every CNAME of the chain could be built, under the name it answers for.
Built(q) == \A i \in DOMAIN chain[q] : Builds(NameAt(q, i - 1))

OutcomeInv == \A q \in Queries : Staged(q) /\ Built(q)

LEMMA OutcomeInit == Init => OutcomeInv
BY DEF Init, OutcomeInv, Staged, Built

LEMMA SameOutcome ==
    ASSUME NEW q \in Queries, SameAt(q), Staged(q), Built(q)
    PROVE  Staged(q)' /\ Built(q)'
BY DEF SameAt, Staged, Built, Plain, Eligible, NeedsChase, NothingCooked, Kept,
       LocalAnswer, Sent, NameAt

\* So it is enough to look at the query that moves.
LEMMA OneMoves ==
    ASSUME HandlerInv, OutcomeInv, NEW q \in Queries, Receive(q) \/ Serve(q),
           Staged(q)', Built(q)'
    PROVE  OutcomeInv'
<1>1. ASSUME NEW r \in Queries, r # q PROVE Staged(r)' /\ Built(r)'
  BY <1>1, OthersUntouched, SameOutcome DEF HandlerInv, OutcomeInv
<1>2. QED  BY <1>1 DEF OutcomeInv

LEMMA ReceiveStage ==
    ASSUME HandlerInv, OutcomeInv, NEW q \in Queries, Receive(q) PROVE OutcomeInv'
<1>1. Staged(q)'
  BY DEF Receive, HandlerInv, TypeOK, Goto, upstream, OutcomeInv, Staged
<1>2. chain'[q] = <<>>
  BY DEF Receive, cooking, HandlerInv, QueryInv, Placed
<1>3. Built(q)'  BY <1>2 DEF Built
<1>4. QED  BY <1>1, <1>3, OneMoves

\* The steps of cook, and those into the fallback.
LEMMA WalkStages ==
    ASSUME HandlerInv, OutcomeInv, NEW q \in Queries,
           NotEligible(q) \/ NotOurs(q) \/ CookAny(q) \/ StartCook(q) \/ GiveUp(q)
              \/ AliasUnbuildable(q) \/ TakeDirect(q)
    PROVE  OutcomeInv'
<1> USE DEF NotEligible, NotOurs, CookAny, StartCook, GiveUp, AliasUnbuildable,
            TakeDirect, Iterating, shared, cooking, upstream
<1>1. /\ phase[q] \in {"opened", "cooking", "cooked"}
      /\ phase'[q] \in {"cooking", "cooked", "fallback"}
      /\ phase'[q] = "cooking" => req[q].type # "ANY"
      /\ UNCHANGED <<req, rt, chain, result, resp>>
  BY DEF HandlerInv, TypeOK, Goto
<1>2. Plain(q)  BY <1>1 DEF OutcomeInv, Staged, Plain
<1>3. Staged(q)'  BY <1>1, <1>2 DEF OutcomeInv, Staged, Plain
<1>4. Built(q)'  BY <1>1 DEF OutcomeInv, Built, NameAt
<1>5. QED  BY <1>3, <1>4, OneMoves DEF Serve, Cook

LEMMA FollowAliasStage ==
    ASSUME HandlerInv, OutcomeInv, NEW q \in Queries, FollowAlias(q)
    PROVE  OutcomeInv'
<1> USE DEF FollowAlias, Iterating, shared, upstream
<1> DEFINE rr == AliasRR(rt[q], name[q])
<1>1. PICK n \in Nat : n = Len(chain[q])  BY Known
<1>2. /\ chain[q] \in Seq(CNAMEs) /\ rr \in CNAMEs /\ name[q] = NameAt(q, n)
      /\ Builds(name[q]) /\ chain'[q] = Append(chain[q], rr)
  BY <1>1, Known, AliasTyped DEF QueryInv, Placed, TypeOK
<1>3. /\ DOMAIN chain'[q] = 1..(n + 1) /\ DOMAIN chain[q] = 1..n
      /\ \A i \in 1..n : chain'[q][i] = chain[q][i]
  <2> HIDE DEF rr
  <2>1. QED  BY <1>1, <1>2
<1>4. ASSUME NEW i \in 1..(n + 1) PROVE Builds(NameAt(q, i - 1)')
  <2>1. NameAt(q, i - 1)' = NameAt(q, i - 1)
    <3>1. i - 1 = 0 \/ i - 1 \in 1..n  BY <1>1
    <3>2. QED  BY <1>3, <3>1 DEF NameAt
  <2>2. CASE i = n + 1  BY <1>1, <1>2, <2>1, <2>2
  <2>3. CASE i # n + 1
    <3>1. i \in DOMAIN chain[q]  BY <1>1, <1>3, <2>3
    <3>2. QED  BY <2>1, <3>1 DEF OutcomeInv, Built
  <2>4. QED  BY <2>2, <2>3
<1>5. Built(q)'  BY <1>3, <1>4 DEF Built, Builds
<1>6. Staged(q)'  BY DEF OutcomeInv, Staged, Plain
<1>7. QED  BY <1>5, <1>6, OneMoves DEF Serve, Cook

LEMMA SendStages ==
    ASSUME HandlerInv, OutcomeInv, NEW q \in Queries, Chase(q) \/ Forward(q)
    PROVE  OutcomeInv'
<1> USE DEF Chase, Forward, shared, cooking
<1>0. asked'[q] # {}
  <2>1. q \in DOMAIN asked  BY DEF HandlerInv, TypeOK
  <2>2. CASE Chase(q)    BY <2>1, <2>2
  <2>3. CASE Forward(q)  BY <2>1, <2>3
  <2>4. QED  BY <2>2, <2>3
<1>1. /\ UNCHANGED <<req, rt, chain, tail, result, resp>>
      /\ asked'[q] # {} /\ Plain(q)
  BY <1>0 DEF OutcomeInv, Staged
<1>2. CASE Chase(q)
  <2>1. Eligible(q) /\ NeedsChase(q) /\ phase'[q] = "chasing"
    <3>1. phase[q] = "cooked" /\ NeedsChase(q)  BY <1>2
    <3>2. Eligible(q)  BY <3>1 DEF HandlerInv, QueryInv, Placed
    <3>3. phase'[q] = "chasing"  BY <1>2 DEF HandlerInv, TypeOK, Goto
    <3>4. QED  BY <3>1, <3>2, <3>3
  <2>2. QED
    BY <1>1, <1>2, <2>1, OneMoves
    DEF Serve, OutcomeInv, Staged, Built, Plain, Eligible, NeedsChase, NameAt
<1>3. CASE Forward(q)
  <2>1. /\ NothingCooked(q) /\ ~ (Eligible(q) /\ Kept(q)) /\ phase'[q] = "proxying"
        /\ rt[q].fallback = "proxy"
    BY <1>3 DEF HandlerInv, TypeOK, QueryInv, Placed, Goto, Kept
  <2>2. Staged(q)'
    BY <1>1, <2>1 DEF OutcomeInv, Staged, Plain, Eligible, NothingCooked, Kept
  <2>3. Built(q)'  BY <1>1 DEF OutcomeInv, Built, NameAt
  <2>4. QED  BY <1>3, <2>2, <2>3, OneMoves DEF Serve
<1>4. QED  BY <1>2, <1>3

-----------------------------------------------------------------------------
(* The responses are those the service allows.                             *)

LEMMA AllowedCases ==
    ASSUME NEW c, NEW r, NEW a, NEW d, NEW m
    PROVE  /\ r.kind = "unsupported" =>
                (Service!Allowed(c, r, a, d, m)
                    <=> Service!Says(m, "NOTIMP", Service!NoAnswer, {}) /\ ~ m.tc)
           /\ r.kind = "badclass" =>
                (Service!Allowed(c, r, a, d, m)
                    <=> Service!Says(m, "REFUSED", Service!NoAnswer, {}) /\ ~ m.tc)
           /\ r.kind = "plain" /\ ~ Service!LeftToFallback(c, r, a) =>
                (Service!Allowed(c, r, a, d, m)
                    <=> /\ \E up \in {{}} \cup {p.rrs : p \in Replies} :
                              Service!Says(m, "NOERROR", a, up) /\ (up # {} => d # {})
                        /\ m.tc <=> m.short)
           /\ Service!LeftToFallback(c, r, a) /\ c.fallback # "proxy" =>
                (Service!Allowed(c, r, a, d, m)
                    <=> Service!Says(m, BlockRcode[c.fallback], Service!NoAnswer, {})
                        /\ ~ m.tc)
           /\ Service!LeftToFallback(c, r, a) /\ c.fallback = "proxy" =>
                (Service!Allowed(c, r, a, d, m)
                    <=> /\ d # {}
                        /\ \/ Service!Says(m, "SERVFAIL", Service!NoAnswer, {}) /\ ~ m.tc
                           \/ \E p \in Replies : /\ Service!Says(m, p.rcode, Service!NoAnswer, p.rrs)
                                                 /\ m.tc <=> p.tc \/ m.short)
<1> USE DEF Service!Allowed, Service!LeftToFallback
<1>1. CASE r.kind = "unsupported"  BY <1>1
<1>2. CASE r.kind = "badclass"  BY <1>2
<1>3. CASE r.kind = "plain" /\ ~ Service!LeftToFallback(c, r, a)  BY <1>3
<1>4. CASE Service!LeftToFallback(c, r, a) /\ c.fallback # "proxy"
  BY <1>4, SameAnswers
<1>5. CASE Service!LeftToFallback(c, r, a) /\ c.fallback = "proxy"  BY <1>5
<1>6. QED  BY <1>1, <1>2, <1>3, <1>4, <1>5

\* A message without records fits any buffer.
LEMMA BareFits ==
    ASSUME NEW rcode, NEW r
    PROVE  Truncate(Bare(rcode), r) = Bare(rcode)
<1>1. Len(<<>>) = 0 /\ Cardinality({}) = 0  BY FS_EmptySet
<1>2. QED  BY <1>1, HandlerAssumption DEF Truncate, Bare, Message

\* Truncation sets TC and nothing else the service looks at.
LEMMA TruncateSays ==
    ASSUME NEW rcode, NEW c, NEW t, NEW up, NEW tc \in BOOLEAN, NEW r
    PROVE  LET m == Truncate(Message(rcode, c, t, up, tc), r)
           IN  /\ Service!Says(m, rcode, [chain |-> c, tail |-> t], up)
               /\ m.tc <=> tc \/ m.short
BY DEF Truncate, Message, Service!Says

LEMMA NothingIsNoAnswer ==
    ASSUME NEW q \in Queries
    PROVE  NothingCooked(q) <=> LocalAnswer(q) = Service!NoAnswer
BY DEF NothingCooked, Empty, LocalAnswer, Service!NoAnswer

LEMMA LeftToFallbackIs ==
    ASSUME NEW q \in Queries
    PROVE  Service!LeftToFallback(rt[q], req[q], LocalAnswer(q)) <=>
              Plain(q) /\ NothingCooked(q) /\ ~ (Eligible(q) /\ Kept(q))
BY NothingIsNoAnswer, SameFilter, SameLookups
DEF Service!LeftToFallback, Service!KeptLocal, Plain, Eligible, Kept

LEMMA SomethingSent ==
    ASSUME NEW q \in Queries, asked[q] # {} PROVE Sent(q) # {}
<1>1. PICK a \in asked[q] : TRUE  OBVIOUS
<1>2. a.name \in Sent(q)  BY DEF Sent
<1>3. QED  BY <1>2

LEMMA RejectAllowed ==
    ASSUME HandlerInv, OutcomeInv, NEW q \in Queries,
           RejectUnsupported(q) \/ RejectClass(q)
    PROVE  Service!Allowed(rt[q], req[q], LocalAnswer(q), Sent(q), resp'[q])
<1> USE DEF RejectUnsupported, RejectClass, Respond
<1>1. CASE RejectUnsupported(q)
  <2>1. resp'[q] = Bare("NOTIMP")  BY <1>1, BareFits DEF HandlerInv, TypeOK
  <2>2. Service!Says(resp'[q], "NOTIMP", Service!NoAnswer, {}) /\ ~ resp'[q].tc
    BY <2>1 DEF Bare, Message, Service!Says, Service!NoAnswer
  <2>3. QED  BY <1>1, <2>2, AllowedCases
<1>2. CASE RejectClass(q)
  <2>1. resp'[q] = Bare("REFUSED")  BY <1>2, BareFits DEF HandlerInv, TypeOK
  <2>2. Service!Says(resp'[q], "REFUSED", Service!NoAnswer, {}) /\ ~ resp'[q].tc
    BY <2>1 DEF Bare, Message, Service!Says, Service!NoAnswer
  <2>3. QED  BY <1>2, <2>2, AllowedCases
<1>3. QED  BY <1>1, <1>2

LEMMA LocalAllowed ==
    ASSUME HandlerInv, OutcomeInv, NEW q \in Queries,
           AnswerLocally(q) \/ NoData(q) \/ ChaseReply(q) \/ ChaseFail(q)
    PROVE  Service!Allowed(rt[q], req[q], LocalAnswer(q), Sent(q), resp'[q])
<1> USE DEF AnswerLocally, NoData, ChaseReply, ChaseFail, Respond
<1>1. phase[q] \in {"cooked", "chasing"} /\ Plain(q) /\ Eligible(q)
  BY DEF HandlerInv, QueryInv, Placed, OutcomeInv, Staged
<1>2. ~ Service!LeftToFallback(rt[q], req[q], LocalAnswer(q))
  <2>1. CASE NoData(q)  BY <1>1, <2>1, LeftToFallbackIs DEF Kept
  <2>2. CASE AnswerLocally(q)  BY <2>2, LeftToFallbackIs
  <2>3. CASE ChaseReply(q) \/ ChaseFail(q)
    <3>1. chain[q] # <<>>
      BY <2>3 DEF OutcomeInv, Staged, NeedsChase, Dangles
    <3>2. QED  BY <3>1, LeftToFallbackIs DEF NothingCooked, Empty
  <2>4. QED  BY <2>1, <2>2, <2>3
<1>3. /\ \E up \in {{}} \cup {p.rrs : p \in Replies} :
            /\ Service!Says(resp'[q], "NOERROR", LocalAnswer(q), up)
            /\ up # {} => Sent(q) # {}
      /\ resp'[q].tc <=> resp'[q].short
  <2>1. CASE NoData(q)
    <3>1. resp'[q] = Bare("NOERROR")  BY <2>1, BareFits DEF HandlerInv, TypeOK
    <3>2. /\ Service!Says(resp'[q], "NOERROR", Service!NoAnswer, {})
          /\ resp'[q].tc <=> resp'[q].short
      BY <3>1 DEF Bare, Message, Service!Says, Service!NoAnswer
    <3>3. LocalAnswer(q) = Service!NoAnswer  BY <2>1, NothingIsNoAnswer
    <3>4. QED  BY <3>2, <3>3
  <2>2. CASE AnswerLocally(q) \/ ChaseFail(q)
    <3> DEFINE w == Truncate(Message("NOERROR", chain[q], tail[q], {}, FALSE), req[q])
    <3>1. resp'[q] = w  BY <2>2 DEF HandlerInv, TypeOK
    <3>2. Service!Says(w, "NOERROR", LocalAnswer(q), {}) /\ (w.tc <=> w.short)
      BY TruncateSays, Zenon DEF LocalAnswer
    <3> HIDE DEF w
    <3>3. QED  BY <3>1, <3>2
  <2>3. CASE ChaseReply(q)
    <3>1. PICK m \in Replies :
             resp'[q] = Truncate(Message("NOERROR", chain[q], tail[q], m.rrs, FALSE), req[q])
      BY <2>3 DEF HandlerInv, TypeOK
    <3> DEFINE w == Truncate(Message("NOERROR", chain[q], tail[q], m.rrs, FALSE), req[q])
    <3>2. Service!Says(w, "NOERROR", LocalAnswer(q), m.rrs) /\ (w.tc <=> w.short)
      BY TruncateSays, Zenon DEF LocalAnswer
    <3>3. resp'[q] = w /\ Sent(q) # {}
      BY <3>1, <2>3, SomethingSent DEF OutcomeInv, Staged
    <3> HIDE DEF w
    <3>4. QED  BY <3>2, <3>3
  <2>4. QED  BY <2>1, <2>2, <2>3
<1>4. QED  BY <1>1, <1>2, <1>3, AllowedCases DEF Plain

LEMMA FallbackAllowed ==
    ASSUME HandlerInv, OutcomeInv, NEW q \in Queries,
           Block(q) \/ ProxyReply(q) \/ ProxyFail(q)
    PROVE  Service!Allowed(rt[q], req[q], LocalAnswer(q), Sent(q), resp'[q])
<1> USE DEF Block, ProxyReply, ProxyFail, Respond
<1>1. Service!LeftToFallback(rt[q], req[q], LocalAnswer(q))
  BY LeftToFallbackIs
  DEF HandlerInv, QueryInv, Placed, OutcomeInv, Staged, Kept
<1>2. CASE Block(q)
  <2>1. resp'[q] = Bare(BlockRcode[rt[q].fallback])
    BY <1>2, BareFits DEF HandlerInv, TypeOK
  <2>2. /\ Service!Says(resp'[q], BlockRcode[rt[q].fallback], Service!NoAnswer, {})
        /\ ~ resp'[q].tc
    BY <2>1 DEF Bare, Message, Service!Says, Service!NoAnswer
  <2>3. QED  BY <1>1, <1>2, <2>2, AllowedCases
<1>3. CASE ProxyReply(q) \/ ProxyFail(q)
  <2>1. rt[q].fallback = "proxy" /\ Sent(q) # {}
    BY <1>3, SomethingSent DEF OutcomeInv, Staged
  <2>2. CASE ProxyFail(q)
    <3>1. resp'[q] = Bare("SERVFAIL")  BY <2>2, BareFits DEF HandlerInv, TypeOK
    <3>2. Service!Says(resp'[q], "SERVFAIL", Service!NoAnswer, {}) /\ ~ resp'[q].tc
      BY <3>1 DEF Bare, Message, Service!Says, Service!NoAnswer
    <3>3. QED  BY <1>1, <2>1, <3>2, AllowedCases
  <2>3. CASE ProxyReply(q)
    <3>1. PICK p \in Replies :
             resp'[q] = Truncate(Message(p.rcode, <<>>, {}, p.rrs, p.tc), req[q])
      BY <2>3 DEF HandlerInv, TypeOK
    <3> DEFINE w == Truncate(Message(p.rcode, <<>>, {}, p.rrs, p.tc), req[q])
    <3>2. p.tc \in BOOLEAN  BY HandlerAssumption
    <3>3. Service!Says(w, p.rcode, Service!NoAnswer, p.rrs) /\ (w.tc <=> p.tc \/ w.short)
      BY <3>2, TruncateSays, Zenon DEF Service!NoAnswer
    <3>4. resp'[q] = w  BY <3>1
    <3> HIDE DEF w
    <3>5. QED  BY <1>1, <2>1, <3>3, <3>4, AllowedCases
  <2>4. QED  BY <1>3, <2>2, <2>3
<1>4. QED  BY <1>2, <1>3

LEMMA ResponseStages ==
    ASSUME HandlerInv, OutcomeInv, NEW q \in Queries, Responds(q)
    PROVE  OutcomeInv'
<1> USE DEF Responds, RejectUnsupported, RejectClass, AnswerLocally, NoData,
            ChaseReply, ChaseFail, Block, ProxyReply, ProxyFail
<1>1. /\ phase'[q] = "writing"
      /\ UNCHANGED <<req, rt, chain, tail, asked>>
  BY DEF Respond, Goto, cooking, upstream, HandlerInv, TypeOK
<1>2. Service!Allowed(rt[q], req[q], LocalAnswer(q), Sent(q), resp'[q])
  BY RejectAllowed, LocalAllowed, FallbackAllowed
<1>3. resp'[q] \in Messages
  BY ResponseTyped DEF HandlerInv, TypeOK
<1>4. LocalAnswer(q)' = LocalAnswer(q) /\ Sent(q)' = Sent(q)
  BY <1>1 DEF LocalAnswer, Sent
<1>5. Staged(q)'  BY <1>1, <1>2, <1>3, <1>4 DEF Staged
<1>6. Built(q)'  BY <1>1 DEF OutcomeInv, Built, NameAt
<1>7. QED  BY <1>5, <1>6, OneMoves DEF Serve, Upstream

LEMMA WriteStages ==
    ASSUME HandlerInv, OutcomeInv, NEW q \in Queries, Write(q) \/ WriteFail(q)
    PROVE  OutcomeInv'
<1>1. phase'[q] = "done" /\ UNCHANGED <<req, rt, chain>>
  BY DEF Write, WriteFail, Goto, cooking, HandlerInv, TypeOK
<1>2. Staged(q)'  BY <1>1 DEF Staged
<1>3. Built(q)'  BY <1>1 DEF OutcomeInv, Built, NameAt
<1>4. QED  BY <1>2, <1>3, OneMoves DEF Serve

LEMMA OutcomeStep ==
    HandlerInv /\ OutcomeInv /\ [Next]_vars => OutcomeInv'
<1> SUFFICES ASSUME HandlerInv, OutcomeInv, [Next]_vars PROVE OutcomeInv'  OBVIOUS
<1>1. CASE Reload \/ UNCHANGED vars
  <2>1. \A q \in Queries : SameAt(q)
    BY <1>1 DEF Reload, vars, shared, cooking, upstream, SameAt
  <2>2. QED  BY <2>1, SameOutcome DEF OutcomeInv
<1>2. ASSUME NEW q \in Queries, Receive(q) \/ Serve(q) PROVE OutcomeInv'
  BY <1>2, ReceiveStage, WalkStages, FollowAliasStage, SendStages, ResponseStages,
     WriteStages
  DEF Serve, Cook, Upstream, Responds
<1>3. QED  BY <1>1, <1>2 DEF Next

LEMMA OutcomeInvariant == Spec => []OutcomeInv
BY OutcomeInit, OutcomeStep, HandlerInvariant, PTL DEF Spec

-----------------------------------------------------------------------------
(* Every step is a step of the service, or none.                           *)

\* The state of the service, one query at a time.
AnswerOf(q) == IF Judged(q) THEN LocalAnswer(q) ELSE None
ResponseOf(q) == IF phase[q] = "done" THEN resp[q] ELSE None

AnswersBar   == [q \in Queries |-> AnswerOf(q)]
DisclosedBar == [q \in Queries |-> Sent(q)]
ResponseBar  == [q \in Queries |-> ResponseOf(q)]
ServiceVars  == <<current, req, rt, AnswersBar, DisclosedBar, ResponseBar>>

LEMMA BarsAreServices ==
    Service!vars = ServiceVars /\ Service!vars' = ServiceVars'
BY DEF Service!vars, ServiceVars, AnswersBar, DisclosedBar, ResponseBar, AnswerOf,
       ResponseOf, LocalAnswer, Sent

\* A step of q shows at q alone.
LEMMA ShowsAtOne ==
    ASSUME TypeOK, NEW q \in Queries, Receive(q) \/ Serve(q)
    PROVE  /\ AnswersBar' = [AnswersBar EXCEPT ![q] = AnswerOf(q)']
           /\ DisclosedBar' = [DisclosedBar EXCEPT ![q] = Sent(q)']
           /\ ResponseBar' = [ResponseBar EXCEPT ![q] = ResponseOf(q)']
<1>1. ASSUME NEW r \in Queries, r # q
      PROVE  /\ AnswerOf(r)' = AnswerOf(r) /\ Sent(r)' = Sent(r)
             /\ ResponseOf(r)' = ResponseOf(r)
  BY <1>1, OthersUntouched
  DEF SameAt, AnswerOf, Judged, LocalAnswer, Sent, ResponseOf
<1>2. QED  BY <1>1 DEF AnswersBar, DisclosedBar, ResponseBar

LEMMA ServiceInit == Init => Service!Init
BY DEF Init, Service!Init, Judged

LEMMA AcceptStep ==
    ASSUME HandlerInv, OutcomeInv, NEW q \in Queries, Receive(q)
    PROVE  Service!Accept(q)
<1> USE DEF Receive, cooking, upstream
<1>1. req[q] = None /\ phase'[q] = "opened"
  BY DEF HandlerInv, TypeOK, Goto, OutcomeInv, Staged
<1>2. AnswerOf(q)' = AnswerOf(q) /\ Sent(q)' = Sent(q) /\ ResponseOf(q)' = ResponseOf(q)
  BY <1>1 DEF AnswerOf, Judged, Sent, ResponseOf
<1>3. UNCHANGED <<AnswersBar, DisclosedBar, ResponseBar>>
  BY <1>2, ShowsAtOne DEF HandlerInv, AnswersBar, DisclosedBar, ResponseBar
<1>4. QED
  BY <1>1, <1>3
  DEF Service!Accept, AnswersBar, DisclosedBar, ResponseBar, AnswerOf, ResponseOf,
      LocalAnswer, Sent

\* The walk of cook ends with the one answer the records in rt give.
LEMMA WalkIsLocalAnswer ==
    ASSUME HandlerInv, OutcomeInv, NEW q \in Queries,
           GiveUp(q) \/ AliasUnbuildable(q) \/ TakeDirect(q)
    PROVE  Service!IsLocalAnswer(rt[q], req[q], LocalAnswer(q)')
<1> USE DEF GiveUp, AliasUnbuildable, TakeDirect, Iterating, shared, cooking, upstream
<1> DEFINE n == Len(chain[q])
           at(i) == IF i = 0 THEN req[q].name ELSE chain[q][i].data
           a == LocalAnswer(q)'
<1>1. /\ n \in Nat /\ n <= MaxCNAMEDepth /\ MaxCNAMEDepth \in Nat
      /\ DOMAIN chain[q] = 1..n
      /\ Linked(q) /\ Built(q) /\ tail[q] = {} /\ name[q] = at(n)
      /\ chain' = chain /\ a.chain = chain[q] /\ a.tail = tail'[q]
  BY Known DEF TypeOK, QueryInv, Placed, OutcomeInv, NameAt, LocalAnswer
<1>2. \A i \in 1..n :
         /\ AliasWins(rt[q], at(i - 1), req[q].type) /\ Builds(at(i - 1))
         /\ chain[q][i] = AliasRR(rt[q], at(i - 1))
  BY <1>1 DEF Linked, Built, NameAt
<1> DEFINE follows == AliasWins(rt[q], at(n), req[q].type) /\ Builds(at(n))
           ends == n < MaxCNAMEDepth /\ ~ AliasWins(rt[q], at(n), req[q].type)
           found == Build(rt[q], Direct(rt[q], at(n), req[q].type), at(n))
<1>3. n < MaxCNAMEDepth => ~ follows  BY <1>1
<1>4. tail'[q] = IF ends THEN found ELSE {}
  <2>1. CASE TakeDirect(q)  BY <1>1, <2>1 DEF HandlerInv, TypeOK
  <2>2. CASE GiveUp(q)
    <3>1. ~ ends /\ tail'[q] = {}  BY <1>1, <2>2
    <3>2. QED  BY <3>1
  <2>3. CASE AliasUnbuildable(q)
    <3>1. ~ ends /\ tail'[q] = {}  BY <1>1, <2>3
    <3>2. QED  BY <3>1
  <2>4. QED  BY <2>1, <2>2, <2>3
<1>5. QED
  BY <1>1, <1>2, <1>3, <1>4, SamePolicy DEF Service!IsLocalAnswer

LEMMA JudgeStep ==
    ASSUME HandlerInv, OutcomeInv, NEW q \in Queries,
           RejectUnsupported(q) \/ RejectClass(q) \/ NotEligible(q) \/ CookAny(q)
              \/ GiveUp(q) \/ AliasUnbuildable(q) \/ TakeDirect(q)
    PROVE  Service!Judge(q)
<1>1. /\ phase[q] \in {"opened", "cooking"} /\ phase'[q] \in {"writing", "cooked", "fallback"}
      /\ UNCHANGED <<current, req, rt, asked>>
  BY DEF RejectUnsupported, RejectClass, NotEligible, CookAny, GiveUp,
         AliasUnbuildable, TakeDirect, Iterating, Respond, Goto, shared, cooking,
         upstream, HandlerInv, TypeOK
<1>2. AnswerOf(q) = None /\ AnswerOf(q)' = LocalAnswer(q)' /\ req[q] # None
  BY <1>1 DEF AnswerOf, Judged, HandlerInv, TypeOK
<1>3. LocalAnswer(q)' # None
  <2>1. TypeOK'
    BY HandlerStep DEF HandlerInv, Next, Serve, Cook
  <2>2. LocalAnswer(q)' \in Answers  BY <2>1 DEF TypeOK, LocalAnswer, Answers
  <2>3. QED  BY <2>2, HandlerAssumption
<1>4. UNCHANGED <<DisclosedBar, ResponseBar>>
  BY <1>1, ShowsAtOne
  DEF Serve, Cook, HandlerInv, Sent, ResponseOf, DisclosedBar, ResponseBar
<1>5. AnswersBar' = [AnswersBar EXCEPT ![q] = LocalAnswer(q)']
  BY <1>2, ShowsAtOne DEF Serve, Cook, HandlerInv
<1>6. Service!IsJudgement(rt[q], req[q], LocalAnswer(q)')
  <2>1. CASE RejectUnsupported(q) \/ RejectClass(q) \/ NotEligible(q)
    <3>1. ~ (req[q].kind = "plain" /\ ShouldFake(rt[q].filter, req[q].name))
      BY <2>1 DEF RejectUnsupported, RejectClass, NotEligible, Eligible
    <3>2. LocalAnswer(q)' = Service!NoAnswer
      BY <2>1 DEF RejectUnsupported, RejectClass, NotEligible, cooking, HandlerInv,
                  QueryInv, Placed, LocalAnswer, Service!NoAnswer
    <3>3. QED  BY <3>1, <3>2, SameFilter DEF Service!IsJudgement
  <2>2. CASE CookAny(q)
    <3>1. /\ req[q].kind = "plain" /\ req[q].type = "ANY"
          /\ ShouldFake(rt[q].filter, req[q].name)
      BY <2>2 DEF CookAny, Eligible
    <3>2. LocalAnswer(q)' = [chain |-> <<>>, tail |-> AnyAnswer(rt[q], req[q].name)]
      BY <2>2 DEF CookAny, HandlerInv, TypeOK, QueryInv, Placed, LocalAnswer
    <3>3. QED  BY <3>1, <3>2, SameFilter, SamePolicy DEF Service!IsJudgement
  <2>3. CASE GiveUp(q) \/ AliasUnbuildable(q) \/ TakeDirect(q)
    <3>1. Service!IsLocalAnswer(rt[q], req[q], LocalAnswer(q)')
      BY <2>3, WalkIsLocalAnswer
    <3>2. req[q].kind = "plain" /\ ShouldFake(rt[q].filter, req[q].name)
      BY <2>3 DEF GiveUp, AliasUnbuildable, TakeDirect, Iterating, HandlerInv,
                  QueryInv, Placed, OutcomeInv, Staged, Plain, Eligible
    <3>3. req[q].type # "ANY"
      BY <2>3 DEF GiveUp, AliasUnbuildable, TakeDirect, Iterating, OutcomeInv, Staged
    <3>4. QED  BY <3>1, <3>2, <3>3, SameFilter DEF Service!IsJudgement
  <2>4. QED  BY <2>1, <2>2, <2>3
<1>7. QED
  BY <1>1, <1>2, <1>3, <1>4, <1>5, <1>6
  DEF Service!Judge, AnswersBar, DisclosedBar, ResponseBar, AnswerOf, ResponseOf,
      LocalAnswer, Sent

\* What a client cannot see: the steps between the judgement and the write.
LEMMA StutterStep ==
    ASSUME HandlerInv, OutcomeInv, NEW q \in Queries,
           \/ StartCook(q) \/ FollowAlias(q) \/ NotOurs(q)
           \/ AnswerLocally(q) \/ NoData(q) \/ ChaseReply(q) \/ ChaseFail(q)
           \/ Block(q) \/ ProxyReply(q) \/ ProxyFail(q)
    PROVE  UNCHANGED ServiceVars
<1> USE DEF StartCook, FollowAlias, Iterating, NotOurs, AnswerLocally, NoData,
            ChaseReply, ChaseFail, Block, ProxyReply, ProxyFail
<1>1. /\ UNCHANGED <<current, req, rt, asked>>
      /\ phase[q] # "done" /\ phase'[q] # "done"
  BY DEF Respond, Goto, shared, cooking, upstream, HandlerInv, TypeOK
<1>2. AnswerOf(q)' = AnswerOf(q)
  <2>1. CASE StartCook(q) \/ FollowAlias(q)
    <3>1. ~ Judged(q) /\ ~ Judged(q)'
      BY <2>1 DEF Judged, HandlerInv, TypeOK, Goto
    <3>2. QED  BY <3>1 DEF AnswerOf
  <2>2. CASE \/ NotOurs(q) \/ AnswerLocally(q) \/ NoData(q) \/ ChaseReply(q)
             \/ ChaseFail(q) \/ Block(q) \/ ProxyReply(q) \/ ProxyFail(q)
    <3>1. Judged(q) /\ Judged(q)' /\ UNCHANGED <<chain, tail>>
      BY <2>2 DEF Judged, HandlerInv, TypeOK, Goto, Respond, cooking
    <3>2. QED  BY <3>1 DEF AnswerOf, LocalAnswer
  <2>3. QED  BY <2>1, <2>2
<1>3. Sent(q)' = Sent(q) /\ ResponseOf(q)' = ResponseOf(q)
  BY <1>1 DEF Sent, ResponseOf
<1>4. UNCHANGED <<AnswersBar, DisclosedBar, ResponseBar>>
  BY <1>2, <1>3, ShowsAtOne
  DEF Serve, Cook, Upstream, HandlerInv, AnswersBar, DisclosedBar, ResponseBar
<1>5. QED  BY <1>1, <1>4 DEF ServiceVars

LEMMA DiscloseStep ==
    ASSUME HandlerInv, OutcomeInv, NEW q \in Queries, Chase(q) \/ Forward(q)
    PROVE  Service!Disclose(q)
<1> USE DEF Chase, Forward
<1> DEFINE n == IF Chase(q) THEN Target(chain[q]) ELSE req[q].name
<1>1. /\ UNCHANGED <<current, req, rt, chain, tail>>
      /\ phase[q] \in {"cooked", "fallback"} /\ phase'[q] \in {"chasing", "proxying"}
  BY DEF Goto, shared, cooking, HandlerInv, TypeOK
<1>2. asked[q] = {} /\ Plain(q)
  BY <1>1 DEF HandlerInv, QueryInv, Placed, OutcomeInv, Staged
<1>3. Sent(q) = {} /\ Sent(q)' = {n}
  <2>1. Sent(q) = {}  BY <1>2 DEF Sent
  <2>2. PICK via : asked'[q] = {[name |-> n, via |-> via]}
    <3>1. CASE Chase(q)
      <4>1. asked'[q] = {[name |-> n, via |-> "chase"]}
        BY <1>2, <3>1 DEF HandlerInv, TypeOK
      <4>2. QED  BY <4>1
    <3>2. CASE ~ Chase(q)
      <4>1. asked'[q] = {[name |-> n, via |-> "proxy"]}
        BY <1>2, <3>2 DEF HandlerInv, TypeOK
      <4>2. QED  BY <4>1
    <3>3. QED  BY <3>1, <3>2
  <2> HIDE DEF n
  <2>3. Sent(q)' = {n}  BY <2>2 DEF Sent
  <2>4. QED  BY <2>1, <2>3
<1>4. /\ AnswerOf(q) = LocalAnswer(q) /\ AnswerOf(q)' = AnswerOf(q)
      /\ ResponseOf(q) = None /\ ResponseOf(q)' = None
  BY <1>1 DEF AnswerOf, Judged, LocalAnswer, ResponseOf
<1>5. LocalAnswer(q) # None
  <2>1. LocalAnswer(q) \in Answers  BY DEF HandlerInv, TypeOK, LocalAnswer, Answers
  <2>2. QED  BY <2>1, HandlerAssumption
<1>6. n \in Service!MayDisclose(rt[q], req[q], LocalAnswer(q))
  <2>1. CASE Chase(q)
    <3>1. rt[q].fallback = "proxy" /\ Dangles(chain[q], tail[q], req[q].type)
      BY <2>1 DEF NeedsChase
    <3>2. QED  BY <2>1, <3>1, SameAnswers DEF Service!MayDisclose, LocalAnswer
  <2>2. CASE ~ Chase(q)
    <3>1. rt[q].fallback = "proxy" /\ NothingCooked(q) /\ ~ (Eligible(q) /\ Kept(q))
      BY <2>2 DEF HandlerInv, QueryInv, Placed, Kept
    <3>2. Service!LeftToFallback(rt[q], req[q], LocalAnswer(q))
      BY <1>2, <3>1, LeftToFallbackIs
    <3>3. QED  BY <2>2, <3>1, <3>2 DEF Service!MayDisclose
  <2>3. QED  BY <2>1, <2>2
<1>7. /\ DisclosedBar' = [DisclosedBar EXCEPT ![q] = {n}]
      /\ UNCHANGED <<AnswersBar, ResponseBar>>
  <2>1. TypeOK /\ Serve(q)  BY DEF HandlerInv, Serve
  <2> HIDE DEF n, Chase, Forward
  <2>2. /\ AnswersBar' = [AnswersBar EXCEPT ![q] = AnswerOf(q)']
        /\ DisclosedBar' = [DisclosedBar EXCEPT ![q] = Sent(q)']
        /\ ResponseBar' = [ResponseBar EXCEPT ![q] = ResponseOf(q)']
    BY <2>1, ShowsAtOne
  <2>3. [AnswersBar EXCEPT ![q] = AnswerOf(q)] = AnswersBar  BY DEF AnswersBar
  <2>4. [ResponseBar EXCEPT ![q] = ResponseOf(q)] = ResponseBar  BY DEF ResponseBar
  <2>5. QED  BY <1>3, <1>4, <2>2, <2>3, <2>4
<1> HIDE DEF n
<1>8. QED
  BY <1>1, <1>3, <1>4, <1>5, <1>6, <1>7
  DEF Service!Disclose, AnswersBar, DisclosedBar, ResponseBar, AnswerOf, ResponseOf,
      LocalAnswer, Sent

LEMMA AnswerStep ==
    ASSUME HandlerInv, OutcomeInv, NEW q \in Queries, Write(q) \/ WriteFail(q)
    PROVE  Service!Answer(q)
<1> USE DEF Write, WriteFail
<1>1. /\ UNCHANGED <<current, req, rt, chain, tail, asked>>
      /\ phase[q] = "writing" /\ phase'[q] = "done"
  BY DEF Goto, shared, cooking, upstream, HandlerInv, TypeOK
<1>2. /\ AnswerOf(q) = LocalAnswer(q) /\ AnswerOf(q)' = AnswerOf(q)
      /\ Sent(q)' = Sent(q)
      /\ ResponseOf(q) = None /\ ResponseOf(q)' = resp'[q]
  BY <1>1 DEF AnswerOf, Judged, LocalAnswer, Sent, ResponseOf
<1>3. LocalAnswer(q) # None
  <2>1. LocalAnswer(q) \in Answers  BY DEF HandlerInv, TypeOK, LocalAnswer, Answers
  <2>2. QED  BY <2>1, HandlerAssumption
<1>4. /\ resp'[q] # None
      /\ \/ resp'[q] = Lost
         \/ Service!Allowed(rt[q], req[q], LocalAnswer(q), Sent(q), resp'[q])
  <2>1. CASE Write(q)
    <3>1. resp'[q] = resp[q]  BY <2>1
    <3>2. QED  BY <1>1, <3>1, HandlerAssumption DEF OutcomeInv, Staged
  <2>2. CASE WriteFail(q)
    <3>1. resp'[q] = Lost  BY <2>2 DEF HandlerInv, TypeOK
    <3>2. QED  BY <3>1, HandlerAssumption
  <2>3. QED  BY <2>1, <2>2
<1>5. /\ ResponseBar' = [ResponseBar EXCEPT ![q] = resp'[q]]
      /\ UNCHANGED <<AnswersBar, DisclosedBar>>
  BY <1>2, ShowsAtOne
  DEF Serve, HandlerInv, AnswersBar, DisclosedBar, ResponseBar
<1>6. QED
  BY <1>1, <1>2, <1>3, <1>4, <1>5
  DEF Service!Answer, AnswersBar, DisclosedBar, ResponseBar, AnswerOf, ResponseOf,
      LocalAnswer, Sent

LEMMA ServiceStep ==
    HandlerInv /\ OutcomeInv /\ [Next]_vars => [Service!Next]_Service!vars
<1> SUFFICES ASSUME HandlerInv, OutcomeInv, [Next]_vars
             PROVE  Service!Next \/ UNCHANGED ServiceVars
  BY BarsAreServices
<1>1. CASE UNCHANGED vars
  BY <1>1 DEF vars, shared, cooking, upstream, ServiceVars, AnswersBar, DisclosedBar,
              ResponseBar, AnswerOf, Judged, LocalAnswer, Sent, ResponseOf
<1>2. CASE Reload
  <2>1. Service!Swap
    BY <1>2 DEF Reload, cooking, upstream, Service!Swap, Judged
  <2>2. QED  BY <2>1 DEF Service!Next
<1>3. ASSUME NEW q \in Queries, Receive(q) \/ Serve(q)
      PROVE  Service!Next \/ UNCHANGED ServiceVars
  <2>1. \/ Service!Accept(q) \/ Service!Judge(q) \/ Service!Disclose(q)
        \/ Service!Answer(q) \/ UNCHANGED ServiceVars
    BY <1>3, AcceptStep, JudgeStep, StutterStep, DiscloseStep, AnswerStep
    DEF Serve, Cook, Upstream
  <2>2. QED  BY <2>1 DEF Service!Next
<1>4. QED  BY <1>1, <1>2, <1>3 DEF Next

-----------------------------------------------------------------------------
(* The counters.                                                           *)

\* How much a step that turns before into after adds to a count.
Gain(before, after) == IF after /\ ~ before THEN 1 ELSE 0

LEMMA CountGain ==
    ASSUME NEW S, NEW T, IsFiniteSet(S), NEW q, q \in S => q \in T,
           S \ {q} = T \ {q}
    PROVE  /\ IsFiniteSet(T)
           /\ Cardinality(T) = Cardinality(S) + Gain(q \in S, q \in T)
           /\ Cardinality(S) \in Nat
<1>1. Cardinality(S) \in Nat  BY FS_CardinalityType
<1>2. CASE q \in S
  <2>1. T = S  BY <1>2
  <2>2. QED  BY <1>1, <1>2, <2>1 DEF Gain
<1>3. CASE q \notin S /\ q \notin T
  <2>1. T = S  BY <1>3
  <2>2. QED  BY <1>1, <1>3, <2>1 DEF Gain
<1>4. CASE q \notin S /\ q \in T
  <2>1. T = S \cup {q} /\ q \notin S  BY <1>4
  <2>2. QED  BY <1>1, <1>4, <2>1, FS_AddElement DEF Gain
<1>5. QED  BY <1>2, <1>3, <1>4

\* The queries of each fate.  They are all among those received, which are
\* finitely many at any time, however many queries there can be.
ReceivedSet    == {q \in Queries : Received(q)}
CookedSet      == {q \in Queries : Cooked(q)}
BlockedSet     == {q \in Queries : Blocked(q)}
ProxiedSet     == {q \in Queries : Proxied(q)}
UnsupportedSet == {q \in Queries : Unsupported(q)}
ProxyFailedSet == {q \in Queries : ProxyFailed(q)}
UnwrittenSet   == {q \in Queries : Unwritten(q)}

CountInv == CountersAddUp /\ IsFiniteSet(ReceivedSet)

LEMMA CountersAre ==
    CountersAddUp <=>
        /\ stats.queries = Cardinality(ReceivedSet)
        /\ stats.cooked = Cardinality(CookedSet)
        /\ stats.blocked = Cardinality(BlockedSet)
        /\ stats.proxied = Cardinality(ProxiedSet)
        /\ stats.failures = Cardinality(UnsupportedSet) + Cardinality(ProxyFailedSet)
                                + Cardinality(UnwrittenSet)
BY DEF CountersAddUp, Among, ReceivedSet, CookedSet, BlockedSet, ProxiedSet,
       UnsupportedSet, ProxyFailedSet, UnwrittenSet

LEMMA AllReceived ==
    ASSUME OutcomeInv, IsFiniteSet(ReceivedSet)
    PROVE  /\ IsFiniteSet(CookedSet) /\ IsFiniteSet(BlockedSet)
           /\ IsFiniteSet(ProxiedSet) /\ IsFiniteSet(UnsupportedSet)
           /\ IsFiniteSet(ProxyFailedSet) /\ IsFiniteSet(UnwrittenSet)
<1>1. \A q \in Queries : Decided(q) => Received(q)  BY DEF Decided, Received
<1>2. \A q \in Queries : Unwritten(q) => Received(q)
  BY HandlerAssumption DEF Unwritten, Received, OutcomeInv, Staged
<1>3. /\ CookedSet \in SUBSET ReceivedSet /\ BlockedSet \in SUBSET ReceivedSet
      /\ ProxiedSet \in SUBSET ReceivedSet /\ UnsupportedSet \in SUBSET ReceivedSet
      /\ ProxyFailedSet \in SUBSET ReceivedSet /\ UnwrittenSet \in SUBSET ReceivedSet
  BY <1>1, <1>2
  DEF ReceivedSet, CookedSet, BlockedSet, ProxiedSet, UnsupportedSet, ProxyFailedSet,
      UnwrittenSet, Cooked, Blocked, Proxied, Unsupported, ProxyFailed
<1>4. QED  BY <1>3, FS_Subset

LEMMA CountInit == Init => CountInv
<1> SUFFICES ASSUME Init PROVE CountInv  OBVIOUS
<1>1. /\ ReceivedSet = {} /\ CookedSet = {} /\ BlockedSet = {} /\ ProxiedSet = {}
      /\ UnsupportedSet = {} /\ ProxyFailedSet = {} /\ UnwrittenSet = {}
  BY HandlerAssumption
  DEF Init, ReceivedSet, CookedSet, BlockedSet, ProxiedSet, UnsupportedSet,
      ProxyFailedSet, UnwrittenSet, Received, Cooked, Blocked, Proxied, Unsupported,
      ProxyFailed, Unwritten, Decided
<1>2. CountersAddUp
  BY <1>1, CountersAre, FS_EmptySet DEF Init, NoStats
<1>3. QED  BY <1>1, <1>2, FS_EmptySet DEF CountInv

\* The books are kept if each step books what it does to its own query.
LEMMA Booked ==
    ASSUME HandlerInv, OutcomeInv, CountInv,
           NEW q \in Queries, Receive(q) \/ Serve(q),
           Received(q) => Received(q)', Cooked(q) => Cooked(q)',
           Blocked(q) => Blocked(q)', Proxied(q) => Proxied(q)',
           Unsupported(q) => Unsupported(q)', ProxyFailed(q) => ProxyFailed(q)',
           Unwritten(q) => Unwritten(q)',
           stats'.queries = stats.queries + Gain(Received(q), Received(q)'),
           stats'.cooked = stats.cooked + Gain(Cooked(q), Cooked(q)'),
           stats'.blocked = stats.blocked + Gain(Blocked(q), Blocked(q)'),
           stats'.proxied = stats.proxied + Gain(Proxied(q), Proxied(q)'),
           stats'.failures = stats.failures
                                + Gain(Unsupported(q), Unsupported(q)')
                                + Gain(ProxyFailed(q), ProxyFailed(q)')
                                + Gain(Unwritten(q), Unwritten(q)')
    PROVE  CountInv'
<1>1. /\ IsFiniteSet(ReceivedSet) /\ IsFiniteSet(CookedSet)
      /\ IsFiniteSet(BlockedSet) /\ IsFiniteSet(ProxiedSet)
      /\ IsFiniteSet(UnsupportedSet) /\ IsFiniteSet(ProxyFailedSet)
      /\ IsFiniteSet(UnwrittenSet)
  BY AllReceived DEF CountInv
<1>2. ASSUME NEW r \in Queries, r # q
      PROVE  /\ Received(r)' <=> Received(r)
             /\ Cooked(r)' <=> Cooked(r)
             /\ Blocked(r)' <=> Blocked(r)
             /\ Proxied(r)' <=> Proxied(r)
             /\ Unsupported(r)' <=> Unsupported(r)
             /\ ProxyFailed(r)' <=> ProxyFailed(r)
             /\ Unwritten(r)' <=> Unwritten(r)
  <2>1. SameAt(r)  BY <1>2, OthersUntouched DEF HandlerInv
  <2>2. QED
    BY <2>1 DEF SameAt, Received, Cooked, Blocked, Proxied, Unsupported, ProxyFailed,
                Unwritten, Decided, Plain, Eligible, NothingCooked
<1>3. /\ IsFiniteSet(ReceivedSet')
      /\ Cardinality(ReceivedSet') = Cardinality(ReceivedSet) + Gain(Received(q), Received(q)')
      /\ Cardinality(ReceivedSet) \in Nat
  <2>1. /\ Received(q) <=> q \in ReceivedSet
        /\ Received(q)' <=> q \in ReceivedSet'
        /\ ReceivedSet \ {q} = ReceivedSet' \ {q}
    BY <1>2 DEF ReceivedSet
  <2>2. QED  BY <1>1, <2>1, CountGain DEF Gain
<1>4. /\ Cardinality(CookedSet') = Cardinality(CookedSet) + Gain(Cooked(q), Cooked(q)')
      /\ Cardinality(CookedSet) \in Nat
  <2>1. /\ Cooked(q) <=> q \in CookedSet
        /\ Cooked(q)' <=> q \in CookedSet'
        /\ CookedSet \ {q} = CookedSet' \ {q}
    BY <1>2 DEF CookedSet
  <2>2. QED  BY <1>1, <2>1, CountGain DEF Gain
<1>5. /\ Cardinality(BlockedSet') = Cardinality(BlockedSet) + Gain(Blocked(q), Blocked(q)')
      /\ Cardinality(BlockedSet) \in Nat
  <2>1. /\ Blocked(q) <=> q \in BlockedSet
        /\ Blocked(q)' <=> q \in BlockedSet'
        /\ BlockedSet \ {q} = BlockedSet' \ {q}
    BY <1>2 DEF BlockedSet
  <2>2. QED  BY <1>1, <2>1, CountGain DEF Gain
<1>6. /\ Cardinality(ProxiedSet') = Cardinality(ProxiedSet) + Gain(Proxied(q), Proxied(q)')
      /\ Cardinality(ProxiedSet) \in Nat
  <2>1. /\ Proxied(q) <=> q \in ProxiedSet
        /\ Proxied(q)' <=> q \in ProxiedSet'
        /\ ProxiedSet \ {q} = ProxiedSet' \ {q}
    BY <1>2 DEF ProxiedSet
  <2>2. QED  BY <1>1, <2>1, CountGain DEF Gain
<1>7. /\ Cardinality(UnsupportedSet')
            = Cardinality(UnsupportedSet) + Gain(Unsupported(q), Unsupported(q)')
      /\ Cardinality(UnsupportedSet) \in Nat
  <2>1. /\ Unsupported(q) <=> q \in UnsupportedSet
        /\ Unsupported(q)' <=> q \in UnsupportedSet'
        /\ UnsupportedSet \ {q} = UnsupportedSet' \ {q}
    BY <1>2 DEF UnsupportedSet
  <2>2. QED  BY <1>1, <2>1, CountGain DEF Gain
<1>8. /\ Cardinality(ProxyFailedSet')
            = Cardinality(ProxyFailedSet) + Gain(ProxyFailed(q), ProxyFailed(q)')
      /\ Cardinality(ProxyFailedSet) \in Nat
  <2>1. /\ ProxyFailed(q) <=> q \in ProxyFailedSet
        /\ ProxyFailed(q)' <=> q \in ProxyFailedSet'
        /\ ProxyFailedSet \ {q} = ProxyFailedSet' \ {q}
    BY <1>2 DEF ProxyFailedSet
  <2>2. QED  BY <1>1, <2>1, CountGain DEF Gain
<1>9. /\ Cardinality(UnwrittenSet')
            = Cardinality(UnwrittenSet) + Gain(Unwritten(q), Unwritten(q)')
      /\ Cardinality(UnwrittenSet) \in Nat
  <2>1. /\ Unwritten(q) <=> q \in UnwrittenSet
        /\ Unwritten(q)' <=> q \in UnwrittenSet'
        /\ UnwrittenSet \ {q} = UnwrittenSet' \ {q}
    BY <1>2 DEF UnwrittenSet
  <2>2. QED  BY <1>1, <2>1, CountGain DEF Gain
<1>10. /\ Gain(Unsupported(q), Unsupported(q)') \in Nat
       /\ Gain(ProxyFailed(q), ProxyFailed(q)') \in Nat
       /\ Gain(Unwritten(q), Unwritten(q)') \in Nat
  BY DEF Gain
<1>11. CountersAddUp'
  <2>1. /\ stats.queries = Cardinality(ReceivedSet)
        /\ stats.cooked = Cardinality(CookedSet)
        /\ stats.blocked = Cardinality(BlockedSet)
        /\ stats.proxied = Cardinality(ProxiedSet)
        /\ stats.failures = Cardinality(UnsupportedSet) + Cardinality(ProxyFailedSet)
                                + Cardinality(UnwrittenSet)
    BY CountersAre DEF CountInv
  <2>2. stats'.failures = Cardinality(UnsupportedSet') + Cardinality(ProxyFailedSet')
                            + Cardinality(UnwrittenSet')
    BY <2>1, <1>7, <1>8, <1>9, <1>10
  <2>3. QED
    BY <2>1, <2>2, <1>3, <1>4, <1>5, <1>6
    DEF CountersAddUp, Among, ReceivedSet, CookedSet, BlockedSet, ProxiedSet,
        UnsupportedSet, ProxyFailedSet, UnwrittenSet
<1>12. QED  BY <1>3, <1>11 DEF CountInv

\* A step that counts nothing and decides nothing.
LEMMA NothingBooked ==
    ASSUME HandlerInv, OutcomeInv, CountInv,
           NEW q \in Queries, Receive(q) \/ Serve(q),
           stats' = stats,
           Received(q)' <=> Received(q), Cooked(q)' <=> Cooked(q),
           Blocked(q)' <=> Blocked(q), Proxied(q)' <=> Proxied(q),
           Unsupported(q)' <=> Unsupported(q), ProxyFailed(q)' <=> ProxyFailed(q),
           Unwritten(q)' <=> Unwritten(q)
    PROVE  CountInv'
<1>1. stats \in Stats  BY DEF HandlerInv, TypeOK
<1>2. QED  BY <1>1, Booked DEF Gain, Stats

LEMMA SilentCount ==
    ASSUME HandlerInv, OutcomeInv, CountInv, NEW q \in Queries,
           NotEligible(q) \/ NotOurs(q) \/ Forward(q) \/ Cook(q)
    PROVE  CountInv'
<1>1. /\ stats' = stats /\ resp' = resp
      /\ phase[q] \notin {"idle", "chasing", "writing", "done"}
      /\ phase'[q] \notin {"idle", "chasing", "writing", "done"}
  BY DEF HandlerInv, TypeOK, Goto, Cook, NotEligible, NotOurs, Forward, CookAny,
         StartCook, GiveUp, FollowAlias, AliasUnbuildable, TakeDirect, Iterating,
         shared
<1>2. QED
  BY <1>1, NothingBooked
  DEF Serve, Received, Decided, Cooked, Blocked, Proxied, Unsupported, ProxyFailed,
      Unwritten

LEMMA ReceiveCount ==
    ASSUME HandlerInv, OutcomeInv, CountInv, NEW q \in Queries, Receive(q)
    PROVE  CountInv'
<1>1. /\ stats' = [stats EXCEPT !.queries = @ + 1] /\ resp' = resp
      /\ phase[q] = "idle" /\ phase'[q] = "opened" /\ stats \in Stats
  BY DEF HandlerInv, TypeOK, Goto, Count, Receive
<1>2. /\ ~ Received(q) /\ Received(q)' /\ ~ Decided(q) /\ ~ Decided(q)'
      /\ Unwritten(q)' <=> Unwritten(q)
  BY <1>1 DEF Received, Decided, Unwritten
<1>3. QED
  BY <1>1, <1>2, Booked
  DEF Stats, Gain, Cooked, Blocked, Proxied, Unsupported, ProxyFailed

\* A response that is about to be written is no lost one.
LEMMA RespondingQuery ==
    ASSUME HandlerInv, OutcomeInv, NEW q \in Queries, Responds(q)
    PROVE  /\ Received(q) /\ Received(q)' /\ Decided(q)'
           /\ ~ Unwritten(q) /\ ~ Unwritten(q)'
           /\ UNCHANGED <<req, rt, chain, tail>>
           /\ stats \in Stats
<1>1. /\ phase[q] \notin {"idle", "writing", "done"} /\ phase'[q] = "writing"
      /\ UNCHANGED <<req, rt, chain, tail>>
  BY DEF HandlerInv, TypeOK, Responds, Respond, Goto, RejectUnsupported, RejectClass,
         AnswerLocally, NoData, ChaseReply, ChaseFail, Block, ProxyReply, ProxyFail,
         cooking
<1>2. resp[q] = None  BY <1>1 DEF OutcomeInv, Staged
<1>3. resp'[q] \in Messages  BY ResponseTyped DEF HandlerInv, TypeOK
<1>4. QED
  BY <1>1, <1>2, <1>3, HandlerAssumption
  DEF Received, Decided, Unwritten, HandlerInv, TypeOK

LEMMA RejectCount ==
    ASSUME HandlerInv, OutcomeInv, CountInv, NEW q \in Queries,
           RejectUnsupported(q) \/ RejectClass(q)
    PROVE  CountInv'
<1> USE DEF Received, Cooked, Blocked, Proxied, Unsupported, ProxyFailed, Plain
<1>1. /\ Received(q) /\ Received(q)' /\ ~ Decided(q) /\ Decided(q)'
      /\ ~ Unwritten(q) /\ ~ Unwritten(q)' /\ req' = req /\ stats \in Stats
  BY RespondingQuery DEF Responds, Decided, RejectUnsupported, RejectClass
<1>2. CASE RejectUnsupported(q)
  <2>1. /\ req[q].kind = "unsupported"
        /\ stats' = [stats EXCEPT !.failures = @ + 1]
    BY <1>2 DEF RejectUnsupported, Count
  <2>2. QED  BY <1>1, <1>2, <2>1, Booked DEF Serve, Gain, Stats
<1>3. CASE RejectClass(q)
  <2>1. req[q].kind = "badclass" /\ stats' = stats
    BY <1>3 DEF RejectClass, shared
  <2>2. QED  BY <1>1, <1>3, <2>1, NothingBooked DEF Serve
<1>4. QED  BY <1>2, <1>3

\* A query is cooked as soon as cook's answer is taken, whatever the chase
\* brings.
LEMMA CookedCount ==
    ASSUME HandlerInv, OutcomeInv, CountInv, NEW q \in Queries,
           AnswerLocally(q) \/ Chase(q) \/ NoData(q)
    PROVE  CountInv'
<1> USE DEF Blocked, Proxied, Unsupported, ProxyFailed
<1>1. /\ phase[q] = "cooked" /\ ~ Decided(q) /\ Received(q)
      /\ stats' = [stats EXCEPT !.cooked = @ + 1] /\ stats \in Stats
      /\ Plain(q) /\ Eligible(q)
  BY DEF AnswerLocally, Chase, NoData, Count, Decided, Received, HandlerInv, TypeOK,
         QueryInv, Placed, OutcomeInv, Staged
<1>2. /\ UNCHANGED <<req, rt, chain, tail>> /\ Received(q)' /\ Decided(q)'
      /\ ~ Unwritten(q) /\ ~ Unwritten(q)'
  <2>1. CASE Chase(q)
    <3>1. phase'[q] = "chasing" /\ resp[q] = None /\ resp' = resp
      BY <1>1, <2>1 DEF Chase, Goto, HandlerInv, TypeOK, OutcomeInv, Staged
    <3>2. QED
      BY <2>1, <3>1, HandlerAssumption DEF Chase, cooking, Received, Decided, Unwritten
  <2>2. CASE ~ Chase(q)  BY <2>2, RespondingQuery DEF Responds
  <2>3. QED  BY <2>1, <2>2
<1>3. Plain(q)' /\ Cooked(q)'
  BY <1>1, <1>2
  DEF AnswerLocally, Chase, NoData, Cooked, Plain, Eligible, NothingCooked
<1>4. ~ Cooked(q) /\ ~ Unsupported(q)'
  BY <1>1, <1>2 DEF Cooked, Plain
<1>5. QED  BY <1>1, <1>2, <1>3, <1>4, Booked DEF Serve, Gain, Stats

LEMMA ChaseCount ==
    ASSUME HandlerInv, OutcomeInv, CountInv, NEW q \in Queries,
           ChaseReply(q) \/ ChaseFail(q)
    PROVE  CountInv'
<1> USE DEF Blocked, Proxied, Unsupported, ProxyFailed
<1>1. /\ Received(q) /\ Received(q)' /\ Decided(q) /\ Decided(q)'
      /\ ~ Unwritten(q) /\ ~ Unwritten(q)'
      /\ UNCHANGED <<req, rt, chain, tail>>
  BY RespondingQuery DEF Responds, Decided, ChaseReply, ChaseFail
<1>2. Plain(q) /\ Eligible(q) /\ ~ NothingCooked(q)
  BY DEF ChaseReply, ChaseFail, OutcomeInv, Staged, NeedsChase, Dangles,
         NothingCooked, Empty
<1>3. Cooked(q) /\ Cooked(q)' /\ Plain(q)'
  BY <1>1, <1>2 DEF Cooked, Plain, Eligible, NothingCooked
<1>4. stats' = stats /\ ~ Unsupported(q) /\ ~ Unsupported(q)'
  BY <1>1, <1>2 DEF ChaseReply, ChaseFail, shared, Plain
<1>5. QED  BY <1>1, <1>3, <1>4, NothingBooked DEF Serve, Upstream

LEMMA FallbackCount ==
    ASSUME HandlerInv, OutcomeInv, CountInv, NEW q \in Queries,
           Block(q) \/ ProxyReply(q) \/ ProxyFail(q)
    PROVE  CountInv'
<1> USE DEF Blocked, Proxied, ProxyFailed
<1>1. /\ Received(q) /\ Received(q)' /\ ~ Decided(q) /\ Decided(q)'
      /\ ~ Unwritten(q) /\ ~ Unwritten(q)' /\ stats \in Stats
      /\ UNCHANGED <<req, rt, chain, tail>>
  BY RespondingQuery DEF Responds, Decided, Block, ProxyReply, ProxyFail
<1>2. Plain(q) /\ NothingCooked(q) /\ ~ (Eligible(q) /\ Kept(q)) /\ result[q] = None
  BY DEF Block, ProxyReply, ProxyFail, HandlerInv, QueryInv, Placed, OutcomeInv,
         Staged, Kept
<1>3. ~ Cooked(q) /\ ~ Cooked(q)' /\ Plain(q)'
  BY <1>1, <1>2 DEF Cooked, Plain, Eligible, NothingCooked, Kept
<1>4. ~ Unsupported(q) /\ ~ Unsupported(q)'
  BY <1>1, <1>2 DEF Unsupported, Plain
<1>5. CASE Block(q)
  <2>1. /\ stats' = [stats EXCEPT !.blocked = @ + 1]
        /\ rt[q].fallback # "proxy" /\ result'[q] = None
    BY <1>2, <1>5 DEF Block, Count, upstream
  <2>2. /\ ~ Blocked(q) /\ Blocked(q)' /\ ~ Proxied(q) /\ ~ Proxied(q)'
        /\ ~ ProxyFailed(q) /\ ~ ProxyFailed(q)'
    BY <1>1, <1>3, <2>1, HandlerAssumption
  <2>3. QED
    BY <1>1, <1>3, <1>4, <1>5, <2>1, <2>2, Booked DEF Serve, Gain, Stats
<1>6. CASE ProxyReply(q)
  <2>1. /\ stats' = [stats EXCEPT !.proxied = @ + 1]
        /\ rt[q].fallback = "proxy" /\ result'[q] \in Replies
    BY <1>6 DEF ProxyReply, Count, OutcomeInv, Staged, HandlerInv, TypeOK
  <2>2. result'[q] \notin {None, Failed}  BY <2>1, HandlerAssumption
  <2>3. QED
    BY <1>1, <1>3, <1>4, <1>6, <2>1, <2>2, Booked
    DEF Serve, Upstream, Gain, Stats
<1>7. CASE ProxyFail(q)
  <2>1. /\ stats' = [stats EXCEPT !.failures = @ + 1]
        /\ rt[q].fallback = "proxy" /\ result'[q] = Failed
    BY <1>7 DEF ProxyFail, Count, OutcomeInv, Staged, HandlerInv, TypeOK
  <2>2. QED
    BY <1>1, <1>3, <1>4, <1>7, <2>1, Booked DEF Serve, Upstream, Gain, Stats
<1>8. QED  BY <1>5, <1>6, <1>7

LEMMA WriteCount ==
    ASSUME HandlerInv, OutcomeInv, CountInv, NEW q \in Queries,
           Write(q) \/ WriteFail(q)
    PROVE  CountInv'
<1>1. /\ UNCHANGED <<req, rt, chain, tail, result>> /\ stats \in Stats
      /\ phase[q] = "writing" /\ phase'[q] = "done" /\ resp[q] \in Messages
  BY DEF Write, WriteFail, Goto, cooking, upstream, HandlerInv, TypeOK, OutcomeInv,
         Staged
<1>2. /\ Received(q) /\ Received(q)' /\ Decided(q) /\ Decided(q)' /\ ~ Unwritten(q)
  BY <1>1, HandlerAssumption DEF Received, Decided, Unwritten
<1>3. /\ Cooked(q)' <=> Cooked(q)
      /\ Plain(q)' <=> Plain(q)
      /\ Unsupported(q)' <=> Unsupported(q)
  BY <1>1, <1>2 DEF Cooked, Plain, Eligible, NothingCooked, Unsupported
<1>4. /\ Blocked(q)' <=> Blocked(q)
      /\ Proxied(q)' <=> Proxied(q)
      /\ ProxyFailed(q)' <=> ProxyFailed(q)
  BY <1>1, <1>2, <1>3 DEF Blocked, Proxied, ProxyFailed
<1>5. CASE Write(q)
  <2>1. stats' = stats /\ resp' = resp  BY <1>5 DEF Write, shared
  <2>2. Unwritten(q)' <=> Unwritten(q)  BY <2>1 DEF Unwritten
  <2>3. QED  BY <1>2, <1>3, <1>4, <1>5, <2>1, <2>2, NothingBooked DEF Serve
<1>6. CASE WriteFail(q)
  <2>1. stats' = [stats EXCEPT !.failures = @ + 1] /\ Unwritten(q)'
    BY <1>6 DEF WriteFail, Count, Unwritten, HandlerInv, TypeOK
  <2>2. QED  BY <1>1, <1>2, <1>3, <1>4, <1>6, <2>1, Booked DEF Serve, Gain, Stats
<1>7. QED  BY <1>5, <1>6

LEMMA CountStep == HandlerInv /\ OutcomeInv /\ CountInv /\ [Next]_vars => CountInv'
<1> SUFFICES ASSUME HandlerInv, OutcomeInv, CountInv, [Next]_vars PROVE CountInv'
  OBVIOUS
<1>1. CASE Reload \/ UNCHANGED vars
  <2>1. UNCHANGED <<stats, phase, req, rt, cooking, upstream, resp>>
    BY <1>1 DEF Reload, vars, shared
  <2>2. QED
    BY <2>1
    DEF cooking, upstream, CountInv, CountersAddUp, Among, ReceivedSet, Received,
        Cooked, Blocked, Proxied, Unsupported, ProxyFailed, Unwritten, Decided, Plain,
        Eligible, NothingCooked
<1>2. ASSUME NEW q \in Queries, Receive(q) \/ Serve(q) PROVE CountInv'
  BY <1>2, ReceiveCount, SilentCount, RejectCount, CookedCount, ChaseCount,
     FallbackCount, WriteCount
  DEF Serve, Upstream
<1>3. QED  BY <1>1, <1>2 DEF Next

LEMMA CountInvariant == Spec => []CountInv
BY CountInit, CountStep, HandlerInvariant, OutcomeInvariant, PTL DEF Spec

-----------------------------------------------------------------------------
(* The theorems.                                                           *)

\* Whatever reloads, other queries and failing upstreams fall between the steps
\* of a query, it is judged, disclosed upstream and answered as the service
\* would in one step under the runtime it loaded when it came in
\* (server.go:38-39, handler.go:21-90).
THEOREM HandlerImplementsService == Spec => ImplementsService
<1>1. Spec => Service!Init /\ [][Service!Next]_Service!vars
  BY ServiceInit, ServiceStep, HandlerInvariant, OutcomeInvariant, PTL DEF Spec
<1>2. QED  BY <1>1 DEF ImplementsService, Service!Spec

\* The counters are the numbers of queries that met each fate, however many
\* queries run at once and wherever a reload or a failed write falls
\* (server.go:86-93, handler.go:22-90, handler.go:207-212).
THEOREM CountersAlwaysAddUp == Spec => []CountersAddUp
<1>1. CountInv => CountersAddUp  BY DEF CountInv
<1>2. QED  BY <1>1, CountInvariant, PTL

=============================================================================
