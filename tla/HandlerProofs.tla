--------------------------- MODULE HandlerProofs ---------------------------
(***************************************************************************)
(* Theorems about Handler for any number of queries, any configurations    *)
(* and any upstream: type correctness, what may go upstream, and that no   *)
(* local answer, but to ANY, puts other data beside a CNAME.               *)
(***************************************************************************)
EXTENDS Handler, WellFoundedInduction, TLAPS

-----------------------------------------------------------------------------
(* Lookups.                                                                *)

LEMMA FirstIsLeast ==
    ASSUME NEW K \in SUBSET Nat, K # {}
    PROVE  First(K) \in K
<1> DEFINE Less == {ss \in Nat \X Nat : ss[1] < ss[2]}
<1>1. IsWellFoundedOn(Less, Nat)  BY NatLessThanWellFounded DEF OpToRel
<1>2. PICK k \in K : \A j \in K : ~ (<<j, k>> \in Less)
  <2> HIDE DEF Less
  <2>1. QED  BY <1>1, WFMin
<1>3. ASSUME NEW j \in K PROVE k <= j
  <2>1. <<j, k>> \in Nat \X Nat /\ <<j, k>>[1] = j /\ <<j, k>>[2] = k  OBVIOUS
  <2>2. j < k => <<j, k>> \in Less
    <3> SUFFICES ASSUME j < k PROVE <<j, k>> \in Less  OBVIOUS
    <3>1. <<j, k>>[1] < <<j, k>>[2]  BY <2>1
    <3>2. QED  BY <2>1, <3>1, Zenon
  <2>3. ~ (j < k)  BY <1>2, <2>2
  <2>4. j \in Nat /\ k \in Nat  OBVIOUS
  <2>5. QED  BY <2>3, <2>4
<1>4. QED  BY <1>3 DEF First

\* A lookup returns positions of the type looked up.
LEMMA LookupInStore ==
    ASSUME NEW store \in Seq([name : Names, type : Types, value : Data \cup Names]),
           NEW t, NEW n
    PROVE  /\ Lookup(store, t, n) \in SUBSET Nat
           /\ \A k \in Lookup(store, t, n) : k \in DOMAIN store /\ store[k].type = t
<1>1. DOMAIN store \in SUBSET Nat  OBVIOUS
<1>2. Lookup(store, t, n) \in SUBSET ByType(store, t)
  BY DEF Lookup, Best, Matching
<1>3. QED  BY <1>1, <1>2 DEF ByType

LEMMA RecordsTyped ==
    ASSUME NEW c \in Configs
    PROVE  /\ c.records \in Seq([name : Names, type : Types, value : Data \cup Names])
           /\ \A k \in DOMAIN c.records :
                 /\ c.records[k].type \in Types
                 /\ c.records[k].value \in Data \cup Names
                 /\ c.records[k].type = "CNAME" => c.records[k].value \in Names
<1> DEFINE Record == [name : Names, type : Types, value : Data \cup Names]
<1>1. c.records \in Seq(Record)  BY HandlerAssumption
<1>2. \A k \in DOMAIN c.records : c.records[k] \in Record
  <2> HIDE DEF Record
  <2>1. QED  BY <1>1
<1>3. QED  BY <1>1, <1>2, HandlerAssumption

LEMMA BuildTyped ==
    ASSUME NEW c \in Configs, NEW n \in Names, NEW t
    PROVE  /\ Build(c, Direct(c, n, t), n) \subseteq RRs
           /\ \A rr \in Build(c, Direct(c, n, t), n) : rr.owner = n /\ rr.type = t
<1>1. \A k \in Direct(c, n, t) : k \in DOMAIN c.records /\ c.records[k].type = t
  BY RecordsTyped, LookupInStore DEF Direct
<1>2. \A k \in DOMAIN c.records : RR(c.records[k], n) \in RRs /\ RR(c.records[k], n).owner = n
                                /\ RR(c.records[k], n).type = c.records[k].type
  BY RecordsTyped DEF RR, RRs
<1>3. QED  BY <1>1, <1>2 DEF Build

LEMMA AnyAnswerTyped ==
    ASSUME NEW c \in Configs, NEW n \in Names
    PROVE  AnyAnswer(c, n) \subseteq RRs
BY BuildTyped DEF AnyAnswer

\* The CNAME followed is one, and its target a name.
LEMMA AliasTyped ==
    ASSUME NEW c \in Configs, NEW n \in Names, NEW t, AliasWins(c, n, t)
    PROVE  /\ AliasRR(c, n) \in CNAMEs
           /\ AliasRR(c, n).owner = n
<1>1. /\ Aliases(c, n) \in SUBSET Nat /\ Aliases(c, n) # {}
      /\ \A k \in Aliases(c, n) :
            k \in DOMAIN c.records /\ c.records[k].type = "CNAME"
  BY RecordsTyped, LookupInStore DEF Aliases, AliasWins
<1>2. First(Aliases(c, n)) \in Aliases(c, n)  BY <1>1, FirstIsLeast
<1> DEFINE rec == c.records[First(Aliases(c, n))]
<1>3. rec.type = "CNAME" /\ rec.value \in Names
  BY <1>1, <1>2, RecordsTyped
<1>4. QED  BY <1>3 DEF AliasRR, RR, CNAMEs

-----------------------------------------------------------------------------
(* The inductive invariant, one query at a time.                           *)

\* The i-th name on the way: the one asked for, then the targets.
NameAt(q, i) == IF i = 0 THEN req[q].name ELSE chain[q][i].data

\* Every link is the CNAME the query's own runtime gives for the name it
\* follows, and what ends the chain is of the type asked for and does not belong
\* to a name with a CNAME.
Linked(q) ==
    /\ \A i \in DOMAIN chain[q] :
          /\ AliasWins(rt[q], NameAt(q, i - 1), req[q].type)
          /\ chain[q][i] = AliasRR(rt[q], NameAt(q, i - 1))
    /\ chain[q] # <<>> =>
          \A rr \in tail[q] : ~ AliasWins(rt[q], rr.owner, req[q].type)
    /\ tail[q] # {} /\ req[q].type # "ANY" =>
          \A rr \in tail[q] : rr.type = req[q].type

\* What the query's place in the handler says of it.
Placed(q) ==
    /\ phase[q] \in {"idle", "opened"} =>
          chain[q] = <<>> /\ tail[q] = {} /\ asked[q] = {}
    /\ phase[q] = "cooking" =>
          /\ Eligible(q)
          /\ tail[q] = {} /\ asked[q] = {}
          /\ name[q] = NameAt(q, Len(chain[q]))
    /\ phase[q] = "cooked" => Eligible(q) /\ asked[q] = {}
    /\ phase[q] = "fallback" =>
          /\ asked[q] = {} /\ NothingCooked(q)
          /\ Eligible(q) => ~ (rt[q].noData /\ Knows(rt[q].records, req[q].name))

AskedByPolicy(q) ==
    /\ \A a, b \in asked[q] : a = b
    /\ \A a \in asked[q] :
          /\ rt[q].fallback = "proxy"
          /\ a.via = "proxy" =>
                /\ a.name = req[q].name
                /\ Eligible(q) =>
                      /\ NothingCooked(q)
                      /\ ~ (rt[q].noData /\ Knows(rt[q].records, a.name))
          /\ a.via = "chase" =>
                /\ Eligible(q) /\ Address(req[q].type)
                /\ chain[q] # <<>> /\ tail[q] = {}
                /\ chain[q][1].owner = req[q].name
                /\ chain[q][Len(chain[q])].data = a.name

QueryInv(q) == Linked(q) /\ Placed(q) /\ AskedByPolicy(q)

HandlerInv == TypeOK /\ \A q \in Queries : QueryInv(q)

-----------------------------------------------------------------------------
(* Frames: what a step of one query leaves alone.                          *)

\* The variables the invariant reads, besides stats.
known == <<req, rt, name, chain, tail, asked>>

LEMMA OtherQuery ==
    ASSUME NEW q \in Queries, QueryInv(q),
           phase'[q] = phase[q], req'[q] = req[q], rt'[q] = rt[q],
           name'[q] = name[q], chain'[q] = chain[q], tail'[q] = tail[q],
           asked'[q] = asked[q]
    PROVE  QueryInv(q)'
BY DEF QueryInv, Linked, Placed, AskedByPolicy, NameAt, Eligible, NothingCooked

LEMMA CountTyped ==
    ASSUME stats \in Stats, NEW counter \in DOMAIN NoStats, Count(counter)
    PROVE  stats' \in Stats
BY DEF Stats, NoStats, Count

LEMMA MessageTyped ==
    ASSUME NEW m \in Messages, NEW r
    PROVE  Truncate(m, r) \in Messages
BY DEF Truncate, Messages

LEMMA BareTyped ==
    ASSUME NEW rcode \in {"NOERROR", "NOTIMP", "REFUSED", "NXDOMAIN", "SERVFAIL"}
    PROVE  Bare(rcode) \in Messages
<1>1. <<>> \in Seq(CNAMEs)  OBVIOUS
<1>2. QED  BY <1>1 DEF Bare, Message, Messages

\* A query that only moves on, to a place that asks nothing more of it.
LEMMA Advance ==
    ASSUME HandlerInv, NEW q \in Queries, NEW p \in Phases,
           phase[q] # "idle", Goto(q, p),
           UNCHANGED known, current' \in Configs, stats' \in Stats,
           result' \in [Queries -> Replies \cup {None, Failed}],
           resp' \in [Queries -> Messages \cup {None, Lost}],
           p \in {"writing", "done"} \/ Placed(q)'
    PROVE  HandlerInv'
<1>1. phase' \in [Queries -> Phases] /\ phase'[q] = p
  BY DEF HandlerInv, TypeOK, Goto
<1>2. TypeOK'
  BY <1>1 DEF HandlerInv, TypeOK, Goto, known
<1>3. ASSUME NEW r \in Queries PROVE QueryInv(r)'
  <2>1. CASE r # q
    <3>1. phase'[r] = phase[r]  BY <2>1 DEF HandlerInv, TypeOK, Goto
    <3>2. QED  BY <3>1, OtherQuery DEF known, HandlerInv
  <2>2. CASE r = q
    <3>1. Linked(q)' /\ AskedByPolicy(q)'
      BY DEF HandlerInv, QueryInv, Linked, AskedByPolicy, NameAt, Eligible,
             NothingCooked, known
    <3>2. Placed(q)'
      <4>1. CASE p \in {"writing", "done"}  BY <4>1, <1>1 DEF Placed
      <4>2. QED  BY <4>1
    <3>3. QED  BY <2>2, <3>1, <3>2 DEF QueryInv
  <2>3. QED  BY <2>1, <2>2
<1>4. QED  BY <1>2, <1>3 DEF HandlerInv

\* A query that writes what its runtime knows, or sends a name upstream: the
\* other queries and the shared variables are left as they were typed.
LEMMA OwnStep ==
    ASSUME HandlerInv, NEW q \in Queries, TypeOK',
           \A r \in Queries \ {q} :
              /\ phase'[r] = phase[r] /\ req'[r] = req[r] /\ rt'[r] = rt[r]
              /\ name'[r] = name[r] /\ chain'[r] = chain[r] /\ tail'[r] = tail[r]
              /\ asked'[r] = asked[r],
           QueryInv(q)'
    PROVE  HandlerInv'
<1>1. ASSUME NEW r \in Queries, r # q PROVE QueryInv(r)'
  BY <1>1, OtherQuery DEF HandlerInv
<1>2. QED  BY <1>1 DEF HandlerInv

-----------------------------------------------------------------------------
LEMMA HandlerInit == Init => HandlerInv
<1> SUFFICES ASSUME Init PROVE HandlerInv  OBVIOUS
<1>1. <<>> \in Names /\ <<>> \in Seq(CNAMEs) /\ Len(<<>>) = 0  BY DEF Names
<1>2. TypeOK
  BY <1>1, HandlerAssumption DEF Init, TypeOK, Phases, Stats, NoStats
<1>3. \A q \in Queries : QueryInv(q)
  BY DEF Init, QueryInv, Linked, Placed, AskedByPolicy
<1>4. QED  BY <1>2, <1>3 DEF HandlerInv

LEMMA ReceiveStep ==
    ASSUME HandlerInv, NEW q \in Queries, Receive(q) PROVE HandlerInv'
<1> USE DEF Receive, cooking, upstream
<1>1. stats' \in Stats  BY CountTyped DEF HandlerInv, TypeOK, NoStats
<1>2. PICK m \in Requests : req' = [req EXCEPT ![q] = m]  OBVIOUS
<1>3. TypeOK'
  <2>1. /\ phase' \in [Queries -> Phases] /\ req' \in [Queries -> Requests \cup {None}]
        /\ rt' \in [Queries -> Configs \cup {None}]
    BY <1>2 DEF HandlerInv, TypeOK, Goto, Phases
  <2>2. \A x \in Queries : phase'[x] # "idle" => req'[x] # None /\ rt'[x] # None
    BY <1>2, HandlerAssumption DEF HandlerInv, TypeOK, Goto
  <2>3. QED  BY <1>1, <2>1, <2>2 DEF HandlerInv, TypeOK
<1>4. QueryInv(q)'
  <2>1. chain[q] = <<>> /\ tail[q] = {} /\ asked[q] = {}
    BY DEF HandlerInv, QueryInv, Placed
  <2>2. phase'[q] = "opened"  BY DEF HandlerInv, TypeOK, Goto
  <2>3. QED  BY <2>1, <2>2 DEF QueryInv, Linked, Placed, AskedByPolicy
<1>5. QED
  <2>1. \A r \in Queries \ {q} :
           phase'[r] = phase[r] /\ req'[r] = req[r] /\ rt'[r] = rt[r]
    BY <1>2 DEF HandlerInv, TypeOK, Goto
  <2>2. QED  BY <1>3, <1>4, <2>1, OwnStep

\* The steps that only write a response.
Responds(q) ==
    \/ RejectUnsupported(q) \/ RejectClass(q) \/ AnswerLocally(q) \/ NoData(q)
    \/ ChaseReply(q) \/ ChaseFail(q) \/ Block(q) \/ ProxyReply(q) \/ ProxyFail(q)

LEMMA ResponseTyped ==
    ASSUME HandlerInv, NEW q \in Queries, Responds(q)
    PROVE  \E m \in Messages : resp' = [resp EXCEPT ![q] = m]
<1> USE DEF RejectUnsupported, RejectClass, AnswerLocally, NoData, ChaseReply,
            ChaseFail, Block, ProxyReply, ProxyFail, Responds
<1>1. chain[q] \in Seq(CNAMEs) /\ tail[q] \in SUBSET RRs /\ rt[q] \in Configs
  BY DEF HandlerInv, TypeOK
<1>2. PICK m \in Messages : resp' = [resp EXCEPT ![q] = Truncate(m, req[q])]
  <2>1. CASE RejectUnsupported(q) \/ RejectClass(q) \/ NoData(q) \/ ProxyFail(q)
    BY <2>1, BareTyped DEF Respond
  <2>2. CASE Block(q)
    <3>1. rt[q].fallback \in DOMAIN BlockRcode  BY <1>1, <2>2, HandlerAssumption
    <3>2. BlockRcode[rt[q].fallback] \in {"NXDOMAIN", "REFUSED", "NOERROR"}
      BY <3>1 DEF BlockRcode
    <3>3. QED  BY <2>2, <3>2, BareTyped DEF Respond
  <2>3. CASE AnswerLocally(q) \/ ChaseFail(q)
    BY <1>1, <2>3 DEF Respond, Message, Messages
  <2>4. CASE ChaseReply(q)
    BY <1>1, <2>4 DEF Respond, Message, Messages
  <2>5. CASE ProxyReply(q)
    <3>1. <<>> \in Seq(CNAMEs)  OBVIOUS
    <3>2. QED  BY <2>5, <3>1, HandlerAssumption DEF Respond, Message, Messages
  <2>6. QED  BY <2>1, <2>2, <2>3, <2>4, <2>5
<1>3. QED  BY <1>2, MessageTyped

LEMMA ResponseSteps ==
    ASSUME HandlerInv, NEW q \in Queries, Responds(q)
    PROVE  HandlerInv'
<1> USE DEF RejectUnsupported, RejectClass, AnswerLocally, NoData, ChaseReply,
            ChaseFail, Block, ProxyReply, ProxyFail, Responds
<1>1. phase[q] # "idle" /\ Goto(q, "writing")  BY DEF Respond
<1>2. UNCHANGED known  BY DEF known, cooking, upstream
<1>3. current' \in Configs  BY DEF HandlerInv, TypeOK, shared
<1>4. stats' \in Stats
  BY CountTyped DEF HandlerInv, TypeOK, shared, NoStats
<1>5. result' \in [Queries -> Replies \cup {None, Failed}]
  BY DEF HandlerInv, TypeOK, upstream
<1>6. resp' \in [Queries -> Messages \cup {None, Lost}]
  <2>1. PICK m \in Messages : resp' = [resp EXCEPT ![q] = m]
    BY ResponseTyped DEF Responds
  <2>2. resp \in [Queries -> Messages \cup {None, Lost}]  BY DEF HandlerInv, TypeOK
  <2>3. QED  BY <2>1, <2>2
<1>7. QED  BY <1>1, <1>2, <1>3, <1>4, <1>5, <1>6, Advance DEF Phases

LEMMA WriteSteps ==
    ASSUME HandlerInv, NEW q \in Queries, Write(q) \/ WriteFail(q) PROVE HandlerInv'
<1> USE DEF Write, WriteFail
<1>1. phase[q] # "idle" /\ Goto(q, "done")  OBVIOUS
<1>2. UNCHANGED known  BY DEF known, cooking, upstream
<1>3. current' \in Configs  BY DEF HandlerInv, TypeOK, shared
<1>4. stats' \in Stats
  BY CountTyped DEF HandlerInv, TypeOK, shared, NoStats
<1>5. /\ result' \in [Queries -> Replies \cup {None, Failed}]
      /\ resp' \in [Queries -> Messages \cup {None, Lost}]
  BY DEF HandlerInv, TypeOK, upstream
<1>6. QED  BY <1>1, <1>2, <1>3, <1>4, <1>5, Advance DEF Phases

\* The steps that leave the answer as it is and go on to the next place.
LEMMA MoveSteps ==
    ASSUME HandlerInv, NEW q \in Queries,
           NotEligible(q) \/ GiveUp(q) \/ AliasUnbuildable(q) \/ NotOurs(q)
    PROVE  HandlerInv'
<1> DEFINE p == IF NotEligible(q) \/ NotOurs(q) THEN "fallback" ELSE "cooked"
<1> USE DEF NotEligible, GiveUp, AliasUnbuildable, Iterating, NotOurs
<1>1. phase[q] # "idle" /\ Goto(q, p) /\ p \in Phases  BY DEF Phases
<1>2. UNCHANGED known  BY DEF known, cooking, upstream
<1>3. current' \in Configs /\ stats' \in Stats  BY DEF HandlerInv, TypeOK, shared
<1>4. Placed(q)'
  <2>1. phase'[q] = p  BY <1>1 DEF HandlerInv, TypeOK, Goto
  <2>2. Placed(q)  BY DEF HandlerInv, QueryInv
  <2>3. CASE p = "fallback"
    <3>1. asked[q] = {} /\ NothingCooked(q)
      BY <2>2, <2>3 DEF Placed, NothingCooked, Empty
    <3>2. Eligible(q) => ~ (rt[q].noData /\ Knows(rt[q].records, req[q].name))
      BY <2>3
    <3>3. QED  BY <1>2, <2>1, <2>3, <3>1, <3>2 DEF Placed, known, NothingCooked, Eligible
  <2>4. CASE p = "cooked"
    <3>1. phase[q] = "cooking"  BY <2>4
    <3>2. Eligible(q) /\ asked[q] = {}  BY <2>2, <3>1 DEF Placed
    <3>3. QED  BY <1>2, <2>1, <2>4, <3>2 DEF Placed, known, Eligible
  <2>5. QED  BY <2>3, <2>4
<1>5. /\ result' \in [Queries -> Replies \cup {None, Failed}]
      /\ resp' \in [Queries -> Messages \cup {None, Lost}]
  BY DEF HandlerInv, TypeOK, upstream
<1>6. QED  BY <1>1, <1>2, <1>3, <1>4, <1>5, Advance

\* What TypeOK says of one query that has been received.
LEMMA Known ==
    ASSUME HandlerInv, NEW q \in Queries, phase[q] # "idle"
    PROVE  /\ TypeOK /\ QueryInv(q)
           /\ req[q] \in Requests /\ rt[q] \in Configs /\ req[q].name \in Names
           /\ name[q] \in Names /\ chain[q] \in Seq(CNAMEs)
           /\ Len(chain[q]) \in Nat /\ MaxCNAMEDepth \in Nat
<1>1. TypeOK /\ QueryInv(q)  BY DEF HandlerInv
<1>2. req[q] \in Requests /\ rt[q] \in Configs /\ name[q] \in Names
  BY <1>1 DEF TypeOK
<1>3. chain[q] \in Seq(CNAMEs)  BY <1>1 DEF TypeOK
<1>4. Len(chain[q]) \in Nat  BY <1>3
<1>5. QED  BY <1>1, <1>2, <1>3, <1>4, HandlerAssumption

LEMMA StartCookStep ==
    ASSUME HandlerInv, NEW q \in Queries, StartCook(q) PROVE HandlerInv'
<1> USE DEF StartCook, shared, upstream
<1>1. phase'[q] = "cooking" /\ name'[q] = req[q].name /\ TypeOK'
  BY Known DEF HandlerInv, TypeOK, Goto, Phases
<1>2. chain[q] = <<>> /\ tail[q] = {} /\ asked[q] = {}
  BY DEF HandlerInv, QueryInv, Placed
<1>3. QueryInv(q)'
  BY <1>1, <1>2 DEF QueryInv, Linked, Placed, AskedByPolicy, NameAt, Eligible
<1>4. QED  BY <1>1, <1>3, OwnStep DEF HandlerInv, TypeOK, Goto

LEMMA CookAnyStep ==
    ASSUME HandlerInv, NEW q \in Queries, CookAny(q) PROVE HandlerInv'
<1> USE DEF CookAny, shared, upstream
<1>1. AnyAnswer(rt[q], req[q].name) \subseteq RRs  BY Known, AnyAnswerTyped
<1>2. phase'[q] = "cooked" /\ TypeOK'
  BY <1>1 DEF HandlerInv, TypeOK, Goto, Phases
<1>3. chain[q] = <<>> /\ asked[q] = {}  BY DEF HandlerInv, QueryInv, Placed
<1>4. QueryInv(q)'
  BY <1>2, <1>3 DEF QueryInv, Linked, Placed, AskedByPolicy, Eligible
<1>5. QED  BY <1>2, <1>4, OwnStep DEF HandlerInv, TypeOK, Goto

LEMMA FollowAliasStep ==
    ASSUME HandlerInv, NEW q \in Queries, FollowAlias(q) PROVE HandlerInv'
<1> USE DEF FollowAlias, Iterating, shared, upstream
<1> DEFINE rr == AliasRR(rt[q], name[q])
<1>0. PICK n \in Nat : n = Len(chain[q])  BY Known
<1>1. /\ TypeOK /\ QueryInv(q) /\ rt[q] \in Configs /\ name[q] \in Names
      /\ chain[q] \in Seq(CNAMEs) /\ n = Len(chain[q]) /\ MaxCNAMEDepth \in Nat
  BY <1>0, Known
<1>2. rr \in CNAMEs /\ rr.data \in Names  BY <1>1, AliasTyped DEF CNAMEs
<1>3. /\ chain' = [chain EXCEPT ![q] = Append(chain[q], rr)]
      /\ name' = [name EXCEPT ![q] = rr.data]
  OBVIOUS
<1>4. chain'[q] = Append(chain[q], rr) /\ name'[q] = rr.data
  BY <1>1, <1>3 DEF TypeOK
<1>5. /\ Len(chain'[q]) = n + 1 /\ chain'[q] \in Seq(CNAMEs)
      /\ chain'[q][n + 1] = rr /\ \A i \in 1..n : chain'[q][i] = chain[q][i]
      /\ DOMAIN chain'[q] = 1..(n + 1) /\ DOMAIN chain[q] = 1..n
  <2> HIDE DEF rr
  <2>1. QED  BY <1>1, <1>2, <1>4
<1>6. TypeOK'
  <2>1. chain' \in [Queries -> Seq(CNAMEs)]  BY <1>1, <1>3, <1>5, <1>4 DEF TypeOK
  <2>2. name' \in [Queries -> Names]  BY <1>1, <1>2, <1>3 DEF TypeOK
  <2>3. \A r \in Queries : Len(chain'[r]) <= MaxCNAMEDepth
    <3>1. n + 1 <= MaxCNAMEDepth  BY <1>1
    <3>2. QED  BY <1>1, <1>3, <1>5, <3>1 DEF TypeOK
  <2>4. QED  BY <1>1, <2>1, <2>2, <2>3 DEF TypeOK
<1>7. phase[q] = "cooking" /\ Eligible(q) /\ tail[q] = {} /\ asked[q] = {}
      /\ name[q] = NameAt(q, n) /\ Linked(q)
  BY <1>1 DEF QueryInv, Placed
<1>8. ASSUME NEW i \in 0..n PROVE NameAt(q, i)' = NameAt(q, i)
  <2>1. i = 0 \/ i \in 1..n  BY <1>1
  <2>2. i \in 1..n => chain'[q][i].data = chain[q][i].data  BY <1>5
  <2>3. QED  BY <2>1, <2>2 DEF NameAt
<1>9. Linked(q)'
  <2>1. ASSUME NEW i \in 1..(n + 1)
        PROVE  /\ AliasWins(rt[q], NameAt(q, i - 1)', req[q].type)
               /\ chain'[q][i] = AliasRR(rt[q], NameAt(q, i - 1)')
    <3>1. i - 1 \in 0..n /\ NameAt(q, i - 1)' = NameAt(q, i - 1)  BY <1>1, <1>8
    <3>2. CASE i = n + 1  BY <1>1, <1>5, <1>7, <3>1, <3>2
    <3>3. CASE i # n + 1
      <4>1. i \in 1..n  BY <1>1, <3>3
      <4>2. QED  BY <4>1, <3>1, <1>5, <1>7 DEF Linked
    <3>4. QED  BY <3>2, <3>3
  <2>2. QED  BY <2>1, <1>5, <1>7 DEF Linked
<1>10. Placed(q)'
  <2>1. name'[q] = NameAt(q, Len(chain[q]))'
    BY <1>4, <1>5 DEF NameAt
  <2>2. QED  BY <2>1, <1>7 DEF Placed, Eligible
<1>11. AskedByPolicy(q)'  BY <1>7 DEF AskedByPolicy
<1>12. \A r \in Queries \ {q} : name'[r] = name[r] /\ chain'[r] = chain[r]
  BY <1>1, <1>3 DEF TypeOK
<1>13. QED  BY <1>6, <1>9, <1>10, <1>11, <1>12, OwnStep DEF QueryInv

LEMMA TakeDirectStep ==
    ASSUME HandlerInv, NEW q \in Queries, TakeDirect(q) PROVE HandlerInv'
<1> USE DEF TakeDirect, Iterating, shared, upstream
<1> DEFINE t == Build(rt[q], Direct(rt[q], name[q], req[q].type), name[q])
<1>1. TypeOK /\ QueryInv(q) /\ rt[q] \in Configs /\ name[q] \in Names
  BY Known
<1>2. t \subseteq RRs /\ \A rr \in t : rr.owner = name[q] /\ rr.type = req[q].type
  BY <1>1, BuildTyped
<1>3. tail' = [tail EXCEPT ![q] = t] /\ tail'[q] = t  BY <1>1 DEF TypeOK
<1>4. phase'[q] = "cooked" /\ TypeOK'
  BY <1>1, <1>2, <1>3 DEF TypeOK, Goto, Phases
<1>5. Linked(q) /\ Eligible(q) /\ asked[q] = {}  BY <1>1 DEF QueryInv, Placed
<1>6. Linked(q)'
  <2>1. \A rr \in tail'[q] : ~ AliasWins(rt[q], rr.owner, req[q].type)
    BY <1>2, <1>3
  <2>2. \A rr \in tail'[q] : rr.type = req[q].type  BY <1>2, <1>3
  <2> HIDE DEF t
  <2>3. QED  BY <2>1, <2>2, <1>5 DEF Linked, NameAt
<1>7. Placed(q)' /\ AskedByPolicy(q)'
  BY <1>4, <1>5 DEF Placed, AskedByPolicy, Eligible
<1>8. QED  BY <1>3, <1>4, <1>6, <1>7, <1>1, OwnStep DEF QueryInv, TypeOK, Goto

\* The name that goes upstream is the one the answer leaves open.
LEMMA ChaseStep ==
    ASSUME HandlerInv, NEW q \in Queries, Chase(q) PROVE HandlerInv'
<1> USE DEF Chase, cooking
<1> DEFINE a == [name |-> Target(chain[q]), via |-> "chase"]
<1>1. TypeOK /\ QueryInv(q) /\ chain[q] \in Seq(CNAMEs) /\ req[q].name \in Names
      /\ rt[q] \in Configs
  BY Known
<1>2. /\ chain[q] # <<>> /\ tail[q] = {} /\ Address(req[q].type)
      /\ rt[q].fallback = "proxy" /\ Eligible(q) /\ asked[q] = {} /\ Linked(q)
  BY <1>1 DEF NeedsChase, Dangles, QueryInv, Placed
<1>3. Len(chain[q]) \in 1..Len(chain[q]) /\ 1 \in 1..Len(chain[q])
      /\ DOMAIN chain[q] = 1..Len(chain[q])
  BY <1>1, <1>2
<1>4. Target(chain[q]) \in Names
  <2>1. chain[q][Len(chain[q])] \in CNAMEs  BY <1>1, <1>3
  <2>2. QED  BY <2>1 DEF Target, CNAMEs
<1>5. chain[q][1].owner = req[q].name
  <2>1. NameAt(q, 1 - 1) = req[q].name  BY DEF NameAt
  <2>2. /\ AliasWins(rt[q], req[q].name, req[q].type)
        /\ chain[q][1] = AliasRR(rt[q], req[q].name)
    BY <1>2, <1>3, <2>1 DEF Linked
  <2>3. QED  BY <2>2, <1>1, AliasTyped
<1>6. asked' = [asked EXCEPT ![q] = {a}] /\ asked'[q] = {a} /\ phase'[q] = "chasing"
  BY <1>1, <1>2 DEF TypeOK, Goto
<1>7. TypeOK'
  <2>1. stats' \in Stats  BY CountTyped DEF HandlerInv, TypeOK, NoStats
  <2>2. a \in [name : Names, via : {"chase", "proxy"}]  BY <1>4
  <2>3. asked' \in [Queries -> SUBSET [name : Names, via : {"chase", "proxy"}]]
    BY <1>1, <1>6, <2>2 DEF TypeOK
  <2>4. phase' \in [Queries -> Phases]  BY <1>1 DEF TypeOK, Goto, Phases
  <2>5. QED  BY <1>1, <2>1, <2>3, <2>4 DEF TypeOK, Goto
<1>8. AskedByPolicy(q)'
  <2>1. a.via = "chase" /\ a.name = chain[q][Len(chain[q])].data  BY DEF Target
  <2>2. QED  BY <2>1, <1>2, <1>5, <1>6 DEF AskedByPolicy, Eligible
<1>9. Linked(q)' /\ Placed(q)'
  BY <1>2, <1>6 DEF Linked, Placed, NameAt
<1>10. QED  BY <1>1, <1>6, <1>7, <1>8, <1>9, OwnStep DEF QueryInv, TypeOK, Goto

LEMMA ForwardStep ==
    ASSUME HandlerInv, NEW q \in Queries, Forward(q) PROVE HandlerInv'
<1> USE DEF Forward, cooking, shared
<1> DEFINE a == [name |-> req[q].name, via |-> "proxy"]
<1>1. TypeOK /\ QueryInv(q) /\ req[q].name \in Names  BY Known
<1>2. /\ asked[q] = {} /\ NothingCooked(q) /\ Linked(q)
      /\ Eligible(q) => ~ (rt[q].noData /\ Knows(rt[q].records, req[q].name))
  BY <1>1 DEF QueryInv, Placed
<1>3. asked' = [asked EXCEPT ![q] = {a}] /\ asked'[q] = {a} /\ phase'[q] = "proxying"
  BY <1>1, <1>2 DEF TypeOK, Goto
<1>4. TypeOK'
  <2>1. a \in [name : Names, via : {"chase", "proxy"}]  BY <1>1
  <2>2. asked' \in [Queries -> SUBSET [name : Names, via : {"chase", "proxy"}]]
    BY <1>1, <1>3, <2>1 DEF TypeOK
  <2>3. phase' \in [Queries -> Phases]  BY <1>1 DEF TypeOK, Goto, Phases
  <2>4. QED  BY <1>1, <2>2, <2>3 DEF TypeOK, Goto
<1>5. AskedByPolicy(q)'
  BY <1>2, <1>3 DEF AskedByPolicy, Eligible, NothingCooked
<1>6. Linked(q)' /\ Placed(q)'
  BY <1>2, <1>3 DEF Linked, Placed, NameAt
<1>7. QED  BY <1>1, <1>3, <1>4, <1>5, <1>6, OwnStep DEF QueryInv, TypeOK, Goto

\* A reload, or a step that changes nothing, leaves every query as it is.
LEMMA ReloadStep == HandlerInv /\ (Reload \/ UNCHANGED vars) => HandlerInv'
<1> SUFFICES ASSUME HandlerInv, Reload \/ UNCHANGED vars PROVE HandlerInv'  OBVIOUS
<1> USE DEF Reload, vars, shared, cooking, upstream
<1>1. TypeOK'  BY DEF HandlerInv, TypeOK
<1>2. \A q \in Queries : QueryInv(q)'  BY OtherQuery DEF HandlerInv
<1>3. QED  BY <1>1, <1>2 DEF HandlerInv

LEMMA HandlerStep == HandlerInv /\ [Next]_vars => HandlerInv'
<1> SUFFICES ASSUME HandlerInv, [Next]_vars PROVE HandlerInv'  OBVIOUS
<1>1. CASE Reload \/ UNCHANGED vars  BY <1>1, ReloadStep
<1>2. CASE \E q \in Queries : Receive(q) \/ Serve(q)
  <2> SUFFICES ASSUME NEW q \in Queries, Receive(q) \/ Serve(q) PROVE HandlerInv'
    BY <1>2
  <2>1. CASE Receive(q)  BY <2>1, ReceiveStep
  <2>2. CASE \/ RejectUnsupported(q) \/ RejectClass(q) \/ AnswerLocally(q)
             \/ NoData(q) \/ Block(q) \/ Upstream(q)
    BY <2>2, ResponseSteps DEF Upstream, Responds
  <2>3. CASE NotEligible(q) \/ NotOurs(q)  BY <2>3, MoveSteps
  <2>4. CASE Cook(q)
    BY <2>4, CookAnyStep, StartCookStep, FollowAliasStep, TakeDirectStep, MoveSteps
    DEF Cook
  <2>5. CASE Chase(q)  BY <2>5, ChaseStep
  <2>6. CASE Forward(q)  BY <2>6, ForwardStep
  <2>7. CASE Write(q) \/ WriteFail(q)  BY <2>7, WriteSteps
  <2>8. QED  BY <2>1, <2>2, <2>3, <2>4, <2>5, <2>6, <2>7 DEF Serve
<1>3. QED  BY <1>1, <1>2 DEF Next

LEMMA HandlerInvariant == Spec => []HandlerInv
BY HandlerInit, HandlerStep, PTL DEF Spec

-----------------------------------------------------------------------------
(* The theorems.                                                           *)

\* Every goroutine holds a runtime that was installed and a request that came
\* in, and no CNAME chain is longer than the limit, loops in the records
\* included (handler.go:20-154, server.go:25-27).
THEOREM TypeCorrect == Spec => []TypeOK
<1>1. HandlerInv => TypeOK  BY DEF HandlerInv
<1>2. QED  BY <1>1, HandlerInvariant, PTL

\* At most one name leaves the server per query, only under a configuration
\* that proxies, and it is the name asked for only when that has no local
\* answer to give (handler.go:47-89).
THEOREM UpstreamByPolicy == Spec => []UpstreamOnlyByPolicy
<1>1. HandlerInv => UpstreamOnlyByPolicy
  BY DEF HandlerInv, QueryInv, AskedByPolicy, UpstreamOnlyByPolicy
<1>2. QED  BY <1>1, HandlerInvariant, PTL

\* No local answer to a query of any type but ANY says anything else of a name
\* that it gives a CNAME for, whatever the records and however reloads fall
\* between the steps of the walk (handler.go:111-150).
THEOREM NoDataBesideAnyCNAME == Spec => []NoDataBesideCNAME
<1>1. HandlerInv => NoDataBesideCNAME
  <2> SUFFICES ASSUME HandlerInv, NEW q \in Queries,
                      NEW a \in LocalRRs(q), NEW b \in LocalRRs(q),
                      req[q].type # "ANY", a.type = "CNAME", b.owner = a.owner
               PROVE  b.type = "CNAME" /\ (Address(req[q].type) => b = a)
    BY DEF NoDataBesideCNAME
  <2>1. chain[q] \in Seq(CNAMEs) /\ Linked(q)
    BY DEF HandlerInv, QueryInv, TypeOK
  <2>2. ASSUME NEW j \in DOMAIN chain[q]
        PROVE  /\ AliasWins(rt[q], chain[q][j].owner, req[q].type)
               /\ chain[q][j] = AliasRR(rt[q], chain[q][j].owner)
               /\ chain[q][j].type = "CNAME"
    <3>1. chain[q] # <<>>  BY <2>1
    <3>2. phase[q] # "idle"  BY <3>1 DEF HandlerInv, QueryInv, Placed
    <3>3. rt[q] \in Configs /\ req[q].name \in Names  BY <3>2, Known
    <3>4. NameAt(q, j - 1) \in Names
      <4>1. CASE j = 1  BY <4>1, <3>3 DEF NameAt
      <4>2. CASE j # 1
        <5>1. j - 1 \in DOMAIN chain[q] /\ j - 1 # 0  BY <2>1, <4>2
        <5>2. chain[q][j - 1] \in CNAMEs  BY <2>1, <5>1
        <5>3. QED  BY <5>1, <5>2 DEF NameAt, CNAMEs
      <4>3. QED  BY <4>1, <4>2
    <3>5. /\ AliasWins(rt[q], NameAt(q, j - 1), req[q].type)
          /\ chain[q][j] = AliasRR(rt[q], NameAt(q, j - 1))
      BY <2>1 DEF Linked
    <3>6. chain[q][j].owner = NameAt(q, j - 1) /\ chain[q][j] \in CNAMEs
      BY <3>3, <3>4, <3>5, AliasTyped
    <3>7. QED  BY <3>5, <3>6 DEF CNAMEs
  <2>3. ASSUME NEW i \in DOMAIN chain[q] PROVE Address(req[q].type)
    BY <2>2 DEF AliasWins, Chases
  <2>4. CASE a \in tail[q] /\ b \in tail[q]
    <3>1. req[q].type = "CNAME" /\ b.type = "CNAME"  BY <2>1, <2>4 DEF Linked
    <3>2. QED  BY <3>1 DEF Address
  <2>5. CASE a \in tail[q] /\ b \notin tail[q]
    <3>1. req[q].type = "CNAME"  BY <2>1, <2>5 DEF Linked
    <3>2. Address(req[q].type)  BY <2>3, <2>5 DEF LocalRRs
    <3>3. QED  BY <3>1, <3>2 DEF Address
  <2>6. CASE a \notin tail[q]
    <3>1. PICK i \in DOMAIN chain[q] : chain[q][i] = a  BY <2>6 DEF LocalRRs
    <3>2. AliasWins(rt[q], a.owner, req[q].type) /\ a = AliasRR(rt[q], a.owner)
      BY <3>1, <2>2
    <3>3. b \notin tail[q]
      <4>1. chain[q] # <<>>  BY <3>1, <2>1
      <4>2. QED  BY <4>1, <3>2, <2>1 DEF Linked
    <3>4. PICK j \in DOMAIN chain[q] : chain[q][j] = b  BY <3>3 DEF LocalRRs
    <3>5. b = AliasRR(rt[q], b.owner) /\ b.type = "CNAME"  BY <3>4, <2>2
    <3>6. QED  BY <3>2, <3>5
  <2>7. QED  BY <2>4, <2>5, <2>6
<1>2. QED  BY <1>1, HandlerInvariant, PTL
=============================================================================
