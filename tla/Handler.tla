------------------------------ MODULE Handler ------------------------------
(***************************************************************************)
(* The query handler, Server.ServeDNS (src/internal/server/handler.go),    *)
(* and the reload that swaps the runtime under it (server.go:116-129).     *)
(*                                                                         *)
(* miekg/dns runs every request in a goroutine of its own: Queries are     *)
(* those goroutines.  They share the pointer to the runtime in force and   *)
(* the counters, and each reads the pointer once, when it starts.  The     *)
(* resolver is what it promises here: a reply or an error (module Resolver *)
(* has its insides).                                                       *)
(***************************************************************************)
EXTENDS Policy

CONSTANTS
    Queries,        \* the requests, each handled by its own goroutine
    Requests,       \* what a request may ask: [kind, name, type, udp]
    Configs,        \* the runtimes a reload may install
    Replies,        \* what an upstream may reply: [rcode, rrs, tc]
    UDPLimit,       \* how many records fit a UDP client's buffer
    MaxCNAMEDepth,
    None,           \* no request, runtime, reply or response yet
    Failed, Lost,   \* every upstream failed; the response was not written
    Labels, Types,  \* what names and records are made of
    Data            \* record data other than a CNAME's target

Names == Seq(Labels)
RRs == [owner : Names, type : Types, data : Data \cup Names]
CNAMEs == [owner : Names, type : {"CNAME"}, data : Names]

\* What cook finds, and what is written: an answer, with the records copied from
\* an upstream reply.
Answers == [chain : Seq(CNAMEs), tail : SUBSET RRs]
Messages ==
    [rcode : {"NOERROR", "NOTIMP", "REFUSED", "NXDOMAIN", "SERVFAIL"}
                \cup {m.rcode : m \in Replies},
     chain : Seq(CNAMEs), tail : SUBSET RRs,
     up : {{}} \cup {m.rrs : m \in Replies},
     tc : BOOLEAN, short : BOOLEAN]

ASSUME HandlerAssumption ==
    /\ MaxCNAMEDepth \in Nat /\ UDPLimit \in Nat
    /\ \A c \in Configs :
          /\ c.records \in Seq([name : Names, type : Types, value : Data \cup Names])
          /\ \A k \in DOMAIN c.records :
                c.records[k].type = "CNAME" => c.records[k].value \in Names
          /\ c.fallback \in {"proxy"} \cup DOMAIN BlockRcode
          /\ c.noData \in BOOLEAN /\ c.chase \in BOOLEAN
    /\ \A r \in Requests :
          /\ r.kind \in {"plain", "unsupported", "badclass"}
          /\ r.name \in Names /\ r.udp \in BOOLEAN
    /\ None \notin Configs \cup Requests
    /\ \A m \in Replies : m.tc \in BOOLEAN
    /\ None # Failed /\ None # Lost /\ {None, Failed} \cap Replies = {}
    /\ None \notin Answers /\ None \notin Messages /\ Lost \notin Messages

VARIABLES
    current,        \* the runtime in force, an atomic pointer
    stats,          \* the counters, each atomic
    phase,          \* where each goroutine is
    req, rt,        \* its request, and the runtime it loaded
    name, chain, tail,  \* cook: the name looked up next, and the answer so far
    asked,          \* the names it has sent upstream: [name, via]
    result,         \* what came back: a reply, or Failed
    resp            \* the response it is about to write, then wrote; or Lost

shared  == <<current, stats>>
cooking == <<name, chain, tail>>
upstream == <<asked, result>>
vars == <<shared, phase, req, rt, cooking, upstream, resp>>

Phases == {"idle", "opened", "cooking", "cooked", "fallback",
           "chasing", "proxying", "writing", "done"}

NoStats == [queries |-> 0, cooked |-> 0, proxied |-> 0, blocked |-> 0, failures |-> 0]

Init ==
    /\ current \in Configs
    /\ stats = NoStats
    /\ phase = [q \in Queries |-> "idle"]
    /\ req = [q \in Queries |-> None]
    /\ rt = [q \in Queries |-> None]
    /\ name = [q \in Queries |-> <<>>]
    /\ chain = [q \in Queries |-> <<>>]
    /\ tail = [q \in Queries |-> {}]
    /\ asked = [q \in Queries |-> {}]
    /\ result = [q \in Queries |-> None]
    /\ resp = [q \in Queries |-> None]

Goto(q, p) == phase' = [phase EXCEPT ![q] = p]
Count(counter) == stats' = [stats EXCEPT ![counter] = @ + 1]

-----------------------------------------------------------------------------
(* Responses.  up holds the records copied from an upstream reply; short   *)
(* says the last records were left off to make the message fit.            *)

Message(rcode, c, t, up, tc) ==
    [rcode |-> rcode, chain |-> c, tail |-> t, up |-> up, tc |-> tc, short |-> FALSE]

\* reply and refuse: a message without records.
Bare(rcode) == Message(rcode, <<>>, {}, {}, FALSE)

\* resp.Truncate, for a UDP client: TC is set when records are left off and
\* kept when it was set already.
Truncate(m, r) ==
    IF r.udp /\ Len(m.chain) + Cardinality(m.tail) + Cardinality(m.up) > UDPLimit
      THEN [m EXCEPT !.short = TRUE, !.tc = TRUE]
      ELSE m

\* respond, up to the write.
Respond(q, m) ==
    /\ resp' = [resp EXCEPT ![q] = Truncate(m, req[q])]
    /\ Goto(q, "writing")

-----------------------------------------------------------------------------
(* Receiving a request and turning odd ones away.                          *)

Receive(q) ==
    /\ phase[q] = "idle"
    /\ \E r \in Requests : req' = [req EXCEPT ![q] = r]
    /\ rt' = [rt EXCEPT ![q] = current]
    /\ Count("queries")
    /\ Goto(q, "opened")
    /\ UNCHANGED <<current, cooking, upstream, resp>>

\* Another opcode, or not exactly one question.
RejectUnsupported(q) ==
    /\ phase[q] = "opened" /\ req[q].kind = "unsupported"
    /\ Count("failures")
    /\ Respond(q, Bare("NOTIMP"))
    /\ UNCHANGED <<current, req, rt, cooking, upstream>>

RejectClass(q) ==
    /\ phase[q] = "opened" /\ req[q].kind = "badclass"
    /\ Respond(q, Bare("REFUSED"))
    /\ UNCHANGED <<shared, req, rt, cooking, upstream>>

\* A mistake: the runtime pointer is read again.
EligibleNow(q) == ShouldFake(current.filter, req[q].name)

Eligible(q) == ShouldFake(rt[q].filter, req[q].name)

NotEligible(q) ==
    /\ phase[q] = "opened" /\ req[q].kind = "plain" /\ ~ Eligible(q)
    /\ Goto(q, "fallback")
    /\ UNCHANGED <<shared, req, rt, cooking, upstream, resp>>

-----------------------------------------------------------------------------
(* cook.                                                                   *)

CookAny(q) ==
    /\ phase[q] = "opened" /\ req[q].kind = "plain" /\ Eligible(q)
    /\ req[q].type = "ANY"
    /\ tail' = [tail EXCEPT ![q] = AnyAnswer(rt[q], req[q].name)]
    /\ Goto(q, "cooked")
    /\ UNCHANGED <<shared, req, rt, name, chain, upstream, resp>>

StartCook(q) ==
    /\ phase[q] = "opened" /\ req[q].kind = "plain" /\ Eligible(q)
    /\ req[q].type # "ANY"
    /\ name' = [name EXCEPT ![q] = req[q].name]
    /\ Goto(q, "cooking")
    /\ UNCHANGED <<shared, req, rt, chain, tail, upstream, resp>>

\* A mistake: no depth limit.
IteratingForever(q) == phase[q] = "cooking"

\* The chain has a CNAME per completed iteration, so its length is the loop
\* counter.
Iterating(q) == phase[q] = "cooking" /\ Len(chain[q]) < MaxCNAMEDepth

\* A mistake: the limit is one off, and the last iteration has no way out.
GiveUpLate(q) ==
    /\ phase[q] = "cooking" /\ Len(chain[q]) > MaxCNAMEDepth
    /\ Goto(q, "cooked")
    /\ UNCHANGED <<shared, req, rt, cooking, upstream, resp>>

GiveUp(q) ==
    /\ phase[q] = "cooking" /\ Len(chain[q]) >= MaxCNAMEDepth
    /\ Goto(q, "cooked")
    /\ UNCHANGED <<shared, req, rt, cooking, upstream, resp>>

\* A mistake: each step of a chain is looked up in the runtime in force then.
FollowAliasNow(q) ==
    /\ Iterating(q)
    /\ AliasWins(current, name[q], req[q].type) /\ Builds(name[q])
    /\ LET rr == AliasRR(current, name[q])
       IN  /\ chain' = [chain EXCEPT ![q] = Append(@, rr)]
           /\ name' = [name EXCEPT ![q] = rr.data]
    /\ UNCHANGED <<shared, phase, req, rt, tail, upstream, resp>>

FollowAlias(q) ==
    /\ Iterating(q)
    /\ AliasWins(rt[q], name[q], req[q].type) /\ Builds(name[q])
    /\ LET rr == AliasRR(rt[q], name[q])
       IN  /\ chain' = [chain EXCEPT ![q] = Append(@, rr)]
           /\ name' = [name EXCEPT ![q] = rr.data]
    /\ UNCHANGED <<shared, phase, req, rt, tail, upstream, resp>>

AliasUnbuildable(q) ==
    /\ Iterating(q)
    /\ AliasWins(rt[q], name[q], req[q].type) /\ ~ Builds(name[q])
    /\ Goto(q, "cooked")
    /\ UNCHANGED <<shared, req, rt, cooking, upstream, resp>>

\* No CNAME to follow: the records of the queried type, if any, end the answer.
TakeDirect(q) ==
    /\ Iterating(q)
    /\ ~ AliasWins(rt[q], name[q], req[q].type)
    /\ LET direct == Direct(rt[q], name[q], req[q].type)
       IN  tail' = [tail EXCEPT ![q] = Build(rt[q], direct, name[q])]
    /\ Goto(q, "cooked")
    /\ UNCHANGED <<shared, req, rt, name, chain, upstream, resp>>

-----------------------------------------------------------------------------
(* What becomes of the cooked answer.                                      *)

NothingCooked(q) == Empty(chain[q], tail[q])

NeedsChase(q) ==
    Dangles(chain[q], tail[q], req[q].type) /\ rt[q].fallback = "proxy"

AnswerLocally(q) ==
    /\ phase[q] = "cooked" /\ ~ NothingCooked(q) /\ ~ NeedsChase(q)
    /\ Count("cooked")
    /\ Respond(q, Message("NOERROR", chain[q], tail[q], {}, FALSE))
    /\ UNCHANGED <<current, req, rt, cooking, upstream>>

\* A dangling CNAME's target is resolved upstream.
Chase(q) ==
    /\ phase[q] = "cooked" /\ ~ NothingCooked(q) /\ NeedsChase(q)
    /\ Count("cooked")
    /\ asked' = [asked EXCEPT ![q] =
                    @ \cup {[name |-> Target(chain[q]), via |-> "chase"]}]
    /\ Goto(q, "chasing")
    /\ UNCHANGED <<current, req, rt, cooking, result, resp>>

\* The name is local but not for this type.
NoData(q) ==
    /\ phase[q] = "cooked" /\ NothingCooked(q)
    /\ rt[q].noData /\ Knows(rt[q].records, req[q].name)
    /\ Count("cooked")
    /\ Respond(q, Bare("NOERROR"))
    /\ UNCHANGED <<current, req, rt, cooking, upstream>>

\* A mistake: the fallback is taken for every name without an answer.
NotAnswered(q) ==
    /\ phase[q] = "cooked" /\ NothingCooked(q)
    /\ Goto(q, "fallback")
    /\ UNCHANGED <<shared, req, rt, cooking, upstream, resp>>

NotOurs(q) ==
    /\ phase[q] = "cooked" /\ NothingCooked(q)
    /\ ~ (rt[q].noData /\ Knows(rt[q].records, req[q].name))
    /\ Goto(q, "fallback")
    /\ UNCHANGED <<shared, req, rt, cooking, upstream, resp>>

\* appendUpstream copies the answers and nothing else; a failure is only logged.
ChaseReply(q) ==
    /\ phase[q] = "chasing"
    /\ \E m \in Replies :
          /\ result' = [result EXCEPT ![q] = m]
          /\ Respond(q, Message("NOERROR", chain[q], tail[q], m.rrs, FALSE))
    /\ UNCHANGED <<shared, req, rt, cooking, asked>>

\* A mistake: a query that is answered is counted as failed as well.
ChaseFailCounted(q) ==
    /\ phase[q] = "chasing"
    /\ result' = [result EXCEPT ![q] = Failed]
    /\ Count("failures")
    /\ Respond(q, Message("NOERROR", chain[q], tail[q], {}, FALSE))
    /\ UNCHANGED <<current, req, rt, cooking, asked>>

ChaseFail(q) ==
    /\ phase[q] = "chasing"
    /\ result' = [result EXCEPT ![q] = Failed]
    /\ Respond(q, Message("NOERROR", chain[q], tail[q], {}, FALSE))
    /\ UNCHANGED <<shared, req, rt, cooking, asked>>

-----------------------------------------------------------------------------
(* The fallback.                                                           *)

Block(q) ==
    /\ phase[q] = "fallback" /\ rt[q].fallback # "proxy"
    /\ Count("blocked")
    /\ Respond(q, Bare(BlockRcode[rt[q].fallback]))
    /\ UNCHANGED <<current, req, rt, cooking, upstream>>

Forward(q) ==
    /\ phase[q] = "fallback" /\ rt[q].fallback = "proxy"
    /\ asked' = [asked EXCEPT ![q] =
                    @ \cup {[name |-> req[q].name, via |-> "proxy"]}]
    /\ Goto(q, "proxying")
    /\ UNCHANGED <<shared, req, rt, cooking, result, resp>>

ProxyReply(q) ==
    /\ phase[q] = "proxying"
    /\ \E m \in Replies :
          /\ result' = [result EXCEPT ![q] = m]
          /\ Respond(q, Message(m.rcode, <<>>, {}, m.rrs, m.tc))
    /\ Count("proxied")
    /\ UNCHANGED <<current, req, rt, cooking, asked>>

ProxyFail(q) ==
    /\ phase[q] = "proxying"
    /\ result' = [result EXCEPT ![q] = Failed]
    /\ Count("failures")
    /\ Respond(q, Bare("SERVFAIL"))
    /\ UNCHANGED <<current, req, rt, cooking, asked>>

-----------------------------------------------------------------------------
(* The write at the end of respond.                                        *)

Write(q) ==
    /\ phase[q] = "writing"
    /\ Goto(q, "done")
    /\ UNCHANGED <<shared, req, rt, cooking, upstream, resp>>

WriteFail(q) ==
    /\ phase[q] = "writing"
    /\ Count("failures")
    /\ resp' = [resp EXCEPT ![q] = Lost]
    /\ Goto(q, "done")
    /\ UNCHANGED <<current, req, rt, cooking, upstream>>

\* Server.Reload with a config whose records build: one atomic store.
Reload ==
    /\ \E c \in Configs : current' = c
    /\ UNCHANGED <<stats, phase, req, rt, cooking, upstream, resp>>

-----------------------------------------------------------------------------
Cook(q) ==
    \/ CookAny(q) \/ StartCook(q) \/ GiveUp(q)
    \/ FollowAlias(q) \/ AliasUnbuildable(q) \/ TakeDirect(q)

Upstream(q) == ChaseReply(q) \/ ChaseFail(q) \/ ProxyReply(q) \/ ProxyFail(q)

\* A goroutine's own steps, after the request has come in.
Serve(q) ==
    \/ RejectUnsupported(q) \/ RejectClass(q) \/ NotEligible(q)
    \/ Cook(q)
    \/ AnswerLocally(q) \/ Chase(q) \/ NoData(q) \/ NotOurs(q)
    \/ Block(q) \/ Forward(q) \/ Upstream(q)
    \/ Write(q) \/ WriteFail(q)

Next == Reload \/ \E q \in Queries : Receive(q) \/ Serve(q)

\* Goroutines are scheduled, and the resolver's timeouts end every exchange;
\* nothing makes clients ask or the config change.
Fairness == \A q \in Queries : WF_vars(Serve(q))

Spec == Init /\ [][Next]_vars /\ Fairness

-----------------------------------------------------------------------------
(* Properties.                                                             *)

Stats == [queries : Nat, cooked : Nat, proxied : Nat, blocked : Nat, failures : Nat]

\* The goroutines' states: a runtime and a request once received, an answer no
\* longer than the depth limit (handler.go:20-154).
TypeOK ==
    /\ current \in Configs
    /\ stats \in Stats
    /\ phase \in [Queries -> Phases]
    /\ req \in [Queries -> Requests \cup {None}]
    /\ rt \in [Queries -> Configs \cup {None}]
    /\ \A q \in Queries : phase[q] # "idle" => req[q] # None /\ rt[q] # None
    /\ name \in [Queries -> Names]
    /\ chain \in [Queries -> Seq(CNAMEs)]
    /\ \A q \in Queries : Len(chain[q]) <= MaxCNAMEDepth
    /\ tail \in [Queries -> SUBSET RRs]
    /\ asked \in [Queries -> SUBSET [name : Names, via : {"chase", "proxy"}]]
    /\ result \in [Queries -> Replies \cup {None, Failed}]
    /\ resp \in [Queries -> Messages \cup {None, Lost}]

\* A query sends at most one name upstream, and only under a configuration
\* that proxies.  The name asked for goes only if it may not be faked or has no
\* local answer and, unless NODATA is switched off, no local record of any type
\* (handler.go:55-72 and handler.go:87-88; README.md:179-181).  Any other name
\* is the open end of a local chain that starts at the name asked for.
UpstreamOnlyByPolicy ==
    \A q \in Queries :
        /\ \A a, b \in asked[q] : a = b
        /\ \A a \in asked[q] :
              /\ rt[q].fallback = "proxy"
              /\ a.via = "proxy" =>
                    /\ a.name = req[q].name
                    /\ Eligible(q) =>
                          /\ NothingCooked(q)
                          /\ ~ (rt[q].noData /\ Knows(rt[q].records, a.name))
              /\ a.via = "chase" =>
                    /\ Eligible(q) /\ Address(req[q].type)
                    /\ chain[q] # <<>> /\ tail[q] = {}
                    /\ chain[q][1].owner = req[q].name
                    /\ chain[q][Len(chain[q])].data = a.name

\* The records of a local answer.
LocalRRs(q) == tail[q] \cup {chain[q][i] : i \in DOMAIN chain[q]}

\* "No other data can live alongside a CNAME" (handler.go:128-130): a local answer
\* to any query but ANY says nothing else of a name that it gives a CNAME for,
\* and to a query for addresses no second CNAME either, at every step of a chain
\* and at its end.  ANY is answered with all there is (handler.go:96-109).
NoDataBesideCNAME ==
    \A q \in Queries : \A a, b \in LocalRRs(q) :
        req[q].type # "ANY" /\ a.type = "CNAME" /\ b.owner = a.owner =>
            b.type = "CNAME" /\ (Address(req[q].type) => b = a)

-----------------------------------------------------------------------------
(* The counters (server.go:86-93) against what became of every query.      *)

Among(P(_)) == Cardinality({q \in Queries : P(q)})

Decided(q) == phase[q] \in {"chasing", "writing", "done"}
Plain(q) == req[q].kind = "plain"
Cooked(q) ==
    /\ Decided(q) /\ Plain(q) /\ Eligible(q)
    /\ ~ NothingCooked(q) \/ (rt[q].noData /\ Knows(rt[q].records, req[q].name))
Blocked(q) == Decided(q) /\ Plain(q) /\ ~ Cooked(q) /\ rt[q].fallback # "proxy"
Proxied(q) == Decided(q) /\ Plain(q) /\ ~ Cooked(q) /\ result[q] \notin {None, Failed}
ProxyFailed(q) == Decided(q) /\ Plain(q) /\ ~ Cooked(q) /\ result[q] = Failed
Unsupported(q) == Decided(q) /\ req[q].kind = "unsupported"
Unwritten(q) == resp[q] = Lost
Received(q) == phase[q] # "idle"

\* Every counter is the number of queries that met that fate, under any
\* interleaving: each query is in at most one of cooked, proxied and blocked, a
\* failed chase is still cooked, and a write that fails is counted on top.
CountersAddUp ==
    /\ stats.queries = Among(Received)
    /\ stats.cooked = Among(Cooked)
    /\ stats.blocked = Among(Blocked)
    /\ stats.proxied = Among(Proxied)
    /\ stats.failures = Among(Unsupported) + Among(ProxyFailed) + Among(Unwritten)

-----------------------------------------------------------------------------
\* The state of the abstract service: the judgement is known once cook is
\* over, the response once it is written.
Judged(q) == phase[q] \notin {"idle", "opened", "cooking"}

Service == INSTANCE DnsService WITH
    config    <- current,
    request   <- req,
    basis     <- rt,
    answer    <- [q \in Queries |->
                    IF Judged(q) THEN [chain |-> chain[q], tail |-> tail[q]] ELSE None],
    disclosed <- [q \in Queries |-> {a.name : a \in asked[q]}],
    response  <- [q \in Queries |-> IF phase[q] = "done" THEN resp[q] ELSE None]

\* Whatever reloads happen while it runs, a query is answered as one step
\* would under the one configuration in force when it came in: it never sees a
\* mix of old and new (server.go:38-39, store.go:13-14).
ImplementsService == Service!Spec

\* Every query received is answered, or its write fails: CNAME loops are cut,
\* and a failing upstream ends in a SERVFAIL (server.go:25-27,
\* handler.go:207-212).
EveryQueryEnds ==
    \A q \in Queries : phase[q] # "idle" ~> phase[q] = "done"

-----------------------------------------------------------------------------
(* What the documentation says and the code does not do.                   *)

\* "Locally known names do not leak" (README.md:179): with NODATA on, no name
\* that has a local record and may be faked is sent upstream.
LocalNamesDoNotLeak ==
    \A q \in Queries : \A a \in asked[q] :
        ~ (/\ rt[q].noData
           /\ ShouldFake(rt[q].filter, a.name)
           /\ Knows(rt[q].records, a.name))

\* "Except proxies these name patterns and fakes everything else"
\* (config.go:62): no record of a local answer is for a name that is excepted.
ExceptedNamesAreNotFaked ==
    \A q \in Queries :
        \A rr \in LocalRRs(q) : ShouldFake(rt[q].filter, rr.owner)
=============================================================================
