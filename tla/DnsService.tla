---------------------------- MODULE DnsService ----------------------------
(***************************************************************************)
(* What the server promises its clients, with no goroutines and no loops:  *)
(* a request is judged by the ONE configuration in force when it is        *)
(* accepted, sends upstream at most the one name that judgement lets out,  *)
(* and is answered once, with a response the judgement allows.  Handler    *)
(* implements this.                                                        *)
(***************************************************************************)
EXTENDS Policy

CONSTANTS Queries, Requests, Configs, Replies, MaxCNAMEDepth, None, Lost

VARIABLES
    config,      \* the configuration in force
    request,     \* what each client asks
    basis,       \* the configuration its request is judged by
    answer,      \* the judgement: the local answer, [chain, tail]
    disclosed,   \* the names sent upstream on its behalf
    response     \* None, the message sent, or Lost

vars == <<config, request, basis, answer, disclosed, response>>

Init ==
    /\ config \in Configs
    /\ request = [q \in Queries |-> None]
    /\ basis = [q \in Queries |-> None]
    /\ answer = [q \in Queries |-> None]
    /\ disclosed = [q \in Queries |-> {}]
    /\ response = [q \in Queries |-> None]

-----------------------------------------------------------------------------
(* The judgement of request r under configuration c.                       *)

NoAnswer == [chain |-> <<>>, tail |-> {}]

\* An answer is the longest chain of CNAMEs from the name asked for, up to
\* the depth limit, and what the end of it has of the queried type.
IsLocalAnswer(c, r, a) ==
    LET at(i) == IF i = 0 THEN r.name ELSE a.chain[i].data
        follows(n) == AliasWins(c, n, r.type) /\ Builds(n)
        length == Len(a.chain)
        end == at(length)
        endsHere == length < MaxCNAMEDepth /\ ~ AliasWins(c, end, r.type)
    IN  /\ length <= MaxCNAMEDepth
        /\ \A i \in 1..length :
              follows(at(i - 1)) /\ a.chain[i] = AliasRR(c, at(i - 1))
        /\ length < MaxCNAMEDepth => ~ follows(end)
        /\ a.tail = IF endsHere THEN Build(c, Direct(c, end, r.type), end) ELSE {}

IsJudgement(c, r, a) ==
    IF r.kind = "plain" /\ ShouldFake(c.filter, r.name)
      THEN IF r.type = "ANY"
             THEN a = [chain |-> <<>>, tail |-> AnyAnswer(c, r.name)]
             ELSE IsLocalAnswer(c, r, a)
      ELSE a = NoAnswer

\* A local name is answered NODATA rather than left to the fallback.
KeptLocal(c, r) ==
    ShouldFake(c.filter, r.name) /\ c.noData /\ Knows(c.records, r.name)

LeftToFallback(c, r, a) == r.kind = "plain" /\ a = NoAnswer /\ ~ KeptLocal(c, r)

\* The name asked for, or the one a local chain leaves open.
MayDisclose(c, r, a) ==
    {n \in {r.name} : LeftToFallback(c, r, a) /\ c.fallback = "proxy"}
    \cup
    (IF Dangles(a.chain, a.tail, r.type) /\ c.fallback = "proxy"
       THEN {Target(a.chain)} ELSE {})

\* A message as the judgement allows it, with the records up of a reply.
Says(m, rcode, a, up) ==
    m.rcode = rcode /\ m.chain = a.chain /\ m.tail = a.tail /\ m.up = up

Allowed(c, r, a, d, m) ==
    CASE r.kind = "unsupported" -> Says(m, "NOTIMP", NoAnswer, {}) /\ ~ m.tc
      [] r.kind = "badclass" -> Says(m, "REFUSED", NoAnswer, {}) /\ ~ m.tc
      [] ~ LeftToFallback(c, r, a) /\ r.kind = "plain" ->
            /\ \E up \in {{}} \cup {p.rrs : p \in Replies} :
                  Says(m, "NOERROR", a, up) /\ (up # {} => d # {})
            /\ m.tc <=> m.short
      [] LeftToFallback(c, r, a) /\ c.fallback # "proxy" ->
            Says(m, BlockRcode[c.fallback], NoAnswer, {}) /\ ~ m.tc
      [] LeftToFallback(c, r, a) /\ c.fallback = "proxy" ->
            /\ d # {}
            /\ \/ Says(m, "SERVFAIL", NoAnswer, {}) /\ ~ m.tc
               \/ \E p \in Replies : /\ Says(m, p.rcode, NoAnswer, p.rrs)
                                     /\ m.tc <=> p.tc \/ m.short

-----------------------------------------------------------------------------
Accept(q) ==
    /\ request[q] = None
    /\ \E r \in Requests : request' = [request EXCEPT ![q] = r]
    /\ basis' = [basis EXCEPT ![q] = config]
    /\ UNCHANGED <<config, answer, disclosed, response>>

Judge(q) ==
    /\ request[q] # None /\ answer[q] = None
    /\ answer'[q] # None /\ answer' = [answer EXCEPT ![q] = answer'[q]]
    /\ IsJudgement(basis[q], request[q], answer'[q])
    /\ UNCHANGED <<config, request, basis, disclosed, response>>

Disclose(q) ==
    /\ answer[q] # None /\ response[q] = None /\ disclosed[q] = {}
    /\ \E n \in MayDisclose(basis[q], request[q], answer[q]) :
          disclosed' = [disclosed EXCEPT ![q] = {n}]
    /\ UNCHANGED <<config, request, basis, answer, response>>

Answer(q) ==
    /\ answer[q] # None /\ response[q] = None
    /\ response'[q] # None /\ response' = [response EXCEPT ![q] = response'[q]]
    /\ \/ response'[q] = Lost
       \/ Allowed(basis[q], request[q], answer[q], disclosed[q], response'[q])
    /\ UNCHANGED <<config, request, basis, answer, disclosed>>

Swap ==
    /\ config' \in Configs
    /\ UNCHANGED <<request, basis, answer, disclosed, response>>

Next ==
    \/ Swap
    \/ \E q \in Queries : Accept(q) \/ Judge(q) \/ Disclose(q) \/ Answer(q)

Spec == Init /\ [][Next]_vars
=============================================================================
