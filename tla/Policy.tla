------------------------------ MODULE Policy ------------------------------
(***************************************************************************)
(* What one runtime, the set of things a reload replaces, makes of one     *)
(* name: the pure parts of src/internal/server/handler.go, on top of the   *)
(* lookups of Store.                                                       *)
(*                                                                         *)
(* A runtime c is [records, filter, fallback, noData, chase]: its store,   *)
(* its filter and its three switches (server.go:40-46).                    *)
(* A resource record is [owner, type, data]; TTLs are left out.  The data  *)
(* of a CNAME is its target, a name.                                       *)
(***************************************************************************)
EXTENDS Store

CONSTANT BadOwners     \* the names dns.NewRR refuses to build a record under

\* Record.RR and Server.build: the records that cannot be built are skipped.
\* Their values were checked when the config was loaded, so only the owner,
\* which the client chose, can make one fail (record.go:55-60).
Builds(owner) == owner \notin BadOwners
RR(rec, owner) == [owner |-> owner, type |-> rec.type, data |-> rec.value]
Build(c, K, owner) ==
    IF Builds(owner) THEN {RR(c.records[k], owner) : k \in K} ELSE {}

\* Only address queries follow CNAMEs, and only they can be left dangling.
Address(type) == type \in {"A", "AAAA"}
Chases(c, type) == c.chase /\ Address(type)

Direct(c, n, type) == Lookup(c.records, type, n)
Aliases(c, n) == Lookup(c.records, "CNAME", n)

\* An explicit CNAME outranks a broader wildcard of the queried type.
AliasWins(c, n, type) ==
    /\ Chases(c, type)
    /\ Aliases(c, n) # {}
    /\ \/ Direct(c, n, type) = {}
       \/ LookupScore(c.records, "CNAME", n) > LookupScore(c.records, type, n)

AliasRR(c, n) == RR(c.records[First(Aliases(c, n))], n)

\* Every record known for the name, for an ANY query.
AnyAnswer(c, n) ==
    UNION {Build(c, Direct(c, n, t), n) : t \in TypesFor(c.records, n)}

\* The rcode a fallback other than "proxy" answers with.
BlockRcode == [nxdomain |-> "NXDOMAIN", refused |-> "REFUSED", empty |-> "NOERROR"]

-----------------------------------------------------------------------------
(* An answer in the making: the CNAMEs followed, in order, and the records *)
(* at their end.                                                           *)

Empty(chain, tail) == chain = <<>> /\ tail = {}

\* danglingTarget: the answer ends in a CNAME.
Dangles(chain, tail, type) == Address(type) /\ chain # <<>> /\ tail = {}
Target(chain) == chain[Len(chain)].data
=============================================================================
