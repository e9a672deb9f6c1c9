------------------------------ MODULE Store ------------------------------
(***************************************************************************)
(* The record store and its lookups (src/internal/records/store.go).       *)
(*                                                                         *)
(* A store is the sequence Store.all of its records in the order they were *)
(* added; byType[t] is the subsequence of the records of type t, kept here *)
(* as the set of their positions.  A record is [name, type, value], its    *)
(* name a pattern.  Positions, not records, are what a lookup returns:     *)
(* they say both which records won and in which order they answer.         *)
(***************************************************************************)
EXTENDS Patterns

\* byType[t]: the positions of the records of type t.
ByType(store, t) == {k \in DOMAIN store : store[k].type = t}

Matching(store, t, n) == {k \in ByType(store, t) : MatchPattern(store[k].name, n)}

\* The matches of the highest score, of whatever pattern.
Best(store, t, n) ==
    LET m == Matching(store, t, n)
    IN  {k \in m : \A j \in m : Score(store[j].name) <= Score(store[k].name)}

First(K) == CHOOSE k \in K : \A j \in K : k <= j

\* The pattern that wins is that of the first best match; every record that
\* shares it answers, the others of equal score do not.
Lookup(store, t, n) ==
    LET best == Best(store, t, n)
    IN  {k \in best : store[k].name = store[First(best)].name}

LookupScore(store, t, n) ==
    LET best == Best(store, t, n)
    IN  IF best = {} THEN -1 ELSE Score(store[First(best)].name)

\* The types an ANY query is answered with.
TypesFor(store, n) ==
    {store[k].type : k \in {j \in DOMAIN store : MatchPattern(store[j].name, n)}}

Knows(store, n) == \E k \in DOMAIN store : MatchPattern(store[k].name, n)
=============================================================================
