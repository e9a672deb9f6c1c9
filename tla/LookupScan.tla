---------------------------- MODULE LookupScan ----------------------------
(***************************************************************************)
(* LookupScored and matchPattern as they run (src/internal/records/        *)
(* store.go:71-193): a loop over the candidates of one type and, inside    *)
(* it, a loop over the labels of a candidate's pattern, each iteration one *)
(* action.  Store!Lookup and Store!LookupScore say in one line each what   *)
(* the loops compute; the other modules use those.                         *)
(***************************************************************************)
EXTENDS Store, SequencesExt

CONSTANTS
    Labels,     \* the labels names and patterns are made of, Star among them
    Stores,     \* the sequences of records a scan may run over
    Names,      \* the names it may be asked for
    Types, Type \* the record types, and the one it is asked for

\* records.New refuses a blank name (record.go:44-47).
ASSUME ScanAssumption ==
    /\ \A s \in Stores :
          /\ s \in Seq([name : Seq(Labels), type : Types])
          /\ \A j \in DOMAIN s : s[j].name # <<>>
    /\ Names \subseteq Seq(Labels)

VARIABLES
    store, name,     \* the arguments, constant during a scan
    k,               \* the candidate looked at, a position of the store
    i, literals,     \* matchPattern: labels passed, how many were spelled out
    best,            \* bestScore
    bestPattern, matches,
    pc               \* "record", "label", "matched" or "returned"

vars == <<store, name, k, i, literals, best, bestPattern, matches, pc>>

args == <<store, name>>
winner == <<best, bestPattern, matches>>

Pattern == store[k].name
StarAt(j) == Pattern[j] = Star

NoPattern == <<>>

Init ==
    /\ store \in Stores
    /\ name \in Names
    /\ k = 1 /\ i = 0 /\ literals = 0
    /\ best = -1 /\ bestPattern = NoPattern /\ matches = {}
    /\ pc = IF ByType(store, Type) = {} \/ name = <<>> THEN "returned" ELSE "record"

-----------------------------------------------------------------------------
(* The loop over the candidates.                                           *)

\* The store's other records are not in byType[Type].
SkipOtherType ==
    /\ pc = "record" /\ k \in DOMAIN store /\ store[k].type # Type
    /\ k' = k + 1
    /\ UNCHANGED <<args, i, literals, winner, pc>>

StartRecord ==
    /\ pc = "record" /\ k \in DOMAIN store /\ store[k].type = Type
    /\ i' = 0 /\ literals' = 0
    /\ pc' = "label"
    /\ UNCHANGED <<args, k, winner>>

Return ==
    /\ pc = "record" /\ k \notin DOMAIN store
    /\ pc' = "returned"
    /\ UNCHANGED <<args, k, i, literals, winner>>

\* `continue`: the candidate does not match.
NextRecord ==
    /\ k' = k + 1
    /\ pc' = "record"

-----------------------------------------------------------------------------
(* matchPattern, over the labels of the candidate's pattern.               *)

AtLabel == pc = "label" /\ i < Len(Pattern)

\* The leftmost label is a star: whatever labels remain, at least one.
LastStar ==
    /\ AtLabel /\ StarAt(i + 1) /\ i + 1 = Len(Pattern)
    /\ IF Len(name) <= i THEN NextRecord
                         ELSE pc' = "matched" /\ UNCHANGED k
    /\ UNCHANGED <<args, i, literals, winner>>

\* A mistake: the label a star takes need not be there.
InnerStarUnchecked ==
    /\ AtLabel /\ StarAt(i + 1) /\ i + 1 < Len(Pattern)
    /\ i' = i + 1
    /\ UNCHANGED <<args, k, pc, literals, winner>>

InnerStar ==
    /\ AtLabel /\ StarAt(i + 1) /\ i + 1 < Len(Pattern)
    /\ IF i >= Len(name) THEN NextRecord /\ UNCHANGED i
                         ELSE i' = i + 1 /\ UNCHANGED <<k, pc>>
    /\ UNCHANGED <<args, literals, winner>>

LiteralLabel ==
    /\ AtLabel /\ ~ StarAt(i + 1)
    /\ IF i >= Len(name) \/ name[i + 1] # Pattern[i + 1]
         THEN NextRecord /\ UNCHANGED <<i, literals>>
         ELSE i' = i + 1 /\ literals' = literals + 1 /\ UNCHANGED <<k, pc>>
    /\ UNCHANGED <<args, winner>>

\* A mistake: what follows the pattern in the name is ignored.
EndOfPatternUnchecked ==
    /\ pc = "label" /\ i = Len(Pattern)
    /\ pc' = "matched"
    /\ UNCHANGED <<args, k, i, literals, winner>>

\* Every label passed and none a leftmost star: the lengths must agree.
EndOfPattern ==
    /\ pc = "label" /\ i = Len(Pattern)
    /\ IF Len(name) # Len(Pattern) THEN NextRecord
                                   ELSE pc' = "matched" /\ UNCHANGED k
    /\ UNCHANGED <<args, i, literals, winner>>

-----------------------------------------------------------------------------
(* The switch on the score of a candidate that matches.                    *)

Scored == ScoreOf(literals, Len(Pattern), LeadingStar(Pattern))

Better ==
    /\ pc = "matched" /\ Scored > best
    /\ best' = Scored /\ bestPattern' = Pattern /\ matches' = {k}
    /\ NextRecord
    /\ UNCHANGED <<args, i, literals>>

\* A mistake: every record of the best score answers.
SameScore ==
    /\ pc = "matched" /\ Scored = best
    /\ matches' = matches \cup {k}
    /\ NextRecord
    /\ UNCHANGED <<args, i, literals, best, bestPattern>>

SamePattern ==
    /\ pc = "matched" /\ Scored = best /\ Pattern = bestPattern
    /\ matches' = matches \cup {k}
    /\ NextRecord
    /\ UNCHANGED <<args, i, literals, best, bestPattern>>

\* A mistake: the loop goes round without the next candidate.
NoBetterStays ==
    /\ pc = "matched" /\ Scored <= best
    /\ pc' = "record"
    /\ UNCHANGED <<args, k, i, literals, winner>>

NoBetter ==
    /\ pc = "matched" /\ Scored <= best
    /\ Scored = best => Pattern # bestPattern
    /\ NextRecord
    /\ UNCHANGED <<args, i, literals, winner>>

Next ==
    \/ SkipOtherType \/ StartRecord \/ Return
    \/ LastStar \/ InnerStar \/ LiteralLabel \/ EndOfPattern
    \/ Better \/ SamePattern \/ NoBetter

Spec == Init /\ [][Next]_vars /\ WF_vars(Next)

-----------------------------------------------------------------------------
(* Properties.                                                             *)

\* The loop variables stay within the store, the pattern and the name
\* (store.go:82-90 and store.go:164-187).
TypeOK ==
    /\ store \in Stores /\ name \in Names
    /\ k \in 1..(Len(store) + 1)
    /\ pc \in {"record", "label", "matched", "returned"}
    /\ pc \in {"label", "matched"} =>
          /\ k \in ByType(store, Type)
          /\ i \in 0..Len(Pattern) /\ i <= Len(name) /\ literals \in 0..i
    /\ best \in Int /\ matches \subseteq DOMAIN store

\* The scan returns the records of the most specific pattern that matches,
\* all of them, and its score, whatever the order of the records: a worse
\* match seen first is dropped, one of an equally specific pattern is ignored
\* (store.go:86-99).
ReturnsTheWinners ==
    pc = "returned" =>
        /\ matches = Lookup(store, Type, name)
        /\ best = LookupScore(store, Type, name)

\* An exact name beats a fixed pattern of as many labels with a star in it,
\* which beats a pattern that takes any number of labels (store.go:58-61,
\* store.go:197-200).  Stated on the answer: when some record names the name
\* exactly, only records that do are returned, and a leftmost star wins only if
\* nothing else matches.
ExactWins ==
    (\E j \in ByType(store, Type) : store[j].name = name) =>
        \A j \in matches : store[j].name = name
FixedWins ==
    (\E j \in Matching(store, Type, name) : ~ LeadingStar(store[j].name)) =>
        \A j \in matches : ~ LeadingStar(store[j].name)
ExactBeatsWildcard == (pc = "returned" /\ name # <<>>) => ExactWins /\ FixedWins

\* What the labels of p stand for in a name: a literal for itself, a leftmost
\* star for one or more labels, any other star for one.
Block(p, j, n) ==
    CASE p[j] # Star -> {<<p[j]>>}
      [] p[j] = Star /\ j < Len(p) -> {<<n[m]>> : m \in DOMAIN n}
      [] p[j] = Star /\ j = Len(p) ->
            {SubSeq(n, m, Len(n)) : m \in DOMAIN n}

SpelledOut(p, n) ==
    \E blocks \in [1..Len(p) -> UNION {Block(p, j, n) : j \in 1..Len(p)}] :
        /\ \A j \in 1..Len(p) : blocks[j] \in Block(p, j, n)
        /\ FlattenSeq(blocks) = n

\* A pattern never matches more names than it literally spells out, and none
\* of those fewer: example.com does not answer for its subdomains, *.example.com
\* not for the apex (store.go:147-157).
MatchesWhatIsWritten ==
    pc = "returned" =>
        /\ \A j \in matches : SpelledOut(store[j].name, name)
        /\ matches = {} =>
              \A j \in ByType(store, Type) : ~ SpelledOut(store[j].name, name)

\* The scan ends (the loops are finite: store.go:86 and store.go:165).
ScanReturns == <>(pc = "returned")
=============================================================================
