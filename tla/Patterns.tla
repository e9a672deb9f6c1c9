---------------------------- MODULE Patterns ----------------------------
(***************************************************************************)
(* Name patterns, how specific they are, and the domain filter             *)
(* (src/internal/records/store.go).                                        *)
(*                                                                         *)
(* A name or a pattern is the sequence of its labels, TOP-LEVEL LABEL      *)
(* FIRST: what reverseLabels(NormaliseName(name)) returns, so case folding *)
(* and trailing dots are already gone.  The root, whose normalised name is *)
(* empty, is <<>>.                                                         *)
(***************************************************************************)
EXTENDS Integers, Sequences, FiniteSets

CONSTANT Star      \* the label "*"

\* "*" is the LEFTMOST label, the last of the reversed ones.
LeadingStar(p) == p # <<>> /\ p[Len(p)] = Star

\* How many labels of p[1..i] are spelled out.
LiteralsUpTo(p, i) == Cardinality({j \in 1..i : p[j] # Star})
Literals(p) == LiteralsUpTo(p, Len(p))

\* A leftmost star takes one or more labels, any other star exactly one.
MatchPattern(p, n) ==
    /\ p # <<>>
    /\ IF LeadingStar(p) THEN Len(n) >= Len(p) ELSE Len(n) = Len(p)
    /\ \A i \in 1..Len(p) : p[i] # Star => n[i] = p[i]

\* A mistake the checks must notice: the leftmost star is preferred.
ScoreInverted(literals, length, leadingStar) ==
    literals * 1000 + length * 10 + (IF leadingStar THEN 100000 ELSE 0)

\* How specific a match of a pattern is; only comparisons mean anything.
ScoreOf(literals, length, leadingStar) ==
    literals * 1000 + length * 10 + (IF leadingStar THEN 0 ELSE 100000)
Score(p) == ScoreOf(Literals(p), Len(p), LeadingStar(p))

-----------------------------------------------------------------------------
(* The domain filter: [mode, patterns], patterns a set.                    *)

\* A filter without a pattern filters nothing.  The root is dropped: a blank
\* pattern is skipped.
NewFilter(mode, patterns) ==
    LET kept == patterns \ {<<>>}
    IN  [mode     |-> IF kept = {} THEN "none" ELSE mode,
         patterns |-> kept]

ShouldFake(filter, n) ==
    LET listed == \E p \in filter.patterns : MatchPattern(p, n)
    IN  CASE filter.mode = "none"   -> TRUE
          [] filter.mode = "only"   -> listed
          [] filter.mode = "except" -> ~ listed
=============================================================================
