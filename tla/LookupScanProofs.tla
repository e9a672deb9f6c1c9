------------------------- MODULE LookupScanProofs -------------------------
(***************************************************************************)
(* The scan of LookupScored returns the winners of the declarative lookup, *)
(* for every store, every name and every set of labels.                    *)
(***************************************************************************)
EXTENDS LookupScan, RecordsProofs

-----------------------------------------------------------------------------
(* The inductive invariant.  Scanned is what the scan has matched so far;  *)
(* WinnerSoFar says best, bestPattern and matches are the answer for it.   *)

Scanned == {j \in Matching(store, Type, name) : j < k}

\* f is the first of the best matches in m.
Leads(f, m) ==
    /\ f \in m
    /\ \A j \in m : /\ Score(store[j].name) <= Score(store[f].name)
                    /\ Score(store[j].name) = Score(store[f].name) => f <= j

WinnerOf(m) ==
    IF m = {}
      THEN best = -1 /\ matches = {}
      ELSE \E f \in m :
             /\ Leads(f, m)
             /\ best = Score(store[f].name)
             /\ bestPattern = store[f].name
             /\ matches = {j \in m : store[j].name = store[f].name}

\* matchPattern has passed the first i labels.
LabelInv ==
    pc = "label" =>
        /\ literals = LiteralsUpTo(Pattern, i)
        /\ \A j \in 1..i : Pattern[j] # Star => name[j] = Pattern[j]
        /\ i = Len(Pattern) => ~ LeadingStar(Pattern)

MatchedInv ==
    pc = "matched" => /\ k \in Matching(store, Type, name)
                      /\ Scored = Score(Pattern)

ReturnedInv ==
    pc = "returned" => Scanned = Matching(store, Type, name)

ScanInv == TypeOK /\ LabelInv /\ MatchedInv /\ ReturnedInv /\ WinnerOf(Scanned)

-----------------------------------------------------------------------------
(* The arguments of a scan.                                                *)

LEMMA Element ==
    ASSUME NEW S, NEW s \in Seq(S), NEW j \in DOMAIN s PROVE s[j] \in S
OBVIOUS

LEMMA Arguments ==
    ASSUME TypeOK
    PROVE  /\ store \in Seq([name : Seq(Labels), type : Types])
           /\ Len(store) \in Nat /\ DOMAIN store = 1..Len(store)
           /\ name \in Seq(Labels) /\ Len(name) \in Nat
           /\ \A j \in DOMAIN store :
                 /\ store[j].name \in Seq(Labels) /\ store[j].name # <<>>
                 /\ Len(store[j].name) \in Nat \ {0}
                 /\ Score(store[j].name) \in Nat
<1>1. /\ store \in Seq([name : Seq(Labels), type : Types])
      /\ \A j \in DOMAIN store : store[j].name # <<>>
      /\ name \in Seq(Labels)
  BY ScanAssumption DEF TypeOK
<1>2. Len(store) \in Nat /\ DOMAIN store = 1..Len(store) /\ Len(name) \in Nat
  BY <1>1
<1>3. ASSUME NEW j \in DOMAIN store
      PROVE  /\ store[j].name \in Seq(Labels)
             /\ Len(store[j].name) \in Nat \ {0}
             /\ Score(store[j].name) \in Nat
  <2>1. store[j] \in [name : Seq(Labels), type : Types]  BY <1>1, <1>3, Element
  <2>2. store[j].name \in Seq(Labels) /\ store[j].name # <<>>  BY <2>1, <1>1
  <2>3. Len(store[j].name) \in Nat \ {0}  BY <2>2
  <2>4. QED  BY <2>2, <2>3, ScorePositive
<1>4. QED  BY <1>1, <1>2, <1>3

\* Moving past a candidate that does not match changes nothing of the scanned.
LEMMA PassMismatch ==
    ASSUME TypeOK, k \in DOMAIN store, k \notin Matching(store, Type, name),
           UNCHANGED args, k' = k + 1
    PROVE  Scanned' = Scanned
<1>1. \A j \in Matching(store, Type, name) : j \in Int /\ k \in Int
  BY Arguments DEF Matching, ByType
<1>2. \A j \in Matching(store, Type, name) : j < k + 1 <=> j < k
  BY <1>1, Arguments
<1>3. QED  BY <1>2 DEF Scanned, args, Matching, ByType

\* Moving past one that does adds it.
LEMMA PassMatch ==
    ASSUME TypeOK, k \in Matching(store, Type, name),
           UNCHANGED args, k' = k + 1
    PROVE  /\ Scanned' = Scanned \cup {k}
           /\ \A j \in Scanned : j \in Int /\ j < k
<1>1. \A j \in Matching(store, Type, name) : j \in Int
  BY Arguments DEF Matching, ByType
<1>2. \A j \in Matching(store, Type, name) : j < k + 1 <=> j < k \/ j = k
  BY <1>1
<1>3. QED  BY <1>1, <1>2 DEF Scanned, args, Matching, ByType

\* What the scan holds is the answer for the same scanned positions.
LEMMA WinnerStays ==
    ASSUME WinnerOf(Scanned), Scanned' = Scanned, UNCHANGED <<args, winner>>
    PROVE  WinnerOf(Scanned)'
BY DEF WinnerOf, Leads, args, winner

-----------------------------------------------------------------------------
(* The invariant holds initially and every action keeps it.                *)

LEMMA ScanInit == Init => ScanInv
<1> SUFFICES ASSUME Init PROVE ScanInv  OBVIOUS
<1>1. store \in Stores /\ name \in Names /\ k = 1  BY DEF Init
<1>2. Len(store) \in Nat /\ DOMAIN store = 1..Len(store)
  BY <1>1, ScanAssumption
<1>3. TypeOK  BY <1>1, <1>2 DEF Init, TypeOK
<1>4. Scanned = {}
  BY <1>1, <1>2 DEF Scanned, Matching, ByType
<1>5. WinnerOf(Scanned)  BY <1>4 DEF Init, WinnerOf
<1>6. ReturnedInv
  <2> SUFFICES ASSUME pc = "returned" PROVE Matching(store, Type, name) = {}
    BY <1>4 DEF ReturnedInv
  <2>1. CASE ByType(store, Type) = {}  BY <2>1 DEF Matching
  <2>2. CASE name = <<>>
    <3>1. \A j \in DOMAIN store : ~ MatchPattern(store[j].name, name)
      BY <1>3, <2>2, Arguments DEF MatchPattern
    <3>2. QED  BY <3>1 DEF Matching, ByType
  <2>3. QED  BY <2>1, <2>2 DEF Init
<1>7. LabelInv /\ MatchedInv  BY DEF Init, LabelInv, MatchedInv
<1>8. QED  BY <1>3, <1>5, <1>6, <1>7 DEF ScanInv

\* `continue` at a candidate that does not match.
LEMMA MismatchStep ==
    ASSUME ScanInv, k \in DOMAIN store, k \notin Matching(store, Type, name),
           NextRecord, UNCHANGED <<args, winner>>
    PROVE  ScanInv'
<1>1. TypeOK /\ WinnerOf(Scanned)  BY DEF ScanInv
<1>2. Scanned' = Scanned  BY <1>1, PassMismatch DEF NextRecord
<1>3. WinnerOf(Scanned)'  BY <1>1, <1>2, WinnerStays
<1>4. TypeOK'
  BY <1>1, Arguments DEF TypeOK, NextRecord, args, winner
<1>5. LabelInv' /\ MatchedInv' /\ ReturnedInv'
  BY DEF NextRecord, LabelInv, MatchedInv, ReturnedInv
<1>6. QED  BY <1>3, <1>4, <1>5 DEF ScanInv

LEMMA SkipOtherTypeStep == ScanInv /\ SkipOtherType => ScanInv'
<1> SUFFICES ASSUME ScanInv, SkipOtherType PROVE ScanInv'  OBVIOUS
<1>1. k \notin Matching(store, Type, name)
  BY DEF SkipOtherType, Matching, ByType
<1>2. k \in DOMAIN store /\ NextRecord /\ UNCHANGED <<args, winner>>
  BY DEF SkipOtherType, NextRecord
<1>3. QED  BY <1>1, <1>2, MismatchStep

LEMMA StartRecordStep == ScanInv /\ StartRecord => ScanInv'
<1> SUFFICES ASSUME ScanInv, StartRecord PROVE ScanInv'  OBVIOUS
<1> USE DEF StartRecord
<1>1. TypeOK  BY DEF ScanInv
<1>2. k \in ByType(store, Type)  BY DEF ByType
<1>3. TypeOK'
  BY <1>1, <1>2, Arguments DEF TypeOK, args, winner, Pattern
<1>4. LabelInv'
  <2>1. 0 # Len(Pattern) /\ Pattern' = Pattern
    BY <1>1, Arguments DEF Pattern, args
  <2>2. literals' = LiteralsUpTo(Pattern', i')  BY LiteralsNone
  <2>3. QED  BY <2>1, <2>2 DEF LabelInv
<1>5. Scanned' = Scanned  BY DEF Scanned, args
<1>6. WinnerOf(Scanned)'  BY <1>5, WinnerStays DEF ScanInv
<1>7. MatchedInv' /\ ReturnedInv'  BY DEF MatchedInv, ReturnedInv
<1>8. QED  BY <1>3, <1>4, <1>6, <1>7 DEF ScanInv

LEMMA ReturnStep == ScanInv /\ Return => ScanInv'
<1> SUFFICES ASSUME ScanInv, Return PROVE ScanInv'  OBVIOUS
<1> USE DEF Return
<1>1. TypeOK  BY DEF ScanInv
<1>2. TypeOK'  BY <1>1 DEF TypeOK, args, winner
<1>3. Scanned' = Scanned  BY DEF Scanned, args
<1>4. WinnerOf(Scanned)'  BY <1>3, WinnerStays DEF ScanInv
<1>5. ReturnedInv'
  <2>1. k = Len(store) + 1
    BY <1>1, Arguments DEF TypeOK
  <2>2. \A j \in Matching(store, Type, name) : j < k
    BY <1>1, <2>1, Arguments DEF Matching, ByType
  <2>3. QED  BY <2>2 DEF ReturnedInv, Scanned, args
<1>6. LabelInv' /\ MatchedInv'  BY DEF LabelInv, MatchedInv
<1>7. QED  BY <1>2, <1>4, <1>5, <1>6 DEF ScanInv

-----------------------------------------------------------------------------
(* matchPattern.                                                           *)

\* What the invariant says of the label the scan stands at.
LEMMA AtLabelFacts ==
    ASSUME ScanInv, pc = "label"
    PROVE  /\ TypeOK
           /\ k \in DOMAIN store /\ store[k].type = Type
           /\ Pattern \in Seq(Labels) /\ Len(Pattern) \in Nat \ {0} /\ Pattern # <<>>
           /\ Len(name) \in Nat /\ i \in Nat /\ i <= Len(name) /\ i <= Len(Pattern)
           /\ k \in Int
           /\ literals = LiteralsUpTo(Pattern, i)
           /\ \A j \in 1..i : Pattern[j] # Star => name[j] = Pattern[j]
           /\ i = Len(Pattern) => ~ LeadingStar(Pattern)
<1>1. TypeOK /\ LabelInv  BY DEF ScanInv
<1>2. k \in DOMAIN store /\ store[k].type = Type
  BY <1>1 DEF TypeOK, ByType
<1>3. QED  BY <1>1, <1>2, Arguments DEF TypeOK, LabelInv, Pattern

LEMMA LastStarStep == ScanInv /\ LastStar => ScanInv'
<1> SUFFICES ASSUME ScanInv, LastStar PROVE ScanInv'  OBVIOUS
<1> USE DEF LastStar, AtLabel
<1>0. /\ LeadingStar(Pattern) /\ i + 1 = Len(Pattern)
  BY AtLabelFacts DEF LeadingStar, StarAt
<1>1. CASE Len(name) <= i
  <2>1. ~ MatchPattern(Pattern, name)
    BY <1>0, <1>1, AtLabelFacts DEF MatchPattern
  <2>2. k \notin Matching(store, Type, name)
    BY <2>1 DEF Matching, Pattern
  <2>3. QED  BY <1>1, <2>2, AtLabelFacts, MismatchStep
<1>2. CASE ~ (Len(name) <= i)
  <2>1. MatchPattern(Pattern, name)
    <3>1. Len(name) >= Len(Pattern)  BY <1>0, <1>2, AtLabelFacts
    <3>2. ASSUME NEW j \in 1..Len(Pattern), Pattern[j] # Star
          PROVE  name[j] = Pattern[j]
      <4>1. j # Len(Pattern)  BY <1>0, <3>2 DEF LeadingStar
      <4>2. j \in 1..i  BY <4>1, <1>0, AtLabelFacts
      <4>3. QED  BY <4>2, <3>2, AtLabelFacts
    <3>3. QED  BY <1>0, <3>1, <3>2, AtLabelFacts DEF MatchPattern
  <2>2. k \in Matching(store, Type, name)
    BY <2>1, AtLabelFacts DEF Matching, ByType, Pattern
  <2>3. Scored = Score(Pattern)
    <3>1. Pattern[i + 1] = Star  BY <1>0 DEF LeadingStar
    <3>2. LiteralsUpTo(Pattern, i + 1) = literals
      <4>1. i \in Nat /\ literals = LiteralsUpTo(Pattern, i)  BY AtLabelFacts
      <4>2. literals \in Nat  BY <4>1, LiteralsFinite
      <4>3. QED  BY <3>1, <4>1, <4>2, LiteralsStep
    <3>3. QED  BY <1>0, <3>2 DEF Scored, Score, Literals
  <2>4. TypeOK'
    BY <1>2, AtLabelFacts, Arguments DEF ScanInv, TypeOK, args, winner, Pattern
  <2>5. MatchedInv'
    BY <1>2, <2>2, <2>3 DEF MatchedInv, args, Matching, ByType, Scored, Pattern
  <2>6. Scanned' = Scanned  BY <1>2 DEF Scanned, args
  <2>7. WinnerOf(Scanned)'  BY <2>6, WinnerStays DEF ScanInv
  <2>8. LabelInv' /\ ReturnedInv'  BY <1>2 DEF LabelInv, ReturnedInv
  <2>9. QED  BY <2>4, <2>5, <2>7, <2>8 DEF ScanInv
<1>3. QED  BY <1>1, <1>2

\* A label that agrees is passed.
LEMMA PassLabel ==
    ASSUME ScanInv, pc = "label", i < Len(Pattern), i < Len(name),
           Pattern[i + 1] # Star => name[i + 1] = Pattern[i + 1],
           Pattern[i + 1] = Star => i + 1 < Len(Pattern),
           i' = i + 1, UNCHANGED <<args, winner, k, pc>>,
           literals' = literals + (IF Pattern[i + 1] = Star THEN 0 ELSE 1)
    PROVE  ScanInv'
<1>1. Pattern' = Pattern  BY DEF Pattern, args
<1>2. literals' = LiteralsUpTo(Pattern, i + 1)
  BY AtLabelFacts, LiteralsStep
<1>3. \A j \in 1..(i + 1) : Pattern[j] # Star => name[j] = Pattern[j]
  BY AtLabelFacts
<1>4. i + 1 = Len(Pattern) => ~ LeadingStar(Pattern)
  BY AtLabelFacts DEF LeadingStar
<1>5. LabelInv'  BY <1>1, <1>2, <1>3, <1>4 DEF LabelInv, args
<1>6. TypeOK'
  <2>1. literals \in 0..i  BY DEF ScanInv, TypeOK
  <2>2. literals' \in 0..(i + 1)  BY <2>1, AtLabelFacts
  <2>3. QED  BY <2>2, <1>1, AtLabelFacts DEF TypeOK, args, winner
<1>7. Scanned' = Scanned  BY DEF Scanned, args
<1>8. WinnerOf(Scanned)'  BY <1>7, WinnerStays DEF ScanInv
<1>9. MatchedInv' /\ ReturnedInv'  BY DEF MatchedInv, ReturnedInv
<1>10. QED  BY <1>5, <1>6, <1>8, <1>9 DEF ScanInv

LEMMA InnerStarStep == ScanInv /\ InnerStar => ScanInv'
<1> SUFFICES ASSUME ScanInv, InnerStar PROVE ScanInv'  OBVIOUS
<1> USE DEF InnerStar, AtLabel, StarAt
<1>1. CASE i >= Len(name)
  <2>1. Len(name) < Len(Pattern)  BY <1>1, AtLabelFacts
  <2>2. ~ MatchPattern(Pattern, name)
    BY <2>1, AtLabelFacts DEF MatchPattern
  <2>3. k \notin Matching(store, Type, name)
    BY <2>2 DEF Matching, Pattern
  <2>4. QED  BY <1>1, <2>3, AtLabelFacts, MismatchStep
<1>2. CASE ~ (i >= Len(name))
  <2>1. literals' = literals + 0
    <3>1. literals \in Nat  BY AtLabelFacts, LiteralsFinite
    <3>2. QED  BY <3>1
  <2>2. QED  BY <1>2, <2>1, AtLabelFacts, PassLabel
<1>3. QED  BY <1>1, <1>2

LEMMA LiteralLabelStep == ScanInv /\ LiteralLabel => ScanInv'
<1> SUFFICES ASSUME ScanInv, LiteralLabel PROVE ScanInv'  OBVIOUS
<1> USE DEF LiteralLabel, AtLabel, StarAt
<1>1. CASE i >= Len(name) \/ name[i + 1] # Pattern[i + 1]
  <2>1. i + 1 \in 1..Len(Pattern)  BY AtLabelFacts
  <2>2. ~ MatchPattern(Pattern, name)
    <3>1. CASE i >= Len(name)  BY <3>1, AtLabelFacts DEF MatchPattern
    <3>2. CASE name[i + 1] # Pattern[i + 1]  BY <3>2, <2>1 DEF MatchPattern
    <3>3. QED  BY <1>1, <3>1, <3>2
  <2>3. k \notin Matching(store, Type, name)
    BY <2>2 DEF Matching, Pattern
  <2>4. QED  BY <1>1, <2>3, AtLabelFacts, MismatchStep
<1>2. CASE ~ (i >= Len(name) \/ name[i + 1] # Pattern[i + 1])
  BY <1>2, AtLabelFacts, PassLabel
<1>3. QED  BY <1>1, <1>2

LEMMA EndOfPatternStep == ScanInv /\ EndOfPattern => ScanInv'
<1> SUFFICES ASSUME ScanInv, EndOfPattern PROVE ScanInv'  OBVIOUS
<1> USE DEF EndOfPattern
<1>0. ~ LeadingStar(Pattern)  BY AtLabelFacts
<1>1. CASE Len(name) # Len(Pattern)
  <2>1. ~ MatchPattern(Pattern, name)  BY <1>0, <1>1 DEF MatchPattern
  <2>2. k \notin Matching(store, Type, name)
    BY <2>1 DEF Matching, Pattern
  <2>3. QED  BY <1>1, <2>2, AtLabelFacts, MismatchStep
<1>2. CASE Len(name) = Len(Pattern)
  <2>1. MatchPattern(Pattern, name)
    BY <1>0, <1>2, AtLabelFacts DEF MatchPattern
  <2>2. k \in Matching(store, Type, name)
    BY <2>1, AtLabelFacts DEF Matching, ByType, Pattern
  <2>3. Scored = Score(Pattern)
    BY AtLabelFacts DEF Scored, Score, Literals
  <2>4. TypeOK'
    BY <1>2, AtLabelFacts, Arguments DEF ScanInv, TypeOK, args, winner, Pattern
  <2>5. MatchedInv'
    BY <1>2, <2>2, <2>3 DEF MatchedInv, args, Matching, ByType, Scored, Pattern
  <2>6. Scanned' = Scanned  BY <1>2 DEF Scanned, args
  <2>7. WinnerOf(Scanned)'  BY <2>6, WinnerStays DEF ScanInv
  <2>8. LabelInv' /\ ReturnedInv'  BY <1>2 DEF LabelInv, ReturnedInv
  <2>9. QED  BY <2>4, <2>5, <2>7, <2>8 DEF ScanInv
<1>3. QED  BY <1>1, <1>2

-----------------------------------------------------------------------------
(* The switch on the score.                                                *)

\* What the invariant says of a candidate that matches, and what moving past
\* it needs.
LEMMA MatchedFacts ==
    ASSUME ScanInv, pc = "matched", NextRecord, UNCHANGED args
    PROVE  /\ TypeOK
           /\ k \in Matching(store, Type, name) /\ k \in DOMAIN store /\ k \in Int
           /\ Scored = Score(store[k].name) /\ Scored \in Nat /\ best \in Int
           /\ Scanned' = Scanned \cup {k}
           /\ \A j \in Scanned : /\ j \in Int /\ j < k /\ j \in DOMAIN store
                                  /\ Score(store[j].name) \in Nat
<1>1. TypeOK /\ k \in Matching(store, Type, name) /\ Scored = Score(store[k].name)
  BY DEF ScanInv, MatchedInv, Pattern
<1>2. k \in DOMAIN store  BY <1>1 DEF Matching, ByType
<1>3. \A j \in Scanned : j \in DOMAIN store  BY DEF Scanned, Matching, ByType
<1>4. Scanned' = Scanned \cup {k} /\ \A j \in Scanned : j \in Int /\ j < k
  BY <1>1, PassMatch DEF NextRecord
<1>5. Scored \in Nat /\ k \in Int /\ best \in Int
  BY <1>1, <1>2, Arguments DEF TypeOK
<1>6. \A j \in Scanned : Score(store[j].name) \in Nat  BY <1>1, <1>3, Arguments
<1>7. QED  BY <1>1, <1>2, <1>3, <1>4, <1>5, <1>6

\* The parts of the invariant that only need the scan to stand at a record.
LEMMA ConsideredStep ==
    ASSUME ScanInv, pc = "matched", NextRecord, UNCHANGED args,
           best' \in Int, matches' \subseteq DOMAIN store, WinnerOf(Scanned)'
    PROVE  ScanInv'
<1>1. TypeOK'
  <2>1. TypeOK /\ k \in DOMAIN store /\ store' = store /\ name' = name
    BY MatchedFacts DEF args
  <2>2. k \in 1..Len(store) /\ Len(store) \in Nat  BY <2>1, Arguments
  <2>3. k' = k + 1 /\ pc' = "record"  BY DEF NextRecord
  <2>4. k' \in 1..(Len(store') + 1)  BY <2>1, <2>2, <2>3
  <2>5. QED  BY <2>1, <2>3, <2>4 DEF TypeOK
<1>2. LabelInv' /\ MatchedInv' /\ ReturnedInv'
  BY DEF NextRecord, LabelInv, MatchedInv, ReturnedInv
<1>3. QED  BY <1>1, <1>2 DEF ScanInv

LEMMA BetterStep == ScanInv /\ Better => ScanInv'
<1> SUFFICES ASSUME ScanInv, Better PROVE ScanInv'  OBVIOUS
<1> DEFINE M == Scanned \cup {k}
           sc(j) == Score(store[j].name)
<1>0. /\ pc = "matched" /\ NextRecord /\ UNCHANGED args /\ Scored > best
      /\ best' = Scored /\ bestPattern' = store[k].name /\ matches' = {k}
  BY DEF Better, Pattern
<1>1. \A j \in Scanned : sc(j) < sc(k)
  <2>1. CASE Scanned = {}  BY <2>1
  <2>2. CASE Scanned # {}
    <3>1. PICK f \in Scanned : Leads(f, Scanned) /\ best = sc(f)
      BY <2>2 DEF ScanInv, WinnerOf
    <3>2. \A j \in Scanned : sc(j) <= sc(f)  BY <3>1 DEF Leads
    <3>3. QED  BY <3>1, <3>2, <1>0, MatchedFacts
  <2>3. QED  BY <2>1, <2>2
<1>2. k \in M /\ \A j \in M : sc(j) <= sc(k) /\ (sc(j) = sc(k) => k <= j)
  BY <1>0, <1>1, MatchedFacts
<1>3. {j \in M : store[j].name = store[k].name} = {k}
  BY <1>0, <1>1, MatchedFacts
<1>4. WinnerOf(Scanned)'
  <2>1. Scanned' = M /\ store' = store  BY <1>0, MatchedFacts DEF args
  <2>2. QED  BY <2>1, <1>0, <1>2, <1>3, MatchedFacts DEF WinnerOf, Leads
<1>5. best' \in Int /\ matches' \subseteq DOMAIN store  BY <1>0, MatchedFacts
<1>6. QED  BY <1>0, <1>4, <1>5, ConsideredStep

\* The record in the lead stays there.
LEMMA LeaderStays ==
    ASSUME ScanInv, pc = "matched", NextRecord, UNCHANGED args, Scored <= best
    PROVE  \E f \in Scanned : /\ Leads(f, Scanned) /\ Leads(f, Scanned \cup {k})
                               /\ best = Score(store[f].name)
                               /\ bestPattern = store[f].name
                               /\ matches = {j \in Scanned : store[j].name = store[f].name}
<1>1. Scanned # {}
  BY MatchedFacts DEF ScanInv, WinnerOf
<1>2. PICK f \in Scanned : /\ Leads(f, Scanned) /\ best = Score(store[f].name)
                           /\ bestPattern = store[f].name
                           /\ matches = {j \in Scanned : store[j].name = store[f].name}
  BY <1>1 DEF ScanInv, WinnerOf
<1>3. Leads(f, Scanned \cup {k})
  BY <1>2, MatchedFacts DEF Leads
<1>4. QED  BY <1>2, <1>3

LEMMA SamePatternStep == ScanInv /\ SamePattern => ScanInv'
<1> SUFFICES ASSUME ScanInv, SamePattern PROVE ScanInv'  OBVIOUS
<1>0. /\ pc = "matched" /\ NextRecord /\ UNCHANGED args /\ Scored <= best
      /\ store[k].name = bestPattern /\ matches' = matches \cup {k}
      /\ best' = best /\ bestPattern' = bestPattern
  <2>1. pc = "matched" /\ NextRecord /\ UNCHANGED args /\ Scored = best
    BY DEF SamePattern
  <2>2. Scored <= best  BY <2>1, MatchedFacts
  <2>3. QED  BY <2>1, <2>2 DEF SamePattern, Pattern
<1>1. PICK f \in Scanned : /\ Leads(f, Scanned \cup {k})
                           /\ best = Score(store[f].name)
                           /\ bestPattern = store[f].name
                           /\ matches = {j \in Scanned : store[j].name = store[f].name}
  BY <1>0, LeaderStays
<1>2. matches' = {j \in Scanned \cup {k} : store[j].name = store[f].name}
  BY <1>0, <1>1
<1>3. WinnerOf(Scanned)'
  <2>1. Scanned' = Scanned \cup {k} /\ store' = store
    BY <1>0, MatchedFacts DEF args
  <2>2. QED  BY <2>1, <1>0, <1>1, <1>2 DEF WinnerOf, Leads
<1>4. best' \in Int /\ matches' \subseteq DOMAIN store
  BY <1>0, MatchedFacts DEF TypeOK
<1>5. QED  BY <1>0, <1>3, <1>4, ConsideredStep

LEMMA NoBetterStep == ScanInv /\ NoBetter => ScanInv'
<1> SUFFICES ASSUME ScanInv, NoBetter PROVE ScanInv'  OBVIOUS
<1>0. /\ pc = "matched" /\ NextRecord /\ UNCHANGED <<args, winner>> /\ Scored <= best
      /\ Scored = best => store[k].name # bestPattern
  BY DEF NoBetter, Pattern
<1>1. PICK f \in Scanned : /\ Leads(f, Scanned \cup {k})
                           /\ best = Score(store[f].name)
                           /\ bestPattern = store[f].name
                           /\ matches = {j \in Scanned : store[j].name = store[f].name}
  BY <1>0, LeaderStays
<1>2. store[k].name # store[f].name  BY <1>0, <1>1, MatchedFacts
<1>3. WinnerOf(Scanned)'
  <2>1. Scanned' = Scanned \cup {k} /\ store' = store
    BY <1>0, MatchedFacts DEF args
  <2>2. QED  BY <2>1, <1>0, <1>1, <1>2 DEF WinnerOf, Leads, winner
<1>4. best' \in Int /\ matches' \subseteq DOMAIN store
  BY <1>0, MatchedFacts DEF TypeOK, winner
<1>5. QED  BY <1>0, <1>3, <1>4, ConsideredStep

-----------------------------------------------------------------------------
(* The theorems.                                                           *)

LEMMA ScanStep == ScanInv /\ [Next]_vars => ScanInv'
<1> SUFFICES ASSUME ScanInv, [Next]_vars PROVE ScanInv'  OBVIOUS
<1>1. CASE UNCHANGED vars
  BY <1>1 DEF vars, ScanInv, TypeOK, LabelInv, MatchedInv, ReturnedInv, WinnerOf,
              Leads, Scanned, Scored, Pattern
<1>2. CASE Next
  BY <1>2, SkipOtherTypeStep, StartRecordStep, ReturnStep, LastStarStep,
     InnerStarStep, LiteralLabelStep, EndOfPatternStep, BetterStep,
     SamePatternStep, NoBetterStep DEF Next
<1>3. QED  BY <1>1, <1>2

LEMMA ScanInvariant == Spec => []ScanInv
BY ScanInit, ScanStep, PTL DEF Spec

\* The loop variables never leave the store, the pattern and the name: the
\* loops of LookupScored and matchPattern index within bounds (store.go:86 and
\* store.go:165-183).
THEOREM TypeCorrect == Spec => []TypeOK
<1>1. ScanInv => TypeOK  BY DEF ScanInv
<1>2. QED  BY <1>1, ScanInvariant, PTL

\* The answer for all the matches is the declarative one.
LEMMA WinnerIsLookup ==
    ASSUME ScanInv, WinnerOf(Matching(store, Type, name))
    PROVE  matches = Lookup(store, Type, name) /\ best = LookupScore(store, Type, name)
<1> DEFINE m == Matching(store, Type, name)
           b == Best(store, Type, name)
<1>1. \A j \in m : j \in Int /\ Score(store[j].name) \in Nat
  BY Arguments DEF ScanInv, Matching, ByType
<1>2. CASE m = {}
  <2>1. b = {}  BY <1>2 DEF Best
  <2>2. QED  BY <1>2, <2>1 DEF WinnerOf, Lookup, LookupScore
<1>3. CASE m # {}
  <2>1. PICK f \in m : /\ Leads(f, m) /\ best = Score(store[f].name)
                       /\ matches = {j \in m : store[j].name = store[f].name}
    BY <1>3 DEF WinnerOf
  <2>2. b = {j \in m : Score(store[j].name) = Score(store[f].name)}
    <3>1. ASSUME NEW j \in m
          PROVE  (\A l \in m : Score(store[l].name) <= Score(store[j].name))
                    <=> Score(store[j].name) = Score(store[f].name)
      BY <2>1, <1>1, <3>1 DEF Leads
    <3>2. QED  BY <3>1 DEF Best
  <2>3. f \in b /\ \A j \in b : f <= j  BY <2>1, <2>2 DEF Leads
  <2>4. First(b) = f
    <3>1. \A g \in b : (\A j \in b : g <= j) => g = f
      BY <2>2, <2>3, <1>1
    <3>2. QED  BY <2>3, <3>1 DEF First
  <2>5. matches = {j \in b : store[j].name = store[First(b)].name}
    BY <2>1, <2>2, <2>4
  <2>6. QED  BY <2>1, <2>3, <2>4, <2>5 DEF Lookup, LookupScore
<1>4. QED  BY <1>2, <1>3

\* What LookupScored returns is the most specific pattern's records, all of
\* them, whatever the store, the name and the order of the records
\* (store.go:71-99).
THEOREM ScanIsLookup == Spec => []ReturnsTheWinners
<1>1. ScanInv => ReturnsTheWinners
  BY WinnerIsLookup DEF ScanInv, ReturnedInv, ReturnsTheWinners
<1>2. QED  BY <1>1, ScanInvariant, PTL

-----------------------------------------------------------------------------
(* Which pattern is the most specific.                                    *)

\* The records returned share the name of one that matches, and that no match
\* outscores.
LEMMA ReturnedNames ==
    ASSUME ScanInv, pc = "returned"
    PROVE  \/ matches = {}
           \/ \E f \in Matching(store, Type, name) :
                /\ \A j \in matches : store[j].name = store[f].name
                /\ \A j \in Matching(store, Type, name) :
                      Score(store[j].name) <= Score(store[f].name)
<1>1. WinnerOf(Matching(store, Type, name))  BY DEF ScanInv, ReturnedInv
<1>2. QED  BY <1>1 DEF WinnerOf, Leads

LEMMA MatchingNames ==
    ASSUME TypeOK
    PROVE  /\ name \in Seq(Labels)
           /\ \A j \in Matching(store, Type, name) :
                 /\ store[j].name \in Seq(Labels) /\ MatchPattern(store[j].name, name)
                 /\ Score(store[j].name) \in Nat
BY Arguments DEF Matching, ByType

\* An exact name beats any wildcard, whatever the store, however long the name
\* and whatever stars it has in it (store.go:58-61; README.md:131-132).
THEOREM ExactNameWins == Spec => [](pc = "returned" /\ name # <<>> => ExactWins)
<1>1. ASSUME ScanInv, pc = "returned", name # <<>> PROVE ExactWins
  <2> SUFFICES ASSUME NEW e \in ByType(store, Type), store[e].name = name,
                      matches # {}
               PROVE  \A j \in matches : store[j].name = name
    BY DEF ExactWins
  <2>1. TypeOK  BY <1>1 DEF ScanInv
  <2>2. e \in Matching(store, Type, name)
    BY <2>1, <1>1, Arguments DEF Matching, MatchPattern
  <2>3. PICK f \in Matching(store, Type, name) :
           /\ \A j \in matches : store[j].name = store[f].name
           /\ \A j \in Matching(store, Type, name) :
                 Score(store[j].name) <= Score(store[f].name)
    BY <1>1, ReturnedNames
  <2>4. Score(name) <= Score(store[f].name) /\ Score(name) \in Nat
    BY <2>1, <2>2, <2>3, MatchingNames
  <2>5. store[f].name = name
    BY <2>1, <2>4, MatchingNames, ExactScoresMost
  <2>6. QED  BY <2>3, <2>5
<1>2. QED  BY <1>1, ScanInvariant, PTL

\* Nor does a leftmost star win over a pattern of as many labels as the name, as
\* long as the name has no more than 101 labels: the 100000 for a fixed pattern
\* outweighs 100 labels spelled out, and no more (store.go:195-203).
THEOREM MostSpecificWins == Spec => [](Len(name) <= 101 => ExactBeatsWildcard)
<1>1. ASSUME ScanInv, pc = "returned", Len(name) <= 101 PROVE FixedWins
  <2> SUFFICES ASSUME NEW e \in Matching(store, Type, name),
                      ~ LeadingStar(store[e].name), matches # {}
               PROVE  \A j \in matches : ~ LeadingStar(store[j].name)
    BY DEF FixedWins
  <2>1. TypeOK  BY <1>1 DEF ScanInv
  <2>2. PICK f \in Matching(store, Type, name) :
           /\ \A j \in matches : store[j].name = store[f].name
           /\ \A j \in Matching(store, Type, name) :
                 Score(store[j].name) <= Score(store[f].name)
    BY <1>1, ReturnedNames
  <2>3. ~ LeadingStar(store[f].name)
    BY <1>1, <2>1, <2>2, MatchingNames, FixedScoresMore
  <2>4. QED  BY <2>2, <2>3
<1>2. QED  BY <1>1, ExactNameWins, ScanInvariant, PTL DEF ExactBeatsWildcard
-----------------------------------------------------------------------------
(* What a pattern matches is what it spells out.                           *)

\* The names spelled out by p have a label for each of p's, the leftmost star
\* the only one to take more.
LEMMA SpelledOutMatches ==
    ASSUME NEW p \in Seq(Labels), p # <<>>, NEW n \in Seq(Labels), SpelledOut(p, n)
    PROVE  MatchPattern(p, n)
<1>1. PICK blocks \in [1..Len(p) -> UNION {Block(p, j, n) : j \in 1..Len(p)}] :
         /\ \A j \in 1..Len(p) : blocks[j] \in Block(p, j, n)
         /\ FlattenSeq(blocks) = n
  BY DEF SpelledOut
<1> DEFINE L == Len(p)
<1>2. L \in Nat \ {0}  OBVIOUS
<1>3. ASSUME NEW j \in 1..L, p[j] # Star
      PROVE  /\ blocks[j] = <<p[j]>>
             /\ blocks[j] \in Seq(Labels) /\ Len(blocks[j]) = 1
  <2>1. blocks[j] = <<p[j]>>  BY <1>1, <1>3 DEF Block
  <2>2. p[j] \in Labels  OBVIOUS
  <2>3. <<p[j]>> \in Seq(Labels) /\ Len(<<p[j]>>) = 1  BY <2>2
  <2>4. QED  BY <2>1, <2>3
<1>4. ASSUME NEW j \in 1..L-1, p[j] = Star
      PROVE  blocks[j] \in Seq(Labels) /\ Len(blocks[j]) = 1
  <2>1. j \in 1..L /\ j < L  BY <1>2
  <2>2. blocks[j] \in {<<n[m]>> : m \in DOMAIN n}  BY <2>1, <1>1, <1>4 DEF Block
  <2>3. PICK m \in DOMAIN n : blocks[j] = <<n[m]>>  BY <2>2
  <2>4. n[m] \in Labels  OBVIOUS
  <2>5. QED  BY <2>3, <2>4
<1>5. ASSUME p[L] = Star
      PROVE  blocks[L] \in Seq(Labels) /\ Len(blocks[L]) \in Nat \ {0}
  <2>1. blocks[L] \in {SubSeq(n, m, Len(n)) : m \in DOMAIN n}
    BY <1>1, <1>2, <1>5 DEF Block
  <2>2. PICK m \in DOMAIN n : blocks[L] = SubSeq(n, m, Len(n))  BY <2>1
  <2>3. QED  BY <2>2
<1>6. blocks \in Seq(Seq(Labels)) /\ Len(blocks) = L
  <2>1. DOMAIN blocks = 1..L  OBVIOUS
  <2>2. ASSUME NEW j \in 1..L PROVE blocks[j] \in Seq(Labels)
    <3>1. j = L \/ j \in 1..L-1  BY <1>2
    <3>2. QED  BY <3>1, <1>3, <1>4, <1>5
  <2>3. blocks \in [1..L -> Seq(Labels)]  BY <2>1, <2>2
  <2> HIDE DEF L
  <2>4. QED  BY <2>3, <1>2
<1>7. \A j \in 1..L-1 : Len(blocks[j]) = 1
  <2>1. \A j \in 1..L-1 : j \in 1..L  BY <1>2
  <2>2. QED  BY <2>1, <1>3, <1>4
<1>8. Lays(n, blocks, L)
  BY <1>1, <1>2, <1>6, <1>7, FlattenSingles
<1>9. ASSUME NEW j \in 1..L, p[j] # Star PROVE n[j] = p[j]
  <2>1. blocks[j] = <<p[j]>>  BY <1>3, <1>9
  <2>2. CASE j = L
    <3>1. 1 \in 1..Len(blocks[L])
      <4>1. Len(blocks[L]) = 1  BY <2>2, <1>3, <1>9
      <4>2. QED  BY <4>1
    <3>2. n[L - 1 + 1] = blocks[L][1]  BY <3>1, <1>8 DEF Lays
    <3>3. L - 1 + 1 = L  BY <1>2
    <3>4. QED  BY <2>1, <2>2, <3>2, <3>3
  <2>3. CASE j # L
    <3>1. j \in 1..L-1  BY <2>3, <1>2
    <3>2. QED  BY <2>1, <3>1, <1>8 DEF Lays
  <2>4. QED  BY <2>2, <2>3
<1>10. IF LeadingStar(p) THEN Len(n) >= L ELSE Len(n) = L
  <2>1. Len(n) = L - 1 + Len(blocks[L])  BY <1>8 DEF Lays
  <2>2. CASE p[L] = Star
    BY <2>1, <2>2, <1>2, <1>5 DEF LeadingStar
  <2>3. CASE p[L] # Star
    <3>1. L \in 1..L  BY <1>2
    <3>2. Len(blocks[L]) = 1  BY <3>1, <2>3, <1>3
    <3>3. QED  BY <2>1, <3>2, <2>3, <1>2 DEF LeadingStar
  <2>4. QED  BY <2>2, <2>3
<1>11. QED  BY <1>9, <1>10 DEF MatchPattern

\* And a name that matches is its own spelling, label by label.
LEMMA MatchIsSpelledOut ==
    ASSUME NEW p \in Seq(Labels), NEW n \in Seq(Labels), MatchPattern(p, n)
    PROVE  SpelledOut(p, n)
<1> DEFINE L == Len(p)
           rest == SubSeq(n, L, Len(n))
           blocks == [j \in 1..L |-> IF j = L /\ p[L] = Star THEN rest ELSE <<n[j]>>]
<1>1. /\ L \in Nat \ {0} /\ Len(n) \in Nat /\ L <= Len(n)
      /\ p[L] # Star => L = Len(n)
      /\ \A j \in 1..L : p[j] # Star => n[j] = p[j]
  BY DEF MatchPattern, LeadingStar
<1>2. \A j \in 1..L : j \in DOMAIN n /\ n[j] \in Labels /\ <<n[j]>> \in Seq(Labels)
  <2>1. ASSUME NEW j \in 1..L PROVE j \in DOMAIN n /\ n[j] \in Labels
    <3>1. j \in 1..Len(n)  BY <1>1
    <3>2. QED  BY <3>1
  <2>2. QED  BY <2>1
<1>3. /\ rest \in Seq(Labels) /\ Len(rest) = Len(n) - L + 1
      /\ \A at \in 1..Len(n) - L + 1 : rest[at] = n[L - 1 + at]
  BY <1>1
<1>4. ASSUME NEW j \in 1..L PROVE blocks[j] \in Block(p, j, n)
  <2>1. CASE p[j] # Star
    <3>1. blocks[j] = <<n[j]>> /\ n[j] = p[j]  BY <2>1, <1>1
    <3> HIDE DEF blocks
    <3>2. QED  BY <3>1, <2>1 DEF Block
  <2>2. CASE p[j] = Star /\ j < L
    <3>1. blocks[j] = <<n[j]>> /\ j \in DOMAIN n  BY <2>2, <1>2
    <3>2. blocks[j] \in {<<n[m]>> : m \in DOMAIN n}
      <4> HIDE DEF blocks
      <4>1. QED  BY <3>1
    <3> HIDE DEF blocks
    <3>3. QED  BY <3>2, <2>2 DEF Block
  <2>3. CASE p[j] = Star /\ j = L
    <3>1. blocks[j] = SubSeq(n, j, Len(n)) /\ j \in DOMAIN n  BY <2>3, <1>2
    <3>2. blocks[j] \in {SubSeq(n, m, Len(n)) : m \in DOMAIN n}
      <4> HIDE DEF blocks
      <4>1. QED  BY <3>1
    <3> HIDE DEF blocks
    <3>3. QED  BY <3>2, <2>3 DEF Block
  <2>4. QED  BY <1>1, <2>1, <2>2, <2>3
<1>5. blocks \in Seq(Seq(Labels)) /\ Len(blocks) = L
  <2>1. \A j \in 1..L : blocks[j] \in Seq(Labels)  BY <1>2, <1>3
  <2>2. DOMAIN blocks = 1..L  OBVIOUS
  <2>3. blocks \in [1..L -> Seq(Labels)]
    <3>1. blocks = [j \in 1..L |-> blocks[j]]  OBVIOUS
    <3> HIDE DEF blocks, L
    <3>2. QED  BY <2>1, <3>1
  <2> HIDE DEF blocks, L
  <2>4. QED  BY <2>3, <1>1
<1>6. \A j \in 1..L-1 : blocks[j] = <<n[j]>> /\ Len(blocks[j]) = 1
  BY <1>1
<1>7. /\ Len(blocks[L]) = Len(n) - L + 1
      /\ \A at \in 1..Len(n) - L + 1 : blocks[L][at] = n[L - 1 + at]
  <2>1. L \in 1..L  BY <1>1
  <2>2. CASE p[L] = Star
    <3>1. blocks[L] = rest  BY <2>1, <2>2
    <3>2. QED  BY <3>1, <1>3
  <2>3. CASE p[L] # Star
    <3>1. blocks[L] = <<n[L]>>  BY <2>1, <2>3
    <3>2. Len(n) - L + 1 = 1  BY <1>1, <2>3
    <3>3. \A at \in 1..1 : L - 1 + at = L /\ at = 1  BY <1>1
    <3>4. <<n[L]>>[1] = n[L] /\ Len(<<n[L]>>) = 1  OBVIOUS
    <3> HIDE DEF blocks, L, rest
    <3>5. QED  BY <3>1, <3>2, <3>3, <3>4
  <2>4. QED  BY <2>2, <2>3
<1>8. FlattenSeq(blocks) = n
  <2> DEFINE all == FlattenSeq(blocks)
  <2>1. all \in Seq(Labels) /\ Lays(all, blocks, L)
    <3> HIDE DEF blocks, L
    <3>1. QED  BY <1>1, <1>5, <1>6, FlattenSingles
  <2> HIDE DEF blocks, all
  <2>2. Len(all) = Len(n)  BY <2>1, <1>1, <1>7 DEF Lays
  <2>3. ASSUME NEW at \in 1..Len(n) PROVE all[at] = n[at]
    <3>1. CASE at < L
      <4>1. at \in 1..L-1  BY <3>1, <1>1
      <4>2. all[at] = blocks[at][1]  BY <4>1, <2>1 DEF Lays
      <4>3. blocks[at] = <<n[at]>>  BY <4>1, <1>6
      <4>4. QED  BY <4>2, <4>3
    <3>2. CASE at >= L
      <4>1. PICK d \in 1..Len(n) - L + 1 : at = L - 1 + d
        <5>1. at - L + 1 \in 1..Len(n) - L + 1 /\ at = L - 1 + (at - L + 1)
          BY <3>2, <1>1
        <5>2. QED  BY <5>1
      <4>2. all[L - 1 + d] = blocks[L][d]  BY <4>1, <2>1, <1>7 DEF Lays
      <4>3. blocks[L][d] = n[L - 1 + d]  BY <1>7
      <4>4. QED  BY <4>1, <4>2, <4>3
    <3>3. QED  BY <1>1, <3>1, <3>2
  <2>4. all = n  BY <2>1, <2>2, <2>3, SeqEqual
  <2>5. QED  BY <2>4 DEF all
<1>9. blocks \in [1..L -> UNION {Block(p, j, n) : j \in 1..L}]
  <2>1. blocks = [j \in 1..L |-> blocks[j]]  OBVIOUS
  <2> HIDE DEF blocks
  <2>2. QED  BY <1>4, <2>1
<1>10. QED
  <2> HIDE DEF blocks
  <2>1. QED  BY <1>4, <1>8, <1>9 DEF SpelledOut

\* What a lookup finds is what the patterns spell out, and nothing is found only
\* if none does, whatever the store and however many stars: example.com does not
\* answer for its subdomains, *.example.com not for the apex (store.go:147-157).
THEOREM MatchesAreWritten == Spec => []MatchesWhatIsWritten
<1>1. ASSUME ScanInv, pc = "returned"
      PROVE  /\ \A j \in matches : SpelledOut(store[j].name, name)
             /\ matches = {} =>
                   \A j \in ByType(store, Type) : ~ SpelledOut(store[j].name, name)
  <2>1. TypeOK  BY <1>1 DEF ScanInv
  <2>2. WinnerOf(Matching(store, Type, name))
    BY <1>1 DEF ScanInv, ReturnedInv
  <2>3. matches \subseteq Matching(store, Type, name)
    BY <2>2 DEF WinnerOf
  <2>4. ASSUME NEW j \in matches PROVE SpelledOut(store[j].name, name)
    BY <2>1, <2>3, MatchingNames, MatchIsSpelledOut
  <2>5. ASSUME matches = {}, NEW j \in ByType(store, Type)
        PROVE  ~ SpelledOut(store[j].name, name)
    <3>1. Matching(store, Type, name) = {}
      BY <2>2, <2>5 DEF WinnerOf, Leads
    <3>2. ~ MatchPattern(store[j].name, name)  BY <3>1 DEF Matching
    <3>3. /\ store[j].name \in Seq(Labels) /\ store[j].name # <<>>
          /\ name \in Seq(Labels)
      BY <2>1, Arguments DEF ByType
    <3>4. QED  BY <3>2, <3>3, SpelledOutMatches
  <2>6. QED  BY <2>4, <2>5
<1>2. ScanInv => MatchesWhatIsWritten  BY <1>1 DEF MatchesWhatIsWritten
<1>3. QED  BY <1>2, ScanInvariant, PTL
=============================================================================
