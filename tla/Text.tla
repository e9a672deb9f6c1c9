-------------------------------- MODULE Text --------------------------------
(***************************************************************************)
(* How a TXT value becomes zone-file text, cut into quoted pieces, and how *)
(* that is read again (src/internal/records/record.go:219-251).            *)
(*                                                                         *)
(* A text is a sequence of bytes.  Lead and Trail stand for the two bytes  *)
(* of a character that takes more than one, Broken for the character that  *)
(* Go puts in the place of one of them alone.                              *)
(***************************************************************************)
EXTENDS Naturals, Sequences, SequencesExt

CONSTANTS
    Bytes,          \* the bytes of the words that are texts: a function
    MaxChunk        \* 255

Mark == "\""
Backslash == "\\"
Space == " "
Lead == "lead"
Trail == "trail"
Broken == "broken"

IsQuoted(s) == Len(s) >= 2 /\ s[1] = Mark /\ Last(s) = Mark

\* What is decoded has its characters whole.
Whole(s) ==
    \A i \in DOMAIN s :
        /\ s[i] = Lead => i < Len(s) /\ s[i + 1] = Trail
        /\ s[i] = Trail => i > 1 /\ s[i - 1] = Lead

\* A text in quotes is not among them: it is a word that is quoted.
ASSUME TextAssumption ==
    /\ MaxChunk \in Nat \ {0}
    /\ \A w \in DOMAIN Bytes :
          LET s == Bytes[w] IN s \in Seq(ToSet(s)) /\ Whole(s) /\ ~ IsQuoted(s)

\* A mistake: a backslash is not escaped.
RunesOfMarks(s) ==
    [i \in DOMAIN s |-> IF s[i] = Mark THEN <<Backslash, s[i]>> ELSE <<s[i]>>]

\* What the loop over the characters writes for each byte.
Runes(s) ==
    LET alone(i) == \/ s[i] = Lead /\ (i = Len(s) \/ s[i + 1] # Trail)
                    \/ s[i] = Trail /\ (i = 1 \/ s[i - 1] # Lead)
    IN  [i \in DOMAIN s |-> IF s[i] \in {Mark, Backslash} THEN <<Backslash, s[i]>>
                            ELSE IF alone(i) THEN <<Broken>> ELSE <<s[i]>>]

QuoteField(s) ==
    IF IsQuoted(s) THEN s ELSE <<Mark>> \o FlattenSeq(Runes(s)) \o <<Mark>>

\* Cut while it is longer than a chunk: the last piece may be a whole one.
Pieces(s) ==
    LET cuts == IF s = <<>> THEN 0 ELSE (Len(s) - 1) \div MaxChunk
        piece(k) == SubSeq(s, (k - 1) * MaxChunk + 1,
                           IF k > cuts THEN Len(s) ELSE k * MaxChunk)
    IN  [k \in 1..(cuts + 1) |-> piece(k)]

QuoteTXT(s) ==
    IF IsQuoted(s) THEN s
    ELSE LET quoted == [k \in DOMAIN Pieces(s) |-> QuoteField(Pieces(s)[k])]
         IN  FlattenSeq([k \in DOMAIN quoted |->
                            IF k = 1 THEN quoted[k] ELSE <<Space>> \o quoted[k]])

\* How dns.NewRR reads a byte: .read are the character-strings so far, the last
\* one still open or not.
ReadByte(a, c) ==
    LET grown == [a.read EXCEPT ![Len(a.read)] = Append(Last(a.read), c)]
        put == [a EXCEPT !.escaped = FALSE, !.read = grown]
    IN  IF a.escaped THEN put
        ELSE IF c = Backslash THEN [a EXCEPT !.escaped = TRUE]
        ELSE IF c = Mark THEN [a EXCEPT !.open = ~ @,
                                        !.read = IF a.open THEN @ ELSE Append(@, <<>>)]
        ELSE IF a.open THEN put ELSE a

ReadOnFrom(a, text) ==
    LET after[i \in 0..Len(text)] ==
            IF i = 0 THEN a ELSE ReadByte(after[i - 1], text[i])
    IN  after[Len(text)]

\* The character-strings that it reads in all.
Strings(text) ==
    ReadOnFrom([read |-> <<>>, open |-> FALSE, escaped |-> FALSE], text).read
=============================================================================
