------------------------------- MODULE Values -------------------------------
(***************************************************************************)
(* Record types and values: what is accepted, and what a friendly value    *)
(* means (src/internal/records/record.go).                                 *)
(*                                                                         *)
(* A type is its upper-case name.  A value is the sequence of its fields,  *)
(* cut as its type cuts it: on blanks, for CAA into three, for TXT not at  *)
(* all.  A field is [text, dot, quoted]: a word, whether it ends in a dot, *)
(* whether it stands in quotes.  Error is returned for a result.           *)
(***************************************************************************)
EXTENDS Naturals, Sequences

CONSTANTS
    Words,          \* what texts and labels are made of
    IPv4, IPv6,     \* how net.IP spells the words that are addresses: functions
    Numeral,        \* the numbers that words are: a function
    Error

\* dns.StringToType, as far as it matters here.
KnownTypes == {"A", "AAAA", "CNAME", "NS", "PTR", "DNAME", "MX", "TXT", "SOA",
               "SRV", "NAPTR", "RRSIG", "CAA", "DNSKEY", "ANY"}

ASSUME ValuesAssumption ==
    /\ DOMAIN IPv4 \cap DOMAIN IPv6 = {}
    /\ \A w \in DOMAIN IPv4 : IPv4[w] \in DOMAIN IPv4 /\ IPv4[IPv4[w]] = IPv4[w]
    /\ \A w \in DOMAIN IPv6 : IPv6[w] \in DOMAIN IPv6 /\ IPv6[IPv6[w]] = IPv6[w]
    /\ "10" \in DOMAIN Numeral /\ \A w \in DOMAIN Numeral : Numeral[w] \in Nat
    /\ Error \notin KnownTypes /\ KnownTypes \cup {"10"} \subseteq Words
    /\ DOMAIN IPv4 \cup DOMAIN IPv6 \subseteq Words

ParseType(t) == IF t = "*" THEN "ANY" ELSE IF t \in KnownTypes THEN t ELSE Error

\* A value is a sequence of these.
Field == [text : Words, dot : BOOLEAN, quoted : BOOLEAN]
Plain(w) == [text |-> w, dot |-> FALSE, quoted |-> FALSE]

\* addressType: the family picks the type.  An IPv4 address written as an IPv6
\* one is of the first.
AddressType(v) ==
    IF Len(v) # 1 \/ v[1].dot \/ v[1].quoted THEN Error
    ELSE IF v[1].text \in DOMAIN IPv4 THEN "A"
    ELSE IF v[1].text \in DOMAIN IPv6 THEN "AAAA"
    ELSE Error

-----------------------------------------------------------------------------
(* Normalise.                                                              *)

Fqdn(f) == [f EXCEPT !.dot = TRUE]
Quote(f) == [f EXCEPT !.quoted = TRUE]

\* What Normalise makes of a type it knows: how many fields it wants, which of
\* them are host names, and which it quotes.
Form(fields, hosts, quotes) == [fields |-> fields, hosts |-> hosts, quotes |-> quotes]
Forms == [CNAME |-> Form(1, {1}, {}),    NS    |-> Form(1, {1}, {}),
          PTR   |-> Form(1, {1}, {}),    DNAME |-> Form(1, {1}, {}),
          MX    |-> Form(2, {2}, {}),    TXT   |-> Form(1, {}, {1}),
          SOA   |-> Form(7, {1, 2}, {}), SRV   |-> Form(4, {4}, {}),
          NAPTR |-> Form(6, {6}, 3..5),  RRSIG |-> Form(9, {8}, {}),
          CAA   |-> Form(3, {}, {3})]

\* The signature of an RRSIG may be cut in pieces.
Fits(type, v) ==
    IF type = "RRSIG" THEN Len(v) >= Forms[type].fields
                      ELSE Len(v) = Forms[type].fields

\* A mistake: the preference is put before one that is there.
PreferTwice(type, v) == IF type = "MX" /\ Len(v) <= 2 THEN <<Plain("10")>> \o v ELSE v

\* An MX without a preference gets 10.
Prefer(type, v) == IF type = "MX" /\ Len(v) = 1 THEN <<Plain("10")>> \o v ELSE v

\* Fields as the form of their type wants them.
Spell(type, v) ==
    [i \in 1..Len(v) |-> CASE i \in Forms[type].hosts  -> Fqdn(v[i])
                           [] i \in Forms[type].quotes -> Quote(v[i])
                           [] OTHER                    -> v[i]]

Canonical(v) == <<Plain((IF AddressType(v) = "A" THEN IPv4 ELSE IPv6)[v[1].text])>>

\* Addresses must be of the family; types without a form pass untouched.
Normalise(type, v) ==
    IF type \in {"A", "AAAA"} THEN IF AddressType(v) = type THEN Canonical(v) ELSE Error
    ELSE IF type \notin DOMAIN Forms THEN v
    ELSE IF Fits(type, Prefer(type, v)) THEN Spell(type, Prefer(type, v))
    ELSE Error

-----------------------------------------------------------------------------
(* Building a record.                                                      *)

\* The fields of a type that are numbers.
Numbers == [MX |-> {1}, SOA |-> 3..7, SRV |-> 1..3, NAPTR |-> 1..2,
            RRSIG |-> {2, 3, 4, 7}, CAA |-> {1}, DNSKEY |-> 1..3]

\* dns.NewRR reads the data of every type but ANY, which has none.
Reads(type, data) ==
    /\ type # "ANY"
    /\ type \in DOMAIN Numbers =>
          \A i \in Numbers[type] :
              /\ i <= Len(data) /\ data[i].text \in DOMAIN Numeral
              /\ ~ data[i].dot /\ ~ data[i].quoted

\* Whether Record.RR succeeds, under an owner that is a name.
Renders(type, v) == Normalise(type, v) # Error /\ Reads(type, Normalise(type, v))

\* New: a record, or an Error.  A ttl of 0 stands for the store's.
New(name, type, v, ttl) ==
    IF /\ ParseType(type) # Error
       /\ name # <<>> /\ v # <<>>
       /\ Renders(ParseType(type), v)
      THEN [name |-> name, type |-> ParseType(type), value |-> v, ttl |-> ttl]
      ELSE Error

\* A mistake: the store's TTL is forgotten.
TTLWithoutStore(ttl, storeTTL) == IF ttl # 0 THEN ttl ELSE 60

\* The TTL a record is served with: its own, the store's, DefaultTTL.
TTL(ttl, storeTTL) == IF ttl # 0 THEN ttl ELSE IF storeTTL # 0 THEN storeTTL ELSE 60
=============================================================================
