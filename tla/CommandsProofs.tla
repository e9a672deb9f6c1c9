--------------------------- MODULE CommandsProofs ---------------------------
(***************************************************************************)
(* Theorems about Commands, for any files, edits and command lines: type   *)
(* correctness; that an imported file loads and lacks nothing; that a      *)
(* valid file and valid flags are valid together; what config check        *)
(* prints; which records and servers are in use, and which one query asks; *)
(* that a TXT is read as it was written; that a file which config init or  *)
(* config import wrote serves.                                             *)
(***************************************************************************)
EXTENDS Commands, RecordsProofs

IsSeq(s) == \E S : s \in Seq(S)

-----------------------------------------------------------------------------
(* Type correctness.                                                       *)

LEMMA ParsedServersAreSome ==
    ASSUME NEW texts, ParseServers(texts) # Error
    PROVE  ParseServers(texts) # <<>>
BY DEF ParseServers

LEMMA WhatServeNeeds ==
    ASSUME NEW content, NEW given, Outcome(content, given) = "serving"
    PROVE  /\ Configures(content, given)
           /\ ParseServers(BuildConfig(content, given).settings.upstream) # Error
<1> HIDE DEF BuildConfig
<1>1. QED  BY DEF Outcome

LEMMA OutcomeRange ==
    \A content, given : Outcome(content, given) \in
        {"config", "log", "upstream", "listen", "bind", "serving"}
BY DEF Outcome

LEMMA TypeInit == Init => TypeOK
BY CommandsAssumption DEF Init, ImportInit, TypeOK

LEMMA ReadLineTyped == TypeOK /\ ImportLine => TypeOK'
<1> SUFFICES ASSUME TypeOK, ImportLine PROVE TypeOK'  OBVIOUS
<1>1. position' \in {position, position + 1} /\ outcome' \in {outcome, "failed", "done"}
  BY DEF ImportLine, ReadLine, Unreadable, Ignored, Unterminated, Header, UnknownHeader, BadLine,
         AddressEntry, OtherEntry, EndOfFile, ReadOn, Fail
<1>2. QED  BY <1>1 DEF TypeOK, ImportLine, server

LEMMA ServeTyped == TypeOK /\ Serve => TypeOK'
<1> SUFFICES ASSUME TypeOK, Serve PROVE TypeOK'  OBVIOUS
<1>1. CASE Outcome(disk, flags) = "serving"
  <2>1. servers' # <<>>  BY <1>1, WhatServeNeeds, ParsedServersAreSome DEF Serve
  <2>2. served' = disk /\ (disk.kind = "missing" \/ Loads(disk))
    BY <1>1, WhatServeNeeds DEF Serve, Configures
  <2>3. QED  BY <1>1, <2>1, <2>2 DEF Serve, TypeOK, import
<1>2. CASE Outcome(disk, flags) # "serving"
  <2>1. stage' \notin {"serving", "stopped"}  BY <1>2, OutcomeRange DEF Serve
  <2>2. stage' \in {"config", "log", "upstream", "listen", "bind"}
    BY <1>2, OutcomeRange DEF Serve
  <2>3. QED  BY <2>1, <2>2 DEF Serve, TypeOK, import
<1>3. QED  BY <1>1, <1>2

LEMMA TypeStep == TypeOK /\ [Next]_vars => TypeOK'
<1> SUFFICES ASSUME TypeOK, [Next]_vars PROVE TypeOK'  OBVIOUS
<1>1. CASE Edit  BY <1>1 DEF Edit, Put, TypeOK, import, server
<1>2. CASE InitFile  BY <1>2 DEF InitFile, Put, TypeOK, import, server
<1>3. CASE ImportLine  BY <1>3, ReadLineTyped
<1>4. CASE WriteImport  BY <1>4 DEF WriteImport, Put, TypeOK, server
<1>5. CASE Check  BY <1>5 DEF Check, TypeOK, import, server
<1>6. CASE Serve  BY <1>6, ServeTyped
<1>7. CASE Reload
  BY <1>7 DEF Reload, Configures, TypeOK, import
<1>8. CASE Stop  BY <1>8 DEF Stop, TypeOK, import
<1>9. CASE Query  BY <1>9 DEF Query, TypeOK, import
<1>10. CASE UNCHANGED vars  BY <1>10 DEF vars, TypeOK, import
<1>11. QED
  BY <1>1, <1>2, <1>3, <1>4, <1>5, <1>6, <1>7, <1>8, <1>9, <1>10 DEF Next

\* What serves, reloads included, was built from a file that loads by itself or
\* from none, and has an upstream to ask (serve.go:100-131, 174-184).
THEOREM TypeCorrect == Spec => []TypeOK
BY TypeInit, TypeStep, PTL DEF Spec
-----------------------------------------------------------------------------
(* Imported files.                                                         *)

LEMMA AppendIsSeq ==
    ASSUME NEW s, IsSeq(s), NEW x
    PROVE  /\ IsSeq(Append(s, x))
           /\ DOMAIN Append(s, x) = DOMAIN s \cup {Len(s) + 1}
           /\ \A i \in DOMAIN s : Append(s, x)[i] = s[i]
           /\ Append(s, x)[Len(s) + 1] = x
<1> PICK S : s \in Seq(S)  BY DEF IsSeq
<1>1. s \in Seq(S \cup {x}) /\ x \in S \cup {x}  OBVIOUS
<1>2. IsSeq(Append(s, x))  BY <1>1 DEF IsSeq
<1>3. QED  BY <1>1, <1>2

\* What has been taken over builds, whatever comes after it.
HostsInv ==
    /\ hosts = [n \in Names |-> hosts[n]]
    /\ \A n \in Names : IsSeq(hosts[n])
    /\ HostsBuild(hosts)
RecordsInv == IsSeq(records) /\ \A i \in DOMAIN records : SpecBuilds(records[i])
ImportInv == HostsInv /\ RecordsInv

\* What passes under the section of an address is told by its family.
LEMMA SectionIsFamily ==
    ASSUME NEW name, NEW type \in {"A", "AAAA"}, NEW v, New(name, type, v, 0) # Error
    PROVE  HostRecord(name, v) # Error
<1>1. ParseType(type) = type /\ type # Error
  BY ValuesAssumption DEF ParseType, KnownTypes
<1>2. Normalise(type, v) # Error  BY <1>1 DEF New, Renders
<1>3. AddressType(v) = type  BY <1>2 DEF Normalise
<1>4. QED  BY <1>1, <1>3 DEF HostRecord

LEMMA EmptyIsSeq == IsSeq(<<>>)
<1>1. <<>> \in Seq({})  OBVIOUS
<1>2. QED  BY <1>1 DEF IsSeq

LEMMA ImportStarts == Init => ImportInv
<1> SUFFICES ASSUME Init PROVE ImportInv  OBVIOUS
<1>1. hosts = [n \in Names |-> <<>>] /\ records = <<>>
  BY DEF Init, ImportInit, NoHosts
<1>2. QED  BY <1>1, EmptyIsSeq DEF ImportInv, HostsInv, RecordsInv, HostsBuild

LEMMA AddressStep == ImportInv /\ AddressEntry => ImportInv'
<1> SUFFICES ASSUME ImportInv, AddressEntry PROVE ImportInv'  OBVIOUS
<1> DEFINE n == Line.name
           v == Line.value
<1>1. hosts' = [hosts EXCEPT ![n] = Append(@, v)] /\ records' = records
  BY DEF AddressEntry
<1>2. \A m \in Names : hosts'[m] = IF m = n THEN Append(hosts[m], v) ELSE hosts[m]
  BY <1>1 DEF ImportInv, HostsInv
<1>3. hosts' = [m \in Names |-> hosts'[m]]
  BY <1>1 DEF ImportInv, HostsInv
<1>4. \A m \in Names : IsSeq(hosts'[m])
  BY <1>2, AppendIsSeq DEF ImportInv, HostsInv
<1>5. HostRecord(n, v) # Error
  BY SectionIsFamily DEF AddressEntry, EntryBuilds
<1>6. HostsBuild(hosts')
  <2> SUFFICES ASSUME NEW m \in Names, NEW i \in DOMAIN hosts'[m]
               PROVE  HostRecord(m, hosts'[m][i]) # Error
    BY DEF HostsBuild
  <2>1. CASE m # n  BY <2>1, <1>2 DEF ImportInv, HostsInv, HostsBuild
  <2>2. CASE m = n
    <3>1. hosts'[m] = Append(hosts[m], v) /\ IsSeq(hosts[m])
      BY <2>2, <1>2 DEF ImportInv, HostsInv
    <3>2. CASE i \in DOMAIN hosts[m]
      <4>1. hosts'[m][i] = hosts[m][i]  BY <3>1, <3>2, AppendIsSeq
      <4>2. QED  BY <4>1, <3>2 DEF ImportInv, HostsInv, HostsBuild
    <3>3. CASE i \notin DOMAIN hosts[m]
      <4>1. hosts'[m][i] = v  BY <3>1, <3>3, AppendIsSeq
      <4>2. QED  BY <4>1, <2>2, <1>5
    <3>4. QED  BY <3>2, <3>3
  <2>3. QED  BY <2>1, <2>2
<1>7. QED  BY <1>1, <1>3, <1>4, <1>6 DEF ImportInv, HostsInv, RecordsInv

LEMMA RecordStep == ImportInv /\ OtherEntry => ImportInv'
<1> SUFFICES ASSUME ImportInv, OtherEntry PROVE ImportInv'  OBVIOUS
<1> DEFINE r == [name |-> Line.name, type |-> section, values |-> <<Line.value>>, ttl |-> 0]
<1>1. records' = Append(records, r) /\ hosts' = hosts
  BY DEF OtherEntry
<1>2. SpecBuilds(r)
  <2>1. New(Line.name, section, Line.value, 0) # Error
    BY DEF OtherEntry, EntryBuilds
  <2>2. QED  BY <2>1 DEF SpecBuilds, SpecRecord
<1>3. IsSeq(records)  BY DEF ImportInv, RecordsInv
<1>4. IsSeq(records')  BY <1>1, <1>3, AppendIsSeq
<1>5. ASSUME NEW i \in DOMAIN records' PROVE SpecBuilds(records'[i])
  <2> HIDE DEF r
  <2>1. CASE i \in DOMAIN records
    BY <2>1, <1>1, <1>3, AppendIsSeq DEF ImportInv, RecordsInv
  <2>2. CASE i \notin DOMAIN records
    BY <2>2, <1>1, <1>2, <1>3, AppendIsSeq
  <2>3. QED  BY <2>1, <2>2
<1>6. QED  BY <1>1, <1>4, <1>5 DEF ImportInv, HostsInv, RecordsInv, HostsBuild

LEMMA ImportStep == ImportInv /\ [Next]_vars => ImportInv'
<1> SUFFICES ASSUME ImportInv, [Next]_vars PROVE ImportInv'  OBVIOUS
<1> DEFINE Same == UNCHANGED <<hosts, records>>
<1>1. ASSUME Same PROVE ImportInv'
  BY <1>1 DEF ImportInv, HostsInv, RecordsInv, HostsBuild
<1>2. CASE ImportLine
  <2>1. CASE AddressEntry  BY <2>1, AddressStep
  <2>2. CASE OtherEntry  BY <2>2, RecordStep
  <2>3. CASE \/ Unreadable \/ Ignored \/ Unterminated \/ Header
             \/ UnknownHeader \/ BadLine \/ EndOfFile
    BY <2>3, <1>1 DEF Unreadable, Ignored, Unterminated, Header, UnknownHeader, BadLine,
       EndOfFile, Fail
  <2>4. QED  BY <1>2, <2>1, <2>2, <2>3 DEF ImportLine, ReadLine
<1>3. CASE ~ ImportLine
  <2>1. Same
    BY <1>3 DEF Next, vars, import, Edit, InitFile, WriteImport, Check, Serve, Reload,
                Stop, Query
  <2>2. QED  BY <2>1, <1>1
<1>4. QED  BY <1>2, <1>3

LEMMA BlankIsValid ==
    ASSUME NEW h, NEW r, HostsBuild(h), \A i \in DOMAIN r : SpecBuilds(r[i])
    PROVE  Loads(Document(Blank, h, r))
<1> DEFINE d == Document(Blank, h, r)
           c == ApplyDefaults(d)
<1>1. d.kind = "document" /\ d.settings = Blank /\ d.hosts = h /\ d.records = r
  BY DEF Document
<1>2. c.settings = [k \in Settings |-> DefaultSettings[k]] /\ c.hosts = h /\ c.records = r
  BY <1>1 DEF ApplyDefaults, Blank
<1>3. c.settings.fallback = "proxy" /\ c.settings.only = Unset
  BY <1>2 DEF DefaultSettings, Settings
<1> HIDE DEF d, c
<1>4. StoreBuilds(c)  BY <1>2 DEF StoreBuilds
<1>5. QED  BY <1>1, <1>3, <1>4 DEF Loads, Valid, d, c

\* Whatever the import has taken over loads when the file is read: addresses that
\* were checked under their section are told by their family then (legacy.go:81-95,
\* config.go:196-281).
THEOREM ImportedLoads == Spec => []ImportLoads
<1>1. ImportInv => ImportLoads
  BY BlankIsValid DEF ImportInv, HostsInv, RecordsInv, ImportLoads, Imported
<1>2. QED  BY ImportStarts, ImportStep, <1>1, PTL DEF Spec

-----------------------------------------------------------------------------
(* The file that config init writes.                                       *)

\* The types of the runtime are those that New gave them.
LEMMA TypeOfType == \A t \in KnownTypes : ParseType(t) = t /\ t # Error
BY ValuesAssumption DEF ParseType, KnownTypes

\* What is put on the command line, or in the sample, becomes fields, word by word.
LEMMA FieldsAre ==
    ASSUME NEW words \in Seq(Words)
    PROVE  /\ Fields(words) \in Seq(Field) /\ Len(Fields(words)) = Len(words)
           /\ \A i \in 1..Len(words) : Fields(words)[i] = Plain(words[i])
<1> DEFINE fs == Fields(words)
<1>1. fs = [i \in DOMAIN words |-> fs[i]] /\ \A i \in DOMAIN words : fs[i] = Plain(words[i])
  BY DEF Fields
<1>2. Len(words) \in Nat /\ DOMAIN words = 1..Len(words)  OBVIOUS
<1>3. \A i \in DOMAIN words : Plain(words[i]) \in Field
  <2>1. \A i \in DOMAIN words : words[i] \in Words  OBVIOUS
  <2>2. QED  BY <2>1 DEF Plain, Field
<1> HIDE DEF fs
<1>4. fs \in Seq(Field)  BY <1>1, <1>3, ListOf
<1>5. Len(fs) = Len(words)
  <2>1. DOMAIN fs = 1..Len(words)  BY <1>1, <1>2
  <2>2. QED  BY <2>1, <1>2, <1>4
<1>6. QED  BY <1>1, <1>2, <1>4, <1>5 DEF fs

\* When a record is built: a name, a type and a value that can be read.
LEMMA NewSucceeds ==
    ASSUME NEW n \in Seq(Words), n # <<>>, NEW t \in KnownTypes, NEW ttl \in Nat,
           NEW v \in Seq(Field), v # <<>>,
           Normalise(t, v) \in Seq(Field), Reads(t, Normalise(t, v))
    PROVE  New(n, t, v, ttl) # Error
<1>1. ParseType(t) = t /\ t # Error  BY TypeOfType
<1>2. Normalise(t, v) # Error  BY ConfigAssumption
<1>3. Renders(t, v)  BY <1>2 DEF Renders
<1> DEFINE r == [name |-> n, type |-> t, value |-> v, ttl |-> ttl]
<1>4. New(n, t, v, ttl) = r  BY <1>1, <1>3 DEF New
<1>5. r \in Built  BY DEF Built
<1> HIDE DEF r
<1>6. QED  BY <1>4, <1>5, ConfigAssumption

\* The words that are addresses.
AddressWords == DOMAIN IPv4 \cup DOMAIN IPv6

\* An address alone, of either family, makes a record of any name.
LEMMA AddressSucceeds ==
    ASSUME NEW n \in Seq(Words), n # <<>>, NEW w \in AddressWords
    PROVE  /\ Fields(<<w>>) \in Seq(Field)
           /\ HostRecord(n, Fields(<<w>>)) # Error
<1> DEFINE v == Fields(<<w>>)
           t == IF w \in DOMAIN IPv4 THEN "A" ELSE "AAAA"
           x == (IF t = "A" THEN IPv4 ELSE IPv6)[w]
<1>1. <<w>> \in Seq(Words)  BY ValuesAssumption DEF AddressWords
<1>2. v \in Seq(Field) /\ Len(v) = 1 /\ v[1] = Plain(w)
  <2>1. Len(<<w>>) = 1 /\ <<w>>[1] = w /\ 1 \in 1..1  OBVIOUS
  <2>2. QED  BY <1>1, <2>1, FieldsAre
<1> HIDE DEF v
<1>3. v[1].text = w /\ ~ v[1].dot /\ ~ v[1].quoted  BY <1>2 DEF Plain
<1>4. AddressType(v) = t /\ (t = "AAAA" => w \in DOMAIN IPv6)
  BY <1>2, <1>3 DEF AddressType, AddressWords
<1>5. t \in {"A", "AAAA"} /\ t # Error /\ t \in KnownTypes
  BY FamiliesAreTypes DEF KnownTypes
<1>6. x \in Words
  <2>1. CASE w \in DOMAIN IPv4  BY <2>1, ValuesAssumption
  <2>2. CASE w \notin DOMAIN IPv4
    <3>1. w \in DOMAIN IPv6 /\ x = IPv6[w]  BY <2>2 DEF AddressWords
    <3>2. QED  BY <3>1, ValuesAssumption
  <2>3. QED  BY <2>1, <2>2
<1>7. Normalise(t, v) = <<Plain(x)>>
  BY <1>3, <1>4, <1>5 DEF Normalise, Canonical
<1> HIDE DEF x
<1>8. <<Plain(x)>> \in Seq(Field)  BY <1>6 DEF Plain, Field
<1>9. Reads(t, <<Plain(x)>>)
  <2>1. {"A", "AAAA"} \cap DOMAIN Numbers = {} /\ "ANY" \notin {"A", "AAAA"}
    BY DEF Numbers
  <2>2. QED  BY <1>5, <2>1 DEF Reads
<1> HIDE DEF t
<1>10. v # <<>>
  <2>1. v \in Seq(Field) /\ Len(v) # 0  BY <1>2
  <2>2. QED  BY <2>1
<1>11. New(n, t, v, 0) # Error
  <2>1. Normalise(t, v) \in Seq(Field) /\ Reads(t, Normalise(t, v)) /\ 0 \in Nat
    BY <1>7, <1>8, <1>9
  <2>2. QED  BY <2>1, <1>2, <1>5, <1>10, NewSucceeds
<1>12. HostRecord(n, v) = New(n, t, v, 0)  BY <1>4, <1>5 DEF HostRecord
<1>13. QED  BY <1>2, <1>11, <1>12 DEF v

\* A value of the form of its type, with numbers where its type wants them, makes one.
LEMMA FormSucceeds ==
    ASSUME NEW n \in Seq(Words), n # <<>>, NEW ttl \in Nat,
           NEW t \in DOMAIN Forms, t \in KnownTypes, t # "ANY", t \notin {"A", "AAAA"},
           NEW words \in Seq(Words), words # <<>>,
           NEW p, p = Prefer(t, Fields(words)), Fits(t, p),
           t \in DOMAIN Numbers => \A i \in Numbers[t] :
              /\ i \in 1..Len(p) \ (Forms[t].hosts \cup Forms[t].quotes)
              /\ \E w \in DOMAIN Numeral : p[i] = Plain(w)
    PROVE  New(n, t, Fields(words), ttl) # Error
<1> DEFINE v == Fields(words)
           s == Spell(t, p)
<1>1. v \in Seq(Field) /\ v # <<>>
  <2>1. v \in Seq(Field) /\ Len(v) = Len(words)  BY FieldsAre
  <2>2. Len(words) # 0  OBVIOUS
  <2> HIDE DEF v
  <2>3. QED  BY <2>1, <2>2
<1>2. p \in Seq(Field)  BY <1>1, PreferTyped
<1>3. /\ s \in Seq(Field) /\ Len(s) = Len(p)
      /\ \A i \in 1..Len(p) \ (Forms[t].hosts \cup Forms[t].quotes) : s[i] = p[i]
  BY <1>2, SpellTyped
<1>4. Normalise(t, v) = s  BY DEF Normalise
<1> HIDE DEF v, s
<1>5. Reads(t, s)
  <2> SUFFICES ASSUME t \in DOMAIN Numbers, NEW i \in Numbers[t]
               PROVE  /\ i <= Len(s) /\ s[i].text \in DOMAIN Numeral
                      /\ ~ s[i].dot /\ ~ s[i].quoted
    BY DEF Reads
  <2>1. i \in 1..Len(p) \ (Forms[t].hosts \cup Forms[t].quotes)  OBVIOUS
  <2>2. PICK w \in DOMAIN Numeral : p[i] = Plain(w)  OBVIOUS
  <2>3. s[i] = Plain(w) /\ i <= Len(s)  BY <2>1, <2>2, <1>3
  <2>4. QED  BY <2>3 DEF Plain
<1>6. QED  BY <1>1, <1>3, <1>4, <1>5, NewSucceeds DEF v

\* The words of the sample are words, its names are names.
LEMMA SampleWords ==
    /\ {"local", "dev", "_tcp", "_sip", "old", "mail", "sip", SPF, "api",
        "0", "5", "5060", "10"} \subseteq Words
    /\ {"127.0.0.1", "10.0.0.10", "10.0.0.11", "::1"} \subseteq AddressWords
BY SampleAssumption, ConfigAssumption, ValuesAssumption DEF AddressWords

LEMMA TwoWords ==
    ASSUME NEW S, NEW a \in S, NEW b \in S
    PROVE  <<a, b>> \in Seq(S) /\ Len(<<a, b>>) = 2 /\ <<a, b>> # <<>>
OBVIOUS

LEMMA ConcatLen ==
    ASSUME NEW S, NEW s \in Seq(S), NEW t \in Seq(S)
    PROVE  Len(s \o t) = Len(s) + Len(t)
OBVIOUS

LEMMA ConcatSome ==
    ASSUME NEW S, NEW s \in Seq(S), NEW t \in Seq(S), Len(t) # 0
    PROVE  s \o t \in Seq(S) /\ s \o t # <<>>
<1>1. s \o t \in Seq(S) /\ Len(s \o t) = Len(s) + Len(t)  BY ConcatLen
<1>2. Len(s) \in Nat /\ Len(t) \in Nat  OBVIOUS
<1>3. Len(s \o t) # 0  BY <1>1, <1>2
<1>4. QED  BY <1>1, <1>3

\* The names of the sample are lists of words, and not empty.
LEMMA SampleNames ==
    /\ DevLocal \in Seq(Words) /\ DevLocal # <<>>
    /\ \A w \in Words : DevLocal \o <<w>> \in Seq(Words) /\ DevLocal \o <<w>> # <<>>
    /\ DevLocal \o <<"_tcp", "_sip">> \in Seq(Words) /\ DevLocal \o <<"_tcp", "_sip">> # <<>>
    /\ \A n \in {Starred, ApiHost, IPv6Host} : n \in Seq(Words) /\ n # <<>>
<1> DEFINE d == DevLocal
<1>1. d \in Seq(Words) /\ d # <<>>
  <2>1. "local" \in Words /\ "dev" \in Words  BY SampleWords
  <2>2. QED  BY <2>1, TwoWords DEF DevLocal
<1> HIDE DEF d
<1>2. ASSUME NEW S, d \in Seq(S), NEW w \in S PROVE d \o <<w>> \in Seq(S) /\ d \o <<w>> # <<>>
  <2>1. <<w>> \in Seq(S) /\ Len(<<w>>) # 0  OBVIOUS
  <2>2. QED  BY <1>2, <2>1, ConcatSome
<1>3. \A w \in Words : d \o <<w>> \in Seq(Words) /\ d \o <<w>> # <<>>  BY <1>1, <1>2
<1>4. ASSUME NEW t \in Seq(Words), Len(t) = 2 PROVE d \o t \in Seq(Words) /\ d \o t # <<>>
  BY <1>1, <1>4, ConcatSome
<1>5. <<"_tcp", "_sip">> \in Seq(Words) /\ Len(<<"_tcp", "_sip">>) = 2
  <2>1. "_tcp" \in Words /\ "_sip" \in Words  BY SampleWords
  <2>2. QED  BY <2>1, TwoWords
<1>6. ASSUME NEW w PROVE d \o <<w>> # <<>>
  <2>1. d \in Seq(Words \cup {w}) /\ w \in Words \cup {w}  BY <1>1
  <2>2. QED  BY <2>1, <1>2
<1>7. \A n \in {Starred, ApiHost, IPv6Host} : n \in Seq(Words)
  <2>1. \A n \in Names : n \in Seq(Words)  BY ConfigAssumption DEF Names, ToSet
  <2>2. QED  BY <2>1, SampleAssumption
<1>8. \A n \in {Starred, ApiHost, IPv6Host} : n # <<>>
  BY <1>6 DEF Starred, ApiHost, IPv6Host, d
<1>9. QED  BY <1>1, <1>3, <1>4, <1>5, <1>7, <1>8 DEF d

\* The hosts of the sample are the three it names.
LEMMA SampleHostsAre ==
    /\ SampleHosts \in [Names -> Seq({Fields(<<w>>) : w \in AddressWords})]
    /\ \A n \in Names : SampleHosts[n] # <<>> => n \in {Starred, ApiHost, IPv6Host}
<1> DEFINE A == {Fields(<<w>>) : w \in AddressWords}
           a == Fields(<<"127.0.0.1">>)
           b == Fields(<<"10.0.0.10">>)
           c == Fields(<<"10.0.0.11">>)
           e == Fields(<<"::1">>)
<1>1. a \in A /\ b \in A /\ c \in A /\ e \in A  BY SampleWords
<1>2. SampleHosts = [n \in Names |->
        CASE n = Starred  -> <<a>>
          [] n = ApiHost  -> <<b, c>>
          [] n = IPv6Host -> <<e>>
          [] OTHER        -> <<>>]
  BY DEF SampleHosts
<1> HIDE DEF A, a, b, c, e
<1>3. <<a>> \in Seq(A) /\ <<b, c>> \in Seq(A) /\ <<e>> \in Seq(A) /\ <<>> \in Seq(A)
  BY <1>1
<1>4. \A n \in Names : /\ SampleHosts[n] \in Seq(A)
                       /\ n \notin {Starred, ApiHost, IPv6Host} => SampleHosts[n] = <<>>
  BY <1>2, <1>3
<1>5. SampleHosts \in [Names -> Seq(A)]  BY <1>2, <1>4
<1>6. QED  BY <1>4, <1>5 DEF A

\* Every host of the sample has addresses only.
LEMMA SampleHostsBuild ==
    SampleHosts \in [Names -> Seq(Seq(Field))] /\ HostsBuild(SampleHosts)
<1> DEFINE A == {Fields(<<w>>) : w \in AddressWords}
<1>1. \A x \in A : x \in Seq(Field)
  <2> SUFFICES ASSUME NEW w \in AddressWords PROVE Fields(<<w>>) \in Seq(Field)  OBVIOUS
  <2>1. QED  BY SampleNames, AddressSucceeds
<1>2. SampleHosts \in [Names -> Seq(A)]  BY SampleHostsAre
<1>3. SampleHosts \in [Names -> Seq(Seq(Field))]
  <2> HIDE DEF A
  <2>1. QED  BY <1>1, <1>2
<1>4. ASSUME NEW n \in Names, NEW i \in DOMAIN SampleHosts[n]
      PROVE  HostRecord(n, SampleHosts[n][i]) # Error
  <2>1. SampleHosts[n] # <<>>  OBVIOUS
  <2>2. n \in Seq(Words) /\ n # <<>>  BY <2>1, SampleHostsAre, SampleNames
  <2>3. SampleHosts[n][i] \in A
    <3> HIDE DEF A
    <3>1. QED  BY <1>2
  <2>4. PICK w \in AddressWords : SampleHosts[n][i] = Fields(<<w>>)  BY <2>3
  <2>5. QED  BY <2>2, <2>4, AddressSucceeds
<1>5. QED  BY <1>3, <1>4 DEF HostsBuild

\* A record of the sample that has its form, and whose numbers are numbers.
LEMMA OneBuilds ==
    ASSUME NEW n \in Seq(Words), n # <<>>, NEW t, NEW words \in Seq(Words), NEW ttl \in Nat,
           t \in KnownTypes, New(n, t, Fields(words), ttl) # Error
    PROVE  One(n, t, words, ttl) \in Specs /\ SpecBuilds(One(n, t, words, ttl))
<1> DEFINE v == Fields(words)
           r == One(n, t, words, ttl)
<1>1. v \in Seq(Field)  BY FieldsAre
<1>2. /\ r.name = n /\ r.type = t /\ r.values = <<v>> /\ r.ttl = ttl
      /\ r = [name |-> n, type |-> t, values |-> <<v>>, ttl |-> ttl]
  BY DEF One
<1> HIDE DEF v, r
<1>3. <<v>> \in Seq(Seq(Field)) /\ <<v>> # <<>> /\ DOMAIN <<v>> = 1..1 /\ <<v>>[1] = v
  BY <1>1
<1>4. t \in Words  BY ValuesAssumption
<1>5. r \in Specs  BY <1>2, <1>3, <1>4 DEF Specs
<1>6. SpecRecord(r, v) # Error  BY <1>2 DEF SpecRecord, v
<1>7. SpecBuilds(r)
  <2> SUFFICES ASSUME NEW i \in DOMAIN r.values PROVE SpecRecord(r, r.values[i]) # Error
    BY <1>2, <1>3 DEF SpecBuilds
  <2>1. i \in 1..1  BY <1>2, <1>3
  <2>2. i = 1  BY <2>1
  <2>3. r.values[i] = v  BY <2>2, <1>2, <1>3
  <2>4. QED  BY <2>3, <1>6
<1>8. QED  BY <1>5, <1>7 DEF r

\* The forms that the sample uses.
LEMMA SampleForms ==
    /\ {"MX", "SRV", "TXT", "CNAME"} \subseteq DOMAIN Forms \cap (KnownTypes \ {"ANY", "A", "AAAA"})
    /\ Forms["MX"] = Form(2, {2}, {}) /\ Forms["SRV"] = Form(4, {4}, {})
    /\ Forms["TXT"].fields = 1 /\ Forms["CNAME"].fields = 1
BY DEF Forms, Form, KnownTypes

\* The numbers in them.
LEMMA SampleNumbers ==
    /\ {"MX", "SRV"} \subseteq DOMAIN Numbers /\ {"TXT", "CNAME"} \cap DOMAIN Numbers = {}
    /\ Numbers["MX"] = {1} /\ Numbers["SRV"] = 1..3
BY DEF Numbers

\* A TXT or a CNAME of one word.
LEMMA OneWordBuilds ==
    ASSUME NEW n \in Seq(Words), n # <<>>, NEW t \in {"TXT", "CNAME"}, NEW w \in Words,
           NEW ttl \in Nat
    PROVE  One(n, t, <<w>>, ttl) \in Specs /\ SpecBuilds(One(n, t, <<w>>, ttl))
<1> DEFINE words == <<w>>
           v == Fields(words)
<1>1. words \in Seq(Words) /\ Len(words) = 1 /\ words # <<>>  OBVIOUS
<1> HIDE DEF words
<1>2. Len(v) = 1  BY <1>1, FieldsAre
<1> HIDE DEF v
<1>3. t \in DOMAIN Forms /\ t \in KnownTypes /\ t # "ANY" /\ t \notin {"A", "AAAA"}
      /\ Forms[t].fields = 1 /\ t \notin DOMAIN Numbers /\ t # "MX" /\ t # "RRSIG"
  BY SampleForms, SampleNumbers
<1>4. v = Prefer(t, v) /\ Fits(t, v)  BY <1>2, <1>3 DEF Prefer, Fits
<1>5. New(n, t, v, ttl) # Error  BY <1>1, <1>3, <1>4, FormSucceeds DEF v
<1>6. QED  BY <1>1, <1>3, <1>5, OneBuilds DEF v, words

LEMMA PutBefore ==
    ASSUME NEW S, NEW x \in S, NEW v \in Seq(S), Len(v) = 1
    PROVE  Len(<<x>> \o v) = 2 /\ (<<x>> \o v)[1] = x
<1> DEFINE u == <<x>>
<1>1. u \in Seq(S) /\ Len(u) = 1 /\ u[1] = x  OBVIOUS
<1> HIDE DEF u
<1>2. Len(u \o v) = Len(u) + Len(v)  BY <1>1, ConcatLen
<1>3. 1 \in DOMAIN u  BY <1>1
<1>4. (u \o v)[1] = u[1]  BY <1>1, <1>3, ConcatHas
<1>5. QED  BY <1>1, <1>2, <1>4

\* An MX without a preference, which gets 10.
LEMMA MailBuilds ==
    ASSUME NEW n \in Seq(Words), n # <<>>, NEW w \in Words, NEW ttl \in Nat
    PROVE  One(n, "MX", <<w>>, ttl) \in Specs /\ SpecBuilds(One(n, "MX", <<w>>, ttl))
<1> DEFINE words == <<w>>
           v == Fields(words)
           p == <<Plain("10")>> \o v
<1>1. words \in Seq(Words) /\ Len(words) = 1 /\ words # <<>>  OBVIOUS
<1> HIDE DEF words
<1>2. v \in Seq(Field) /\ Len(v) = 1  BY <1>1, FieldsAre
<1> HIDE DEF v
<1>3. "MX" \in DOMAIN Forms /\ "MX" \in KnownTypes /\ "MX" # "ANY" /\ "MX" \notin {"A", "AAAA"}
      /\ Forms["MX"].fields = 2 /\ Forms["MX"].hosts = {2} /\ Forms["MX"].quotes = {}
  BY SampleForms DEF Form
<1>4. p = Prefer("MX", v)  BY <1>2 DEF Prefer
<1>5. Len(p) = 2 /\ p[1] = Plain("10")
  <2> DEFINE x == Plain("10")
  <2>1. x \in Field  BY ValuesAssumption DEF Plain, Field
  <2> HIDE DEF x
  <2>2. Len(<<x>> \o v) = 2 /\ (<<x>> \o v)[1] = x  BY <1>2, <2>1, PutBefore
  <2>3. QED  BY <2>2 DEF x
<1> HIDE DEF p
<1>6. Fits("MX", p)  BY <1>3, <1>5 DEF Fits
<1>7. \A i \in Numbers["MX"] :
         /\ i \in 1..Len(p) \ (Forms["MX"].hosts \cup Forms["MX"].quotes)
         /\ \E y \in DOMAIN Numeral : p[i] = Plain(y)
  <2> SUFFICES ASSUME NEW i \in {1}
               PROVE  /\ i \in 1..Len(p) \ (Forms["MX"].hosts \cup Forms["MX"].quotes)
                      /\ \E y \in DOMAIN Numeral : p[i] = Plain(y)
    BY SampleNumbers
  <2>1. i = 1 /\ 1 \in 1..Len(p) /\ 1 \notin {2}  BY <1>5
  <2>2. QED  BY <2>1, <1>3, <1>5, ValuesAssumption
<1>8. New(n, "MX", v, ttl) # Error
  BY <1>1, <1>3, <1>4, <1>6, <1>7, FormSucceeds DEF v
<1>9. QED  BY <1>1, <1>3, <1>8, OneBuilds DEF v, words

\* An SRV: three numbers and a host.
LEMMA ServiceBuilds ==
    ASSUME NEW n \in Seq(Words), n # <<>>, NEW ttl \in Nat,
           NEW a \in Words \cap DOMAIN Numeral, NEW b \in Words \cap DOMAIN Numeral,
           NEW c \in Words \cap DOMAIN Numeral, NEW w \in Words
    PROVE  One(n, "SRV", <<a, b, c, w>>, ttl) \in Specs
           /\ SpecBuilds(One(n, "SRV", <<a, b, c, w>>, ttl))
<1> DEFINE words == <<a, b, c, w>>
           v == Fields(words)
<1>1. /\ words \in Seq(Words) /\ Len(words) = 4 /\ words # <<>>
      /\ words[1] = a /\ words[2] = b /\ words[3] = c
  OBVIOUS
<1> HIDE DEF words
<1>2. Len(v) = 4 /\ v[1] = Plain(a) /\ v[2] = Plain(b) /\ v[3] = Plain(c)
  <2>1. /\ Fields(words) \in Seq(Field) /\ Len(Fields(words)) = Len(words)
        /\ \A i \in 1..Len(words) : Fields(words)[i] = Plain(words[i])
    BY <1>1, FieldsAre
  <2>2. 1 \in 1..4 /\ 2 \in 1..4 /\ 3 \in 1..4  OBVIOUS
  <2>3. QED  BY <2>1, <2>2, <1>1
<1> HIDE DEF v
<1>3. "SRV" \in DOMAIN Forms /\ "SRV" \in KnownTypes /\ "SRV" # "ANY" /\ "SRV" \notin {"A", "AAAA"}
      /\ Forms["SRV"].fields = 4 /\ Forms["SRV"].hosts = {4} /\ Forms["SRV"].quotes = {}
  BY SampleForms DEF Form
<1>4. v = Prefer("SRV", v) /\ Fits("SRV", v)  BY <1>2, <1>3 DEF Prefer, Fits
<1>5. \A i \in Numbers["SRV"] :
         /\ i \in 1..Len(v) \ (Forms["SRV"].hosts \cup Forms["SRV"].quotes)
         /\ \E y \in DOMAIN Numeral : v[i] = Plain(y)
  <2> SUFFICES ASSUME NEW i \in 1..3
               PROVE  /\ i \in 1..Len(v) \ (Forms["SRV"].hosts \cup Forms["SRV"].quotes)
                      /\ \E y \in DOMAIN Numeral : v[i] = Plain(y)
    BY SampleNumbers
  <2>1. i \in 1..4 /\ i \notin {4} /\ (i = 1 \/ i = 2 \/ i = 3)  OBVIOUS
  <2>2. \E y \in DOMAIN Numeral : v[i] = Plain(y)  BY <2>1, <1>2
  <2>3. QED  BY <2>1, <2>2, <1>2, <1>3
<1>6. New(n, "SRV", v, ttl) # Error
  BY <1>1, <1>3, <1>4, <1>5, FormSucceeds DEF v
<1>7. QED  BY <1>1, <1>3, <1>6, OneBuilds DEF v, words

\* Every record of the sample builds.
LEMMA SampleRecordsBuild ==
    /\ SampleRecords \in Seq(Specs)
    /\ \A i \in DOMAIN SampleRecords : SpecBuilds(SampleRecords[i])
<1> DEFINE a == One(DevLocal, "MX", <<"mail">>, 0)
           b == One(DevLocal \o <<"_tcp", "_sip">>, "SRV", <<"0", "5", "5060", "sip">>, 0)
           c == One(DevLocal, "TXT", <<SPF>>, 300)
           e == One(DevLocal \o <<"old">>, "CNAME", <<"api">>, 0)
<1>1. a \in Specs /\ SpecBuilds(a)
  <2>1. "mail" \in Words /\ 0 \in Nat  BY SampleWords
  <2>2. QED  BY <2>1, SampleNames, MailBuilds
<1>2. b \in Specs /\ SpecBuilds(b)
  <2> DEFINE n == DevLocal \o <<"_tcp", "_sip">>
  <2>1. n \in Seq(Words) /\ n # <<>>  BY SampleNames
  <2> HIDE DEF n
  <2>2. /\ "0" \in Words \cap DOMAIN Numeral /\ "5" \in Words \cap DOMAIN Numeral
        /\ "5060" \in Words \cap DOMAIN Numeral /\ "sip" \in Words /\ 0 \in Nat
    BY SampleAssumption
  <2>3. One(n, "SRV", <<"0", "5", "5060", "sip">>, 0) \in Specs
        /\ SpecBuilds(One(n, "SRV", <<"0", "5", "5060", "sip">>, 0))
    BY <2>1, <2>2, ServiceBuilds
  <2>4. QED  BY <2>3 DEF n
<1>3. c \in Specs /\ SpecBuilds(c)
  <2>1. SPF \in Words /\ 300 \in Nat /\ "TXT" \in {"TXT", "CNAME"}  BY SampleWords
  <2>2. QED  BY <2>1, SampleNames, OneWordBuilds
<1>4. e \in Specs /\ SpecBuilds(e)
  <2> DEFINE n == DevLocal \o <<"old">>
  <2>1. "old" \in Words /\ "api" \in Words /\ 0 \in Nat /\ "CNAME" \in {"TXT", "CNAME"}
    BY SampleWords
  <2>2. n \in Seq(Words) /\ n # <<>>  BY <2>1, SampleNames
  <2> HIDE DEF n
  <2>3. One(n, "CNAME", <<"api">>, 0) \in Specs /\ SpecBuilds(One(n, "CNAME", <<"api">>, 0))
    BY <2>1, <2>2, OneWordBuilds
  <2>4. QED  BY <2>3 DEF n
<1>5. SampleRecords = <<a, b, c, e>>  BY DEF SampleRecords
<1> HIDE DEF a, b, c, e
<1>6. <<a, b, c, e>> \in Seq(Specs)  BY <1>1, <1>2, <1>3, <1>4
<1>7. \A i \in DOMAIN <<a, b, c, e>> : <<a, b, c, e>>[i] \in {a, b, c, e}
  <2>1. DOMAIN <<a, b, c, e>> = 1..4  OBVIOUS
  <2>2. \A i \in 1..4 : i = 1 \/ i = 2 \/ i = 3 \/ i = 4  OBVIOUS
  <2>3. QED  BY <2>1, <2>2
<1>8. QED  BY <1>1, <1>2, <1>3, <1>4, <1>5, <1>6, <1>7

LEMMA DefaultsOf ==
    ASSUME NEW c
    PROVE  /\ ApplyDefaults(c).hosts = c.hosts /\ ApplyDefaults(c).records = c.records
           /\ ApplyDefaults(c).settings.only = c.settings.only
           /\ ApplyDefaults(c).settings.except = c.settings.except
           /\ ApplyDefaults(c).settings.fallback =
                IF c.settings.fallback = Unset THEN "proxy" ELSE c.settings.fallback
<1>1. {"only", "except", "fallback"} \subseteq Settings  BY DEF Settings
<1>2. DefaultSettings.only = Unset /\ DefaultSettings.except = Unset
      /\ DefaultSettings.fallback = "proxy"
  BY DEF DefaultSettings
<1> HIDE DEF Settings
<1>3. QED  BY <1>1, <1>2 DEF ApplyDefaults

\* The upstreams that are there by default are texts.
LEMMA OwnUpstreams == DefaultSettings.upstream \in Seq(Texts)
<1> DEFINE a == <<"1.1.1.1", ":", "53">>
           b == <<"8.8.8.8", ":", "53">>
<1>1. DefaultSettings.upstream = <<a, b>>  BY DEF DefaultSettings
<1>2. "1.1.1.1" \in Words /\ "8.8.8.8" \in Words /\ ":" \in Words /\ "53" \in Words
  BY ConfigAssumption, ValuesAssumption, AddressesAssumption DEF Separators
<1>3. a \in Texts /\ b \in Texts
  <2>1. a \in Seq(Words) /\ b \in Seq(Words)  BY <1>2
  <2>2. \A i \in DOMAIN a : a[i] # "://"  OBVIOUS
  <2>3. \A i \in DOMAIN b : b[i] # "://"  OBVIOUS
  <2> HIDE DEF a, b
  <2>4. QED  BY <2>1, <2>2, <2>3 DEF Texts
<1> HIDE DEF a, b
<1>4. QED  BY <1>1, <1>3

\* What config init writes is a document, and one that loads; it leaves every
\* setting at its default.
LEMMA SampleIsDecoded ==
    Sample.kind = "document" /\ Decoded(Sample) /\ Sample.settings.ttl # 0
<1>1. /\ Sample.kind = "document" /\ Sample.settings = SampleSettings
      /\ Sample.hosts = SampleHosts /\ Sample.records = SampleRecords
  BY DEF Sample, Document
<1>2. SampleSettings.upstream = DefaultSettings.upstream /\ SampleSettings.ttl = 60
  BY DEF SampleSettings, DefaultSettings
<1>3. Upstreams(SampleSettings.upstream)  BY <1>2, OwnUpstreams DEF Upstreams
<1>4. QED  BY <1>1, <1>2, <1>3, SampleHostsBuild, SampleRecordsBuild DEF Decoded

LEMMA SampleIsDefault ==
    \A k \in Settings : SampleSettings[k] \in {Unset, DefaultSettings[k]}
<1>1. \A k \in {"only", "except", "level", "format"} : SampleSettings[k] = Unset
  BY DEF SampleSettings
<1>2. \A k \in {"ttl", "timeout", "fallback", "nodata", "chase"} :
         SampleSettings[k] = DefaultSettings[k]
  <2>1. SampleSettings.ttl = DefaultSettings.ttl
        /\ SampleSettings.timeout = DefaultSettings.timeout
        /\ SampleSettings.fallback = DefaultSettings.fallback
    BY DEF SampleSettings, DefaultSettings
  <2>2. SampleSettings.nodata = DefaultSettings.nodata
    BY DEF SampleSettings, DefaultSettings
  <2>3. SampleSettings.chase = DefaultSettings.chase
    BY DEF SampleSettings, DefaultSettings
  <2>4. QED  BY <2>1, <2>2, <2>3
<1>3. \A k \in {"listen", "upstream"} : SampleSettings[k] = DefaultSettings[k]
  BY DEF SampleSettings, DefaultSettings
<1>4. QED  BY <1>1, <1>2, <1>3 DEF Settings

LEMMA SampleLoads ==
    Loads(Sample) /\ \A k \in Settings : ApplyDefaults(Sample).settings[k] = DefaultSettings[k]
<1> DEFINE c == ApplyDefaults(Sample)
<1>1. /\ Sample.kind = "document" /\ Sample.settings = SampleSettings
      /\ Sample.hosts = SampleHosts /\ Sample.records = SampleRecords
  BY DEF Sample, Document
<1>2. \A k \in Settings : c.settings[k] = IF SampleSettings[k] = Unset
                                          THEN DefaultSettings[k] ELSE SampleSettings[k]
  BY <1>1 DEF ApplyDefaults
<1>3. \A k \in Settings : c.settings[k] = DefaultSettings[k]  BY <1>2, SampleIsDefault
<1>4. c.hosts = SampleHosts /\ c.records = SampleRecords  BY <1>1, DefaultsOf
<1> HIDE DEF c
<1>5. c.settings.fallback = "proxy" /\ c.settings.only = Unset
  <2>1. {"fallback", "only"} \subseteq Settings  BY DEF Settings
  <2>2. DefaultSettings.fallback = "proxy" /\ DefaultSettings.only = Unset
    BY DEF DefaultSettings
  <2>3. QED  BY <2>1, <2>2, <1>3
<1>6. StoreBuilds(c)  BY <1>4, SampleHostsBuild, SampleRecordsBuild DEF StoreBuilds
<1>7. QED  BY <1>1, <1>3, <1>5, <1>6 DEF Loads, Valid, c

-----------------------------------------------------------------------------
(* A file and flags.                                                       *)

\* Records are lists, in the file and among the flags.
ListsInv ==
    /\ IsSeq(flags.records)
    /\ disk.kind = "document" => IsSeq(disk.records)

LEMMA WrittenAreLists ==
    ASSUME NEW c \in Edits \cup {Sample} \cup {s.disk : s \in Situations},
           c.kind = "document"
    PROVE  IsSeq(c.records)
BY CommandsAssumption, SampleIsDecoded DEF IsSeq, Decoded

LEMMA ListsStart == Init => ListsInv
<1> SUFFICES ASSUME Init PROVE ListsInv  OBVIOUS
<1>1. PICK s \in Situations : disk = s.disk /\ flags = s.flags  BY DEF Init
<1>2. IsSeq(flags.records)  BY <1>1, CommandsAssumption DEF IsSeq
<1>3. QED  BY <1>1, <1>2, WrittenAreLists DEF ListsInv

LEMMA ListsStep == ImportInv /\ ListsInv /\ [Next]_vars => ListsInv'
<1> SUFFICES ASSUME ImportInv, ListsInv, [Next]_vars PROVE ListsInv'  OBVIOUS
<1>1. flags' = flags
  BY DEF Next, vars, Edit, InitFile, ImportLine, WriteImport, Check, Serve, Reload, Stop, Query
<1>2. CASE Edit  BY <1>1, <1>2, WrittenAreLists DEF Edit, Put, ListsInv
<1>3. CASE InitFile  BY <1>1, <1>3, WrittenAreLists DEF InitFile, Put, ListsInv
<1>4. CASE WriteImport
  <2>1. disk'.records = records  BY <1>4 DEF WriteImport, Put, Imported, Document
  <2>2. QED  BY <1>1, <2>1 DEF ImportInv, RecordsInv, ListsInv
<1>5. CASE ~ (Edit \/ InitFile \/ WriteImport)
  <2>1. disk' = disk
    BY <1>5 DEF Next, vars, ImportLine, Check, Serve, Reload, Stop, Query
  <2>2. QED  BY <1>1, <2>1 DEF ListsInv
<1>6. QED  BY <1>2, <1>3, <1>4, <1>5

\* Two lists that build, build one after the other.
LEMMA BuildsTogether ==
    ASSUME NEW s, IsSeq(s), \A i \in DOMAIN s : SpecBuilds(s[i]),
           NEW t, IsSeq(t), \A i \in DOMAIN t : SpecBuilds(t[i])
    PROVE  \A i \in DOMAIN (s \o t) : SpecBuilds((s \o t)[i])
<1> PICK S : s \in Seq(S)  BY DEF IsSeq
<1> PICK T : t \in Seq(T)  BY DEF IsSeq
<1> SUFFICES ASSUME NEW i \in DOMAIN (s \o t) PROVE SpecBuilds((s \o t)[i])  OBVIOUS
<1>1. s \in Seq(S \cup T) /\ t \in Seq(S \cup T)  OBVIOUS
<1>2. i \in 1..(Len(s) + Len(t))  BY <1>1
<1>3. CASE i <= Len(s)
  <2>1. i \in DOMAIN s /\ (s \o t)[i] = s[i]  BY <1>1, <1>2, <1>3
  <2>2. QED  BY <2>1
<1>4. CASE ~ (i <= Len(s))
  <2>1. i - Len(s) \in DOMAIN t /\ (s \o t)[i] = t[i - Len(s)]  BY <1>1, <1>2, <1>4
  <2>2. QED  BY <2>1
<1>5. QED  BY <1>3, <1>4

\* What the flags leave of a list of the file.
LEMMA OneListStays ==
    ASSUME NEW given, NEW s, NEW d,
           s.only = Unset \/ s.except = Unset,
           Override(given, d).only = Unset \/ Override(given, d).except = Unset
    PROVE  Override(given, s).only = Unset \/ Override(given, s).except = Unset
<1>1. {"only", "except"} \subseteq Settings  BY DEF Settings
<1>2. CASE "except" \in DOMAIN given
  BY <1>1, <1>2 DEF Override, Dropped
<1>3. CASE "except" \notin DOMAIN given /\ "only" \in DOMAIN given
  BY <1>1, <1>3 DEF Override, Dropped
<1>4. CASE "except" \notin DOMAIN given /\ "only" \notin DOMAIN given
  BY <1>1, <1>4 DEF Override, Dropped
<1>5. QED  BY <1>2, <1>3, <1>4

LEMMA TogetherValid ==
    ASSUME NEW content, NEW given, Loads(content), Configures(Missing, given),
           IsSeq(content.records), IsSeq(given.records)
    PROVE  Configures(content, given)
<1> DEFINE f == ApplyDefaults(content)
           mine == [i \in DOMAIN given.records |-> ParseRecordFlag(given.records[i])]
           both == BuildConfig(content, given)
           alone == BuildConfig(Missing, given)
<1>1. Missing.kind = "missing"  BY DEF Missing
<1>2. content.kind = "document" /\ Valid(f)  BY DEF Loads
<1>3. FlagsParse(given) /\ Valid(alone)  BY DEF Configures
<1>4. both = ApplyDefaults(Combine(f, given)) /\ alone = ApplyDefaults(Combine(Default, given))
  BY <1>1, <1>2 DEF BuildConfig
<1>5. /\ both.hosts = f.hosts /\ both.records = f.records \o mine
      /\ alone.records = <<>> \o mine
  <2>1. \A x : Combine(x, given).hosts = x.hosts /\ Combine(x, given).records = x.records \o mine
    BY DEF Combine
  <2>2. Default.records = <<>>  BY DEF Default
  <2> HIDE DEF f, mine, both, alone
  <2>3. QED  BY <1>4, <2>1, <2>2, DefaultsOf
<1> DEFINE Final(x, k) == Override(given.settings, x.settings)[k]
<1>6. \A x : Combine(x, given).settings = Override(given.settings, x.settings)
  BY DEF Combine
<1> HIDE DEF f, mine, both, alone
<1>7. both.settings.only = Unset \/ both.settings.except = Unset
  <2>1. f.settings.only = Unset \/ f.settings.except = Unset  BY <1>2 DEF Valid
  <2>2. Final(Default, "only") = Unset \/ Final(Default, "except") = Unset
    BY <1>3, <1>4, <1>6, DefaultsOf DEF Valid
  <2>3. Final(f, "only") = Unset \/ Final(f, "except") = Unset
    BY <2>1, <2>2, OneListStays
  <2>4. QED  BY <2>3, <1>4, <1>6, DefaultsOf
<1>8. both.settings.fallback \in {"proxy", "nxdomain", "refused", "empty"}
  <2>1. both.settings.fallback =
          (IF Final(f, "fallback") = Unset THEN "proxy" ELSE Final(f, "fallback"))
    BY <1>4, <1>6, DefaultsOf
  <2>2. alone.settings.fallback =
          (IF Final(Default, "fallback") = Unset THEN "proxy" ELSE Final(Default, "fallback"))
    BY <1>4, <1>6, DefaultsOf
  <2>3. "fallback" \in Settings /\ "fallback" \notin Dropped(given.settings)
    BY DEF Settings, Dropped
  <2>4. CASE "fallback" \in DOMAIN given.settings
    <3>1. Final(f, "fallback") = Final(Default, "fallback")
      BY <2>3, <2>4 DEF Override
    <3>2. QED  BY <2>1, <2>2, <3>1, <1>3 DEF Valid
  <2>5. CASE "fallback" \notin DOMAIN given.settings
    <3>1. Final(f, "fallback") = f.settings.fallback
      BY <2>3, <2>5 DEF Override
    <3>2. QED  BY <2>1, <3>1, <1>2 DEF Valid
  <2>6. QED  BY <2>4, <2>5
<1>9. StoreBuilds(both)
  <2>1. IsSeq(mine) /\ <<>> \o mine = mine
    <3>1. PICK S : given.records \in Seq(S)  BY DEF IsSeq
    <3>2. mine \in Seq({ParseRecordFlag(r) : r \in S})  BY <3>1 DEF mine
    <3>3. QED  BY <3>2 DEF IsSeq
  <2>2. \A i \in DOMAIN mine : SpecBuilds(mine[i])
    BY <1>3, <1>5, <2>1 DEF Valid, StoreBuilds
  <2>3. /\ IsSeq(f.records) /\ \A i \in DOMAIN f.records : SpecBuilds(f.records[i])
        /\ HostsBuild(f.hosts)
    BY <1>2, DefaultsOf DEF Valid, StoreBuilds, f
  <2>4. QED  BY <1>5, <2>1, <2>2, <2>3, BuildsTogether DEF StoreBuilds
<1>10. Valid(both)  BY <1>7, <1>8, <1>9 DEF Valid
<1>11. QED  BY <1>3, <1>10 DEF Configures, both

\* A valid file and valid flags are valid together, so that once serve runs no
\* reload of a valid file is refused (serve.go:214-260).
THEOREM ValidTogether == Spec => []ValidAloneValidTogether
<1>1. ListsInv => ValidAloneValidTogether
  BY TogetherValid DEF ListsInv, ValidAloneValidTogether, Loads
<1>2. QED  BY ImportStarts, ImportStep, ListsStart, ListsStep, <1>1, PTL DEF Spec
-----------------------------------------------------------------------------
(* What config check prints.                                               *)

\* A TTL left out is Unset, in a file that was written as in one that is made.
TTLInv == disk.kind = "document" => ApplyDefaults(disk).settings.ttl # 0

\* What was printed is of the file as it is, what serves is of the file as it
\* was when it was last built.
ShownInv ==
    /\ printed \notin {None, Error} =>
          Loads(disk) /\ printed = Table(ApplyDefaults(disk))
    /\ stage = "serving" => runtime = Runtime(BuildConfig(served, flags))

LEMMA TTLOf ==
    ASSUME NEW c
    PROVE  ApplyDefaults(c).settings.ttl = IF c.settings.ttl = Unset THEN 60 ELSE c.settings.ttl
<1>1. "ttl" \in Settings /\ DefaultSettings.ttl = 60  BY DEF Settings, DefaultSettings
<1> HIDE DEF Settings, DefaultSettings
<1>2. QED  BY <1>1 DEF ApplyDefaults

LEMMA TTLStarts == Init => TTLInv
<1> SUFFICES ASSUME Init PROVE TTLInv  OBVIOUS
<1>1. PICK s \in Situations : disk = s.disk  BY DEF Init
<1>2. disk.kind = "document" => disk.settings.ttl # 0  BY <1>1, CommandsAssumption
<1>3. QED  BY <1>2, TTLOf DEF TTLInv

LEMMA TTLStep == TTLInv /\ [Next]_vars => TTLInv'
<1> SUFFICES ASSUME TTLInv, [Next]_vars PROVE TTLInv'  OBVIOUS
<1>1. ASSUME disk'.kind = "document" => disk'.settings.ttl # 0 PROVE TTLInv'
  BY <1>1, TTLOf DEF TTLInv
<1>2. CASE Edit  BY <1>1, <1>2, CommandsAssumption DEF Edit, Put
<1>3. CASE InitFile  BY <1>1, <1>3, SampleIsDecoded DEF InitFile, Put
<1>4. CASE WriteImport
  <2>1. disk'.settings = Blank  BY <1>4 DEF WriteImport, Put, Imported, Document
  <2>2. disk'.settings.ttl = Unset  BY <2>1 DEF Blank, Settings
  <2>3. QED  BY <2>2, TTLOf DEF TTLInv
<1>5. CASE ~ (Edit \/ InitFile \/ WriteImport)
  <2>1. disk' = disk
    BY <1>5 DEF Next, vars, ImportLine, Check, Serve, Reload, Stop, Query
  <2>2. QED  BY <2>1 DEF TTLInv
<1>6. QED  BY <1>2, <1>3, <1>4, <1>5

LEMMA ShownStarts == Init => ShownInv
BY DEF Init, ShownInv

LEMMA ShownStep == ShownInv /\ [Next]_vars => ShownInv'
<1> SUFFICES ASSUME ShownInv, [Next]_vars PROVE ShownInv'  OBVIOUS
<1>0. flags' = flags
  BY DEF Next, vars, Edit, InitFile, ImportLine, WriteImport, Check, Serve, Reload, Stop, Query
<1>1. CASE Edit \/ InitFile \/ WriteImport
  BY <1>0, <1>1 DEF Edit, InitFile, WriteImport, Put, server, ShownInv
<1>2. CASE Check
  <2>1. disk' = disk /\ UNCHANGED <<stage, runtime, served>>
    BY <1>2 DEF Check, server
  <2>2. printed' # Error => Loads(disk) /\ printed' = Table(ApplyDefaults(disk))
    BY <1>2 DEF Check
  <2>3. QED  BY <1>0, <2>1, <2>2 DEF ShownInv
<1>3. CASE Serve
  <2>1. stage' = "serving" => runtime' = Runtime(BuildConfig(disk, flags)) /\ served' = disk
    BY <1>3 DEF Serve
  <2>2. disk' = disk /\ printed' = printed  BY <1>3 DEF Serve
  <2>3. QED  BY <1>0, <2>1, <2>2 DEF ShownInv
<1>4. CASE Reload
  BY <1>0, <1>4 DEF Reload, ShownInv
<1>5. CASE ImportLine \/ Stop \/ Query \/ UNCHANGED vars
  <2>1. UNCHANGED <<disk, printed, runtime, served>> /\ stage' \in {stage, "stopped"}
    BY <1>5 DEF ImportLine, Stop, Query, vars, server
  <2>2. QED  BY <1>0, <2>1 DEF ShownInv
<1>6. QED  BY <1>1, <1>2, <1>3, <1>4, <1>5 DEF Next

\* Without flags a file that loads is built into what it is with its defaults.
LEMMA BuiltAlone ==
    ASSUME NEW content, content.kind # "missing", IsSeq(content.records)
    PROVE  BuildConfig(content, NoFlags) = ApplyDefaults(content)
<1> DEFINE f == ApplyDefaults(content)
           c == Combine(f, NoFlags)
<1>1. /\ NoFlags.settings = <<>> /\ NoFlags.records = <<>>
      /\ DOMAIN <<>> = {}
  BY DEF NoFlags
<1>2. [i \in DOMAIN NoFlags.records |-> ParseRecordFlag(NoFlags.records[i])] = <<>>
  BY <1>1
<1>3. f.records \o <<>> = f.records
  <2>1. PICK S : content.records \in Seq(S)  BY DEF IsSeq
  <2>2. f.records = content.records  BY DefaultsOf
  <2>3. QED  BY <2>1, <2>2
<1>4. \A s : Override(NoFlags.settings, s) = [k \in Settings |-> s[k]]
  BY <1>1 DEF Override, Dropped
<1>5. /\ c.settings = [k \in Settings |-> f.settings[k]]
      /\ c.hosts = f.hosts /\ c.records = f.records
  BY <1>2, <1>3, <1>4 DEF Combine
<1>6. ApplyDefaults(c) = f
  <2>1. f.settings = [k \in Settings |-> IF content.settings[k] = Unset
                                          THEN DefaultSettings[k] ELSE content.settings[k]]
    BY DEF ApplyDefaults
  <2>2. \A k \in Settings : (IF c.settings[k] = Unset THEN DefaultSettings[k]
                                                      ELSE c.settings[k]) = f.settings[k]
    BY <1>5, <2>1
  <2>3. ApplyDefaults(c) = [settings |-> f.settings, hosts |-> f.hosts, records |-> f.records]
    BY <1>5, <2>1, <2>2 DEF ApplyDefaults
  <2>4. QED  BY <2>3 DEF ApplyDefaults
<1> HIDE DEF f, c
<1>7. QED  BY <1>6 DEF BuildConfig, f, c

\* What config check prints of a file is what serve, without flags, answers with
\* when it runs with that file, whatever edits, imports and reloads came before:
\* the TTL that check fills in is the one a response gets (cmd/config.go:155-161,
\* record.go:66-73).
THEOREM CheckTellsTheTruth == Spec => []CheckShowsWhatIsServed
<1>1. ASSUME ListsInv, TTLInv, ShownInv PROVE CheckShowsWhatIsServed
  <2> SUFFICES ASSUME printed \notin {None, Error}, served = disk, flags = NoFlags,
                      stage = "serving"
               PROVE  printed = [i \in DOMAIN runtime.records |->
                        LET r == runtime.records[i]
                        IN  [name |-> r.name, type |-> r.type, value |-> r.value,
                             ttl |-> TTL(r.ttl, runtime.ttl)]]
    BY DEF CheckShowsWhatIsServed
  <2> DEFINE c == ApplyDefaults(disk)
  <2>1. disk.kind = "document" /\ printed = Table(c)
    BY <1>1 DEF ShownInv, Loads
  <2>2. runtime = Runtime(c)
    BY <1>1, <2>1, BuiltAlone DEF ShownInv, ListsInv
  <2>3. c.settings.ttl # 0  BY <1>1, <2>1 DEF TTLInv
  <2> HIDE DEF c
  <2>4. runtime.records = BuildStore(c).records /\ runtime.ttl = c.settings.ttl
    BY <2>2 DEF Runtime, BuildStore
  <2>5. \A t : TTL(t, runtime.ttl) = IF t = 0 THEN c.settings.ttl ELSE t
    BY <2>3, <2>4 DEF TTL
  <2> HIDE DEF BuildStore
  <2>6. QED  BY <2>1, <2>4, <2>5 DEF Table
<1>2. QED
  BY ImportStarts, ImportStep, ListsStart, ListsStep, TTLStarts, TTLStep, ShownStarts,
     ShownStep, <1>1, PTL DEF Spec
-----------------------------------------------------------------------------
(* What a store is made of.                                                *)

\* Records as New makes them.
Made == {r \in Built : r.name # <<>> /\ r.value # <<>> /\ Renders(r.type, r.value)}

LEMMA NewMakes ==
    ASSUME NEW n \in Seq(Words), NEW t, NEW v \in Seq(Field), NEW ttl \in Nat,
           New(n, t, v, ttl) # Error
    PROVE  /\ New(n, t, v, ttl) \in Made
           /\ New(n, t, v, ttl).name = n /\ New(n, t, v, ttl).type = ParseType(t)
           /\ New(n, t, v, ttl).value = v
<1>1. New(n, t, v, ttl) = [name |-> n, type |-> ParseType(t), value |-> v, ttl |-> ttl]
  BY DEF New
<1>2. ParseType(t) # Error /\ n # <<>> /\ v # <<>> /\ Renders(ParseType(t), v)
  BY DEF New
<1>3. ParseType(t) \in KnownTypes  BY <1>2 DEF ParseType, KnownTypes
<1> HIDE DEF New, ParseType, Renders, KnownTypes
<1>4. QED  BY <1>1, <1>2, <1>3 DEF Made, Built

\* The records that each host and each record of a file make.
HostLists(c) ==
    [k \in DOMAIN NameOrder |->
        [i \in DOMAIN c.hosts[NameOrder[k]] |->
            HostRecord(NameOrder[k], c.hosts[NameOrder[k]][i])]]
SpecLists(c) ==
    [k \in DOMAIN c.records |->
        [i \in DOMAIN c.records[k].values |->
            SpecRecord(c.records[k], c.records[k].values[i])]]

LEMMA ListsMade ==
    ASSUME NEW c, c.hosts \in [Names -> Seq(Seq(Field))], c.records \in Seq(Specs),
           StoreBuilds(c)
    PROVE  /\ Records(c) = FlattenSeq(HostLists(c)) \o FlattenSeq(SpecLists(c))
           /\ HostLists(c) \in Seq(Seq(Made)) /\ DOMAIN HostLists(c) = DOMAIN NameOrder
           /\ SpecLists(c) \in Seq(Seq(Made)) /\ DOMAIN SpecLists(c) = DOMAIN c.records
<1> DEFINE ofHost(n) == [i \in DOMAIN c.hosts[n] |-> HostRecord(n, c.hosts[n][i])]
           ofSpec(r) == [i \in DOMAIN r.values |-> SpecRecord(r, r.values[i])]
           hs == [k \in DOMAIN NameOrder |-> ofHost(NameOrder[k])]
           rs == [k \in DOMAIN c.records |-> ofSpec(c.records[k])]
<1>1. /\ Records(c) = FlattenSeq(hs) \o FlattenSeq(rs)
      /\ HostLists(c) = hs /\ SpecLists(c) = rs
  BY DEF Records, HostLists, SpecLists
<1>2. ASSUME NEW k \in DOMAIN NameOrder PROVE ofHost(NameOrder[k]) \in Seq(Made)
  <2> DEFINE n == NameOrder[k]
             as == c.hosts[n]
  <2>1. n \in Names /\ n \in Seq(Words)  BY ConfigAssumption DEF Names, ToSet
  <2>2. as \in Seq(Seq(Field))  BY <2>1
  <2>3. ASSUME NEW i \in DOMAIN as PROVE HostRecord(n, as[i]) \in Made
    <3>1. HostRecord(n, as[i]) # Error  BY <2>1 DEF StoreBuilds, HostsBuild
    <3>2. HostRecord(n, as[i]) = New(n, AddressType(as[i]), as[i], 0)
      BY <3>1 DEF HostRecord
    <3>3. as[i] \in Seq(Field)  BY <2>2
    <3>4. n \in Seq(Words) /\ 0 \in Nat  BY <2>1
    <3> DEFINE a == as[i]
    <3>5. a \in Seq(Field) /\ New(n, AddressType(a), a, 0) # Error
      BY <3>1, <3>2, <3>3, Zenon
    <3> HIDE DEF n, as, a
    <3>6. New(n, AddressType(a), a, 0) \in Made  BY <3>4, <3>5, NewMakes
    <3>7. QED  BY <3>2, <3>6, Zenon DEF a
  <2> HIDE DEF n, as
  <2>4. [i \in DOMAIN as |-> HostRecord(n, as[i])] \in Seq(Made)
    BY <2>2, <2>3, ListOf
  <2>5. QED  BY <2>4 DEF n, as
<1>3. ASSUME NEW k \in DOMAIN c.records PROVE ofSpec(c.records[k]) \in Seq(Made)
  <2> DEFINE r == c.records[k]
  <2>1. r \in Specs /\ SpecBuilds(r)  BY DEF StoreBuilds
  <2>2. /\ r.name \in Seq(Words) /\ r.values \in Seq(Seq(Field)) /\ r.ttl \in Nat
    BY <2>1 DEF Specs
  <2>3. ASSUME NEW i \in DOMAIN r.values PROVE SpecRecord(r, r.values[i]) \in Made
    <3>1. SpecRecord(r, r.values[i]) # Error  BY <2>1 DEF SpecBuilds
    <3>2. r.values[i] \in Seq(Field)  BY <2>2
    <3>3. QED  BY <3>1, <3>2, <2>2, NewMakes DEF SpecRecord
  <2> DEFINE vs == r.values
             made == [i \in DOMAIN vs |-> SpecRecord(r, vs[i])]
  <2> HIDE DEF r
  <2>4. [i \in DOMAIN r.values |-> SpecRecord(r, r.values[i])] \in Seq(Made)
    <3>1. vs \in Seq(Seq(Field)) /\ \A i \in DOMAIN vs : made[i] \in Made  BY <2>2, <2>3
    <3>2. made = [i \in DOMAIN vs |-> made[i]]  OBVIOUS
    <3> HIDE DEF vs, made
    <3>3. made \in Seq(Made)  BY <3>1, <3>2, ListOf
    <3>4. QED  BY <3>3 DEF vs, made
  <2>5. QED  BY <2>4 DEF r
<1>4. hs \in Seq(Seq(Made)) /\ DOMAIN hs = DOMAIN NameOrder
  <2>1. Len(NameOrder) \in Nat /\ DOMAIN NameOrder = 1..Len(NameOrder)  BY ConfigAssumption
  <2> HIDE DEF ofHost
  <2>2. QED  BY <2>1, <1>2
<1>5. rs \in Seq(Seq(Made)) /\ DOMAIN rs = DOMAIN c.records
  <2>1. Len(c.records) \in Nat /\ DOMAIN c.records = 1..Len(c.records)  OBVIOUS
  <2> HIDE DEF ofSpec
  <2>2. QED  BY <2>1, <1>3
<1> HIDE DEF hs, rs
<1>6. QED  BY <1>1, <1>4, <1>5

\* Every record of the file makes one of the store, for each of its values.
LEMMA StoreMade ==
    ASSUME NEW c, c.hosts \in [Names -> Seq(Seq(Field))], c.records \in Seq(Specs),
           StoreBuilds(c)
    PROVE  /\ Records(c) \in Seq(Made)
           /\ \A i \in DOMAIN c.records : \A j \in DOMAIN c.records[i].values :
                 \E k \in DOMAIN Records(c) :
                    Records(c)[k] = SpecRecord(c.records[i], c.records[i].values[j])
<1> DEFINE hs == HostLists(c)
           rs == SpecLists(c)
<1>1. Records(c) = FlattenSeq(hs) \o FlattenSeq(rs)  BY ListsMade
<1>4. hs \in Seq(Seq(Made))  BY ListsMade
<1>5. rs \in Seq(Seq(Made)) /\ DOMAIN rs = DOMAIN c.records  BY ListsMade
<1> DEFINE h == FlattenSeq(hs)
           r == FlattenSeq(rs)
<1>6. h \in Seq(Made) /\ r \in Seq(Made)
  <2> HIDE DEF hs, rs
  <2>1. QED  BY <1>4, <1>5, FlattenSeqHolds
<1>7. ASSUME NEW i \in DOMAIN c.records, NEW j \in DOMAIN c.records[i].values
      PROVE  \E k \in DOMAIN Records(c) :
                Records(c)[k] = SpecRecord(c.records[i], c.records[i].values[j])
  <2>1. i \in DOMAIN rs /\ j \in DOMAIN rs[i]
        /\ rs[i][j] = SpecRecord(c.records[i], c.records[i].values[j])
    BY DEF SpecLists
  <2>2. PICK k \in DOMAIN r : r[k] = rs[i][j]
    <3> HIDE DEF hs, rs
    <3>1. QED  BY <2>1, <1>5, FlattenSeqHolds
  <2> HIDE DEF h, r, hs, rs
  <2>3. Len(h) + k \in DOMAIN (h \o r) /\ (h \o r)[Len(h) + k] = r[k]
    BY <1>6, ConcatHas
  <2>4. Records(c) = h \o r  BY <1>1 DEF h, r
  <2>5. QED  BY <2>1, <2>2, <2>3, <2>4
<1>8. Records(c) \in Seq(Made)
  <2> HIDE DEF h, r
  <2>1. h \o r \in Seq(Made)  BY <1>6
  <2>2. QED  BY <2>1, <1>1 DEF h, r
<1>9. QED  BY <1>7, <1>8

\* A part of a text is a text.
LEMMA PartsAreTexts ==
    ASSUME NEW text \in Seq(Words), NEW sep
    PROVE  Before(text, sep) \in Seq(Words) /\ After(text, sep) \in Seq(Words)
<1> DEFINE I == {i \in 1..Len(text) : text[i] = sep}
           at == IF I # {} THEN Min(I) ELSE 0
<1>1. At(text, sep) = at  BY DEF At, SelectInSeq
<1>2. Len(text) \in Nat /\ I \in SUBSET (1..Len(text))  OBVIOUS
<1> HIDE DEF I
<1>3. at \in 0..Len(text)  BY <1>2, FoundWithin
<1> HIDE DEF at
<1>4. /\ 1 \in 1..Len(text) + 1 /\ at - 1 \in -1..Len(text)
      /\ at + 1 \in 1..Len(text) + 1 /\ Len(text) \in -1..Len(text)
  BY <1>2, <1>3
<1>5. SubSeq(text, 1, at - 1) \in Seq(Words) /\ SubSeq(text, at + 1, Len(text)) \in Seq(Words)
  BY <1>4, PartIsSeq
<1>6. QED  BY <1>1, <1>5 DEF Before, After

\* What a --record that parses is: a record with one value.
LEMMA FlagIsSpec ==
    ASSUME NEW text \in Seq(Words), ParseRecordFlag(text) # Error,
           ParseRecordFlag(text).name \in Seq(Words)
    PROVE  /\ ParseRecordFlag(text) \in Specs
           /\ ParseRecordFlag(text).name # <<>>
           /\ 1 \in DOMAIN ParseRecordFlag(text).values
<1> DEFINE at == SelectLastInSeq(text, LAMBDA w : w = "#")
           ttl == SubSeq(text, at + 1, Len(text))
           spec == IF at = 0 THEN text ELSE SubSeq(text, 1, at - 1)
           left == Before(spec, "=")
           value == Fields(After(spec, "="))
           typed == Has(left, ":")
           type == Before(left, ":")
           name == LabelsOf(IF typed THEN After(left, ":") ELSE left)
           r == [name |-> name, values |-> <<value>>,
                 type |-> IF typed THEN type[1] ELSE Inferred(value),
                 ttl |-> IF at = 0 THEN 0 ELSE Numeral[ttl[1]]]
<1>1. /\ ParseRecordFlag(text) = r
      /\ at # 0 => ttl # <<>> /\ ttl[1] \in DOMAIN Numeral
      /\ name # <<>> /\ (typed => type # <<>>)
  BY DEF ParseRecordFlag
<1>2. at \in 0..Len(text) /\ Len(text) \in Nat
  <2> DEFINE I == {i \in 1..Len(text) : text[i] = "#"}
  <2>1. at = IF I # {} THEN Max(I) ELSE 0  BY DEF SelectLastInSeq
  <2>2. Len(text) \in Nat /\ I \in SUBSET (1..Len(text))  OBVIOUS
  <2> HIDE DEF I, at
  <2>3. QED  BY <2>1, <2>2, FoundWithin
<1> HIDE DEF at
<1>3. spec \in Seq(Words)
  <2>1. 1 \in 1..Len(text) + 1 /\ at - 1 \in -1..Len(text)  BY <1>2
  <2>2. SubSeq(text, 1, at - 1) \in Seq(Words)  BY <2>1, PartIsSeq
  <2>3. QED  BY <2>2
<1> HIDE DEF spec
<1>4. left \in Seq(Words) /\ After(spec, "=") \in Seq(Words)  BY <1>3, PartsAreTexts
<1>5. value \in Seq(Field)
  <2> DEFINE words == After(spec, "=")
  <2>1. words \in Seq(Words)  BY <1>4
  <2>2. value = [i \in DOMAIN words |-> Plain(words[i])]  BY DEF Fields
  <2> HIDE DEF words, value
  <2>3. ASSUME NEW i \in DOMAIN words PROVE value[i] \in Field
    <3>1. words[i] \in Words  BY <2>1
    <3>2. QED  BY <3>1, <2>2 DEF Plain, Field
  <2>4. value = [i \in DOMAIN words |-> value[i]]  BY <2>2
  <2>5. QED  BY <2>1, <2>3, <2>4, ListOf
<1> HIDE DEF left, value
<1>6. typed => type[1] \in Words
  <2>1. type \in Seq(Words)  BY <1>4, PartsAreTexts
  <2>2. type # <<>> => type[1] \in Words  BY <2>1
  <2>3. QED  BY <2>2, <1>1
<1>7. Inferred(value) \in Words
  <2>1. AddressType(value) \in {"A", "AAAA", Error}  BY DEF AddressType
  <2>2. Inferred(value) \in KnownTypes  BY <2>1 DEF Inferred, KnownTypes
  <2>3. QED  BY <2>2, ValuesAssumption
<1> HIDE DEF typed, type, name, ttl
<1>8. (IF at = 0 THEN 0 ELSE Numeral[ttl[1]]) \in Nat
  BY <1>1, ValuesAssumption
<1>9. name \in Seq(Words) /\ r.name = name  BY <1>1
<1>10. <<value>> \in Seq(Seq(Field)) /\ 1 \in DOMAIN <<value>>  BY <1>5
<1>11. r \in Specs  BY <1>6, <1>7, <1>8, <1>9, <1>10 DEF Specs
<1>12. QED  BY <1>1, <1>9, <1>10, <1>11

\* The flags of a session.
LEMMA FlagsAreSpecs ==
    ASSUME NEW s \in Situations, NEW i \in DOMAIN s.flags.records,
           ParseRecordFlag(s.flags.records[i]) # Error
    PROVE  /\ ParseRecordFlag(s.flags.records[i]) \in Specs
           /\ ParseRecordFlag(s.flags.records[i]).name # <<>>
           /\ 1 \in DOMAIN ParseRecordFlag(s.flags.records[i]).values
<1>1. s.flags.records \in Seq(Seq(Words))  BY CommandsAssumption
<1>2. s.flags.records[i] \in Seq(Words)  BY <1>1
<1>3. ParseRecordFlag(s.flags.records[i]).name \in Seq(Words)  BY CommandsAssumption
<1>4. QED  BY <1>2, <1>3, FlagIsSpec

\* What is built of a file and flags, and that every flag's record is in it.
LEMMA BuiltOf ==
    ASSUME NEW content, NEW s \in Situations, Configures(content, s.flags),
           content.kind = "document" => Decoded(content)
    PROVE  LET c == BuildConfig(content, s.flags)
               given == s.flags.records
           IN  /\ c.hosts \in [Names -> Seq(Seq(Field))] /\ c.records \in Seq(Specs)
               /\ StoreBuilds(c)
               /\ \A i \in DOMAIN given :
                     /\ ParseRecordFlag(given[i]) # Error
                     /\ \E k \in DOMAIN c.records : c.records[k] = ParseRecordFlag(given[i])
<1> DEFINE given == s.flags.records
           f == IF content.kind = "missing" THEN Default ELSE ApplyDefaults(content)
           mine == [i \in DOMAIN given |-> ParseRecordFlag(given[i])]
           c == BuildConfig(content, s.flags)
<1>1. f.hosts \in [Names -> Seq(Seq(Field))] /\ f.records \in Seq(Specs)
  <2>1. CASE content.kind = "missing"
    <3>1. Default.hosts = [n \in Names |-> <<>>] /\ Default.records = <<>>
      BY DEF Default, NoHosts
    <3>2. f = Default  BY <2>1
    <3>3. <<>> \in Seq(Specs) /\ <<>> \in Seq(Seq(Field))  OBVIOUS
    <3> HIDE DEF f
    <3>4. f.hosts \in [Names -> Seq(Seq(Field))]  BY <3>1, <3>2, <3>3
    <3>5. QED  BY <3>1, <3>2, <3>3, <3>4
  <2>2. CASE content.kind # "missing"
    <3>1. Decoded(content)  BY <2>2 DEF Configures, Loads
    <3>2. f.hosts = content.hosts /\ f.records = content.records  BY <2>2, DefaultsOf
    <3>3. QED  BY <3>1, <3>2 DEF Decoded
  <2>3. QED  BY <2>1, <2>2
<1>2. c = ApplyDefaults(Combine(f, s.flags))  BY DEF BuildConfig
<1>3. Combine(f, s.flags).hosts = f.hosts /\ Combine(f, s.flags).records = f.records \o mine
  BY DEF Combine
<1>4. Valid(c) /\ FlagsParse(s.flags)  BY DEF Configures
<1> HIDE DEF f, c
<1>5. c.hosts = f.hosts /\ c.records = f.records \o mine  BY <1>2, <1>3, DefaultsOf
<1>6. given \in Seq(Seq(Words))  BY CommandsAssumption
<1>7. \A i \in DOMAIN given : ParseRecordFlag(given[i]) # Error  BY <1>4 DEF FlagsParse
<1>8. \A i \in DOMAIN given : ParseRecordFlag(given[i]) \in Specs  BY <1>7, FlagsAreSpecs
<1>9. mine \in Seq(Specs) /\ DOMAIN mine = DOMAIN given
      /\ \A i \in DOMAIN given : mine[i] = ParseRecordFlag(given[i])
  <2>1. /\ mine = [i \in DOMAIN given |-> mine[i]] /\ DOMAIN mine = DOMAIN given
        /\ \A i \in DOMAIN given : mine[i] = ParseRecordFlag(given[i])
    OBVIOUS
  <2> HIDE DEF given, mine
  <2>2. QED  BY <2>1, <1>6, <1>8, ListOf
<1> HIDE DEF given, mine
<1>10. c.records \in Seq(Specs)  BY <1>1, <1>5, <1>9, ConcatHas
<1>11. ASSUME NEW i \in DOMAIN given
       PROVE  \E k \in DOMAIN c.records : c.records[k] = ParseRecordFlag(given[i])
  <2> DEFINE k == Len(f.records) + i
  <2>1. k \in DOMAIN (f.records \o mine) /\ (f.records \o mine)[k] = mine[i]
    BY <1>1, <1>9, ConcatHas
  <2>2. QED  BY <2>1, <1>5, <1>9
<1>12. QED  BY <1>1, <1>4, <1>5, <1>7, <1>10, <1>11 DEF Valid, c, given

-----------------------------------------------------------------------------
(* What serves was built from a file that was decoded.                     *)

SessionInv ==
    /\ \E s \in Situations : flags = s.flags /\ lines = s.lines
    /\ outcome = "reading" => lines # None

\* An import has taken over values and names, under types.
ImportedInv ==
    /\ hosts \in [Names -> Seq(Seq(Field))] /\ records \in Seq(Specs)
    /\ section # None => section \in Words

ServedInv ==
    /\ disk.kind = "document" => Decoded(disk)
    /\ stage = "serving" =>
          /\ Configures(served, flags)
          /\ served.kind = "document" => Decoded(served)

SourceInv == TypeOK /\ SessionInv /\ ImportedInv /\ ServedInv

LEMMA SourceStarts == Init => SourceInv
<1> SUFFICES ASSUME Init PROVE SourceInv  OBVIOUS
<1>1. PICK s \in Situations : lines = s.lines /\ disk = s.disk /\ flags = s.flags
  BY DEF Init
<1>2. SessionInv  BY <1>1 DEF SessionInv, Init, ImportInit
<1>3. ImportedInv
  <2>1. hosts = [n \in Names |-> <<>>] /\ records = <<>> /\ section = None
    BY DEF Init, ImportInit, NoHosts
  <2>2. <<>> \in Seq(Specs) /\ <<>> \in Seq(Seq(Field))  OBVIOUS
  <2>3. hosts \in [Names -> Seq(Seq(Field))]  BY <2>1, <2>2
  <2>4. QED  BY <2>1, <2>2, <2>3 DEF ImportedInv
<1>4. disk.kind = "document" => Decoded(disk)  BY <1>1, CommandsAssumption
<1>5. ServedInv  BY <1>4 DEF ServedInv, Init
<1>6. QED  BY <1>2, <1>3, <1>5, TypeInit DEF SourceInv

\* The line that is read next.
LEMMA LineIsSplit == SourceInv /\ Reading => Split(Line)
<1> SUFFICES ASSUME SourceInv, Reading PROVE Split(Line)  OBVIOUS
<1>1. PICK s \in Situations : lines = s.lines  BY DEF SourceInv, SessionInv
<1>2. lines # None  BY DEF SourceInv, SessionInv, Reading
<1>3. lines \in Seq(ToSet(lines)) /\ \A i \in DOMAIN lines : Split(lines[i])
  BY <1>1, <1>2, CommandsAssumption
<1>4. position + 1 \in DOMAIN lines
  <2>1. position \in Nat /\ position < Len(lines)  BY DEF SourceInv, TypeOK, Reading
  <2>2. DOMAIN lines = 1..Len(lines) /\ Len(lines) \in Nat  BY <1>3
  <2>3. QED  BY <2>1, <2>2
<1>5. QED  BY <1>3, <1>4 DEF Line

LEMMA SessionStep == SessionInv /\ [Next]_vars => SessionInv'
<1> SUFFICES ASSUME SessionInv, [Next]_vars PROVE SessionInv'  OBVIOUS
<1>1. flags' = flags
  BY DEF Next, vars, Edit, InitFile, ImportLine, WriteImport, Check, Serve, Reload, Stop, Query
<1>2. lines' = lines /\ (outcome' = "reading" => outcome = "reading")
  <2>1. CASE ImportLine
    BY <2>1 DEF ImportLine, ReadLine, Unreadable, Ignored, Unterminated, Header, UnknownHeader, BadLine,
                AddressEntry, OtherEntry, EndOfFile, ReadOn, Fail
  <2>2. CASE ~ ImportLine
    BY <2>2 DEF Next, vars, import, Edit, InitFile, WriteImport, Check, Serve, Reload, Stop,
                Query
  <2>3. QED  BY <2>1, <2>2
<1>3. QED  BY <1>1, <1>2 DEF SessionInv

LEMMA ImportedStep == SourceInv /\ [Next]_vars => ImportedInv'
<1> SUFFICES ASSUME SourceInv, [Next]_vars PROVE ImportedInv'  OBVIOUS
<1> DEFINE Same == UNCHANGED <<section, hosts, records>>
<1>1. Same => ImportedInv'  BY DEF SourceInv, ImportedInv
<1>2. CASE ImportLine
  <2>1. CASE Unreadable \/ Ignored \/ Unterminated \/ BadLine \/ EndOfFile
    <3>1. Same  BY <2>1 DEF Unreadable, Ignored, Unterminated, BadLine, EndOfFile, Fail
    <3>2. QED  BY <3>1, <1>1
  <2>2. CASE Header
    <3>1. section' = Line.section /\ UNCHANGED <<hosts, records>> /\ Split(Line)
          /\ Line.kind = "header"
      BY <2>2, LineIsSplit DEF Header
    <3>2. Line.section \in Words  BY <3>1 DEF Split
    <3>3. QED  BY <3>1, <3>2 DEF SourceInv, ImportedInv
  <2>3. CASE UnknownHeader
    BY <2>3 DEF UnknownHeader, SourceInv, ImportedInv
  <2>4. CASE AddressEntry
    <3>1. /\ hosts' = [hosts EXCEPT ![Line.name] = Append(@, Line.value)]
          /\ UNCHANGED <<section, records>> /\ Line.value \in Seq(Field)
      BY <2>4, LineIsSplit DEF AddressEntry, Entry, Split
    <3>2. \A n \in Names : Append(hosts[n], Line.value) \in Seq(Seq(Field))
      BY <3>1 DEF SourceInv, ImportedInv
    <3>3. hosts' \in [Names -> Seq(Seq(Field))]
      BY <3>1, <3>2 DEF SourceInv, ImportedInv
    <3>4. QED  BY <3>1, <3>3 DEF SourceInv, ImportedInv
  <2>5. CASE OtherEntry
    <3> DEFINE r == [name |-> Line.name, type |-> section, values |-> <<Line.value>>,
                     ttl |-> 0]
    <3>1. records' = Append(records, r) /\ UNCHANGED <<section, hosts>>
      BY <2>5 DEF OtherEntry
    <3>2. /\ Line.name \in Seq(Words) /\ Line.value \in Seq(Field) /\ section \in Words
      <4>1. Split(Line) /\ Line.kind = "entry" /\ section # None
        BY <2>5, LineIsSplit DEF OtherEntry, Entry
      <4>2. Names \subseteq Seq(Words) /\ <<>> \in Seq(Words)
        BY ConfigAssumption DEF Names, ToSet
      <4>3. QED  BY <4>1, <4>2 DEF Split, SourceInv, ImportedInv
    <3>3. r \in Specs  BY <3>2 DEF Specs
    <3> HIDE DEF r
    <3>4. records' \in Seq(Specs)  BY <3>1, <3>3 DEF SourceInv, ImportedInv
    <3>5. QED  BY <3>1, <3>4 DEF SourceInv, ImportedInv
  <2>6. QED  BY <1>2, <2>1, <2>2, <2>3, <2>4, <2>5 DEF ImportLine, ReadLine
<1>3. CASE ~ ImportLine
  <2>1. Same
    BY <1>3 DEF Next, vars, import, Edit, InitFile, WriteImport, Check, Serve, Reload,
                Stop, Query
  <2>2. QED  BY <2>1, <1>1
<1>4. QED  BY <1>2, <1>3

LEMMA ServedStep == SourceInv /\ [Next]_vars => ServedInv'
<1> SUFFICES ASSUME SourceInv, [Next]_vars PROVE ServedInv'  OBVIOUS
<1>1. flags' = flags
  BY DEF Next, vars, Edit, InitFile, ImportLine, WriteImport, Check, Serve, Reload, Stop, Query
<1>2. CASE Edit \/ InitFile
  <2>1. disk'.kind = "document" => Decoded(disk')
    BY <1>2, CommandsAssumption, SampleIsDecoded DEF Edit, InitFile, Put
  <2>2. UNCHANGED <<stage, served>>  BY <1>2 DEF Edit, InitFile, server
  <2>3. QED  BY <1>1, <2>1, <2>2 DEF SourceInv, ServedInv
<1>3. CASE WriteImport
  <2>1. disk' = Document(Blank, hosts, records) /\ UNCHANGED <<stage, served>>
    BY <1>3 DEF WriteImport, Put, Imported, server
  <2>2. Upstreams(Blank.upstream)  BY DEF Blank, Settings, Upstreams
  <2>3. Decoded(disk')  BY <2>1, <2>2 DEF Document, Decoded, SourceInv, ImportedInv
  <2>4. QED  BY <1>1, <2>1, <2>3 DEF SourceInv, ServedInv
<1>4. CASE Serve
  <2>1. stage' = "serving" => Configures(disk, flags) /\ served' = disk
    BY <1>4, WhatServeNeeds DEF Serve
  <2>2. disk' = disk  BY <1>4 DEF Serve
  <2>3. QED  BY <1>1, <2>1, <2>2 DEF SourceInv, ServedInv
<1>5. CASE Reload
  BY <1>1, <1>5 DEF Reload, SourceInv, ServedInv
<1>6. CASE ImportLine \/ Check \/ Stop \/ Query \/ UNCHANGED vars
  <2>1. UNCHANGED <<disk, served>> /\ stage' \in {stage, "stopped"}
    BY <1>6 DEF ImportLine, Check, Stop, Query, vars, server
  <2>2. QED  BY <1>1, <2>1 DEF SourceInv, ServedInv
<1>7. QED  BY <1>2, <1>3, <1>4, <1>5, <1>6 DEF Next

LEMMA SourceInvariant == Spec => []SourceInv
<1>1. SourceInv /\ [Next]_vars => SourceInv'
  BY TypeStep, SessionStep, ImportedStep, ServedStep DEF SourceInv
<1>2. QED  BY SourceStarts, <1>1, PTL DEF Spec

-----------------------------------------------------------------------------
(* What an import keeps.                                                   *)

LEMMA ThroughSame ==
    ASSUME NEW g, NEW h, NEW s, NEW t, DOMAIN s = DOMAIN t,
           \A i \in DOMAIN t : g[s[i]] = h[t[i]]
    PROVE  Through(g, s) = Through(h, t)
<1>1. [i \in DOMAIN s |-> g[s[i]]] = [i \in DOMAIN t |-> h[t[i]]]  OBVIOUS
<1>2. QED  BY <1>1 DEF Through

LEMMA ThroughEmpty ==
    ASSUME NEW S, NEW s \in Seq(S), NEW g, \A i \in DOMAIN s : g[s[i]] = <<>>
    PROVE  Through(g, s) = <<>>
<1> DEFINE ss == [i \in DOMAIN s |-> g[s[i]]]
<1>0. <<>> \in Seq({})  OBVIOUS
<1>1. \A i \in DOMAIN s : g[s[i]] \in Seq({})  BY <1>0
<1>2. ss \in Seq(Seq({})) /\ DOMAIN ss = DOMAIN s /\ 0 \notin DOMAIN s
      /\ \A i \in DOMAIN ss : ss[i] = <<>>
  <2>1. Len(s) \in Nat /\ DOMAIN s = 1..Len(s)  OBVIOUS
  <2>2. QED  BY <1>1, <2>1
<1> HIDE DEF ss
<1>3. FlattenSeq(ss) = <<>>
  <2>1. 0 \in Nat /\ 0 \notin DOMAIN ss  BY <1>2
  <2>2. QED  BY <1>2, <2>1, FlattenOnly
<1>4. QED  BY <1>3 DEF Through, ss

LEMMA ThroughOne ==
    ASSUME NEW S, NEW V, NEW g \in Maps(S, V), NEW x \in S
    PROVE  Through(g, <<x>>) = g[x]
<1>1. [i \in DOMAIN <<x>> |-> g[<<x>>[i]]] = <<g[x]>>
  <2>1. DOMAIN <<x>> = {1} /\ <<x>>[1] = x  OBVIOUS
  <2>2. QED  BY <2>1
<1>2. g[x] \in Seq(V)  BY DEF Maps
<1>3. FlattenSeq(<<g[x]>>) = g[x]  BY <1>2, FlattenOne
<1>4. QED  BY <1>1, <1>3 DEF Through

\* Addresses are told by their family, the other records have one value.
Families == {"A", "AAAA"}
OfFamily(type) == [v \in Seq(Field) |-> IF AddressType(v) = type THEN <<v>> ELSE <<>>]
Taken ==
    {r \in Specs :
        /\ ParseType(r.type) \notin Families \cup {Error}
        /\ \E v \in Seq(Field) : r.values = <<v>> /\ SpecRecord(r, v) # Error}
OfSpec(type, n) ==
    [r \in Taken |-> IF ParseType(r.type) = type /\ r.name = n THEN <<r.values[1]>> ELSE <<>>]

\* What the import holds for a type and a name.
HeldFor(type, n) ==
    IF type \in Families THEN Through(OfFamily(type), hosts[n])
                         ELSE Through(OfSpec(type, n), records)

LEMMA PicksAreMaps ==
    \A type, n : /\ OfFamily(type) \in Maps(Seq(Field), Seq(Field))
                 /\ OfSpec(type, n) \in Maps(Taken, Seq(Field))
<1> SUFFICES ASSUME NEW type, NEW n
             PROVE  /\ OfFamily(type) \in Maps(Seq(Field), Seq(Field))
                    /\ OfSpec(type, n) \in Maps(Taken, Seq(Field))
  OBVIOUS
<1>1. <<>> \in Seq(Seq(Field)) /\ \A v \in Seq(Field) : <<v>> \in Seq(Seq(Field))
  OBVIOUS
<1>2. OfFamily(type) \in Maps(Seq(Field), Seq(Field))
  BY <1>1 DEF OfFamily, Maps
<1>3. \A r \in Taken : <<r.values[1]>> \in Seq(Seq(Field))
  <2>1. ASSUME NEW r \in Taken PROVE r.values[1] \in Seq(Field)
    <3>1. PICK v \in Seq(Field) : r.values = <<v>>  BY DEF Taken
    <3>2. r.values[1] = v  BY <3>1
    <3>3. QED  BY <3>2
  <2> HIDE DEF Taken
  <2>2. QED  BY <1>1, <2>1
<1>4. OfSpec(type, n) \in Maps(Taken, Seq(Field))
  BY <1>1, <1>3 DEF OfSpec, Maps
<1>5. QED  BY <1>2, <1>4

\* The section is the one that the line read next is in.
Known(s) == s # None /\ ParseType(s) # Error
PlaceInv ==
    /\ position # 0 => lines # None /\ position <= Len(lines)
    /\ section = IF Known(SectionOf(position + 1)) THEN SectionOf(position + 1) ELSE None

KeptInv ==
    /\ records \in Seq(Taken)
    /\ \A n \in Names, type \in KnownTypes : HeldFor(type, n) = EntriesFor(type, n)

-----------------------------------------------------------------------------
(* The section of a line.                                                  *)

LEMMA SectionNext ==
    ASSUME NEW p \in Nat
    PROVE  SectionOf(p + 2) = IF lines[p + 1].kind = "header" THEN lines[p + 1].section
                                                              ELSE SectionOf(p + 1)
<1> DEFINE before == {j \in 1..p : lines[j].kind = "header"}
           headers == {j \in 1..p+1 : lines[j].kind = "header"}
<1>0. p + 1 - 1 = p /\ p + 2 - 1 = p + 1  OBVIOUS
<1>1. /\ SectionOf(p + 1) = IF before = {} THEN None ELSE lines[Max(before)].section
      /\ SectionOf(p + 2) = IF headers = {} THEN None ELSE lines[Max(headers)].section
  <2> DEFINE upTo(i) == {j \in 1..i-1 : lines[j].kind = "header"}
  <2>1. \A i : SectionOf(i) = IF upTo(i) = {} THEN None ELSE lines[Max(upTo(i))].section
    BY Zenon DEF SectionOf
  <2>2. upTo(p + 1) = before /\ upTo(p + 2) = headers  BY <1>0
  <2> HIDE DEF before, headers, upTo
  <2>3. QED  BY <2>1, <2>2, Zenon
<1>2. CASE lines[p + 1].kind = "header"
  <2>1. p + 1 \in headers /\ \A j \in headers : p + 1 >= j /\ j \in Nat  BY <1>2
  <2>2. \A j \in headers : (\A l \in headers : j >= l) => j = p + 1  BY <2>1
  <2>3. Max(headers) = p + 1
    <3> HIDE DEF headers
    <3>1. QED  BY <2>1, <2>2 DEF Max
  <2>4. QED  BY <1>1, <1>2, <2>1, <2>3
<1>3. CASE lines[p + 1].kind # "header"
  <2>1. headers = before  BY <1>3
  <2> HIDE DEF headers, before
  <2>2. QED  BY <1>1, <1>3, <2>1
<1>4. QED  BY <1>2, <1>3

\* A line that is read adds its value to the entries it files under.
LEMMA EntriesNext ==
    ASSUME SourceInv, PlaceInv, Reading, lines' = lines, position' = position + 1
    PROVE  \A type, n : EntriesFor(type, n)' =
              Joined(EntriesFor(type, n),
                     IF Files(position + 1, type, n) THEN <<Line.value>> ELSE <<>>)
<1> SUFFICES ASSUME NEW type, NEW n
             PROVE  EntriesFor(type, n)' =
                      Joined(EntriesFor(type, n),
                             IF Files(position + 1, type, n) THEN <<Line.value>> ELSE <<>>)
  OBVIOUS
<1> DEFINE p == position
           pick(i) == IF Files(i, type, n) THEN <<lines[i].value>> ELSE <<>>
           ss == [i \in 1..p |-> pick(i)]
           tt == [i \in 1..p+1 |-> pick(i)]
<1>1. PICK s \in Situations : lines = s.lines  BY DEF SourceInv, SessionInv
<1>2. lines # None  BY DEF SourceInv, SessionInv, Reading
<1>3. /\ lines \in Seq(ToSet(lines)) /\ \A i \in DOMAIN lines : Split(lines[i])
      /\ p \in Nat /\ p + 1 <= Len(lines)
  <2>1. lines \in Seq(ToSet(lines)) /\ \A i \in DOMAIN lines : Split(lines[i])
    BY <1>1, <1>2, CommandsAssumption
  <2>2. p \in Nat /\ p < Len(lines) /\ Len(lines) \in Nat
    BY <2>1 DEF SourceInv, TypeOK, Reading
  <2>3. QED  BY <2>1, <2>2
<1>4. ASSUME NEW i \in 1..p+1 PROVE pick(i) \in Seq(Seq(Field))
  <2>1. i \in DOMAIN lines  BY <1>3
  <2>2. Split(lines[i])  BY <1>3, <2>1
  <2>3. Files(i, type, n) => lines[i].value \in Seq(Field)  BY <2>2 DEF Files, Split
  <2>4. QED  BY <2>3
<1>5. ss \in Seq(Seq(Seq(Field))) /\ pick(p + 1) \in Seq(Seq(Field))
  <2>1. \A i \in 1..p : i \in 1..p+1  BY <1>3
  <2>2. p + 1 \in 1..p+1  BY <1>3
  <2> HIDE DEF pick
  <2>3. QED  BY <1>3, <1>4, <2>1, <2>2
<1>6. tt = Append(ss, pick(p + 1))
  <2> HIDE DEF pick
  <2>1. Len(ss) = p  BY <1>3
  <2>2. QED  BY <1>3, <2>1
<1>7. EntriesFor(type, n) = FlattenSeq(ss) /\ EntriesFor(type, n)' = FlattenSeq(tt)
  BY DEF EntriesFor, Files, SectionOf
<1>8. FlattenSeq(tt) = Joined(FlattenSeq(ss), pick(p + 1))
  <2> HIDE DEF ss, tt, pick
  <2>1. QED  BY <1>5, <1>6, FlattenAppend DEF Joined
<1>9. QED  BY <1>7, <1>8 DEF Line

\* Nothing joins a list.
LEMMA JoinedNothing ==
    ASSUME SourceInv, KeptInv, NEW n \in Names, NEW type \in KnownTypes
    PROVE  /\ HeldFor(type, n) \in Seq(Seq(Field))
           /\ Joined(HeldFor(type, n), <<>>) = HeldFor(type, n)
<1>1. hosts[n] \in Seq(Seq(Field)) /\ records \in Seq(Taken)
  BY DEF SourceInv, ImportedInv, KeptInv
<1>2. HeldFor(type, n) \in Seq(Seq(Field))
  BY <1>1, PicksAreMaps, ThroughTyped DEF HeldFor
<1>3. QED  BY <1>2, ConcatEmptySeq DEF Joined

-----------------------------------------------------------------------------
(* The section follows the headers.                                        *)

LEMMA PlaceNext ==
    ASSUME SourceInv, Reading, lines' = lines, position' = position + 1
    PROVE  /\ lines # None /\ position' <= Len(lines)
           /\ SectionOf(position + 1)' = IF Line.kind = "header" THEN Line.section
                                                                ELSE SectionOf(position + 1)
<1>1. lines # None  BY DEF SourceInv, SessionInv, Reading
<1>2. lines \in Seq(ToSet(lines))  BY <1>1, CommandsAssumption DEF SourceInv, SessionInv
<1>3. position \in Nat /\ position < Len(lines) /\ Len(lines) \in Nat
  BY <1>2 DEF SourceInv, TypeOK, Reading
<1>4. SectionOf(position + 1)' = SectionOf(position + 2)
  <2>1. position' + 1 = position + 2  BY <1>3
  <2>2. QED  BY <2>1 DEF SectionOf
<1>5. QED  BY <1>1, <1>3, <1>4, SectionNext DEF Line

LEMMA PlaceStarts == Init => PlaceInv
<1> SUFFICES ASSUME Init PROVE PlaceInv  OBVIOUS
<1>1. position = 0 /\ section = None  BY DEF Init, ImportInit
<1>2. {j \in 1..1-1 : lines[j].kind = "header"} = {}  OBVIOUS
<1>3. SectionOf(1) = None  BY <1>2, Zenon DEF SectionOf
<1>4. position + 1 = 1  BY <1>1
<1>5. QED  BY <1>1, <1>3, <1>4 DEF PlaceInv, Known

LEMMA PlaceStep == SourceInv /\ PlaceInv /\ [Next]_vars => PlaceInv'
<1> SUFFICES ASSUME SourceInv, PlaceInv, [Next]_vars PROVE PlaceInv'  OBVIOUS
<1>1. ASSUME UNCHANGED <<lines, position, section>> PROVE PlaceInv'
  BY <1>1 DEF PlaceInv, Known, SectionOf
<1>2. ASSUME Reading, ReadOn,
             section' = IF Line.kind # "header" THEN section
                        ELSE IF Known(Line.section) THEN Line.section ELSE None
      PROVE  PlaceInv'
  <2>1. lines' = lines /\ position' = position + 1  BY <1>2 DEF ReadOn
  <2>2. /\ lines # None /\ position' <= Len(lines)
        /\ SectionOf(position + 1)' = IF Line.kind = "header" THEN Line.section
                                                             ELSE SectionOf(position + 1)
    BY <1>2, <2>1, PlaceNext
  <2>3. QED  BY <1>2, <2>1, <2>2 DEF PlaceInv, Known
<1>3. CASE ImportLine
  <2>1. CASE Unreadable \/ Unterminated \/ BadLine \/ EndOfFile
    <3>1. UNCHANGED <<lines, position, section>>
      BY <2>1 DEF Unreadable, Unterminated, BadLine, EndOfFile, Fail
    <3>2. QED  BY <3>1, <1>1
  <2>2. CASE Ignored \/ AddressEntry \/ OtherEntry
    <3>1. Reading /\ ReadOn /\ section' = section /\ Line.kind # "header"
      BY <2>2 DEF Ignored, AddressEntry, OtherEntry, Entry
    <3>2. QED  BY <3>1, <1>2
  <2>3. CASE Header
    <3>1. Reading /\ ReadOn /\ Line.kind = "header" /\ section' = Line.section
          /\ (Line.section # None => Known(Line.section))
      BY <2>3 DEF Header, Known
    <3>2. QED  BY <3>1, <1>2
  <2>4. CASE UnknownHeader
    <3>1. Reading /\ ReadOn /\ Line.kind = "header" /\ section' = None
          /\ ~ Known(Line.section)
      BY <2>4 DEF UnknownHeader, Known
    <3>2. QED  BY <3>1, <1>2
  <2>5. QED  BY <1>3, <2>1, <2>2, <2>3, <2>4 DEF ImportLine, ReadLine
<1>4. CASE ~ ImportLine
  <2>1. UNCHANGED <<lines, position, section>>
    BY <1>4 DEF Next, vars, import, Edit, InitFile, WriteImport, Check, Serve, Reload,
                Stop, Query
  <2>2. QED  BY <2>1, <1>1
<1>5. QED  BY <1>3, <1>4

-----------------------------------------------------------------------------
(* What is held is what was read.                                          *)

LEMMA KeptStarts == Init => KeptInv
<1> SUFFICES ASSUME Init PROVE KeptInv  OBVIOUS
<1>1. hosts = [n \in Names |-> <<>>] /\ records = <<>> /\ position = 0
  BY DEF Init, ImportInit, NoHosts
<1>2. records \in Seq(Taken)
  <2> HIDE DEF Taken
  <2>1. <<>> \in Seq(Taken)  OBVIOUS
  <2>2. QED  BY <1>1, <2>1
<1>3. ASSUME NEW n \in Names, NEW type \in KnownTypes PROVE HeldFor(type, n) = EntriesFor(type, n)
  <2>1. HeldFor(type, n) = <<>>
    <3>1. hosts[n] = <<>>  BY <1>1
    <3>2. QED  BY <1>1, <3>1, ThroughNone DEF HeldFor
  <2>2. EntriesFor(type, n) = <<>>
    <3> DEFINE read == [i \in 1..0 |-> IF Files(i, type, n) THEN <<lines[i].value>> ELSE <<>>]
    <3>1. EntriesFor(type, n) = FlattenSeq(read)  BY <1>1 DEF EntriesFor
    <3>2. read = <<>>
      <4> HIDE DEF Files
      <4>1. 1..0 = {}  OBVIOUS
      <4>2. QED  BY <4>1
    <3>3. FlattenSeq(<<>>) = <<>>  BY DEF FlattenSeq
    <3> HIDE DEF read
    <3>4. QED  BY <3>1, <3>2, <3>3
  <2>3. QED  BY <2>1, <2>2
<1>4. QED  BY <1>2, <1>3 DEF KeptInv

\* An entry is filed under the section that the import is in.
LEMMA FilesLine ==
    ASSUME PlaceInv, NEW type \in KnownTypes, NEW n
    PROVE  Files(position + 1, type, n) <=>
              /\ Line.kind = "entry" /\ Line.name = n
              /\ section # None /\ ParseType(section) = type
<1>1. type # Error  BY ValuesAssumption
<1>2. QED  BY <1>1 DEF Files, Line, PlaceInv, Known

Read(type, n) == IF Files(position + 1, type, n) THEN <<Line.value>> ELSE <<>>

LEMMA KeptOn ==
    ASSUME SourceInv, PlaceInv, KeptInv, Reading, ReadOn, records' \in Seq(Taken),
           \A n \in Names, type \in KnownTypes :
              HeldFor(type, n)' = Joined(HeldFor(type, n), Read(type, n))
    PROVE  KeptInv'
<1>1. lines' = lines /\ position' = position + 1  BY DEF ReadOn
<1>2. ASSUME NEW n \in Names, NEW type \in KnownTypes
      PROVE  HeldFor(type, n)' = EntriesFor(type, n)'
  <2>1. EntriesFor(type, n)' = Joined(EntriesFor(type, n), Read(type, n))
    BY <1>1, EntriesNext DEF Read
  <2>2. EntriesFor(type, n) = HeldFor(type, n)  BY DEF KeptInv
  <2>3. QED  BY <2>1, <2>2
<1>3. QED  BY <1>2 DEF KeptInv

LEMMA LineAddsNothing ==
    ASSUME SourceInv, PlaceInv, KeptInv, Reading, ReadOn, UNCHANGED <<hosts, records>>,
           Line.kind = "entry" => section = None
    PROVE  KeptInv'
<1>1. ASSUME NEW n \in Names, NEW type \in KnownTypes
      PROVE  HeldFor(type, n)' = Joined(HeldFor(type, n), Read(type, n))
  <2>1. Read(type, n) = <<>>  BY FilesLine DEF Read
  <2>2. HeldFor(type, n)' = HeldFor(type, n)  BY DEF HeldFor
  <2>3. QED  BY <2>1, <2>2, JoinedNothing
<1>2. records' \in Seq(Taken)  BY DEF KeptInv
<1>3. QED  BY <1>1, <1>2, KeptOn

LEMMA AddressIsKept ==
    ASSUME SourceInv, PlaceInv, KeptInv, AddressEntry
    PROVE  KeptInv'
<1> DEFINE v == Line.value
<1>1. /\ Reading /\ ReadOn /\ Line.kind = "entry" /\ section \in Families
      /\ New(Line.name, section, v, 0) # Error
      /\ hosts' = [hosts EXCEPT ![Line.name] = Append(@, v)] /\ records' = records
  BY DEF AddressEntry, Entry, EntryBuilds, Families
<1>2. ParseType(section) = section /\ section # None
  BY <1>1, ValuesAssumption DEF AddressEntry, Entry, Families, ParseType, KnownTypes
<1>3. AddressType(v) = section
  <2>1. Normalise(section, v) # Error  BY <1>1, <1>2 DEF New, Renders
  <2>2. QED  BY <1>1, <2>1 DEF Normalise, Families
<1>4. v \in Seq(Field)  BY <1>1, LineIsSplit DEF Split
<1>5. hosts \in [Names -> Seq(Seq(Field))]  BY DEF SourceInv, ImportedInv
<1> HIDE DEF v
<1>6. ASSUME NEW n \in Names, NEW type \in KnownTypes
      PROVE  HeldFor(type, n)' = Joined(HeldFor(type, n), Read(type, n))
  <2>1. Read(type, n) = IF Line.name = n /\ section = type THEN <<v>> ELSE <<>>
    BY <1>1, <1>2, FilesLine DEF Read, v
  <2>2. CASE type \in Families /\ Line.name = n
    <3>1. hosts'[n] = Append(hosts[n], v) /\ hosts[n] \in Seq(Seq(Field))
      BY <1>1, <1>5, <2>2
    <3>2. OfFamily(type)[v] = Read(type, n)
      BY <1>3, <1>4, <2>1, <2>2 DEF OfFamily
    <3>3. OfFamily(type) \in Maps(Seq(Field), Seq(Field))  BY PicksAreMaps
    <3>4. Through(OfFamily(type), Append(hosts[n], v))
            = Joined(Through(OfFamily(type), hosts[n]), OfFamily(type)[v])
      BY <1>4, <3>1, <3>3, ThroughAppend DEF Joined
    <3>5. QED  BY <2>2, <3>1, <3>2, <3>4 DEF HeldFor
  <2>3. CASE ~ (type \in Families /\ Line.name = n)
    <3>1. Read(type, n) = <<>>  BY <1>1, <2>1, <2>3
    <3>2. HeldFor(type, n)' = HeldFor(type, n)
      <4>1. Line.name # n => hosts'[n] = hosts[n]  BY <1>1, <1>5
      <4>2. QED  BY <1>1, <2>3, <4>1 DEF HeldFor
    <3>3. QED  BY <3>1, <3>2, JoinedNothing
  <2>4. QED  BY <2>2, <2>3
<1>7. records' \in Seq(Taken)  BY <1>1 DEF KeptInv
<1>8. QED  BY <1>1, <1>6, <1>7, KeptOn

LEMMA RecordIsKept ==
    ASSUME SourceInv, PlaceInv, KeptInv, OtherEntry
    PROVE  KeptInv'
<1> DEFINE v == Line.value
           r == [name |-> Line.name, type |-> section, values |-> <<v>>, ttl |-> 0]
<1>1. /\ Reading /\ ReadOn /\ Line.kind = "entry" /\ section \notin Families
      /\ section # None /\ New(Line.name, section, v, 0) # Error
      /\ records' = Append(records, r) /\ hosts' = hosts
  BY DEF OtherEntry, Entry, EntryBuilds, Families
<1>2. ParseType(section) \notin Families \cup {Error}
  <2>1. ParseType(section) # Error  BY <1>1 DEF New
  <2>2. QED  BY <1>1, <2>1 DEF ParseType, Families
<1>3. v \in Seq(Field) /\ Line.name \in Seq(Words) /\ section \in Words
  <2>1. Split(Line)  BY <1>1, LineIsSplit
  <2>2. Names \subseteq Seq(Words) /\ <<>> \in Seq(Words)
    BY ConfigAssumption DEF Names, ToSet
  <2>3. QED  BY <1>1, <2>1, <2>2 DEF Split, SourceInv, ImportedInv
<1>4. r \in Taken
  <2>1. r \in Specs  BY <1>3 DEF Specs
  <2>2. SpecRecord(r, v) # Error  BY <1>1 DEF SpecRecord
  <2>3. QED  BY <1>2, <1>3, <2>1, <2>2 DEF Taken
<1>5. r.name = Line.name /\ r.type = section /\ r.values[1] = v  OBVIOUS
<1> HIDE DEF r, v
<1>6. ASSUME NEW n \in Names, NEW type \in KnownTypes
      PROVE  HeldFor(type, n)' = Joined(HeldFor(type, n), Read(type, n))
  <2>1. Read(type, n) = IF Line.name = n /\ ParseType(section) = type THEN <<v>> ELSE <<>>
    BY <1>1, FilesLine DEF Read, v
  <2>2. CASE type \notin Families
    <3>1. OfSpec(type, n)[r] = Read(type, n)
      <4> HIDE DEF Taken
      <4>1. QED  BY <1>4, <1>5, <2>1 DEF OfSpec
    <3>2. OfSpec(type, n) \in Maps(Taken, Seq(Field))  BY PicksAreMaps
    <3>3. Through(OfSpec(type, n), Append(records, r))
            = Joined(Through(OfSpec(type, n), records), OfSpec(type, n)[r])
      BY <1>4, <3>2, ThroughAppend DEF Joined, KeptInv
    <3>4. QED  BY <1>1, <2>2, <3>1, <3>3 DEF HeldFor
  <2>3. CASE type \in Families
    <3>1. Read(type, n) = <<>>  BY <1>2, <2>1, <2>3
    <3>2. HeldFor(type, n)' = HeldFor(type, n)  BY <1>1, <2>3 DEF HeldFor
    <3>3. QED  BY <3>1, <3>2, JoinedNothing
  <2>4. QED  BY <2>2, <2>3
<1>7. records' \in Seq(Taken)  BY <1>1, <1>4 DEF KeptInv
<1>8. QED  BY <1>1, <1>6, <1>7, KeptOn

LEMMA KeptStep == SourceInv /\ PlaceInv /\ KeptInv /\ [Next]_vars => KeptInv'
<1> SUFFICES ASSUME SourceInv, PlaceInv, KeptInv, [Next]_vars PROVE KeptInv'  OBVIOUS
<1>1. ASSUME UNCHANGED <<lines, position, hosts, records>> PROVE KeptInv'
  <2>1. ASSUME NEW n \in Names, NEW type \in KnownTypes
        PROVE  HeldFor(type, n)' = EntriesFor(type, n)'
    <3>1. HeldFor(type, n)' = HeldFor(type, n)  BY <1>1 DEF HeldFor
    <3>2. EntriesFor(type, n)' = EntriesFor(type, n)
      BY <1>1 DEF EntriesFor, Files, SectionOf
    <3>3. QED  BY <3>1, <3>2 DEF KeptInv
  <2>2. QED  BY <1>1, <2>1 DEF KeptInv
<1>2. CASE ImportLine
  <2>1. CASE Unreadable \/ Unterminated \/ BadLine \/ EndOfFile
    <3>1. UNCHANGED <<lines, position, hosts, records>>
      BY <2>1 DEF Unreadable, Unterminated, BadLine, EndOfFile, Fail
    <3>2. QED  BY <3>1, <1>1
  <2>2. CASE Ignored \/ Header \/ UnknownHeader
    <3>1. /\ Reading /\ ReadOn /\ UNCHANGED <<hosts, records>>
          /\ Line.kind = "entry" => section = None
      BY <2>2 DEF Ignored, Header, UnknownHeader
    <3>2. QED  BY <3>1, LineAddsNothing
  <2>3. CASE AddressEntry  BY <2>3, AddressIsKept
  <2>4. CASE OtherEntry  BY <2>4, RecordIsKept
  <2>5. QED  BY <1>2, <2>1, <2>2, <2>3, <2>4 DEF ImportLine, ReadLine
<1>3. CASE ~ ImportLine
  <2>1. UNCHANGED <<lines, position, hosts, records>>
    BY <1>3 DEF Next, vars, import, Edit, InitFile, WriteImport, Check, Serve, Reload,
                Stop, Query
  <2>2. QED  BY <2>1, <1>1
<1>4. QED  BY <1>2, <1>3

-----------------------------------------------------------------------------
(* What is held is what the imported file loads with.                      *)

Pick(type, n) ==
    [r \in Made |-> IF r.type = type /\ r.name = n THEN <<r.value>> ELSE <<>>]
PickAll(type, n) == [s \in Seq(Made) |-> Through(Pick(type, n), s)]

LEMMA PicksTyped ==
    \A type, n : /\ Pick(type, n) \in Maps(Made, Seq(Field))
                 /\ PickAll(type, n) \in Maps(Seq(Made), Seq(Field))
<1> SUFFICES ASSUME NEW type, NEW n
             PROVE  /\ Pick(type, n) \in Maps(Made, Seq(Field))
                    /\ PickAll(type, n) \in Maps(Seq(Made), Seq(Field))
  OBVIOUS
<1>1. <<>> \in Seq(Seq(Field)) /\ \A v \in Seq(Field) : <<v>> \in Seq(Seq(Field))
  OBVIOUS
<1>2. \A r \in Made : r.value \in Seq(Field)  BY DEF Made, Built
<1> HIDE DEF Made
<1>3. Pick(type, n) \in Maps(Made, Seq(Field))  BY <1>1, <1>2 DEF Pick, Maps
<1>4. \A s \in Seq(Made) : Through(Pick(type, n), s) \in Seq(Seq(Field))
  BY <1>3, ThroughTyped
<1>5. PickAll(type, n) \in Maps(Seq(Made), Seq(Field))  BY <1>4 DEF PickAll, Maps
<1>6. QED  BY <1>3, <1>5

LEMMA ValuesGoThrough ==
    ASSUME NEW store \in Seq(Made), NEW type, NEW n
    PROVE  ValuesFor(store, type, n) = Through(Pick(type, n), store)
<1>1. \A k \in DOMAIN store : store[k] \in Made  OBVIOUS
<1>2. \A k \in DOMAIN store :
         Pick(type, n)[store[k]] = IF store[k].type = type /\ store[k].name = n
                                     THEN <<store[k].value>> ELSE <<>>
  <2> HIDE DEF Made
  <2>1. QED  BY <1>1 DEF Pick
<1>3. [k \in DOMAIN store |-> IF store[k].type = type /\ store[k].name = n
                                THEN <<store[k].value>> ELSE <<>>]
        = [k \in DOMAIN store |-> Pick(type, n)[store[k]]]
  BY <1>2
<1>4. QED  BY <1>3 DEF ValuesFor, Through

LEMMA HostMakes ==
    ASSUME NEW m \in Seq(Words), NEW a \in Seq(Field), HostRecord(m, a) # Error
    PROVE  /\ HostRecord(m, a).name = m /\ HostRecord(m, a).value = a
           /\ HostRecord(m, a).type = AddressType(a) /\ AddressType(a) \in Families
<1>1. /\ AddressType(a) # Error /\ HostRecord(m, a) = New(m, AddressType(a), a, 0)
      /\ New(m, AddressType(a), a, 0) # Error
  BY DEF HostRecord
<1>2. AddressType(a) \in Families  BY <1>1 DEF AddressType, Families
<1>3. ParseType(AddressType(a)) = AddressType(a)
  BY <1>2 DEF Families, ParseType, KnownTypes
<1> DEFINE t == AddressType(a)
<1> HIDE DEF t
<1>4. 0 \in Nat /\ New(m, t, a, 0) # Error  BY <1>1 DEF t
<1>5. /\ New(m, t, a, 0).name = m /\ New(m, t, a, 0).value = a
      /\ New(m, t, a, 0).type = ParseType(t)
  BY <1>4, NewMakes
<1>6. QED  BY <1>1, <1>2, <1>3, <1>5 DEF t

LEMMA SpecMakes ==
    ASSUME NEW r, r.name \in Seq(Words), r.ttl \in Nat, NEW v \in Seq(Field),
           SpecRecord(r, v) # Error
    PROVE  /\ SpecRecord(r, v) \in Made /\ SpecRecord(r, v).name = r.name
           /\ SpecRecord(r, v).type = ParseType(r.type) /\ SpecRecord(r, v).value = v
<1>1. SpecRecord(r, v) \in Made
  <2> DEFINE n == r.name
             t == r.type
             ttl == r.ttl
  <2>1. n \in Seq(Words) /\ ttl \in Nat  OBVIOUS
  <2>2. SpecRecord(r, v) = New(n, t, v, ttl)  BY DEF SpecRecord
  <2>3. New(n, t, v, ttl) # Error  BY <2>2
  <2> HIDE DEF n, t, ttl
  <2>4. New(n, t, v, ttl) \in Made  BY <2>1, <2>3, NewMakes
  <2>5. QED  BY <2>2, <2>4
<1>2. SpecRecord(r, v) = [name |-> r.name, type |-> ParseType(r.type), value |-> v, ttl |-> r.ttl]
  BY DEF SpecRecord, New
<1>3. QED  BY <1>1, <1>2

\* The records of a host are those of its addresses.
LEMMA HostPicked ==
    ASSUME hosts \in [Names -> Seq(Seq(Field))], HostsBuild(hosts),
           NEW m \in Names, NEW n \in Names, NEW type \in KnownTypes,
           NEW list \in Seq(Made), DOMAIN list = DOMAIN hosts[m],
           \A i \in DOMAIN list : list[i] = HostRecord(m, hosts[m][i])
    PROVE  Through(Pick(type, n), list) =
              IF m = n /\ type \in Families THEN Through(OfFamily(type), hosts[n]) ELSE <<>>
<1>1. hosts[m] \in Seq(Seq(Field))  OBVIOUS
<1>2. ASSUME NEW i \in DOMAIN list
      PROVE  /\ list[i].name = m /\ list[i].type = AddressType(hosts[m][i])
             /\ list[i].value = hosts[m][i] /\ list[i].type \in Families
             /\ list[i] \in Made /\ hosts[m][i] \in Seq(Field)
  <2> DEFINE a == hosts[m][i]
  <2>1. a \in Seq(Field)  BY <1>1
  <2>2. HostRecord(m, a) # Error  BY DEF HostsBuild
  <2>3. list[i] = HostRecord(m, a) /\ list[i] \in Made  OBVIOUS
  <2>4. m \in Seq(Words) /\ 0 \in Nat  BY ConfigAssumption DEF Names, ToSet
  <2> HIDE DEF a
  <2>5. /\ HostRecord(m, a).name = m /\ HostRecord(m, a).value = a
        /\ HostRecord(m, a).type = AddressType(a) /\ AddressType(a) \in Families
    BY <2>1, <2>2, <2>4, HostMakes
  <2>6. QED  BY <2>1, <2>3, <2>5 DEF a
<1>3. \A i \in DOMAIN list :
         Pick(type, n)[list[i]] = IF list[i].type = type /\ m = n THEN <<list[i].value>> ELSE <<>>
  <2> HIDE DEF Made
  <2>1. QED  BY <1>2 DEF Pick
<1>4. CASE m = n /\ type \in Families
  <2>1. PICK as : as = hosts[m] /\ DOMAIN list = DOMAIN as  OBVIOUS
  <2>2. ASSUME NEW i \in DOMAIN as PROVE Pick(type, n)[list[i]] = OfFamily(type)[as[i]]
    <3>1. i \in DOMAIN list  BY <2>1
    <3>2. /\ Pick(type, n)[list[i]] = IF list[i].type = type THEN <<list[i].value>> ELSE <<>>
          /\ list[i].type = AddressType(as[i]) /\ list[i].value = as[i]
      <4> HIDE DEF Made
      <4>1. QED  BY <1>2, <1>3, <1>4, <2>1, <3>1
    <3>3. as[i] \in Seq(Field)  BY <1>2, <2>1, <3>1
    <3>4. QED  BY <3>2, <3>3 DEF OfFamily
  <2>3. PICK g, h : g = Pick(type, n) /\ h = OfFamily(type)  OBVIOUS
  <2>4. \A i \in DOMAIN as : g[list[i]] = h[as[i]]  BY <2>2, <2>3
  <2>5. Through(g, list) = Through(h, as)
    <3>1. DOMAIN list = DOMAIN as  BY <2>1
    <3>2. [i \in DOMAIN list |-> g[list[i]]] = [i \in DOMAIN as |-> h[as[i]]]
      BY <2>4, <3>1, Zenon
    <3>3. QED  BY <3>2, Zenon DEF Through
  <2>6. QED  BY <1>4, <2>1, <2>3, <2>5
<1>5. CASE ~ (m = n /\ type \in Families)
  <2>1. \A i \in DOMAIN list : Pick(type, n)[list[i]] = <<>>  BY <1>2, <1>3, <1>5
  <2>2. Through(Pick(type, n), list) = <<>>  BY <2>1, ThroughEmpty
  <2>3. QED  BY <1>5, <2>2
<1>6. QED  BY <1>4, <1>5

LEMMA HostsPicked ==
    ASSUME hosts \in [Names -> Seq(Seq(Field))], HostsBuild(hosts),
           NEW n \in Names, NEW type \in KnownTypes,
           NEW lists, lists \in Seq(Seq(Made)), DOMAIN lists = DOMAIN NameOrder,
           \A k \in DOMAIN NameOrder :
              lists[k] = [i \in DOMAIN hosts[NameOrder[k]] |->
                            HostRecord(NameOrder[k], hosts[NameOrder[k]][i])]
    PROVE  Through(PickAll(type, n), lists) =
              IF type \in Families THEN Through(OfFamily(type), hosts[n]) ELSE <<>>
<1> DEFINE ss == [k \in DOMAIN lists |-> PickAll(type, n)[lists[k]]]
           held == IF type \in Families THEN Through(OfFamily(type), hosts[n]) ELSE <<>>
<1>1. PICK at \in DOMAIN NameOrder : NameOrder[at] = n
  BY DEF Names, ToSet
<1>2. at \in Nat
  <2>1. DOMAIN NameOrder = 1..Len(NameOrder) /\ Len(NameOrder) \in Nat  BY ConfigAssumption
  <2>2. QED  BY <2>1
<1>3. \A k \in DOMAIN NameOrder : NameOrder[k] = n => k = at  BY <1>1, ConfigAssumption
<1>4. ASSUME NEW k \in DOMAIN NameOrder
      PROVE  ss[k] = IF k = at THEN held ELSE <<>>
  <2>1. NameOrder[k] \in Names  BY DEF Names, ToSet
  <2>2. /\ lists[k] \in Seq(Made) /\ DOMAIN lists[k] = DOMAIN hosts[NameOrder[k]]
        /\ \A i \in DOMAIN lists[k] :
              lists[k][i] = HostRecord(NameOrder[k], hosts[NameOrder[k]][i])
    OBVIOUS
  <2>3. Through(Pick(type, n), lists[k]) =
           IF NameOrder[k] = n /\ type \in Families
             THEN Through(OfFamily(type), hosts[n]) ELSE <<>>
    <3> HIDE DEF Made
    <3>1. QED  BY <2>1, <2>2, HostPicked
  <2>4. ss[k] = Through(Pick(type, n), lists[k])
    <3> HIDE DEF Made
    <3>1. QED  BY <2>2 DEF PickAll
  <2>5. QED  BY <1>1, <1>3, <2>3, <2>4
<1>5. ss \in Seq(Seq(Seq(Field))) /\ DOMAIN ss = DOMAIN NameOrder
  <2>1. PickAll(type, n) \in Maps(Seq(Made), Seq(Field))  BY PicksTyped
  <2>2. Len(lists) \in Nat /\ DOMAIN lists = 1..Len(lists)
        /\ \A k \in DOMAIN lists : lists[k] \in Seq(Made)
    OBVIOUS
  <2> HIDE DEF Made
  <2>3. QED  BY <2>1, <2>2 DEF Maps
<1>6. Through(PickAll(type, n), lists) = FlattenSeq(ss)  BY DEF Through
<1> HIDE DEF ss
<1>7. FlattenSeq(ss) = ss[at]
  <2>1. \A k \in DOMAIN ss : k # at => ss[k] = <<>>  BY <1>4, <1>5
  <2>2. FlattenSeq(ss) = IF at \in DOMAIN ss THEN ss[at] ELSE <<>>
    BY <1>2, <1>5, <2>1, FlattenOnly
  <2>3. QED  BY <1>1, <1>5, <2>2
<1>8. QED  BY <1>1, <1>4, <1>6, <1>7

\* So are those of the records.
LEMMA SpecsPicked ==
    ASSUME records \in Seq(Taken), NEW n \in Names, NEW type \in KnownTypes,
           NEW lists, lists \in Seq(Seq(Made)), DOMAIN lists = DOMAIN records,
           \A k \in DOMAIN records :
              lists[k] = [i \in DOMAIN records[k].values |->
                            SpecRecord(records[k], records[k].values[i])]
    PROVE  Through(PickAll(type, n), lists) =
              IF type \in Families THEN <<>> ELSE Through(OfSpec(type, n), records)
<1>1. ASSUME NEW k \in DOMAIN records
      PROVE  PickAll(type, n)[lists[k]] = OfSpec(type, n)[records[k]]
  <2> DEFINE r == records[k]
  <2>1. r \in Taken /\ lists[k] \in Seq(Made)  OBVIOUS
  <2>2. PICK v \in Seq(Field) : r.values = <<v>> /\ SpecRecord(r, v) # Error
    BY <2>1 DEF Taken
  <2>3. lists[k] = <<SpecRecord(r, v)>>
    <3>1. lists[k] = [i \in DOMAIN r.values |-> SpecRecord(r, r.values[i])]  OBVIOUS
    <3>2. DOMAIN r.values = {1} /\ r.values[1] = v  BY <2>2
    <3> HIDE DEF r
    <3>3. [i \in DOMAIN r.values |-> SpecRecord(r, r.values[i])] = <<SpecRecord(r, v)>>
      BY <3>2
    <3>4. QED  BY <3>1, <3>3
  <2> DEFINE x == SpecRecord(r, v)
  <2>4. x \in Made /\ x.name = r.name /\ x.type = ParseType(r.type) /\ x.value = v
    <3>1. r.name \in Seq(Words) /\ r.ttl \in Nat  BY <2>1 DEF Taken, Specs
    <3> HIDE DEF r
    <3>2. SpecRecord(r, v) # Error  BY <2>2
    <3>3. QED  BY <3>1, <3>2, SpecMakes
  <2>5. r.values[1] = v  BY <2>2
  <2> HIDE DEF r, x
  <2>6. Pick(type, n)[x] = OfSpec(type, n)[r]
    <3>1. x \in Made /\ r \in Taken  BY <2>1, <2>4
    <3> HIDE DEF Made, Taken
    <3>2. QED  BY <2>4, <2>5, <3>1 DEF Pick, OfSpec
  <2>7. Through(Pick(type, n), <<x>>) = Pick(type, n)[x]
    <3> HIDE DEF Made
    <3>1. Pick(type, n) \in Maps(Made, Seq(Field))  BY PicksTyped
    <3>2. QED  BY <2>4, <3>1, ThroughOne
  <2>8. PickAll(type, n)[lists[k]] = Through(Pick(type, n), lists[k])
    <3> HIDE DEF Made
    <3>1. QED  BY <2>1 DEF PickAll
  <2>9. QED  BY <2>3, <2>6, <2>7, <2>8 DEF r, x
<1>2. Through(PickAll(type, n), lists) = Through(OfSpec(type, n), records)
  BY <1>1, ThroughSame
<1>3. ASSUME type \in Families PROVE Through(OfSpec(type, n), records) = <<>>
  <2>1. \A r \in Taken : ParseType(r.type) # type  BY <1>3 DEF Taken
  <2> HIDE DEF Taken
  <2>2. \A r \in Taken : OfSpec(type, n)[r] = <<>>  BY <2>1 DEF OfSpec
  <2>3. \A k \in DOMAIN records : OfSpec(type, n)[records[k]] = <<>>  BY <2>2
  <2>4. QED  BY <2>3, ThroughEmpty
<1>4. QED  BY <1>2, <1>3

\* The import keeps every value, and keeps them in order, for every file
\* (legacy.go:52-95).
THEOREM ImportLosesNothing == Spec => []ImportKeepsRecords
<1>1. ASSUME SourceInv, ImportInv, KeptInv PROVE ImportKeepsRecords
  <2> DEFINE c == Imported
             hs == HostLists(c)
             rs == SpecLists(c)
  <2>1. c.hosts = hosts /\ c.records = records  BY DEF Imported, Document
  <2>2. /\ hosts \in [Names -> Seq(Seq(Field))] /\ records \in Seq(Specs)
        /\ HostsBuild(hosts) /\ StoreBuilds(c)
    BY <1>1, <2>1 DEF SourceInv, ImportedInv, ImportInv, HostsInv, RecordsInv, StoreBuilds
  <2>3. /\ Records(c) = FlattenSeq(hs) \o FlattenSeq(rs)
        /\ hs \in Seq(Seq(Made)) /\ DOMAIN hs = DOMAIN NameOrder
        /\ rs \in Seq(Seq(Made)) /\ DOMAIN rs = DOMAIN records
    <3> HIDE DEF c
    <3>1. QED  BY <2>1, <2>2, ListsMade
  <2>4. Records(c) \in Seq(Made)
    <3> HIDE DEF c
    <3>1. QED  BY <2>1, <2>2, StoreMade
  <2>5. /\ \A k \in DOMAIN NameOrder :
              hs[k] = [i \in DOMAIN hosts[NameOrder[k]] |->
                         HostRecord(NameOrder[k], hosts[NameOrder[k]][i])]
        /\ \A k \in DOMAIN records :
              rs[k] = [i \in DOMAIN records[k].values |->
                         SpecRecord(records[k], records[k].values[i])]
    <3> HIDE DEF c
    <3>1. QED  BY <2>1 DEF HostLists, SpecLists
  <2>6. Records(c) = Joined(FlattenSeq(hs), FlattenSeq(rs))  BY <2>3 DEF Joined
  <2>7. ASSUME NEW type \in KnownTypes, NEW n \in Names
        PROVE  ValuesFor(Records(c), type, n) = EntriesFor(type, n)
    <3> DEFINE g == Pick(type, n)
               gs == PickAll(type, n)
    <3>1. /\ g \in Maps(Made, Seq(Field)) /\ gs \in Maps(Seq(Made), Seq(Field))
          /\ \A s \in Seq(Made) : gs[s] = Through(g, s)
      <4> HIDE DEF Made
      <4>1. QED  BY PicksTyped DEF PickAll
    <3>2. ValuesFor(Records(c), type, n) = Through(g, Records(c))
      BY <2>4, ValuesGoThrough
    <3> DEFINE h == FlattenSeq(hs)
               r == FlattenSeq(rs)
    <3>3. h \in Seq(Made) /\ r \in Seq(Made)
      <4> HIDE DEF hs, rs, Made
      <4>1. QED  BY <2>3, FlattenSeqHolds
    <3>4. Through(g, Joined(h, r)) = Joined(Through(g, h), Through(g, r))
      <4> HIDE DEF h, r, g, Made
      <4>1. QED  BY <3>1, <3>3, ThroughJoined
    <3>5. Through(g, h) = Through(gs, hs) /\ Through(g, r) = Through(gs, rs)
      <4> HIDE DEF hs, rs, g, gs, Made
      <4>1. QED  BY <2>3, <3>1, ThroughFlatten
    <3>6. Through(gs, hs) = IF type \in Families THEN HeldFor(type, n) ELSE <<>>
      <4> HIDE DEF hs, Made
      <4>1. QED  BY <2>2, <2>3, <2>5, HostsPicked DEF HeldFor
    <3>7. Through(gs, rs) = IF type \in Families THEN <<>> ELSE HeldFor(type, n)
      <4> HIDE DEF rs, Made
      <4>1. records \in Seq(Taken)  BY <1>1 DEF KeptInv
      <4>2. QED  BY <2>3, <2>5, <4>1, SpecsPicked DEF HeldFor
    <3>8. HeldFor(type, n) \in Seq(Seq(Field)) /\ HeldFor(type, n) = EntriesFor(type, n)
      BY <1>1, JoinedNothing DEF KeptInv
    <3>9. /\ Joined(HeldFor(type, n), <<>>) = HeldFor(type, n)
          /\ Joined(<<>>, HeldFor(type, n)) = HeldFor(type, n)
      BY <3>8, ConcatEmptySeq DEF Joined
    <3> HIDE DEF c, hs, rs, g, gs, h, r
    <3>10. ValuesFor(Records(c), type, n) = Joined(Through(gs, hs), Through(gs, rs))
      BY <2>6, <3>2, <3>4, <3>5 DEF h, r
    <3>11. QED  BY <3>6, <3>7, <3>8, <3>9, <3>10
  <2>8. QED  BY <2>7 DEF ImportKeepsRecords
<1>2. PlaceInv /\ SourceInv /\ KeptInv /\ [Next]_vars => (PlaceInv /\ KeptInv)'
  BY PlaceStep, KeptStep
<1>3. QED
  BY SourceInvariant, ImportStarts, ImportStep, PlaceStarts, KeptStarts, <1>1, <1>2, PTL
     DEF Spec

-----------------------------------------------------------------------------
(* The records in use.                                                     *)

LEMMA RuntimeMade ==
    ASSUME SourceInv, ShownInv, stage = "serving"
    PROVE  /\ runtime.records \in Seq(Made)
           /\ \A i \in DOMAIN flags.records :
                LET r == ParseRecordFlag(flags.records[i])
                IN  /\ r \in Specs /\ r.name # <<>> /\ 1 \in DOMAIN r.values
                    /\ \E k \in DOMAIN runtime.records :
                          /\ runtime.records[k].name = r.name
                          /\ runtime.records[k].type = ParseType(r.type)
                          /\ runtime.records[k].value = r.values[1]
<1> DEFINE c == BuildConfig(served, flags)
<1>1. PICK s \in Situations : flags = s.flags  BY DEF SourceInv, SessionInv
<1>2. Configures(served, flags) /\ (served.kind = "document" => Decoded(served))
  BY DEF SourceInv, ServedInv
<1>3. /\ c.hosts \in [Names -> Seq(Seq(Field))] /\ c.records \in Seq(Specs)
      /\ StoreBuilds(c)
      /\ \A i \in DOMAIN flags.records :
            /\ ParseRecordFlag(flags.records[i]) # Error
            /\ \E k \in DOMAIN c.records : c.records[k] = ParseRecordFlag(flags.records[i])
  BY <1>1, <1>2, BuiltOf
<1>4. runtime.records = Records(c)  BY DEF ShownInv, Runtime, BuildStore
<1> HIDE DEF c
<1>5. /\ Records(c) \in Seq(Made)
      /\ \A i \in DOMAIN c.records : \A j \in DOMAIN c.records[i].values :
            \E k \in DOMAIN Records(c) :
               Records(c)[k] = SpecRecord(c.records[i], c.records[i].values[j])
  BY <1>3, StoreMade
<1>6. ASSUME NEW i \in DOMAIN flags.records
      PROVE  LET r == ParseRecordFlag(flags.records[i])
             IN  /\ r \in Specs /\ r.name # <<>> /\ 1 \in DOMAIN r.values
                 /\ \E k \in DOMAIN runtime.records :
                       /\ runtime.records[k].name = r.name
                       /\ runtime.records[k].type = ParseType(r.type)
                       /\ runtime.records[k].value = r.values[1]
  <2> DEFINE r == ParseRecordFlag(flags.records[i])
  <2>1. r \in Specs /\ r.name # <<>> /\ 1 \in DOMAIN r.values
    BY <1>1, <1>3, FlagsAreSpecs
  <2>2. PICK m \in DOMAIN c.records : c.records[m] = r  BY <1>3
  <2> HIDE DEF r
  <2>3. PICK k \in DOMAIN Records(c) : Records(c)[k] = SpecRecord(r, r.values[1])
    BY <1>5, <2>1, <2>2
  <2> DEFINE v == r.values[1]
  <2>4. r.name \in Seq(Words) /\ v \in Seq(Field) /\ r.ttl \in Nat
    BY <2>1 DEF Specs
  <2>5. New(r.name, r.type, v, r.ttl) # Error
    <3>1. SpecBuilds(r)  BY <1>3, <2>2 DEF StoreBuilds
    <3>2. QED  BY <3>1, <2>1 DEF SpecBuilds, SpecRecord
  <2>6. Records(c)[k] = New(r.name, r.type, v, r.ttl)  BY <2>3 DEF SpecRecord
  <2> HIDE DEF v
  <2>7. /\ Records(c)[k].name = r.name /\ Records(c)[k].type = ParseType(r.type)
        /\ Records(c)[k].value = v
    <3> DEFINE x == New(r.name, r.type, v, r.ttl)
    <3>1. x.name = r.name /\ x.type = ParseType(r.type) /\ x.value = v
      BY <2>4, <2>5, NewMakes
    <3> HIDE DEF x
    <3>2. QED  BY <2>6, <3>1 DEF x
  <2>8. QED  BY <1>4, <2>1, <2>7 DEF r, v
<1>7. QED  BY <1>4, <1>5, <1>6

\* Every record that is served may be written out the way Normalise spells its
\* value, for any configuration: that changes nothing and is accepted
\* (record.go:118-213).
THEOREM SpellingOutIsSafe == Spec => []StrictSpellingIsTheSame
<1>1. ASSUME SourceInv, ShownInv PROVE StrictSpellingIsTheSame
  <2> SUFFICES ASSUME stage = "serving", NEW i \in DOMAIN runtime.records
               PROVE  LET r == runtime.records[i]
                          strict == Normalise(r.type, r.value)
                      IN  /\ Normalise(r.type, strict) = strict
                          /\ New(r.name, r.type, strict, 0) # Error
    BY DEF StrictSpellingIsTheSame
  <2> DEFINE r == runtime.records[i]
             strict == Normalise(r.type, r.value)
             t == r.type
             v == r.value
  <2>1. r \in Made  BY <1>1, RuntimeMade
  <2> HIDE DEF r
  <2>2. /\ r.name \in Seq(Words) /\ r.name # <<>> /\ t \in KnownTypes
        /\ v \in Seq(Field) /\ v # <<>> /\ Renders(t, v)
    BY <2>1 DEF Made, Built
  <2>3. ParseType(t) = t /\ t # Error  BY <2>2, TypeOfType
  <2> HIDE DEF t, v
  <2>4. Normalise(t, v) # Error  BY <2>2 DEF Renders
  <2>5. Normalise(t, Normalise(t, v)) = Normalise(t, v)  BY <2>2, <2>4, NormaliseOnce
  <2>6. Renders(t, Normalise(t, v))  BY <2>2, StrictSpellingRenders
  <2>7. Normalise(t, v) \in Seq(Field) /\ Normalise(t, v) # <<>>
    BY <2>2, <2>4, NormalisedTyped
  <2> DEFINE s == Normalise(t, v)
             made == [name |-> r.name, type |-> t, value |-> s, ttl |-> 0]
  <2>8. made \in Built
    <3> HIDE DEF s
    <3>1. QED  BY <2>2, <2>7 DEF Built, s
  <2>9. New(r.name, t, s, 0) = made  BY <2>2, <2>3, <2>6, <2>7 DEF New
  <2>10. made # Error  BY <2>8, ConfigAssumption
  <2>11. QED  BY <2>5, <2>9, <2>10 DEF r, t, v
<1>2. QED  BY SourceInvariant, ShownStarts, ShownStep, <1>1, PTL DEF Spec

LEMMA FlagWins ==
    ASSUME SourceInv, ShownInv, stage = "serving", NEW i \in DOMAIN flags.records,
           Exact(ParseRecordFlag(flags.records[i]).name)
    PROVE  LET r == ParseRecordFlag(flags.records[i])
               type == ParseType(r.type)
               winners == Lookup(runtime.records, type, r.name)
           IN  /\ \A k \in winners : runtime.records[k].name = r.name
               /\ \E k \in winners : runtime.records[k].value = r.values[1]
               /\ Address(type) => ~ AliasWins(runtime, r.name, type)
               /\ type = "CNAME" /\ runtime.chase =>
                    \A t \in {"A", "AAAA"} : HasExact(runtime, t, r.name)
                                               \/ AliasWins(runtime, r.name, t)
<1> DEFINE r == ParseRecordFlag(flags.records[i])
           type == ParseType(r.type)
           n == r.name
           store == runtime.records
<1>1. store \in Seq(Made)  BY RuntimeMade
<1>2. /\ r \in Specs /\ n # <<>>
      /\ \E k \in DOMAIN store : store[k].name = n /\ store[k].type = type
                                   /\ store[k].value = r.values[1]
  BY RuntimeMade
<1>3. n \in Seq(Words)  BY <1>2 DEF Specs
<1>4. \A j \in DOMAIN n : n[j] # Star  BY DEF Exact
<1> HIDE DEF r, type, n, store
<1>5. StoreOf(Words, store)
  <2>1. DOMAIN store \in SUBSET Nat /\ \A k \in DOMAIN store : store[k] \in Made  BY <1>1
  <2>2. QED  BY <2>1 DEF StoreOf, Made, Built
<1>6. PICK k \in ByType(store, type) : store[k].name = n /\ store[k].value = r.values[1]
  BY <1>2 DEF ByType
<1> DEFINE winners == Lookup(store, type, n)
<1>7. /\ winners = {j \in ByType(store, type) : store[j].name = n}
      /\ LookupScore(store, type, n) = Score(n)
  BY <1>2, <1>3, <1>4, <1>5, <1>6, NamedWins
<1>8. \A t : /\ LookupScore(store, t, n) <= Score(n)
             /\ LookupScore(store, t, n) = Score(n) =>
                  \E j \in ByType(store, t) : store[j].name = n
  BY <1>3, <1>5, NamedScoresMost
<1>9. k \in winners /\ \A j \in winners : store[j].name = n  BY <1>6, <1>7
<1>10. \A t : LookupScore(store, t, n) \in Int /\ Score(n) \in Int
  <2>1. Score(n) \in Nat  BY <1>3, ScorePositive
  <2>2. ASSUME NEW t PROVE LookupScore(store, t, n) \in Int
    <3>1. CASE Best(store, t, n) = {}
      <4>1. LookupScore(store, t, n) = -1  BY <3>1, <1>3, <1>5, BestScores
      <4>2. QED  BY <4>1
    <3>2. CASE Best(store, t, n) # {}
      <4>1. PICK f \in Best(store, t, n) : LookupScore(store, t, n) = Score(store[f].name)
        BY <3>2, <1>3, <1>5, BestScores
      <4>2. Score(store[f].name) \in Nat  BY <1>3, <1>5, MatchesScore DEF Best
      <4>3. QED  BY <4>1, <4>2
    <3>3. QED  BY <3>1, <3>2
  <2>3. QED  BY <2>1, <2>2
<1>11. ASSUME Address(type) PROVE ~ AliasWins(runtime, n, type)
  <2>1. Direct(runtime, n, type) # {}  BY <1>9 DEF Direct, store
  <2>2. ~ (LookupScore(store, "CNAME", n) > LookupScore(store, type, n))
    BY <1>7, <1>8, <1>10
  <2>3. QED  BY <2>1, <2>2 DEF AliasWins, store
<1>12. ASSUME type = "CNAME", runtime.chase, NEW t \in {"A", "AAAA"}
       PROVE  HasExact(runtime, t, n) \/ AliasWins(runtime, n, t)
  <2>1. Chases(runtime, t) /\ Aliases(runtime, n) # {}
    BY <1>9, <1>12 DEF Chases, Address, Aliases, store
  <2>2. CASE LookupScore(store, t, n) = Score(n)
    BY <2>2, <1>8 DEF HasExact, store
  <2>3. CASE LookupScore(store, t, n) # Score(n)
    <3>1. LookupScore(store, "CNAME", n) > LookupScore(store, t, n)
      BY <2>3, <1>7, <1>8, <1>10, <1>12
    <3>2. QED  BY <2>1, <3>1 DEF AliasWins, store
  <2>4. QED  BY <2>2, <2>3
<1>13. QED  BY <1>6, <1>9, <1>11, <1>12 DEF r, type, n, store

\* A --record under an exact name answers for it, before any wildcard of the file
\* of its own type or another, whatever the file, the flags, and the reloads that
\* came before (serve.go:246-247).
THEOREM ExactFlagAnswers == Spec => []ExactRecordFlagWins
<1>1. ASSUME SourceInv, ShownInv PROVE ExactRecordFlagWins
  BY <1>1, FlagWins DEF ExactRecordFlagWins
<1>2. QED  BY SourceInvariant, ShownStarts, ShownStep, <1>1, PTL DEF Spec
-----------------------------------------------------------------------------
(* Texts and their parts.                                                  *)

LEMMA InSet ==
    ASSUME NEW S, NEW s \in Seq(S), NEW x
    PROVE  x \in ToSet(s) <=> \E i \in 1..Len(s) : s[i] = x
BY DEF ToSet

LEMMA ConcatSet ==
    ASSUME NEW S, NEW s \in Seq(S), NEW t \in Seq(S)
    PROVE  ToSet(s \o t) = ToSet(s) \cup ToSet(t)
<1>1. DOMAIN (s \o t) = 1..Len(s) + Len(t) /\ Len(s) \in Nat /\ Len(t) \in Nat
      /\ DOMAIN s = 1..Len(s) /\ DOMAIN t = 1..Len(t)
  OBVIOUS
<1>2. ASSUME NEW i \in DOMAIN (s \o t) PROVE (s \o t)[i] \in ToSet(s) \cup ToSet(t)
  <2>1. CASE i \in DOMAIN s  BY <2>1, ConcatHas DEF ToSet
  <2>2. CASE i \notin DOMAIN s
    <3>1. i - Len(s) \in DOMAIN t /\ (s \o t)[i] = t[i - Len(s)]  BY <1>1, <2>2
    <3>2. QED  BY <3>1 DEF ToSet
  <2>3. QED  BY <2>1, <2>2
<1>3. \A i \in DOMAIN s : s[i] \in ToSet(s \o t)  BY ConcatHas DEF ToSet
<1>4. \A i \in DOMAIN t : t[i] \in ToSet(s \o t)
  <2> DEFINE u == s \o t
  <2>1. \A i \in DOMAIN t : Len(s) + i \in DOMAIN u /\ u[Len(s) + i] = t[i]
    BY ConcatHas
  <2> HIDE DEF u
  <2>2. QED  BY <2>1 DEF ToSet, u
<1>5. QED  BY <1>2, <1>3, <1>4 DEF ToSet

LEMMA PartSet ==
    ASSUME NEW S, NEW s \in Seq(S), NEW m \in 1..Len(s) + 1, NEW n \in -1..Len(s)
    PROVE  ToSet(SubSeq(s, m, n)) \subseteq ToSet(s)
<1> DEFINE t == SubSeq(s, m, n)
<1>1. ASSUME NEW i \in DOMAIN t PROVE t[i] \in ToSet(s)
  <2>1. i + m - 1 \in DOMAIN s /\ t[i] = s[i + m - 1]  OBVIOUS
  <2>2. QED  BY <2>1 DEF ToSet
<1>2. QED  BY <1>1 DEF ToSet

\* Where a text is cut.
LEMMA AtIs ==
    ASSUME NEW S, NEW text \in Seq(S), NEW sep
    PROVE  /\ At(text, sep) \in 0..Len(text)
           /\ At(text, sep) # 0 => text[At(text, sep)] = sep
           /\ \A i \in 1..Len(text) :
                 text[i] = sep => At(text, sep) # 0 /\ At(text, sep) <= i
           /\ Has(text, sep) <=> sep \in ToSet(text)
<1> DEFINE I == {i \in 1..Len(text) : text[i] = sep}
           at == IF I # {} THEN Min(I) ELSE 0
<1>1. At(text, sep) = at  BY DEF At, SelectInSeq
<1>2. I \in SUBSET Nat /\ Len(text) \in Nat  OBVIOUS
<1>3. \A i : i \in I <=> i \in 1..Len(text) /\ text[i] = sep  OBVIOUS
<1> HIDE DEF I
<1>4. I # {} => at \in I /\ \A i \in I : at <= i
  <2> SUFFICES ASSUME I # {} PROVE at \in I /\ \A i \in I : at <= i  OBVIOUS
  <2>1. \E n \in I : \A m \in I : n <= m  BY <1>2, Least
  <2>2. QED  BY <2>1 DEF Min
<1>5. I = {} => at = 0  OBVIOUS
<1> HIDE DEF at
<1>6. Has(text, sep) <=> I # {}
  <2>1. I # {} => at # 0  BY <1>3, <1>4
  <2>2. QED  BY <2>1, <1>1, <1>5 DEF Has
<1>7. sep \in ToSet(text) <=> I # {}  BY <1>3, InSet
<1>8. at \in 0..Len(text)  BY <1>2, <1>3, <1>4, <1>5
<1>9. QED  BY <1>1, <1>3, <1>4, <1>5, <1>6, <1>7, <1>8

\* A text that is cut at a separator has the parts before and after it.
LEMMA CutParts ==
    ASSUME NEW S, NEW text \in Seq(S), NEW sep
    PROVE  /\ Before(text, sep) \in Seq(S) /\ After(text, sep) \in Seq(S)
           /\ ToSet(Before(text, sep)) \subseteq ToSet(text) \ {sep}
           /\ ToSet(After(text, sep)) \subseteq ToSet(text)
<1> DEFINE at == At(text, sep)
           b == SubSeq(text, 1, at - 1)
<1>1. /\ at \in 0..Len(text) /\ Len(text) \in Nat
      /\ \A i \in 1..Len(text) : text[i] = sep => at # 0 /\ at <= i
  BY AtIs
<1>2. Before(text, sep) = b /\ After(text, sep) = SubSeq(text, at + 1, Len(text))
  BY DEF Before, After
<1> HIDE DEF at
<1>3. /\ 1 \in 1..Len(text) + 1 /\ at - 1 \in -1..Len(text)
      /\ at + 1 \in 1..Len(text) + 1 /\ Len(text) \in -1..Len(text)
  BY <1>1
<1>4. b \in Seq(S) /\ SubSeq(text, at + 1, Len(text)) \in Seq(S)  BY <1>3, PartIsSeq
<1>5. ToSet(b) \subseteq ToSet(text) /\ ToSet(SubSeq(text, at + 1, Len(text))) \subseteq ToSet(text)
  BY <1>3, PartSet
<1>6. sep \notin ToSet(b)
  <2>1. ASSUME NEW i \in 1..Len(b) PROVE b[i] # sep
    <3>1. i \in 1..Len(text) /\ i < at /\ b[i] = text[i]  BY <1>1
    <3>2. QED  BY <3>1, <1>1
  <2> HIDE DEF b
  <2>2. QED  BY <2>1, <1>4, InSet
<1>7. QED  BY <1>2, <1>4, <1>5, <1>6

\* What is put together with a separator is cut there again.
LEMMA CutJoined ==
    ASSUME NEW S, NEW a \in Seq(S), NEW b \in Seq(S), NEW sep \in S, sep \notin ToSet(a)
    PROVE  LET text == a \o <<sep>> \o b
           IN  /\ Has(text, sep) /\ Before(text, sep) = a /\ After(text, sep) = b
<1> DEFINE text == a \o <<sep>> \o b
           n == Len(a) + 1
<1>1. /\ text \in Seq(S) /\ Len(text) = n + Len(b) /\ n \in Nat /\ n >= 1
      /\ Len(a) \in Nat /\ Len(b) \in Nat
  OBVIOUS
<1>2. text[n] = sep /\ \A i \in 1..Len(a) : text[i] = a[i]  OBVIOUS
<1>3. \A i \in 1..Len(b) : text[n + i] = b[i]  OBVIOUS
<1>4. \A i \in 1..Len(a) : a[i] # sep  BY InSet
<1> HIDE DEF text
<1>5. At(text, sep) = n
  <2>1. /\ At(text, sep) \in 0..Len(text)
        /\ At(text, sep) # 0 => text[At(text, sep)] = sep
        /\ \A i \in 1..Len(text) : text[i] = sep => At(text, sep) # 0 /\ At(text, sep) <= i
    BY <1>1, AtIs
  <2>2. n \in 1..Len(text)  BY <1>1
  <2>3. At(text, sep) # 0 /\ At(text, sep) <= n  BY <2>1, <2>2, <1>2
  <2>4. ~ (At(text, sep) \in 1..Len(a))  BY <2>1, <2>3, <1>2, <1>4
  <2>5. QED  BY <2>1, <2>3, <2>4, <1>1
<1>6. SubSeq(text, 1, n - 1) = a
  <2> DEFINE l == SubSeq(text, 1, n - 1)
  <2>1. l \in Seq(S) /\ Len(l) = Len(a) /\ \A i \in 1..Len(a) : l[i] = text[i]
    BY <1>1
  <2> HIDE DEF l
  <2>2. QED  BY <2>1, <1>2 DEF l
<1>7. SubSeq(text, n + 1, Len(text)) = b
  <2> DEFINE r == SubSeq(text, n + 1, Len(text))
  <2>1. r \in Seq(S) /\ Len(r) = Len(b) /\ \A i \in 1..Len(b) : r[i] = text[n + i]
    BY <1>1
  <2> HIDE DEF r
  <2>2. QED  BY <2>1, <1>3 DEF r
<1>8. Has(text, sep) /\ Before(text, sep) = a /\ After(text, sep) = b
  BY <1>1, <1>5, <1>6, <1>7 DEF Has, Before, After
<1>9. QED  BY <1>8 DEF text

-----------------------------------------------------------------------------
(* Upstreams.                                                              *)

\* A text without the marks of a scheme, a name or a protocol.
Unmarked(text) == text \in Seq(Words) /\ ToSet(text) \cap {"#", "://"} = {}

LEMMA Marks ==
    /\ \A w \in {":", "://", "#", "[", "]", "53", "853"} : w \in Words
    /\ \A w \in DOMAIN IPv4 \cup DOMAIN IPv6 : w \in Words /\ w # "#" /\ w # "://"
BY ValuesAssumption, AddressesAssumption DEF Separators

LEMMA OneWord ==
    ASSUME NEW w \in Words PROVE <<w>> \in Seq(Words) /\ ToSet(<<w>>) = {w}
BY DEF ToSet

LEMMA UnmarkedWord ==
    ASSUME NEW w \in Words, w # "#", w # "://" PROVE Unmarked(<<w>>)
BY OneWord DEF Unmarked

LEMMA UnmarkedConcat ==
    ASSUME NEW s, Unmarked(s), NEW t, Unmarked(t) PROVE Unmarked(s \o t)
<1>1. s \in Seq(Words) /\ t \in Seq(Words)  BY DEF Unmarked
<1>2. s \o t \in Seq(Words) /\ ToSet(s \o t) = ToSet(s) \cup ToSet(t)  BY <1>1, ConcatSet
<1>3. QED  BY <1>2 DEF Unmarked

LEMMA UnmarkedPart ==
    ASSUME NEW s, Unmarked(s), NEW t \in Seq(Words), ToSet(t) \subseteq ToSet(s)
    PROVE  Unmarked(t)
BY DEF Unmarked

LEMMA JoinUnmarked ==
    ASSUME NEW host, Unmarked(host), NEW port, Unmarked(port)
    PROVE  Unmarked(Join(host, port))
<1>1. Unmarked(<<"[">>) /\ Unmarked(<<"]">>) /\ Unmarked(<<":">>)
  BY Marks, UnmarkedWord
<1>2. <<"]", ":">> = <<"]">> \o <<":">>  OBVIOUS
<1>3. Unmarked(<<"]", ":">>)  BY <1>1, <1>2, UnmarkedConcat
<1>4. Unmarked(<<"[">> \o host \o <<"]", ":">> \o port)
  BY <1>1, <1>3, UnmarkedConcat
<1>5. Unmarked(host \o <<":">> \o port)  BY <1>1, UnmarkedConcat
<1>6. QED  BY <1>4, <1>5 DEF Join

LEMMA DialUnmarked ==
    ASSUME NEW spec, Unmarked(spec), NEW port, Unmarked(port), Dial(spec, port) # Error
    PROVE  Unmarked(Dial(spec, port))
<1>1. CASE HostPort(spec)  BY <1>1 DEF Dial
<1>2. CASE ~ HostPort(spec) /\ IsIP(spec)
  <2> DEFINE w == IF spec[1] \in DOMAIN IPv4 THEN IPv4[spec[1]] ELSE IPv6[spec[1]]
  <2>1. w \in DOMAIN IPv4 \cup DOMAIN IPv6
    BY <1>2, ValuesAssumption DEF IsIP
  <2>2. IPString(spec) = <<w>>  BY DEF IPString
  <2> HIDE DEF w
  <2>3. Unmarked(IPString(spec))  BY <2>1, <2>2, Marks, UnmarkedWord
  <2>4. Dial(spec, port) = Join(IPString(spec), port)  BY <1>2 DEF Dial
  <2>5. QED  BY <2>3, <2>4, JoinUnmarked
<1>3. CASE ~ HostPort(spec) /\ ~ IsIP(spec)
  <2>1. Dial(spec, port) = Join(spec, port)  BY <1>3 DEF Dial
  <2>2. QED  BY <2>1, JoinUnmarked
<1>4. QED  BY <1>1, <1>2, <1>3

LEMMA HostIsText ==
    ASSUME NEW addr \in Seq(Words) PROVE Host(addr) \in Seq(Words)
<1> DEFINE I == {i \in 1..Len(addr) : addr[i] = ":"}
           at == IF I # {} THEN Max(I) ELSE 0
           h == SubSeq(addr, 1, at - 1)
<1>1. PortColon(addr) = at  BY DEF PortColon, SelectLastInSeq
<1>2. I \in SUBSET (1..Len(addr)) /\ Len(addr) \in Nat  OBVIOUS
<1> HIDE DEF I
<1>3. at \in 0..Len(addr)  BY <1>2, FoundWithin
<1> HIDE DEF at
<1>4. 1 \in 1..Len(addr) + 1 /\ at - 1 \in -1..Len(addr)  BY <1>2, <1>3
<1>5. h \in Seq(Words)  BY <1>4, PartIsSeq
<1>6. Host(addr) = IF h # <<>> /\ h[1] = "[" THEN SubSeq(h, 2, Len(h) - 1) ELSE h
  BY <1>1 DEF Host
<1> HIDE DEF h
<1>7. h # <<>> => SubSeq(h, 2, Len(h) - 1) \in Seq(Words)
  <2> SUFFICES ASSUME h # <<>> PROVE SubSeq(h, 2, Len(h) - 1) \in Seq(Words)  OBVIOUS
  <2>1. Len(h) \in Nat \ {0}  BY <1>5
  <2>2. 2 \in 1..Len(h) + 1 /\ Len(h) - 1 \in -1..Len(h)  BY <2>1
  <2>3. QED  BY <1>5, <2>2, PartIsSeq
<1>8. QED  BY <1>5, <1>6, <1>7

\* What ParseServer makes of a text.
Parsed(srv) ==
    /\ srv = [addr |-> srv.addr, net |-> srv.net, tlsName |-> srv.tlsName]
    /\ Unmarked(srv.addr) /\ srv.addr # Error /\ srv.net \in {"udp", "tcp", "tcp-tls"}
    /\ srv.tlsName \in Seq(Words) /\ TLSName(srv.net, srv.addr, srv.tlsName) = srv.tlsName

LEMMA RestHasNoScheme ==
    ASSUME NEW text \in Texts, Has(text, "://")
    PROVE  "://" \notin ToSet(After(text, "://"))
<1> DEFINE at == At(text, "://")
           r == SubSeq(text, at + 1, Len(text))
<1>1. text \in Seq(Words)  BY DEF Texts
<1>2. at \in 0..Len(text) /\ at # 0 /\ text[at] = "://" /\ Len(text) \in Nat
  BY <1>1, AtIs DEF Has
<1>3. After(text, "://") = r  BY DEF After
<1> HIDE DEF at
<1>4. ASSUME NEW i \in DOMAIN r PROVE r[i] # "://"
  <2>1. at + i \in DOMAIN text /\ at \in DOMAIN text /\ at + i # at /\ r[i] = text[at + i]
    BY <1>1, <1>2
  <2>2. QED  BY <1>2, <2>1 DEF Texts
<1>5. QED  BY <1>3, <1>4 DEF ToSet

LEMMA NameIsSettled ==
    ASSUME NEW net, NEW addr \in Seq(Words), NEW name \in Seq(Words)
    PROVE  /\ TLSName(net, addr, name) \in Seq(Words)
           /\ TLSName(net, addr, TLSName(net, addr, name)) = TLSName(net, addr, name)
BY HostIsText DEF TLSName

LEMMA URLParsed ==
    ASSUME NEW text \in Texts, Has(text, "://"), ParseURL(text) # Error
    PROVE  Parsed(ParseURL(text))
<1> DEFINE net == Transport(Before(text, "://"))
           rest == After(text, "://")
           name == IF Has(rest, "#") THEN After(rest, "#") ELSE <<>>
           spec == IF Has(rest, "#") THEN Before(rest, "#") ELSE rest
           port == IF net = "tcp-tls" THEN <<"853">> ELSE <<"53">>
           addr == Dial(spec, port)
           srv == [addr |-> addr, net |-> net, tlsName |-> TLSName(net, addr, name)]
<1>1. net # Error /\ addr # Error /\ ParseURL(text) = srv  BY DEF ParseURL
<1>2. net \in {"udp", "tcp", "tcp-tls"}  BY <1>1 DEF Transport
<1>3. rest \in Seq(Words) /\ "://" \notin ToSet(rest)
  BY RestHasNoScheme, CutParts DEF Texts
<1>4. Unmarked(port)  BY Marks, UnmarkedWord
<1> HIDE DEF net, rest, port
<1>5. Unmarked(spec) /\ name \in Seq(Words)
  <2>1. CASE Has(rest, "#")
    <3>1. /\ Before(rest, "#") \in Seq(Words) /\ After(rest, "#") \in Seq(Words)
          /\ ToSet(Before(rest, "#")) \subseteq ToSet(rest) \ {"#"}
      BY <1>3, CutParts
    <3>2. QED  BY <2>1, <3>1, <1>3 DEF Unmarked
  <2>2. CASE ~ Has(rest, "#")
    <3>1. "#" \notin ToSet(rest)  BY <2>2, <1>3, AtIs
    <3>2. QED  BY <2>2, <3>1, <1>3 DEF Unmarked
  <2>3. QED  BY <2>1, <2>2
<1> HIDE DEF spec, name
<1>6. Unmarked(addr)  BY <1>1, <1>4, <1>5, DialUnmarked
<1> HIDE DEF addr
<1>7. addr \in Seq(Words)  BY <1>6 DEF Unmarked
<1> DEFINE tls == TLSName(net, addr, name)
<1>8. tls \in Seq(Words) /\ TLSName(net, addr, tls) = tls  BY <1>5, <1>7, NameIsSettled
<1> HIDE DEF tls
<1>9. srv = [addr |-> addr, net |-> net, tlsName |-> tls]  BY DEF tls
<1> HIDE DEF srv
<1>10. QED  BY <1>1, <1>2, <1>6, <1>8, <1>9 DEF Parsed

LEMMA LegacyParsed ==
    ASSUME NEW text \in Seq(Words), ~ Has(text, "://"), ParseLegacy(text) # Error
    PROVE  Parsed(ParseLegacy(text))
<1> DEFINE host == Before(text, "#")
           rest == After(text, "#")
           port == IF Has(rest, "#") THEN Before(rest, "#") ELSE rest
           protocol == IF Has(rest, "#") THEN After(rest, "#") ELSE <<"udp">>
           addr == IF port = <<>> THEN Dial(host, <<"53">>) ELSE Dial(Join(host, port), port)
           srv == [addr |-> addr, net |-> protocol[1], tlsName |-> <<>>]
<1>1. addr # Error /\ protocol \in {<<"udp">>, <<"tcp">>} /\ ParseLegacy(text) = srv
  BY DEF ParseLegacy
<1>2. protocol[1] \in {"udp", "tcp"}  BY <1>1
<1>3. "://" \notin ToSet(text)  BY AtIs
<1>4. /\ host \in Seq(Words) /\ rest \in Seq(Words)
      /\ ToSet(host) \subseteq ToSet(text) \ {"#"} /\ ToSet(rest) \subseteq ToSet(text)
  BY CutParts
<1>5. Unmarked(host)  BY <1>3, <1>4 DEF Unmarked
<1> HIDE DEF host, rest
<1>6. Unmarked(port)
  <2>1. CASE Has(rest, "#")
    <3>1. /\ Before(rest, "#") \in Seq(Words)
          /\ ToSet(Before(rest, "#")) \subseteq ToSet(rest) \ {"#"}
      BY <1>4, CutParts
    <3>2. QED  BY <2>1, <3>1, <1>3, <1>4 DEF Unmarked
  <2>2. CASE ~ Has(rest, "#")
    <3>1. "#" \notin ToSet(rest)  BY <2>2, <1>4, AtIs
    <3>2. QED  BY <2>2, <3>1, <1>3, <1>4 DEF Unmarked
  <2>3. QED  BY <2>1, <2>2
<1> HIDE DEF port, protocol
<1>7. Unmarked(<<"53">>)  BY Marks, UnmarkedWord
<1>8. Unmarked(addr)
  <2>1. Unmarked(Join(host, port))  BY <1>5, <1>6, JoinUnmarked
  <2>2. CASE port = <<>>  BY <2>2, <1>1, <1>5, <1>7, DialUnmarked
  <2>3. CASE port # <<>>  BY <2>3, <2>1, <1>1, <1>6, DialUnmarked
  <2>4. QED  BY <2>2, <2>3
<1> HIDE DEF addr
<1> DEFINE net == protocol[1]
<1>9. net # "tcp-tls" /\ <<>> \in Seq(Words)  BY <1>2
<1>10. TLSName(net, addr, <<>>) = <<>>  BY <1>9 DEF TLSName
<1>11. srv = [addr |-> addr, net |-> net, tlsName |-> <<>>]  OBVIOUS
<1>12. net \in {"udp", "tcp", "tcp-tls"}  BY <1>2
<1> HIDE DEF srv, net
<1>13. QED  BY <1>1, <1>8, <1>9, <1>10, <1>11, <1>12 DEF Parsed

LEMMA ServerParsed ==
    ASSUME NEW text \in Texts, ParseServer(text) # Error
    PROVE  Parsed(ParseServer(text))
<1>1. text \in Seq(Words)  BY DEF Texts
<1>2. CASE Has(text, "://")  BY <1>2, URLParsed DEF ParseServer
<1>3. CASE ~ Has(text, "://") /\ Has(text, "#")
  BY <1>1, <1>3, LegacyParsed DEF ParseServer
<1>4. CASE ~ Has(text, "://") /\ ~ Has(text, "#")
  <2>1. Unmarked(text)  BY <1>1, <1>4, AtIs DEF Unmarked
  <2>2. Unmarked(<<"53">>)  BY Marks, UnmarkedWord
  <2> DEFINE addr == Dial(text, <<"53">>)
  <2>3. addr # Error /\ ParseServer(text) = [addr |-> addr, net |-> "udp", tlsName |-> <<>>]
    BY <1>4 DEF ParseServer, ParsePlain
  <2>4. Unmarked(addr)  BY <2>1, <2>2, <2>3, DialUnmarked
  <2> HIDE DEF addr
  <2>5. TLSName("udp", addr, <<>>) = <<>> /\ <<>> \in Seq(Words)  BY DEF TLSName
  <2>6. QED  BY <2>3, <2>4, <2>5 DEF Parsed
<1>5. QED  BY <1>2, <1>3, <1>4

\* A scheme, and what follows it.
LEMMA SchemeCut ==
    ASSUME NEW scheme, scheme # "://", NEW rest, NEW S, rest \in Seq(S)
    PROVE  LET text == <<scheme, "://">> \o rest
           IN  /\ Has(text, "://") /\ Before(text, "://") = <<scheme>>
               /\ After(text, "://") = rest
<1> DEFINE T == S \cup {scheme, "://"}
           p == <<scheme, "://">>
           text == p \o rest
<1>1. p \in Seq(T) /\ Len(p) = 2 /\ p[1] = scheme /\ p[2] = "://"  OBVIOUS
<1>2. rest \in Seq(T) /\ Len(rest) \in Nat
  <2>1. S \subseteq T  OBVIOUS
  <2> HIDE DEF T
  <2>2. QED  BY <2>1, SeqMonotonic
<1> HIDE DEF T, p
<1>3. /\ text \in Seq(T) /\ Len(text) = 2 + Len(rest)
      /\ \A i \in DOMAIN p : text[i] = p[i]
  BY <1>1, <1>2, ConcatHas
<1>4. \A i \in DOMAIN rest : text[2 + i] = rest[i]
  <2>1. p \in Seq(T) /\ rest \in Seq(T)  BY <1>1, <1>2
  <2>2. ASSUME NEW i \in DOMAIN rest PROVE text[Len(p) + i] = rest[i]
    BY <2>1, ConcatHas
  <2> HIDE DEF text
  <2>3. QED  BY <1>1, <2>2
<1>5. text[1] = scheme /\ text[2] = "://"
  <2>1. 1 \in DOMAIN p /\ 2 \in DOMAIN p  BY <1>1
  <2>2. QED  BY <2>1, <1>1, <1>3
<1> HIDE DEF text
<1>6. At(text, "://") = 2
  <2>1. 1 \in 1..Len(text) /\ 2 \in 1..Len(text)  BY <1>2, <1>3
  <2>2. /\ At(text, "://") # 0 /\ At(text, "://") <= 2 /\ At(text, "://") \in 0..Len(text)
        /\ text[At(text, "://")] = "://"
    BY <1>3, <1>5, <2>1, AtIs
  <2>3. At(text, "://") # 1  BY <1>5, <2>2
  <2>4. QED  BY <2>2, <2>3
<1>7. SubSeq(text, 1, 1) = <<scheme>>
  <2> DEFINE l == SubSeq(text, 1, 1)
             m == <<scheme>>
  <2>1. l \in Seq(T) /\ Len(l) = 1 /\ l[1] = scheme  BY <1>2, <1>3, <1>5
  <2>2. m \in Seq(T) /\ Len(m) = 1 /\ m[1] = scheme  BY <2>1
  <2> HIDE DEF l, m
  <2>3. l = m  BY <2>1, <2>2, SeqEqual
  <2>4. QED  BY <2>3 DEF l, m
<1>8. SubSeq(text, 3, Len(text)) = rest
  <2> DEFINE t == SubSeq(text, 3, Len(text))
  <2>1. t \in Seq(T) /\ Len(t) = Len(rest) /\ \A i \in 1..Len(rest) : t[i] = text[2 + i]
    BY <1>2, <1>3
  <2> HIDE DEF t
  <2>2. \A i \in 1..Len(rest) : t[i] = rest[i]  BY <1>2, <1>4, <2>1
  <2>3. t = rest  BY <1>2, <2>1, <2>2, SeqEqual
  <2>4. QED  BY <2>3 DEF t
<1>9. Has(text, "://") /\ Before(text, "://") = <<scheme>> /\ After(text, "://") = rest
  BY <1>6, <1>7, <1>8 DEF Has, Before, After
<1>10. QED  BY <1>9 DEF text, p

\* A server is the one that its name means.
LEMMA NameMeansServer ==
    ASSUME NEW srv, Parsed(srv), HostPort(srv.addr)
    PROVE  ParseServer(String(srv)) =
             [srv EXCEPT !.tlsName = IF srv.net = "tcp-tls" THEN @ ELSE <<>>]
<1> DEFINE addr == srv.addr
           net == srv.net
           name == srv.tlsName
           back == [srv EXCEPT !.tlsName = IF srv.net = "tcp-tls" THEN @ ELSE <<>>]
<1>1. /\ srv = [addr |-> addr, net |-> net, tlsName |-> name]
      /\ addr \in Seq(Words) /\ "#" \notin ToSet(addr) /\ "://" \notin ToSet(addr)
      /\ net \in {"udp", "tcp", "tcp-tls"} /\ name \in Seq(Words)
      /\ TLSName(net, addr, name) = name
  BY DEF Parsed, Unmarked
<1>2. back = [addr |-> addr, net |-> net,
                tlsName |-> IF net = "tcp-tls" THEN name ELSE <<>>]
  BY <1>1
<1>3. ~ Has(addr, "#") /\ ~ Has(addr, "://")  BY <1>1, AtIs
<1>4. \A port : Dial(addr, port) = addr  BY DEF Dial
<1>5. addr # Error  BY DEF Parsed
<1>6. "tcp" # Error /\ "tcp-tls" # Error  BY AddressesAssumption
<1> HIDE DEF back
<1>7. CASE net = "udp"
  <2>1. String(srv) = addr  BY <1>7 DEF String
  <2>2. ParseServer(addr) = [addr |-> addr, net |-> "udp", tlsName |-> <<>>]
    BY <1>3, <1>4, <1>5 DEF ParseServer, ParsePlain
  <2>3. QED  BY <1>2, <1>7, <2>1, <2>2 DEF back
<1>8. CASE net = "tcp"
  <2> DEFINE text == <<"tcp", "://">> \o addr
  <2>1. String(srv) = text  BY <1>8 DEF String
  <2>2. Has(text, "://") /\ Before(text, "://") = <<"tcp">> /\ After(text, "://") = addr
    BY <1>1, SchemeCut
  <2> HIDE DEF text
  <2>3. Transport(<<"tcp">>) = "tcp" /\ TLSName("tcp", addr, <<>>) = <<>>
    BY DEF Transport, TLSName
  <2>4. ParseURL(text) = [addr |-> addr, net |-> "tcp", tlsName |-> <<>>]
    BY <2>2, <2>3, <1>3, <1>4, <1>5, <1>6 DEF ParseURL
  <2>5. QED  BY <1>2, <1>8, <2>1, <2>2, <2>4 DEF ParseServer, back
<1>9. CASE net = "tcp-tls"
  <2> DEFINE mark == IF name = <<>> THEN <<>> ELSE <<"#">> \o name
             rest == addr \o mark
             text == <<"tls", "://">> \o rest
             T == Words \cup {"tls", "://", "#"}
  <2>1. addr \in Seq(T) /\ name \in Seq(T) /\ "#" \in T /\ <<"tls", "://">> \in Seq(T)
    <3>1. "tls" \in T /\ "://" \in T /\ "#" \in T /\ Words \subseteq T  OBVIOUS
    <3> HIDE DEF T
    <3>2. QED  BY <1>1, <3>1, SeqMonotonic
  <2> HIDE DEF T
  <2>2. mark \in Seq(T)  BY <2>1
  <2>3. String(srv) = text
    <3>1. String(srv) = <<"tls", "://">> \o addr \o mark  BY <1>9 DEF String
    <3> DEFINE p == <<"tls", "://">>
    <3>2. p \in Seq(T) /\ addr \in Seq(T) /\ mark \in Seq(T)  BY <2>1, <2>2
    <3> HIDE DEF mark, p, addr, name, T
    <3>3. p \o addr \o mark = p \o (addr \o mark)  BY <3>2, ConcatAssociative
    <3>4. QED  BY <3>1, <3>3 DEF p
  <2>4. /\ (IF Has(rest, "#") THEN Before(rest, "#") ELSE rest) = addr
        /\ (IF Has(rest, "#") THEN After(rest, "#") ELSE <<>>) = name
    <3>1. CASE name = <<>>
      <4>1. rest = addr  BY <1>1, <3>1
      <4>2. QED  BY <4>1, <3>1, <1>3
    <3>2. CASE name # <<>>
      <4>1. rest = addr \o <<"#">> \o name
        <5>1. rest = addr \o (<<"#">> \o name)  BY <3>2
        <5> DEFINE p == <<"#">>
        <5>2. p \in Seq(T)  BY <2>1
        <5> HIDE DEF rest, p, addr, name
        <5>3. addr \o p \o name = addr \o (p \o name)
          BY <2>1, <5>2, ConcatAssociative
        <5>4. QED  BY <5>1, <5>3 DEF p
      <4> HIDE DEF rest
      <4>2. Has(rest, "#") /\ Before(rest, "#") = addr /\ After(rest, "#") = name
        BY <2>1, <4>1, <1>1, CutJoined
      <4>3. QED  BY <4>2
    <3>3. QED  BY <3>1, <3>2
  <2>5. rest \in Seq(T)
    <3> HIDE DEF mark
    <3>1. QED  BY <2>1, <2>2
  <2> HIDE DEF rest
  <2>6. Has(text, "://") /\ Before(text, "://") = <<"tls">> /\ After(text, "://") = rest
    BY <2>5, SchemeCut
  <2> HIDE DEF text
  <2>7. Transport(<<"tls">>) = "tcp-tls"  BY DEF Transport
  <2>8. TLSName("tcp-tls", addr, name) = name  BY <1>1, <1>9
  <2>9. ParseURL(text) = [addr |-> addr, net |-> "tcp-tls", tlsName |-> name]
    BY <2>4, <2>6, <2>7, <2>8, <1>4, <1>5, <1>6 DEF ParseURL
  <2>10. QED  BY <1>2, <1>9, <2>3, <2>6, <2>9 DEF ParseServer, back
<1>10. QED  BY <1>1, <1>7, <1>8, <1>9 DEF back
-----------------------------------------------------------------------------
(* The servers in use, and the one that query asks.                        *)

\* New makes servers of texts.
LEMMA ServersAreParsed ==
    ASSUME NEW texts \in Seq(Texts), ParseServers(texts) # Error
    PROVE  /\ ParseServers(texts) \in Seq({ParseServer(text) : text \in Texts})
           /\ \A i \in DOMAIN ParseServers(texts) : ParseServers(texts)[i] # Error
<1> DEFINE T == {ParseServer(text) : text \in Texts}
           ss == [i \in DOMAIN texts |-> IF texts[i] = <<>> THEN <<>>
                                         ELSE <<ParseServer(texts[i])>>]
<1>1. ParseServers(texts) = Servers(texts) /\ Error \notin ToSet(Servers(texts))
  BY DEF ParseServers
<1>2. Servers(texts) = FlattenSeq(ss)  BY DEF Servers
<1>3. ASSUME NEW i \in DOMAIN texts PROVE ss[i] \in Seq(T)
  <2>1. ParseServer(texts[i]) \in T  OBVIOUS
  <2> HIDE DEF T
  <2>2. QED  BY <2>1
<1>4. ss = [i \in DOMAIN texts |-> ss[i]]  OBVIOUS
<1> HIDE DEF T, ss
<1>5. ss \in Seq(Seq(T))  BY <1>3, <1>4, ListOf
<1>6. FlattenSeq(ss) \in Seq(T)  BY <1>5, FlattenSeqHolds
<1>7. QED  BY <1>1, <1>2, <1>6 DEF ToSet, T

LEMMA OneServer ==
    ASSUME NEW text, text # <<>>
    PROVE  Servers(<<text>>) = <<ParseServer(text)>>
<1> DEFINE texts == <<text>>
           ss == [i \in DOMAIN texts |-> IF texts[i] = <<>> THEN <<>>
                                         ELSE <<ParseServer(texts[i])>>]
<1>1. Servers(texts) = FlattenSeq(ss)  BY DEF Servers
<1>2. DOMAIN texts = 1..1 /\ texts[1] = text  OBVIOUS
<1>3. Len(ss) = 1 /\ ss[1] = <<ParseServer(text)>>  BY <1>2
<1> HIDE DEF texts, ss
<1>4. PICK f : Flattens(f, ss, Len(ss)) /\ FlattenSeq(ss) = f[Len(ss)]
  <2>1. Len(ss) \in Nat \ {0}  BY <1>3
  <2>2. QED  BY <2>1, FlattenSeqIs
<1>5. f[1] = ss[1]  BY <1>3, <1>4 DEF Flattens
<1>6. QED  BY <1>1, <1>3, <1>4, <1>5 DEF texts

\* The upstreams of a configuration are texts.
LEMMA UpstreamsAreTexts ==
    ASSUME NEW content, content.kind = "document" => Decoded(content),
           content.kind \in {"document", "missing"}, NEW s \in Situations
    PROVE  BuildConfig(content, s.flags).settings.upstream \in Seq(Texts)
<1> DEFINE given == s.flags.settings
           f == IF content.kind = "missing" THEN Default ELSE ApplyDefaults(content)
           own == DefaultSettings.upstream
           u == Override(given, f.settings).upstream
<1>1. own \in Seq(Texts)  BY OwnUpstreams
<1> HIDE DEF own
<1>2. "upstream" \in Settings  BY DEF Settings
<1>3. f.settings.upstream \in Seq(Texts)
  <2>1. CASE content.kind = "missing"
    <3>1. f.settings.upstream = own  BY <2>1 DEF Default, own
    <3>2. QED  BY <3>1, <1>1
  <2>2. CASE content.kind # "missing"
    <3>1. Upstreams(content.settings.upstream)  BY <2>2 DEF Decoded
    <3>2. f.settings.upstream = IF content.settings.upstream = Unset THEN own
                                ELSE content.settings.upstream
      BY <2>2, <1>2 DEF ApplyDefaults, own
    <3>3. QED  BY <3>1, <3>2, <1>1 DEF Upstreams
  <2>3. QED  BY <2>1, <2>2
<1> HIDE DEF f
<1>4. Upstreams(u)
  <2>1. "upstream" \in DOMAIN given => Upstreams(given.upstream)  BY CommandsAssumption
  <2>2. u = IF "upstream" \in DOMAIN given THEN given.upstream ELSE f.settings.upstream
    BY <1>2 DEF Override, Dropped, Given
  <2>3. QED  BY <2>1, <2>2, <1>3 DEF Upstreams
<1>5. BuildConfig(content, s.flags).settings.upstream = IF u = Unset THEN own ELSE u
  BY <1>2 DEF BuildConfig, ApplyDefaults, Combine, f, own
<1> HIDE DEF u
<1>6. QED  BY <1>1, <1>4, <1>5 DEF Upstreams

\* The servers were parsed when serve started.
ServersInv ==
    servers = <<>> \/ \E texts \in Seq(Texts) :
                         ParseServers(texts) # Error /\ servers = ParseServers(texts)

\* What query asks was told to it, and parsed.
AskedInv ==
    asked \notin {None, Unset} =>
        \E text \in QueryServers, tcp \in BOOLEAN :
            asked = [text |-> text, tcp |-> tcp, server |-> ParseServers(<<ServerSpec(text, tcp)>>)]

LEMMA ServersStart == Init => ServersInv /\ AskedInv
<1> SUFFICES ASSUME Init PROVE ServersInv /\ AskedInv  OBVIOUS
<1>1. servers = <<>> /\ \E s \in Situations : asked = s.asked  BY DEF Init
<1>2. asked \in {None, Unset}  BY <1>1, CommandsAssumption
<1>3. QED  BY <1>1, <1>2 DEF ServersInv, AskedInv

LEMMA ServersStep == SourceInv /\ ServersInv /\ [Next]_vars => ServersInv'
<1> SUFFICES ASSUME SourceInv, ServersInv, [Next]_vars PROVE ServersInv'  OBVIOUS
<1>1. CASE Serve
  <2>1. CASE Outcome(disk, flags) # "serving"
    <3>1. UNCHANGED servers  BY <1>1, <2>1 DEF Serve
    <3>2. QED  BY <3>1 DEF ServersInv
  <2>2. CASE Outcome(disk, flags) = "serving"
    <3> DEFINE texts == BuildConfig(disk, flags).settings.upstream
    <3>1. servers' = ParseServers(texts)  BY <1>1, <2>2 DEF Serve
    <3>2. ParseServers(texts) # Error /\ Configures(disk, flags)  BY <2>2, WhatServeNeeds
    <3>3. disk.kind \in {"document", "missing"} /\ (disk.kind = "document" => Decoded(disk))
      BY <3>2 DEF Configures, Loads, SourceInv, ServedInv
    <3>4. \E s \in Situations : flags = s.flags  BY DEF SourceInv, SessionInv
    <3>5. texts \in Seq(Texts)  BY <3>3, <3>4, UpstreamsAreTexts
    <3> HIDE DEF texts
    <3>6. QED  BY <3>1, <3>2, <3>5 DEF ServersInv
  <2>3. QED  BY <2>1, <2>2
<1>2. CASE ~ Serve
  <2>1. UNCHANGED servers
    BY <1>2 DEF Next, vars, server, Edit, InitFile, ImportLine, WriteImport, Check, Reload,
                Stop, Query
  <2>2. QED  BY <2>1 DEF ServersInv
<1>3. QED  BY <1>1, <1>2

LEMMA AskedStep == AskedInv /\ [Next]_vars => AskedInv'
<1> SUFFICES ASSUME AskedInv, [Next]_vars PROVE AskedInv'  OBVIOUS
<1>1. CASE Query  BY <1>1 DEF Query, AskedInv
<1>2. CASE ~ Query
  <2>1. UNCHANGED asked
    BY <1>2 DEF Next, vars, server, Edit, InitFile, ImportLine, WriteImport, Check, Serve,
                Reload, Stop
  <2>2. QED  BY <2>1 DEF AskedInv
<1>3. QED  BY <1>1, <1>2

\* The name of a server in the logs, given to ParseServer, is that server, whatever
\* the files and flags it was configured in (resolver.go:27-37, 48-107).
THEOREM NamesInLogsMeanServers == Spec => []LoggedServersParseBack
<1>1. ASSUME ServersInv PROVE LoggedServersParseBack
  <2> SUFFICES ASSUME NEW i \in DOMAIN servers, HostPort(servers[i].addr)
               PROVE  LET srv == servers[i]
                      IN  ParseServer(String(srv)) =
                            [srv EXCEPT !.tlsName = IF srv.net = "tcp-tls" THEN @ ELSE <<>>]
    BY DEF LoggedServersParseBack
  <2>1. PICK texts \in Seq(Texts) : ParseServers(texts) # Error /\ servers = ParseServers(texts)
    BY <1>1 DEF ServersInv
  <2>2. servers \in Seq({ParseServer(text) : text \in Texts}) /\ servers[i] # Error
    BY <2>1, ServersAreParsed
  <2>3. PICK text \in Texts : servers[i] = ParseServer(text)  BY <2>2
  <2>4. Parsed(servers[i])  BY <2>2, <2>3, ServerParsed
  <2>5. QED  BY <2>4, NameMeansServer
<1>2. QED
  BY SourceInvariant, ServersStart, ServersStep, <1>1, PTL DEF Spec

\* query --tcp asks the address it would ask without.  A server that is spelled
\* with its own transport, udp:// and dns:// among them, keeps it and its
\* certificate name; any other is asked over TCP.  Left out is HOST#PORT without a
\* transport, of which --tcp makes another server (query.go:50-54).
THEOREM TcpAsksIt == Spec => []TcpAsksTheSameServer
<1>1. ASSUME AskedInv PROVE TcpAsksTheSameServer
  <2> DEFINE text == asked.text
             direct == ParseServer(text)
             byUDP == Before(text, "://") \in {<<"udp">>, <<"dns">>}
  <2> SUFFICES ASSUME asked \notin {None, Unset}, asked.tcp,
                      Has(text, "://") \/ ~ Has(text, "#"), direct # Error
               PROVE  /\ asked.server # Error /\ asked.server[1].addr = direct.addr
                      /\ Has(text, "://") => asked.server = <<direct>>
                      /\ asked.server[1].net # "udp" \/ (Has(text, "://") /\ byUDP)
    BY DEF TcpAsksTheSameServer
  <2>1. /\ text \in Texts /\ text \in Seq(Words)
        /\ asked.server = ParseServers(<<ServerSpec(text, TRUE)>>)
    <3>1. PICK t \in QueryServers, tcp \in BOOLEAN :
             asked = [text |-> t, tcp |-> tcp, server |-> ParseServers(<<ServerSpec(t, tcp)>>)]
      BY <1>1 DEF AskedInv
    <3>2. text = t /\ asked.tcp = tcp /\ asked.server = ParseServers(<<ServerSpec(t, tcp)>>)
      BY <3>1
    <3>3. tcp = TRUE  BY <3>2
    <3>4. t \in Texts /\ t \in Seq(Words)  BY CommandsAssumption DEF Texts
    <3>5. QED  BY <3>2, <3>3, <3>4
  <2> HIDE DEF text
  <2> DEFINE spec == ServerSpec(text, TRUE)
             srv == ParseServer(spec)
  <2>2. /\ spec # <<>> /\ srv # Error /\ srv \in Server /\ srv.addr = direct.addr
        /\ Has(text, "://") => srv = direct
        /\ srv.net # "udp" \/ (Has(text, "://") /\ byUDP)
    <3>1. CASE Has(text, "://")
      <4>1. spec = text  BY <3>1 DEF ServerSpec
      <4>2. text # <<>>
        <5>1. "://" \in ToSet(text)  BY <3>1, <2>1, AtIs
        <5>2. QED  BY <5>1 DEF ToSet
      <4>3. direct = ParseURL(text)  BY <3>1 DEF ParseServer
      <4>4. direct.net = Transport(Before(text, "://"))  BY <4>3 DEF ParseURL
      <4>5. direct.net # "udp" \/ byUDP
        <5>1. Transport(Before(text, "://")) # Error  BY <4>3 DEF ParseURL
        <5>2. QED  BY <4>4, <5>1 DEF Transport
      <4>6. Parsed(direct)  BY <2>1, ServerParsed
      <4>7. direct \in Server  BY <4>6 DEF Parsed, Unmarked, Server
      <4>8. QED  BY <3>1, <4>1, <4>2, <4>5, <4>7
    <3>2. CASE ~ Has(text, "://")
      <4> DEFINE addr == Dial(text, <<"53">>)
      <4>1. addr # Error /\ direct.addr = addr  BY <3>2 DEF ParseServer, ParsePlain
      <4> DEFINE whole == <<"tcp", "://">> \o text
      <4>2. spec = whole  BY <3>2 DEF ServerSpec
      <4>3. Has(whole, "://") /\ Before(whole, "://") = <<"tcp">> /\ After(whole, "://") = text
        BY <2>1, SchemeCut
      <4> HIDE DEF whole, spec, byUDP, direct
      <4>4. Transport(<<"tcp">>) = "tcp" /\ "tcp" # Error
        BY AddressesAssumption DEF Transport
      <4>5. TLSName("tcp", addr, <<>>) = <<>>  BY DEF TLSName
      <4>6. addr \in Seq(Words)
        <5>1. Unmarked(text)  BY <3>2, <2>1, AtIs DEF Unmarked
        <5>2. Unmarked(<<"53">>)  BY Marks, UnmarkedWord
        <5>3. QED  BY <4>1, <5>1, <5>2, DialUnmarked DEF Unmarked
      <4> DEFINE made == [addr |-> addr, net |-> "tcp", tlsName |-> <<>>]
      <4>7. ParseURL(whole) = made
        <5>1. ~ Has(text, "#")  BY <3>2
        <5>2. QED  BY <5>1, <4>1, <4>3, <4>4, <4>5 DEF ParseURL
      <4> HIDE DEF addr
      <4>8. made \in Server /\ made.addr = addr /\ made.net = "tcp"  BY <4>6 DEF Server
      <4> HIDE DEF made
      <4>9. srv = made  BY <4>2, <4>3, <4>7 DEF ParseServer
      <4>10. made # Error  BY <4>8, AddressesAssumption
      <4>11. spec # <<>>
        <5>1. "://" \in ToSet(spec)
          <6>1. whole \in Seq(Words \cup {"tcp", "://"})
            <7>1. text \in Seq(Words \cup {"tcp", "://"})  BY <2>1, SeqMonotonic
            <7>2. QED  BY <7>1 DEF whole
          <6>2. QED  BY <4>2, <4>3, <6>1, AtIs
        <5>2. QED  BY <5>1 DEF ToSet
      <4>12. QED  BY <3>2, <4>1, <4>8, <4>9, <4>10, <4>11
    <3>3. QED  BY <3>1, <3>2
  <2> HIDE DEF spec, srv, byUDP
  <2>3. Servers(<<spec>>) = <<srv>>  BY <2>2, OneServer DEF srv
  <2>4. <<srv>> # <<>> /\ Error \notin ToSet(<<srv>>) /\ <<srv>>[1] = srv
    BY <2>2 DEF ToSet
  <2>5. ParseServers(<<spec>>) = <<srv>>  BY <2>3, <2>4 DEF ParseServers
  <2>6. asked.server = <<srv>>  BY <2>1, <2>5 DEF spec
  <2>7. <<srv>> \in Seq(Server)  BY <2>2
  <2>8. <<srv>> # Error  BY <2>7, AddressesAssumption
  <2>9. QED  BY <2>2, <2>4, <2>6, <2>8
<1>2. QED  BY ServersStart, AskedStep, <1>1, PTL DEF Spec

-----------------------------------------------------------------------------
(* How a TXT is read: byte by byte, then piece by piece.                   *)

\* f[i] is where the reader is after i bytes.
ReadsThrough(f, a, text, n) ==
    f = [i \in 0..n |-> IF i = 0 THEN a ELSE ReadByte(f[i - 1], text[i])]

LEMMA ReadsThroughExists ==
    ASSUME NEW a, NEW text, NEW n \in Nat
    PROVE  \E f : ReadsThrough(f, a, text, n)
<1> DEFINE T == {m \in Nat : ~ \E f : ReadsThrough(f, a, text, m)}
<1> SUFFICES ASSUME T # {} PROVE FALSE  OBVIOUS
<1>1. PICK m \in T : \A l \in T : m <= l
  <2> T \in SUBSET Nat  OBVIOUS
  <2> HIDE DEF T
  <2>1. QED  BY Least
<1>2. CASE m = 0
  <2> DEFINE g == [i \in 0..0 |-> a]
  <2>1. g = [i \in 0..0 |-> IF i = 0 THEN a ELSE ReadByte(g[i - 1], text[i])]
    <3>1. \A i \in 0..0 : i = 0  OBVIOUS
    <3>2. QED  BY <3>1
  <2>2. ReadsThrough(g, a, text, 0)  BY <2>1 DEF ReadsThrough
  <2>3. QED  BY <2>2, <1>2
<1>3. CASE m # 0
  <2>1. m - 1 \in Nat /\ m - 1 \notin T  BY <1>1, <1>3
  <2>2. PICK f : ReadsThrough(f, a, text, m - 1)  BY <2>1
  <2> DEFINE g == [i \in 0..m |-> IF i = m THEN ReadByte(f[m - 1], text[m]) ELSE f[i]]
  <2>3. \A i \in 0..(m-1) : f[i] = IF i = 0 THEN a ELSE ReadByte(f[i - 1], text[i])
    BY <2>2 DEF ReadsThrough
  <2>4. ASSUME NEW i \in 0..m
        PROVE  g[i] = IF i = 0 THEN a ELSE ReadByte(g[i - 1], text[i])
    <3>1. CASE i = m
      <4>1. m - 1 \in 0..m /\ m - 1 # m  BY <1>3
      <4>2. g[m - 1] = f[m - 1]  BY <4>1
      <4>3. g[m] = ReadByte(f[m - 1], text[m])  OBVIOUS
      <4> HIDE DEF g
      <4>4. QED  BY <3>1, <4>2, <4>3, <1>3
    <3>2. CASE i # m
      <4>1. i \in 0..(m-1) /\ g[i] = f[i] /\ (i # 0 => i - 1 \in 0..m /\ i - 1 # m)
        BY <3>2
      <4>2. i # 0 => g[i-1] = f[i-1]  BY <4>1
      <4> HIDE DEF g
      <4>3. QED  BY <4>1, <4>2, <2>3
    <3>3. QED  BY <3>1, <3>2
  <2>5. ReadsThrough(g, a, text, m)
    <3>1. g = [i \in 0..m |-> g[i]]  OBVIOUS
    <3> HIDE DEF g
    <3>2. QED  BY <3>1, <2>4 DEF ReadsThrough
  <2>6. QED  BY <2>5
<1>4. QED  BY <1>2, <1>3

LEMMA ReadOnIs ==
    ASSUME NEW a, NEW text, Len(text) \in Nat
    PROVE  \E f : ReadsThrough(f, a, text, Len(text)) /\ ReadOnFrom(a, text) = f[Len(text)]
<1> DEFINE F(f) == f = [i \in 0..Len(text) |-> IF i = 0 THEN a ELSE ReadByte(f[i - 1], text[i])]
<1>1. \E f : F(f)
  <2>1. PICK f : ReadsThrough(f, a, text, Len(text))  BY ReadsThroughExists
  <2>2. F(f)  BY <2>1 DEF ReadsThrough
  <2> HIDE DEF F
  <2>3. QED  BY <2>2
<1>2. F(CHOOSE f : F(f))  BY <1>1
<1>3. ReadOnFrom(a, text) = (CHOOSE f : F(f))[Len(text)]
  BY DEF ReadOnFrom
<1> HIDE DEF F
<1>4. QED  BY <1>2, <1>3 DEF ReadsThrough, F

\* Reading nothing, one byte, one byte more.
LEMMA ReadNothing == \A a : ReadOnFrom(a, <<>>) = a
<1> SUFFICES ASSUME NEW a PROVE ReadOnFrom(a, <<>>) = a  OBVIOUS
<1>1. PICK f : ReadsThrough(f, a, <<>>, Len(<<>>)) /\ ReadOnFrom(a, <<>>) = f[Len(<<>>)]
  <2> Len(<<>>) \in Nat  OBVIOUS
  <2>1. QED  BY ReadOnIs
<1>2. Len(<<>>) = 0 /\ 0 \in 0..0  OBVIOUS
<1>3. f[0] = a  BY <1>1, <1>2 DEF ReadsThrough
<1>4. QED  BY <1>1, <1>2, <1>3

LEMMA ReadOneMore ==
    ASSUME NEW S, NEW text \in Seq(S), NEW c \in S, NEW a
    PROVE  ReadOnFrom(a, Append(text, c)) = ReadByte(ReadOnFrom(a, text), c)
<1> DEFINE n == Len(text)
           more == Append(text, c)
<1>1. /\ n \in Nat /\ Len(more) = n + 1 /\ more[n + 1] = c
      /\ \A i \in 1..n : more[i] = text[i]
  OBVIOUS
<1> HIDE DEF n, more
<1>2. PICK f : ReadsThrough(f, a, text, n) /\ ReadOnFrom(a, text) = f[n]
  BY <1>1, ReadOnIs DEF n
<1>3. PICK g : ReadsThrough(g, a, more, n + 1) /\ ReadOnFrom(a, more) = g[n + 1]
  <2>1. Len(more) \in Nat  BY <1>1
  <2>2. QED  BY <1>1, <2>1, ReadOnIs
<1>4. \A i \in 0..n : f[i] = IF i = 0 THEN a ELSE ReadByte(f[i - 1], text[i])
  BY <1>2 DEF ReadsThrough
<1>5. \A i \in 0..(n + 1) : g[i] = IF i = 0 THEN a ELSE ReadByte(g[i - 1], more[i])
  BY <1>3 DEF ReadsThrough
<1>6. \A i \in 0..n : f[i] = g[i]
  <2> DEFINE T == {i \in 0..n : f[i] # g[i]}
  <2> SUFFICES ASSUME T # {} PROVE FALSE  OBVIOUS
  <2>1. PICK m \in T : \A l \in T : m <= l
    <3> T \in SUBSET Nat  OBVIOUS
    <3> HIDE DEF T
    <3>1. QED  BY Least
  <2>2. m \in 0..n /\ m \in 0..(n + 1) /\ f[m] # g[m]  BY <1>1
  <2>3. CASE m = 0
    <3>1. f[m] = a /\ g[m] = a  BY <1>4, <1>5, <2>2, <2>3
    <3>2. QED  BY <3>1, <2>2
  <2>4. CASE m # 0
    <3>1. m - 1 \in 0..n /\ m \in 1..n  BY <2>2, <2>4, <1>1
    <3>2. m - 1 \notin T  BY <2>1, <3>1
    <3>3. f[m - 1] = g[m - 1]  BY <3>1, <3>2
    <3>4. f[m] = ReadByte(f[m - 1], text[m]) /\ g[m] = ReadByte(g[m - 1], more[m])
      BY <1>4, <1>5, <2>2, <2>4
    <3>5. more[m] = text[m]  BY <3>1, <1>1
    <3> HIDE DEF T
    <3>6. QED  BY <2>2, <3>3, <3>4, <3>5
  <2>5. QED  BY <2>3, <2>4
<1>7. g[n + 1] = ReadByte(g[n], c)
  <2>1. n + 1 \in 0..(n + 1) /\ n + 1 # 0 /\ n + 1 - 1 = n  BY <1>1
  <2>2. QED  BY <2>1, <1>1, <1>5
<1>8. f[n] = g[n]
  <2>1. n \in 0..n  BY <1>1
  <2>2. QED  BY <2>1, <1>6
<1>9. QED  BY <1>2, <1>3, <1>7, <1>8 DEF more

LEMMA ReadConcat ==
    ASSUME NEW S, NEW s \in Seq(S), NEW t \in Seq(S), NEW a
    PROVE  ReadOnFrom(a, s \o t) = ReadOnFrom(ReadOnFrom(a, s), t)
<1> DEFINE same(m) == ReadOnFrom(a, s \o Prefix(t, m)) =
                        ReadOnFrom(ReadOnFrom(a, s), Prefix(t, m))
           T == {m \in 0..Len(t) : ~ same(m)}
<1>0. Len(t) \in Nat  OBVIOUS
<1>1. T = {}
  <2> SUFFICES ASSUME T # {} PROVE FALSE  OBVIOUS
  <2>1. PICK m \in T : \A l \in T : m <= l
    <3> T \in SUBSET Nat  BY <1>0
    <3> HIDE DEF T
    <3>1. QED  BY Least
  <2>2. CASE m = 0
    <3>1. Prefix(t, 0) = <<>> /\ s \o <<>> = s  BY PrefixGrows
    <3>2. same(0)  BY <3>1, ReadNothing
    <3>3. QED  BY <3>2, <2>2
  <2>3. CASE m # 0
    <3>1. m - 1 \in 0..Len(t)-1 /\ m - 1 + 1 = m /\ m - 1 \in 0..Len(t)  BY <1>0, <2>3
    <3>2. same(m - 1)  BY <2>1, <3>1
    <3> DEFINE p == Prefix(t, m - 1)
               x == t[m]
    <3>3. p \in Seq(S) /\ x \in S /\ Prefix(t, m) = Append(p, x)
      BY <3>1, PrefixGrows
    <3> HIDE DEF p, x
    <3>4. s \o Append(p, x) = Append(s \o p, x) /\ s \o p \in Seq(S)
      BY <3>3, ConcatThenOne
    <3>5. ReadOnFrom(a, Append(s \o p, x)) = ReadByte(ReadOnFrom(a, s \o p), x)
      BY <3>3, <3>4, ReadOneMore
    <3>6. ReadOnFrom(ReadOnFrom(a, s), Append(p, x)) =
            ReadByte(ReadOnFrom(ReadOnFrom(a, s), p), x)
      BY <3>3, ReadOneMore
    <3>7. ReadOnFrom(a, s \o p) = ReadOnFrom(ReadOnFrom(a, s), p)  BY <3>2 DEF p
    <3>8. same(m)  BY <3>3, <3>4, <3>5, <3>6, <3>7
    <3>9. QED  BY <3>8
  <2>4. QED  BY <2>2, <2>3
<1>2. same(Len(t))
  <2>1. Len(t) \in 0..Len(t)  BY <1>0
  <2>2. QED  BY <1>1, <2>1
<1>3. QED  BY <1>2, PrefixGrows

\* Where the reader is between two pieces, and within one of which it has p.
Between(R) == [read |-> R, open |-> FALSE, escaped |-> FALSE]
Within(R, p) == [read |-> Append(R, p), open |-> TRUE, escaped |-> FALSE]

LEMMA LastGrows ==
    ASSUME NEW V, NEW R \in Seq(V), NEW p \in V, NEW q \in V
    PROVE  [Append(R, p) EXCEPT ![Len(Append(R, p))] = q] = Append(R, q)
<1>1. /\ Len(Append(R, p)) = Len(R) + 1 /\ Len(R) \in Nat
      /\ Append(R, p) \in Seq(V) /\ Append(R, q) \in Seq(V)
      /\ Len(Append(R, q)) = Len(R) + 1
  OBVIOUS
<1> DEFINE t == [Append(R, p) EXCEPT ![Len(R) + 1] = q]
<1>2. /\ t \in Seq(V) /\ Len(t) = Len(R) + 1
      /\ \A i \in 1..(Len(R) + 1) : t[i] = IF i = Len(R) + 1 THEN q ELSE Append(R, p)[i]
  <2>1. DOMAIN Append(R, p) = 1..(Len(R) + 1)  BY <1>1
  <2>2. t = [i \in 1..(Len(R) + 1) |-> IF i = Len(R) + 1 THEN q ELSE Append(R, p)[i]]
    BY <2>1
  <2>3. \A i \in 1..(Len(R) + 1) : Append(R, p)[i] \in V  BY <1>1
  <2>4. t \in [1..(Len(R) + 1) -> V]  BY <2>2, <2>3
  <2>5. \A i \in 1..(Len(R) + 1) : t[i] = IF i = Len(R) + 1 THEN q ELSE Append(R, p)[i]
    <3> HIDE DEF t
    <3>1. QED  BY <2>2
  <2> HIDE DEF t
  <2>6. QED  BY <2>4, <2>5, <1>1
<1> HIDE DEF t
<1>3. \A i \in 1..(Len(R) + 1) : t[i] = Append(R, q)[i]
  <2>1. \A i \in 1..(Len(R) + 1) : Append(R, p)[i] = IF i = Len(R) + 1 THEN p ELSE R[i]
    BY <1>1
  <2>2. \A i \in 1..(Len(R) + 1) : Append(R, q)[i] = IF i = Len(R) + 1 THEN q ELSE R[i]
    BY <1>1
  <2>3. QED  BY <2>1, <2>2, <1>2
<1>4. t = Append(R, q)  BY <1>1, <1>2, <1>3, SeqEqual
<1>5. QED  BY <1>1, <1>4 DEF t

LEMMA ReadOne ==
    ASSUME NEW a, NEW c PROVE ReadOnFrom(a, <<c>>) = ReadByte(a, c)
<1> DEFINE S == {c}
<1>1. <<>> \in Seq(S) /\ c \in S /\ <<c>> = Append(<<>>, c)  OBVIOUS
<1> HIDE DEF S
<1>2. ReadOnFrom(a, Append(<<>>, c)) = ReadByte(ReadOnFrom(a, <<>>), c)
  BY <1>1, ReadOneMore
<1>3. QED  BY <1>1, <1>2, ReadNothing

LEMMA ReadTwo ==
    ASSUME NEW a, NEW c, NEW d
    PROVE ReadOnFrom(a, <<c, d>>) = ReadByte(ReadByte(a, c), d)
<1> DEFINE S == {c, d}
<1>1. <<c>> \in Seq(S) /\ d \in S /\ <<c, d>> = Append(<<c>>, d)  OBVIOUS
<1> HIDE DEF S
<1>2. ReadOnFrom(a, Append(<<c>>, d)) = ReadByte(ReadOnFrom(a, <<c>>), d)
  BY <1>1, ReadOneMore
<1>3. QED  BY <1>1, <1>2, ReadOne

LEMMA MarksDiffer == Mark # Backslash /\ Space \notin {Mark, Backslash}
BY DEF Mark, Backslash, Space

\* A reader that ends its string, and one that adds to it.
LEMMA TheReader ==
    ASSUME NEW x, NEW y, NEW z, NEW w \in [read : {x}, open : {y}, escaped : {z}]
    PROVE  w = [read |-> x, open |-> y, escaped |-> z]
OBVIOUS

LEMMA Marked ==
    ASSUME NEW x, NEW y
    PROVE  [[read |-> x, open |-> TRUE, escaped |-> FALSE] EXCEPT !.open = FALSE, !.read = y]
             = [read |-> y, open |-> FALSE, escaped |-> FALSE]
<1> DEFINE w == [read |-> x, open |-> TRUE, escaped |-> FALSE]
<1>1. w \in [read : {x, y}, open : BOOLEAN, escaped : BOOLEAN] /\ w.escaped = FALSE
  OBVIOUS
<1> HIDE DEF w
<1>2. [w EXCEPT !.open = FALSE, !.read = y] \in
        [read : {y}, open : {FALSE}, escaped : {FALSE}]
  BY <1>1
<1>3. [w EXCEPT !.open = FALSE, !.read = y] = [read |-> y, open |-> FALSE, escaped |-> FALSE]
  BY <1>2, TheReader
<1>4. QED  BY <1>3 DEF w

LEMMA PutIn ==
    ASSUME NEW x, NEW y, NEW e \in BOOLEAN
    PROVE  [[read |-> x, open |-> TRUE, escaped |-> e] EXCEPT !.escaped = FALSE, !.read = y]
             = [read |-> y, open |-> TRUE, escaped |-> FALSE]
<1> DEFINE w == [read |-> x, open |-> TRUE, escaped |-> e]
<1>1. w \in [read : {x, y}, open : BOOLEAN, escaped : BOOLEAN] /\ w.open = TRUE
  OBVIOUS
<1> HIDE DEF w
<1>2. [w EXCEPT !.escaped = FALSE, !.read = y] \in
        [read : {y}, open : {TRUE}, escaped : {FALSE}]
  BY <1>1
<1>3. QED  BY <1>2, TheReader DEF w

LEMMA MarkRead ==
    ASSUME NEW R, NEW p
    PROVE  /\ ReadByte(Between(R), Mark) = Within(R, <<>>)
           /\ ReadByte(Between(R), Space) = Between(R)
           /\ ReadByte(Within(R, p), Mark) = Between(Append(R, p))
<1>1. ReadByte(Between(R), Mark) = Within(R, <<>>)
  BY MarksDiffer DEF ReadByte, Between, Within
<1>2. ReadByte(Between(R), Space) = Between(R)
  BY MarksDiffer DEF ReadByte, Between
<1>3. ReadByte(Within(R, p), Mark) = Between(Append(R, p))
  <2> DEFINE w == Within(R, p)
  <2>1. ~ w.escaped /\ w.open /\ w.read = Append(R, p)  BY DEF Within
  <2>2. ReadByte(w, Mark) = [w EXCEPT !.open = FALSE, !.read = w.read]
    <3> HIDE DEF w
    <3>1. QED  BY <2>1, MarksDiffer DEF ReadByte
  <2>3. QED  BY <2>1, <2>2, Marked DEF Within, Between
<1>4. QED  BY <1>1, <1>2, <1>3

LEMMA LastByteGrows ==
    ASSUME NEW S, NEW R \in Seq(Seq(S)), NEW p \in Seq(S), NEW c \in S
    PROVE  [Append(R, p) EXCEPT ![Len(Append(R, p))] = Append(Last(Append(R, p)), c)]
             = Append(R, Append(p, c))
<1>1. Last(Append(R, p)) = p  BY DEF Last
<1>2. Append(p, c) \in Seq(S)  OBVIOUS
<1> DEFINE V == Seq(S)
           q == Append(p, c)
<1>3. R \in Seq(V) /\ p \in V /\ q \in V  BY <1>2
<1> HIDE DEF V, q
<1>4. [Append(R, p) EXCEPT ![Len(Append(R, p))] = q] = Append(R, q)
  BY <1>3, LastGrows
<1>5. QED  BY <1>1, <1>4 DEF q

LEMMA ByteRead ==
    ASSUME NEW S, NEW R \in Seq(Seq(S)), NEW p \in Seq(S), NEW c \in S,
           c \notin {Mark, Backslash}
    PROVE  ReadByte(Within(R, p), c) = Within(R, Append(p, c))
<1> DEFINE w == Within(R, p)
           grown == [w.read EXCEPT ![Len(w.read)] = Append(Last(w.read), c)]
<1>1. ReadByte(w, c) = [w EXCEPT !.escaped = FALSE, !.read = grown]
  <2>1. ~ w.escaped /\ w.open  BY DEF Within
  <2> HIDE DEF w
  <2>2. QED  BY <2>1 DEF ReadByte
<1>2. grown = Append(R, Append(p, c))
  <2>1. w.read = Append(R, p)  BY DEF Within
  <2> HIDE DEF w
  <2>2. QED  BY <2>1, LastByteGrows
<1> HIDE DEF grown
<1>3. QED  BY <1>1, <1>2 DEF Within

LEMMA EscapedRead ==
    ASSUME NEW S, NEW R \in Seq(Seq(S)), NEW p \in Seq(S), NEW c \in S
    PROVE  ReadByte(ReadByte(Within(R, p), Backslash), c) = Within(R, Append(p, c))
<1> DEFINE w == [read |-> Append(R, p), open |-> TRUE, escaped |-> TRUE]
           grown == [w.read EXCEPT ![Len(w.read)] = Append(Last(w.read), c)]
<1>1. ReadByte(Within(R, p), Backslash) = w  BY DEF ReadByte, Within
<1>2. ReadByte(w, c) = [w EXCEPT !.escaped = FALSE, !.read = grown]
  <2>1. w.escaped  OBVIOUS
  <2> HIDE DEF w
  <2>2. QED  BY <2>1 DEF ReadByte
<1>3. grown = Append(R, Append(p, c))
  <2>1. w.read = Append(R, p)  OBVIOUS
  <2> HIDE DEF w
  <2>2. QED  BY <2>1, LastByteGrows
<1> HIDE DEF grown
<1>4. [w EXCEPT !.escaped = FALSE, !.read = grown] = Within(R, Append(p, c))
  BY <1>3, PutIn DEF Within
<1>5. QED  BY <1>1, <1>2, <1>4

\* What is written for a byte of a piece that has its characters whole.
LEMMA RunesOfWhole ==
    ASSUME NEW S, Backslash \in S, NEW s \in Seq(S), Whole(s)
    PROVE  /\ Runes(s) \in Seq(Seq(S)) /\ Len(Runes(s)) = Len(s)
           /\ \A i \in 1..Len(s) :
                 Runes(s)[i] = IF s[i] \in {Mark, Backslash} THEN <<Backslash, s[i]>>
                                                             ELSE <<s[i]>>
<1>1. Len(s) \in Nat /\ DOMAIN s = 1..Len(s) /\ \A i \in 1..Len(s) : s[i] \in S
  OBVIOUS
<1>2. ASSUME NEW i \in 1..Len(s)
      PROVE  Runes(s)[i] = IF s[i] \in {Mark, Backslash} THEN <<Backslash, s[i]>>
                                                         ELSE <<s[i]>>
  <2>1. /\ s[i] = Lead => i < Len(s) /\ s[i + 1] = Trail
        /\ s[i] = Trail => i > 1 /\ s[i - 1] = Lead
    BY <1>1 DEF Whole
  <2>2. ~ (s[i] = Lead /\ (i = Len(s) \/ s[i + 1] # Trail))
    <3>1. i < Len(s) => i # Len(s)
      <4> DEFINE n == Len(s)
      <4>1. n \in Nat /\ i \in 1..n  BY <1>1
      <4> HIDE DEF n
      <4>2. i < n => i # n  BY <4>1
      <4>3. QED  BY <4>2 DEF n
    <3>2. QED  BY <2>1, <3>1
  <2>4. ~ (s[i] = Trail /\ (i = 1 \/ s[i - 1] # Lead))
    <3>1. i > 1 => i # 1  BY <1>1
    <3>2. QED  BY <2>1, <3>1
  <2>3. QED  BY <2>2, <2>4, <1>1 DEF Runes
<1>3. ASSUME NEW i \in 1..Len(s) PROVE Runes(s)[i] \in Seq(S)
  <2>1. s[i] \in S  BY <1>1
  <2>2. <<Backslash, s[i]>> \in Seq(S) /\ <<s[i]>> \in Seq(S)  BY <2>1
  <2> HIDE DEF Runes
  <2>3. QED  BY <2>2, <1>2
<1>4. Runes(s) = [i \in DOMAIN s |-> Runes(s)[i]]  BY DEF Runes
<1>5. Runes(s) \in Seq(Seq(S)) /\ DOMAIN Runes(s) = 1..Len(s)
  <2>1. DOMAIN Runes(s) = 1..Len(s)  BY <1>1, <1>4
  <2> HIDE DEF Runes
  <2>2. Runes(s) \in [1..Len(s) -> Seq(S)]  BY <1>3, <1>4, <1>1
  <2>3. QED  BY <2>1, <2>2, <1>1
<1>6. Len(Runes(s)) = Len(s)  BY <1>1, <1>5
<1>7. QED  BY <1>2, <1>5, <1>6

LEMMA RunesAreRead ==
    ASSUME NEW S, Backslash \in S, NEW R \in Seq(Seq(S)), NEW s \in Seq(S), Whole(s)
    PROVE  ReadOnFrom(Within(R, <<>>), FlattenSeq(Runes(s))) = Within(R, s)
<1> DEFINE rs == Runes(s)
           read(m) == ReadOnFrom(Within(R, <<>>), FlattenSeq(Prefix(rs, m)))
           T == {m \in 0..Len(s) : read(m) # Within(R, Prefix(s, m))}
<1>0. Len(s) \in Nat /\ rs \in Seq(Seq(S)) /\ Len(rs) = Len(s)
  BY RunesOfWhole
<1>1. \A i \in 1..Len(s) : rs[i] = IF s[i] \in {Mark, Backslash} THEN <<Backslash, s[i]>>
                                                                 ELSE <<s[i]>>
  BY RunesOfWhole
<1> HIDE DEF rs
<1>2. T = {}
  <2> SUFFICES ASSUME T # {} PROVE FALSE  OBVIOUS
  <2>1. PICK m \in T : \A l \in T : m <= l
    <3> T \in SUBSET Nat  BY <1>0
    <3> HIDE DEF T
    <3>1. QED  BY Least
  <2>2. CASE m = 0
    <3>1. Prefix(rs, 0) = <<>> /\ Prefix(s, 0) = <<>>  BY <1>0, PrefixGrows
    <3>2. FlattenSeq(<<>>) = <<>>  BY DEF FlattenSeq
    <3>3. read(0) = Within(R, Prefix(s, 0))  BY <3>1, <3>2, ReadNothing
    <3>4. QED  BY <3>3, <2>2
  <2>3. CASE m # 0
    <3>1. m - 1 \in 0..Len(s)-1 /\ m - 1 + 1 = m /\ m - 1 \in 0..Len(s) /\ m \in 1..Len(s)
      BY <1>0, <2>3
    <3>2. read(m - 1) = Within(R, Prefix(s, m - 1))
      <4>1. m - 1 \notin T  BY <2>1, <3>1
      <4>2. QED  BY <4>1, <3>1
    <3> DEFINE p == Prefix(s, m - 1)
               q == Prefix(rs, m - 1)
               c == s[m]
    <3>3. p \in Seq(S) /\ c \in S /\ Prefix(s, m) = Append(p, c)
      BY <3>1, PrefixStep
    <3>4. q \in Seq(Seq(S)) /\ rs[m] \in Seq(S) /\ Prefix(rs, m) = Append(q, rs[m])
      BY <3>1, <1>0, PrefixStep
    <3> HIDE DEF p, q, c
    <3>5. FlattenSeq(Append(q, rs[m])) = FlattenSeq(q) \o rs[m] /\ FlattenSeq(q) \in Seq(S)
      BY <3>4, FlattenAppend, FlattenSeqHolds
    <3>6. read(m) = ReadOnFrom(Within(R, p), rs[m])
      <4>1. ReadOnFrom(Within(R, <<>>), FlattenSeq(q) \o rs[m]) =
              ReadOnFrom(ReadOnFrom(Within(R, <<>>), FlattenSeq(q)), rs[m])
        BY <3>4, <3>5, ReadConcat
      <4>2. ReadOnFrom(Within(R, <<>>), FlattenSeq(q)) = Within(R, p)  BY <3>2 DEF p, q
      <4>3. QED  BY <4>1, <4>2, <3>4, <3>5
    <3>7. ReadOnFrom(Within(R, p), rs[m]) = Within(R, Append(p, c))
      <4>1. CASE c \in {Mark, Backslash}
        <5>1. rs[m] = <<Backslash, c>>  BY <4>1, <3>1, <1>1 DEF c
        <5>2. ReadByte(ReadByte(Within(R, p), Backslash), c) = Within(R, Append(p, c))
          BY <3>3, EscapedRead
        <5>3. QED  BY <5>1, <5>2, ReadTwo
      <4>2. CASE c \notin {Mark, Backslash}
        <5>1. rs[m] = <<c>>  BY <4>2, <3>1, <1>1 DEF c
        <5>2. ReadByte(Within(R, p), c) = Within(R, Append(p, c))
          BY <4>2, <3>3, ByteRead
        <5>3. QED  BY <5>1, <5>2, ReadOne
      <4>3. QED  BY <4>1, <4>2
    <3>8. read(m) = Within(R, Prefix(s, m))  BY <3>3, <3>6, <3>7
    <3> HIDE DEF read
    <3>9. QED  BY <3>8
  <2>4. QED  BY <2>2, <2>3
<1>3. read(Len(s)) = Within(R, Prefix(s, Len(s)))
  <2>1. Len(s) \in 0..Len(s)  BY <1>0
  <2>2. QED  BY <1>2, <2>1
<1>4. Prefix(s, Len(s)) = s /\ Prefix(rs, Len(s)) = rs  BY <1>0, PrefixGrows
<1>5. QED  BY <1>3, <1>4 DEF rs

LEMMA QuotedIsRead ==
    ASSUME NEW S, {Mark, Backslash} \subseteq S, NEW R \in Seq(Seq(S)), NEW s \in Seq(S),
           Whole(s), ~ IsQuoted(s)
    PROVE  /\ QuoteField(s) \in Seq(S)
           /\ ReadOnFrom(Between(R), QuoteField(s)) = Between(Append(R, s))
<1> DEFINE body == FlattenSeq(Runes(s))
<1>1. body \in Seq(S)  BY RunesOfWhole, FlattenSeqHolds
<1>2. ReadOnFrom(Within(R, <<>>), body) = Within(R, s)  BY RunesAreRead
<1>3. QuoteField(s) = (<<Mark>> \o body) \o <<Mark>>  BY DEF QuoteField
<1> HIDE DEF body
<1>4. <<Mark>> \in Seq(S) /\ <<Mark>> \o body \in Seq(S)  BY <1>1
<1>5. ReadOnFrom(Between(R), <<Mark>>) = Within(R, <<>>)
  <2> <<>> \in Seq(S) /\ Mark \in S  OBVIOUS
  <2>1. QED  BY ReadOne, MarkRead
<1>6. ReadOnFrom(Between(R), <<Mark>> \o body) = Within(R, s)
  <2>1. ReadOnFrom(Between(R), <<Mark>> \o body) =
          ReadOnFrom(ReadOnFrom(Between(R), <<Mark>>), body)
    BY <1>1, <1>4, ReadConcat
  <2>2. QED  BY <2>1, <1>2, <1>5
<1>7. ReadOnFrom(Within(R, s), <<Mark>>) = Between(Append(R, s))
  <2>1. Mark \in S  OBVIOUS
  <2>2. ReadByte(Within(R, s), Mark) = Between(Append(R, s))  BY MarkRead
  <2>3. QED  BY <2>2, ReadOne
<1>8. ReadOnFrom(Between(R), (<<Mark>> \o body) \o <<Mark>>) = Between(Append(R, s))
  <2>1. ReadOnFrom(Between(R), (<<Mark>> \o body) \o <<Mark>>) =
          ReadOnFrom(ReadOnFrom(Between(R), <<Mark>> \o body), <<Mark>>)
    BY <1>4, ReadConcat
  <2>2. QED  BY <2>1, <1>6, <1>7
<1>9. QED  BY <1>1, <1>3, <1>4, <1>8

\* How often a text is cut.
CutsOf(s) == IF s = <<>> THEN 0 ELSE (Len(s) - 1) \div MaxChunk

LEMMA CutsFit ==
    ASSUME NEW S, NEW s \in Seq(S)
    PROVE  /\ CutsOf(s) \in Nat
           /\ CutsOf(s) * MaxChunk <= Len(s)
           /\ Len(s) <= (CutsOf(s) + 1) * MaxChunk
           /\ s # <<>> => CutsOf(s) * MaxChunk < Len(s)
<1> DEFINE n == CutsOf(s)
           C == MaxChunk
<1>0. C \in Nat /\ C > 0  BY TextAssumption
<1>1. CASE s = <<>>
  <2>1. n = 0 /\ Len(s) = 0  BY <1>1 DEF CutsOf
  <2> HIDE DEF n, C
  <2>2. n * C = 0 /\ (n + 1) * C = C  BY <1>0, <2>1
  <2> QED  BY <1>0, <1>1, <2>1, <2>2 DEF n, C
<1>2. CASE s # <<>>
  <2> DEFINE d == Len(s) - 1
             r == d % C
  <2>1. d \in Nat /\ Len(s) = d + 1  BY <1>2
  <2>2. n = d \div C  BY <1>2 DEF CutsOf
  <2> HIDE DEF n, C, d
  <2>3. n \in Int /\ r \in 0..(C - 1) /\ d = C * n + r  BY <1>0, <2>1, <2>2
  <2> HIDE DEF r
  <2>4. n >= 0
    <3>1. SUFFICES ASSUME n <= -1 PROVE FALSE  BY <2>3
    <3>2. C * n <= -C  BY <1>0, <2>3, <3>1
    <3>3. QED  BY <1>0, <2>1, <2>3, <3>2
  <2>5. n * C = C * n /\ (n + 1) * C = C * n + C  BY <1>0, <2>3
  <2>6. n \in Nat /\ n * C <= Len(s) /\ Len(s) <= (n + 1) * C /\ n * C < Len(s)
    BY <1>0, <2>1, <2>3, <2>4, <2>5
  <2>7. QED  BY <2>6 DEF n, C
<1>3. QED  BY <1>1, <1>2

\* Piece k begins behind PieceStart(k) bytes and ends with byte PieceEnd(s, k).
PieceStart(k) == (k - 1) * MaxChunk
PieceEnd(s, k) == IF k > CutsOf(s) THEN Len(s) ELSE k * MaxChunk

LEMMA PiecesAre ==
    ASSUME NEW s, CutsOf(s) \in Nat
    PROVE  /\ DOMAIN Pieces(s) = 1..(CutsOf(s) + 1)
           /\ \A k \in 1..(CutsOf(s) + 1) :
                 Pieces(s)[k] = SubSeq(s, PieceStart(k) + 1, PieceEnd(s, k))
BY DEF Pieces, CutsOf, PieceStart, PieceEnd

LEMMA PiecesFit ==
    ASSUME NEW S, NEW s \in Seq(S), NEW k \in 1..(CutsOf(s) + 1)
    PROVE  /\ PieceStart(k) \in Nat /\ PieceEnd(s, k) \in Nat
           /\ PieceStart(k) <= PieceEnd(s, k) /\ PieceEnd(s, k) <= Len(s)
           /\ PieceEnd(s, k) - PieceStart(k) <= MaxChunk
           /\ s # <<>> => PieceStart(k) < PieceEnd(s, k)
           /\ k # 1 => PieceStart(k) = PieceEnd(s, k - 1) /\ PieceStart(k) > 0
           /\ PieceStart(1) = 0
           /\ PieceEnd(s, CutsOf(s) + 1) = Len(s)
<1> DEFINE n == CutsOf(s)
           C == MaxChunk
           L == Len(s)
<1>0. C \in Nat /\ C > 0 /\ L \in Nat  BY TextAssumption
<1>1. /\ n \in Nat /\ n * C <= L /\ L <= (n + 1) * C /\ (s # <<>> => n * C < L)
      /\ k \in 1..(n + 1)
  BY CutsFit
<1>2. PieceStart(k) = (k - 1) * C /\ PieceStart(1) = (1 - 1) * C  BY DEF PieceStart
<1>3. /\ PieceEnd(s, k) = IF k > n THEN L ELSE k * C
      /\ PieceEnd(s, k - 1) = IF k - 1 > n THEN L ELSE (k - 1) * C
      /\ PieceEnd(s, n + 1) = IF n + 1 > n THEN L ELSE (n + 1) * C
  BY DEF PieceEnd
<1> HIDE DEF n, C, L
<1>4. k \in Int /\ k >= 1 /\ k <= n + 1 /\ k - 1 >= 0  BY <1>1
<1>5. (k - 1) * C \in Nat /\ k * C = (k - 1) * C + C /\ (n + 1) * C = n * C + C
      /\ (1 - 1) * C = 0 /\ n * C \in Nat
  BY <1>0, <1>1, <1>4
<1>6. CASE k > n
  <2>1. k = n + 1 /\ k - 1 = n  BY <1>6, <1>1, <1>4
  <2>2. PieceStart(k) = n * C /\ PieceEnd(s, k) = L  BY <1>2, <1>3, <1>6, <2>1
  <2>3. k # 1 => PieceStart(k) > 0
    <3>1. SUFFICES ASSUME n >= 1 PROVE n * C > 0  BY <2>1, <2>2, <1>1
    <3>2. QED  BY <3>1, <1>0, <1>1
  <2>4. PieceEnd(s, k - 1) = n * C  BY <1>3, <2>1, <1>1
  <2>5. QED  BY <1>0, <1>1, <1>2, <1>3, <1>5, <2>2, <2>3, <2>4 DEF n, C, L
<1>7. CASE k <= n
  <2>1. PieceStart(k) = (k - 1) * C /\ PieceEnd(s, k) = (k - 1) * C + C
    BY <1>2, <1>3, <1>4, <1>5, <1>7, <1>1
  <2>2. (k - 1) * C + C <= n * C
    <3>1. k * C <= n * C  BY <1>0, <1>1, <1>4, <1>7
    <3>2. QED  BY <3>1, <1>5
  <2>3. k # 1 => (k - 1) * C > 0
    <3>1. SUFFICES ASSUME k - 1 >= 1 PROVE (k - 1) * C > 0  BY <1>4
    <3>2. QED  BY <3>1, <1>0, <1>4
  <2>4. PieceEnd(s, k - 1) = (k - 1) * C  BY <1>3, <1>4, <1>7, <1>1
  <2>5. QED  BY <1>0, <1>1, <1>2, <1>3, <1>5, <2>1, <2>2, <2>3, <2>4 DEF n, C, L
<1>8. QED  BY <1>1, <1>4, <1>6, <1>7

LEMMA PiecesTyped ==
    ASSUME NEW S, NEW s \in Seq(S)
    PROVE  /\ Pieces(s) \in Seq(Seq(S)) /\ Len(Pieces(s)) = CutsOf(s) + 1
           /\ CutsOf(s) \in Nat
           /\ \A k \in 1..(CutsOf(s) + 1) :
                /\ Pieces(s)[k] \in Seq(S)
                /\ Len(Pieces(s)[k]) = PieceEnd(s, k) - PieceStart(k)
                /\ \A i \in 1..(PieceEnd(s, k) - PieceStart(k)) : Pieces(s)[k][i] = s[PieceStart(k) + i]
<1> DEFINE n == CutsOf(s)
           P == Pieces(s)
<1>1. n \in Nat  BY CutsFit
<1>2. /\ DOMAIN P = 1..(n + 1)
      /\ \A k \in 1..(n + 1) : P[k] = SubSeq(s, PieceStart(k) + 1, PieceEnd(s, k))
  BY <1>1, PiecesAre
<1>3. ASSUME NEW k \in 1..(n + 1)
      PROVE  /\ P[k] \in Seq(S)
             /\ Len(P[k]) = PieceEnd(s, k) - PieceStart(k)
             /\ \A i \in 1..(PieceEnd(s, k) - PieceStart(k)) : P[k][i] = s[PieceStart(k) + i]
  <2>1. PieceStart(k) \in Nat /\ PieceEnd(s, k) \in Nat /\ PieceStart(k) <= PieceEnd(s, k) /\ PieceEnd(s, k) <= Len(s)
    BY PiecesFit
  <2> DEFINE a == PieceStart(k)
             b == PieceEnd(s, k)
  <2>2. P[k] = SubSeq(s, a + 1, b)  BY <1>2
  <2> HIDE DEF a, b, P
  <2>3. a \in Nat /\ b \in Nat /\ a <= b /\ b <= Len(s)  BY <2>1 DEF a, b
  <2>4. QED  BY <2>2, <2>3, PartIs DEF a, b
<1>4. P = [k \in 1..(n + 1) |-> P[k]]
  <2>1. P = [k \in DOMAIN P |-> P[k]]  BY DEF Pieces
  <2>2. QED  BY <2>1, <1>2
<1> HIDE DEF P, n
<1>5. P \in Seq(Seq(S)) /\ Len(P) = n + 1
  <2>1. P \in [1..(n + 1) -> Seq(S)]  BY <1>3, <1>4
  <2>2. n + 1 \in Nat  BY <1>1
  <2>3. QED  BY <2>1, <2>2
<1>6. QED  BY <1>1, <1>3, <1>5 DEF P, n

LEMMA PiecesFlatten ==
    ASSUME NEW S, NEW s \in Seq(S)
    PROVE  FlattenSeq(Pieces(s)) = s
<1> DEFINE n == CutsOf(s)
           P == Pieces(s)
           end(m) == IF m = 0 THEN 0 ELSE PieceEnd(s, m)
           T == {m \in 0..(n + 1) : FlattenSeq(Prefix(P, m)) # Prefix(s, end(m))}
<1>1. n \in Nat /\ P \in Seq(Seq(S)) /\ Len(P) = n + 1  BY PiecesTyped
<1>2. \A k \in 1..(n + 1) : P[k] = SubSeq(s, PieceStart(k) + 1, PieceEnd(s, k))
  BY <1>1, PiecesAre
<1>3. \A k \in 1..(n + 1) :
        /\ PieceStart(k) \in Nat /\ PieceEnd(s, k) \in Nat /\ PieceStart(k) <= PieceEnd(s, k)
        /\ PieceEnd(s, k) <= Len(s)
        /\ k # 1 => PieceStart(k) = PieceEnd(s, k - 1)
        /\ PieceStart(1) = 0
  BY PiecesFit
<1>4. PieceEnd(s, n + 1) = Len(s) /\ n + 1 # 0 /\ n + 1 \in 0..(n + 1)
  <2>1. 1 \in 1..(CutsOf(s) + 1)  BY <1>1
  <2>2. QED  BY <1>1, <2>1, PiecesFit
<1> HIDE DEF n, P
<1>5. T = {}
  <2> SUFFICES ASSUME T # {} PROVE FALSE  OBVIOUS
  <2>1. PICK m \in T : \A l \in T : m <= l
    <3> T \in SUBSET Nat  BY <1>1
    <3> HIDE DEF T
    <3>1. QED  BY Least
  <2>2. CASE m = 0
    <3>1. Prefix(P, 0) = <<>> /\ Prefix(s, 0) = <<>>  BY <1>1, PrefixGrows
    <3>2. FlattenSeq(<<>>) = <<>>  BY DEF FlattenSeq
    <3>3. QED  BY <3>1, <3>2, <2>2
  <2>3. CASE m # 0
    <3>1. /\ m - 1 \in 0..Len(P)-1 /\ m - 1 + 1 = m /\ m - 1 \in 0..(n + 1)
          /\ m \in 1..(n + 1)
      BY <1>1, <2>3
    <3>2. FlattenSeq(Prefix(P, m - 1)) = Prefix(s, end(m - 1))
      <4>1. m - 1 \notin T  BY <2>1, <3>1
      <4>2. QED  BY <4>1, <3>1
    <3> DEFINE q == Prefix(P, m - 1)
               a == PieceStart(m)
               b == PieceEnd(s, m)
    <3>3. q \in Seq(Seq(S)) /\ P[m] \in Seq(S) /\ Prefix(P, m) = Append(q, P[m])
      BY <3>1, <1>1, PrefixGrows
    <3>4. end(m - 1) = a
      <4>1. CASE m = 1  BY <4>1, <3>1, <1>3
      <4>2. CASE m # 1  BY <4>2, <3>1, <1>3
      <4>3. QED  BY <4>1, <4>2
    <3>5. end(m) = b  BY <2>3
    <3>6. FlattenSeq(q) = Prefix(s, a)  BY <3>2, <3>4
    <3>7. P[m] = SubSeq(s, a + 1, b)  BY <1>2, <3>1
    <3>8. a \in Nat /\ b \in Nat /\ a <= b /\ b <= Len(s)  BY <1>3, <3>1
    <3> HIDE DEF q, a, b, end
    <3>9. FlattenSeq(Append(q, P[m])) = FlattenSeq(q) \o P[m]
      BY <3>3, FlattenAppend
    <3>10. Prefix(s, a) \o SubSeq(s, a + 1, b) = Prefix(s, b)  BY <3>8, PartsJoin
    <3>11. FlattenSeq(Prefix(P, m)) = Prefix(s, end(m))
      BY <3>3, <3>5, <3>6, <3>7, <3>9, <3>10
    <3>12. QED  BY <3>11
  <2>4. QED  BY <2>2, <2>3
<1>6. FlattenSeq(Prefix(P, n + 1)) = Prefix(s, end(n + 1))
  BY <1>4, <1>5
<1>7. end(n + 1) = Len(s)  BY <1>4
<1> HIDE DEF end, T
<1>8. QED  BY <1>1, <1>6, <1>7, PrefixGrows DEF P

LEMMA WholeAt ==
    ASSUME NEW s, Whole(s), NEW j \in DOMAIN s
    PROVE  /\ s[j] = Lead => s[j + 1] = Trail
           /\ s[j] = Trail => j > 1 /\ s[j - 1] = Lead
BY DEF Whole

LEMMA PiecesWhole ==
    ASSUME NEW S, NEW s \in Seq(S), Whole(s),
           \A k \in DOMAIN Pieces(s) : Last(Pieces(s)[k]) # Lead
    PROVE  \A k \in DOMAIN Pieces(s) : Whole(Pieces(s)[k])
<1> DEFINE P == Pieces(s)
           n == CutsOf(s)
<1>1. n \in Nat /\ P \in Seq(Seq(S)) /\ Len(P) = n + 1 /\ DOMAIN P = 1..(n + 1)
  BY PiecesTyped, PiecesAre
<1>2. \A k \in 1..(n + 1) :
        /\ P[k] \in Seq(S) /\ Len(P[k]) = PieceEnd(s, k) - PieceStart(k)
        /\ \A i \in 1..(PieceEnd(s, k) - PieceStart(k)) : P[k][i] = s[PieceStart(k) + i]
  BY PiecesTyped
<1>3. \A k \in 1..(n + 1) :
        /\ PieceStart(k) \in Nat /\ PieceEnd(s, k) \in Nat /\ PieceStart(k) <= PieceEnd(s, k)
        /\ PieceEnd(s, k) <= Len(s)
        /\ s # <<>> => PieceStart(k) < PieceEnd(s, k)
        /\ k # 1 => PieceStart(k) = PieceEnd(s, k - 1) /\ PieceStart(k) > 0
        /\ PieceStart(1) = 0
  BY PiecesFit
<1>4. \A k \in 1..(n + 1) : Last(P[k]) # Lead  BY <1>1
<1> HIDE DEF P, n
<1> SUFFICES ASSUME NEW k \in 1..(n + 1) PROVE Whole(P[k])  BY <1>1 DEF P
<1> DEFINE a == PieceStart(k)
           L == PieceEnd(s, k) - PieceStart(k)
           p == P[k]
<1>5. /\ a \in Nat /\ L \in Nat /\ a + L <= Len(s) /\ p \in Seq(S) /\ Len(p) = L
      /\ \A i \in 1..L : p[i] = s[a + i]
      /\ Last(p) # Lead
  BY <1>2, <1>3, <1>4
<1>6. ASSUME k # 1, s # <<>> PROVE a > 0 /\ s[a] # Lead
  <2>1. k - 1 \in 1..(n + 1)  BY <1>6, <1>1
  <2> DEFINE l == k - 1
             b == PieceStart(l)
             M == PieceEnd(s, l) - PieceStart(l)
  <2>2. a = PieceEnd(s, l) /\ a > 0  BY <1>3, <1>6
  <2>3. b \in Nat /\ M \in Nat /\ M > 0 /\ b + M = a  BY <1>3, <2>1, <2>2, <1>6
  <2>4. Len(P[l]) = M /\ P[l][M] = s[b + M]
    <3>1. Len(P[l]) = M /\ \A i \in 1..M : P[l][i] = s[b + i]  BY <1>2, <2>1
    <3>2. M \in 1..M  BY <2>3
    <3>3. QED  BY <3>1, <3>2
  <2>5. Last(P[l]) = s[a]  BY <2>3, <2>4 DEF Last
  <2>6. Last(P[l]) # Lead  BY <1>4, <2>1
  <2>7. QED  BY <2>2, <2>5, <2>6
<1>7. k = 1 => a = 0  BY <1>3
<1> HIDE DEF a, L, p
<1>8. DOMAIN p = 1..L /\ Len(s) \in Nat /\ DOMAIN s = 1..Len(s)  BY <1>5
<1> SUFFICES ASSUME NEW i \in 1..L
             PROVE  /\ p[i] = Lead => i < Len(p) /\ p[i + 1] = Trail
                    /\ p[i] = Trail => i > 1 /\ p[i - 1] = Lead
  <2>1. Whole(p)  BY <1>8 DEF Whole
  <2>2. QED  BY <2>1 DEF p
<1>9. a + i \in 1..Len(s) /\ p[i] = s[a + i] /\ s # <<>> /\ i \in Nat /\ i >= 1 /\ i <= L
  BY <1>5, <1>8
<1>10. /\ s[a + i] = Lead => s[a + i + 1] = Trail
       /\ s[a + i] = Trail => a + i > 1 /\ s[(a + i) - 1] = Lead
  <2>1. a + i \in DOMAIN s  BY <1>8, <1>9
  <2>2. s[a + i] = Lead => s[a + i + 1] = Trail  BY <2>1, WholeAt
  <2>3. s[a + i] = Trail => a + i > 1 /\ s[(a + i) - 1] = Lead  BY <2>1, WholeAt
  <2>4. QED  BY <2>2, <2>3
<1>11. ASSUME p[i] = Lead PROVE i < Len(p) /\ p[i + 1] = Trail
  <2>1. i # L  BY <1>5, <1>11 DEF Last
  <2>2. i < L /\ i + 1 \in 1..L  BY <2>1, <1>9, <1>5
  <2>3. p[i + 1] = s[a + (i + 1)]  BY <2>2, <1>5
  <2>5. a + (i + 1) = a + i + 1  BY <1>5, <1>9
  <2>6. s[a + i + 1] = Trail  BY <1>9, <1>10, <1>11
  <2>7. QED  BY <2>2, <2>3, <2>5, <2>6, <1>5
<1>12. ASSUME p[i] = Trail PROVE i > 1 /\ p[i - 1] = Lead
  <2>1. a + i > 1 /\ s[(a + i) - 1] = Lead  BY <1>9, <1>10, <1>12
  <2>2. i # 1
    <3>1. SUFFICES ASSUME i = 1 PROVE FALSE  OBVIOUS
    <3>2. a > 0 /\ (a + i) - 1 = a  BY <2>1, <3>1, <1>5
    <3>3. k # 1  BY <3>2, <1>7
    <3>4. QED  BY <1>6, <1>9, <2>1, <3>2, <3>3
  <2>3. i - 1 \in 1..L /\ i > 1 /\ a + (i - 1) = (a + i) - 1  BY <2>2, <1>9, <1>5
  <2>4. p[i - 1] = s[a + (i - 1)]  BY <2>3, <1>5
  <2>5. QED  BY <2>1, <2>3, <2>4
<1>13. QED  BY <1>11, <1>12

\* One piece of a text, behind the ones that were read.
LEMMA NextIsRead ==
    ASSUME NEW S, {Mark, Backslash, Space} \subseteq S, NEW R \in Seq(Seq(S)),
           NEW s \in Seq(S), Whole(s), ~ IsQuoted(s)
    PROVE  /\ <<Space>> \o QuoteField(s) \in Seq(S)
           /\ ReadOnFrom(Between(R), <<Space>> \o QuoteField(s)) = Between(Append(R, s))
<1>1. /\ QuoteField(s) \in Seq(S) /\ <<Space>> \in Seq(S)
      /\ ReadOnFrom(Between(R), QuoteField(s)) = Between(Append(R, s))
  BY QuotedIsRead
<1> DEFINE g == QuoteField(s)
           blank == <<Space>>
<1>2. ReadOnFrom(Between(R), blank) = Between(R)  BY ReadOne, MarkRead
<1>3. g \in Seq(S) /\ blank \in Seq(S)  BY <1>1
<1> HIDE DEF g, blank
<1>4. ReadOnFrom(Between(R), blank \o g) = ReadOnFrom(ReadOnFrom(Between(R), blank), g)
  BY <1>3, ReadConcat
<1>5. blank \o g \in Seq(S)  BY <1>3
<1>6. ReadOnFrom(Between(R), g) = Between(Append(R, s))  BY <1>1 DEF g
<1>7. QED  BY <1>2, <1>4, <1>5, <1>6 DEF g, blank

LEMMA PiecesRead ==
    ASSUME NEW S, {Mark, Backslash, Space} \subseteq S, NEW P \in Seq(Seq(S)),
           \A k \in DOMAIN P : Whole(P[k]) /\ ~ IsQuoted(P[k]),
           NEW G, DOMAIN G = DOMAIN P, G = [k \in DOMAIN G |-> G[k]],
           \A k \in DOMAIN P : G[k] = IF k = 1 THEN QuoteField(P[k])
                                                 ELSE <<Space>> \o QuoteField(P[k])
    PROVE  ReadOnFrom(Between(<<>>), FlattenSeq(G)) = Between(P)
<1> DEFINE n == Len(P)
           read(m) == ReadOnFrom(Between(<<>>), FlattenSeq(Prefix(G, m)))
           T == {m \in 0..n : read(m) # Between(Prefix(P, m))}
<1>1. n \in Nat /\ DOMAIN P = 1..n /\ \A k \in 1..n : P[k] \in Seq(S)
  OBVIOUS
<1>2. \A k \in 1..n : G[k] \in Seq(S)
  <2> SUFFICES ASSUME NEW k \in 1..n PROVE G[k] \in Seq(S)  OBVIOUS
  <2>1. P[k] \in Seq(S) /\ Whole(P[k]) /\ ~ IsQuoted(P[k])  BY <1>1
  <2>2. <<>> \in Seq(Seq(S)) /\ {Mark, Backslash} \subseteq S  OBVIOUS
  <2>3. QuoteField(P[k]) \in Seq(S)  BY <2>1, <2>2, QuotedIsRead
  <2>4. <<Space>> \o QuoteField(P[k]) \in Seq(S)  BY <2>1, <2>2, NextIsRead
  <2>5. QED  BY <1>1, <2>3, <2>4
<1> HIDE DEF n
<1>3. G \in Seq(Seq(S)) /\ Len(G) = n
  <2>1. G \in [1..n -> Seq(S)]  BY <1>1, <1>2
  <2>2. QED  BY <2>1, <1>1
<1>4. T = {}
  <2> SUFFICES ASSUME T # {} PROVE FALSE  OBVIOUS
  <2>1. PICK m \in T : \A l \in T : m <= l
    <3> T \in SUBSET Nat  BY <1>1
    <3> HIDE DEF T
    <3>1. QED  BY Least
  <2>2. CASE m = 0
    <3>1. Prefix(G, 0) = <<>> /\ Prefix(P, 0) = <<>>  BY <1>3, PrefixGrows
    <3>2. FlattenSeq(<<>>) = <<>>  BY DEF FlattenSeq
    <3>3. read(0) = Between(Prefix(P, 0))  BY <3>1, <3>2, ReadNothing
    <3>4. QED  BY <3>3, <2>2
  <2>3. CASE m # 0
    <3>1. /\ m - 1 \in 0..n-1 /\ m - 1 + 1 = m /\ m - 1 \in 0..n /\ m \in 1..n
          /\ m \in 1..Len(P) /\ m \in 1..Len(G)
      BY <1>1, <1>3, <2>3 DEF n
    <3>2. read(m - 1) = Between(Prefix(P, m - 1))
      <4>1. m - 1 \notin T  BY <2>1, <3>1
      <4>2. QED  BY <4>1, <3>1
    <3> DEFINE R == Prefix(P, m - 1)
               q == Prefix(G, m - 1)
               g == G[m]
               p == P[m]
    <3>3. R \in Seq(Seq(S)) /\ p \in Seq(S) /\ Prefix(P, m) = Append(R, p)
      BY <3>1, PrefixStep
    <3>4. q \in Seq(Seq(S)) /\ g \in Seq(S) /\ Prefix(G, m) = Append(q, g)
      BY <3>1, <1>3, PrefixStep
    <3>5. Whole(p) /\ ~ IsQuoted(p)  BY <3>1, <1>1
    <3>6. g = IF m = 1 THEN QuoteField(p) ELSE <<Space>> \o QuoteField(p)
      BY <3>1, <1>1
    <3>7. ReadOnFrom(Between(<<>>), FlattenSeq(q)) = Between(R)  BY <3>2
    <3> HIDE DEF R, q, g, p
    <3>8. FlattenSeq(Append(q, g)) = FlattenSeq(q) \o g /\ FlattenSeq(q) \in Seq(S)
      BY <3>4, FlattenAppend, FlattenSeqHolds
    <3>9. ReadOnFrom(Between(R), g) = Between(Append(R, p))
      <4>1. {Mark, Backslash} \subseteq S  OBVIOUS
      <4>2. ReadOnFrom(Between(R), QuoteField(p)) = Between(Append(R, p))
        BY <3>3, <3>5, <4>1, QuotedIsRead
      <4>3. ReadOnFrom(Between(R), <<Space>> \o QuoteField(p)) = Between(Append(R, p))
        BY <3>3, <3>5, NextIsRead
      <4>4. QED  BY <3>6, <4>2, <4>3
    <3>10. ReadOnFrom(Between(<<>>), FlattenSeq(q) \o g) =
             ReadOnFrom(ReadOnFrom(Between(<<>>), FlattenSeq(q)), g)
      BY <3>4, <3>8, ReadConcat
    <3>11. read(m) = Between(Prefix(P, m))
      BY <3>3, <3>4, <3>7, <3>8, <3>9, <3>10
    <3> HIDE DEF read
    <3>12. QED  BY <3>11
  <2>4. QED  BY <2>2, <2>3
<1>5. read(n) = Between(Prefix(P, n))
  <2>1. n \in 0..n  BY <1>1
  <2>2. QED  BY <1>4, <2>1
<1>6. Prefix(P, n) = P /\ Prefix(G, n) = G  BY <1>3, PrefixGrows DEF n
<1>7. QED  BY <1>5, <1>6

\* A text that is cut well is read back in the pieces that it was cut into.
LEMMA TextIsRead ==
    ASSUME NEW V, NEW s \in Seq(V), Whole(s), ~ IsQuoted(s),
           \A k \in DOMAIN Pieces(s) : ~ IsQuoted(Pieces(s)[k]) /\ Last(Pieces(s)[k]) # Lead
    PROVE  Strings(QuoteTXT(s)) = Pieces(s)
<1> DEFINE S == V \cup {Mark, Backslash, Space}
           P == Pieces(s)
           G == [k \in DOMAIN P |-> IF k = 1 THEN QuoteField(P[k])
                                             ELSE <<Space>> \o QuoteField(P[k])]
<1>1. s \in Seq(S) /\ {Mark, Backslash, Space} \subseteq S  OBVIOUS
<1>2. \A k \in DOMAIN P : Whole(P[k]) /\ ~ IsQuoted(P[k])  BY PiecesWhole
<1>3. QuoteTXT(s) = FlattenSeq(G)  BY DEF QuoteTXT
<1>4. /\ DOMAIN G = DOMAIN P /\ G = [k \in DOMAIN G |-> G[k]]
      /\ \A k \in DOMAIN P : G[k] = IF k = 1 THEN QuoteField(P[k])
                                               ELSE <<Space>> \o QuoteField(P[k])
  OBVIOUS
<1> HIDE DEF S
<1>5. P \in Seq(Seq(S))  BY <1>1, PiecesTyped
<1> HIDE DEF P, G
<1>6. ReadOnFrom(Between(<<>>), FlattenSeq(G)) = Between(P)
  BY <1>1, <1>2, <1>4, <1>5, PiecesRead
<1>7. Strings(QuoteTXT(s)) = Between(P).read  BY <1>3, <1>6 DEF Strings, Between
<1>8. Between(P).read = P  BY DEF Between
<1>9. QED  BY <1>7, <1>8 DEF P

\* A piece is no longer than MaxChunk.
LEMMA PiecesAreShort ==
    ASSUME NEW V, NEW s \in Seq(V), NEW k \in DOMAIN Pieces(s)
    PROVE  Len(Pieces(s)[k]) <= MaxChunk
<1>1. CutsOf(s) \in Nat  BY CutsFit
<1>2. k \in 1..(CutsOf(s) + 1)  BY <1>1, PiecesAre
<1>3. Len(Pieces(s)[k]) = PieceEnd(s, k) - PieceStart(k)  BY <1>2, PiecesTyped
<1>4. PieceEnd(s, k) - PieceStart(k) <= MaxChunk  BY <1>2, PiecesFit
<1>5. QED  BY <1>3, <1>4

\* A TXT is read as it was written, in pieces that fit, for any configuration and
\* any length of a piece (record.go:219-251).
THEOREM TxtIsKept == Spec => []TxtKeepsItsText
<1>1. TxtKeepsItsText
  <2> SUFFICES ASSUME NEW i \in DOMAIN runtime.records,
                      runtime.records[i].value[1].text \in DOMAIN Bytes,
                      WellCut(Bytes[runtime.records[i].value[1].text])
               PROVE  LET s == Bytes[runtime.records[i].value[1].text]
                          read == Strings(QuoteTXT(s))
                      IN  /\ FlattenSeq(read) = s
                          /\ \A k \in DOMAIN read : Len(read[k]) <= MaxChunk
    BY DEF TxtKeepsItsText
  <2> DEFINE w == runtime.records[i].value[1].text
             s == Bytes[w]
             V == ToSet(s)
             read == Strings(QuoteTXT(s))
  <2>1. s \in Seq(V) /\ Whole(s) /\ ~ IsQuoted(s)  BY TextAssumption
  <2>2. WellCut(s)  OBVIOUS
  <2> HIDE DEF s, V
  <2>3. \A k \in DOMAIN Pieces(s) : ~ IsQuoted(Pieces(s)[k]) /\ Last(Pieces(s)[k]) # Lead
    BY <2>2 DEF WellCut
  <2>4. Strings(QuoteTXT(s)) = Pieces(s)  BY <2>1, <2>3, TextIsRead
  <2>5. FlattenSeq(Pieces(s)) = s  BY <2>1, PiecesFlatten
  <2>6. \A k \in DOMAIN Pieces(s) : Len(Pieces(s)[k]) <= MaxChunk
    BY <2>1, PiecesAreShort
  <2>7. QED  BY <2>4, <2>5, <2>6 DEF s
<1>2. QED  BY <1>1, PTL

-----------------------------------------------------------------------------
(* The files that config init and config import write.                     *)

LEMMA PartOfOne ==
    ASSUME NEW S, NEW s \in Seq(S), NEW i \in 1..Len(s)
    PROVE  ToSet(SubSeq(s, i, i)) = {s[i]}
<1> DEFINE t == SubSeq(s, i, i)
<1>1. t \in Seq(S) /\ Len(t) = 1 /\ t[1] = s[i]  OBVIOUS
<1> HIDE DEF t
<1>2. DOMAIN t = {1}  BY <1>1
<1>3. QED  BY <1>1, <1>2 DEF ToSet, t

\* An address with a port is one that is dialled and bound as it is.
LEMMA HostColonPort ==
    ASSUME NEW w \in DOMAIN IPv4 \ Colons
    PROVE  LET text == <<w, ":", "53">>
           IN  /\ text \in Seq(Words) /\ text # <<>> /\ HostPort(text)
               /\ ~ Has(text, "://") /\ ~ Has(text, "#")
<1> DEFINE text == <<w, ":", "53">>
           I == {i \in 1..Len(text) : text[i] = ":"}
           marks == Colons \cup {"[", "]"}
           h == SubSeq(text, 1, 1)
           port == SubSeq(text, 3, 3)
<1>1. w \in Words /\ w \notin Separators /\ "53" \in Words /\ ":" \in Words
  BY Marks, AddressesAssumption
<1>2. w \notin marks /\ "53" \notin marks /\ w # ":"
  BY <1>1, SampleAssumption DEF Separators
<1>3. text \in Seq(Words) /\ Len(text) = 3 /\ text[1] = w /\ text[2] = ":" /\ text[3] = "53"
  BY <1>1
<1>4. text # <<>>  OBVIOUS
<1>5. ToSet(text) \subseteq {w, ":", "53"}
  <2>1. \A i \in 1..3 : i = 1 \/ i = 2 \/ i = 3  OBVIOUS
  <2> HIDE DEF text
  <2>2. ASSUME NEW x \in ToSet(text) PROVE x \in {w, ":", "53"}
    <3>1. PICK i \in DOMAIN text : x = text[i]  BY DEF ToSet
    <3>2. i \in 1..3  BY <1>3
    <3>3. QED  BY <3>1, <3>2, <2>1, <1>3
  <2>3. QED  BY <2>2
<1>6. I = {2}
  <2>1. \A i \in 1..3 : i = 1 \/ i = 2 \/ i = 3  OBVIOUS
  <2>2. ":" # "53"  OBVIOUS
  <2> HIDE DEF text
  <2>3. QED  BY <2>1, <2>2, <1>2, <1>3
<1>7. PortColon(text) = IF I # {} THEN Max(I) ELSE 0  BY DEF PortColon, SelectLastInSeq
<1> HIDE DEF text, I, marks
<1>8. PortColon(text) = 2
  <2>1. Max({2}) = 2  BY DEF Max
  <2>2. QED  BY <2>1, <1>6, <1>7
<1>9. ToSet(h) = {w} /\ ToSet(port) = {"53"}
  <2>1. 1 \in 1..Len(text) /\ 3 \in 1..Len(text)  BY <1>3
  <2>2. QED  BY <2>1, <1>3, PartOfOne
<1>10. ToSet(h) \cap marks = {} /\ ToSet(port) \cap marks = {}  BY <1>2, <1>9
<1>11. HostPort(text)
  <2>1. 2 - 1 = 1 /\ 2 + 1 = 3 /\ 2 # 0  OBVIOUS
  <2>2. QED  BY <2>1, <1>3, <1>8, <1>10 DEF HostPort, marks
<1>12. ~ Has(text, "://") /\ ~ Has(text, "#")
  <2>1. "://" \notin {w, ":", "53"} /\ "#" \notin {w, ":", "53"}
    BY <1>1 DEF Separators
  <2>2. QED  BY <2>1, <1>3, <1>5, AtIs
<1>13. QED  BY <1>3, <1>4, <1>11, <1>12 DEF text

\* An upstream that is an address with a port, and a list of two of them.
LEMMA PlainServer ==
    ASSUME NEW text \in Seq(Words), HostPort(text), ~ Has(text, "://"), ~ Has(text, "#")
    PROVE  ParseServer(text) \in Server
<1>1. Dial(text, <<"53">>) = text  BY DEF Dial
<1>2. text # Error  BY AddressesAssumption
<1>3. ParseServer(text) = [addr |-> text, net |-> "udp", tlsName |-> <<>>]
  BY <1>1, <1>2 DEF ParseServer, ParsePlain
<1>4. QED  BY <1>3 DEF Server

LEMMA TwoServers ==
    ASSUME NEW a, NEW b, a # <<>>, b # <<>>,
           ParseServer(a) \in Server, ParseServer(b) \in Server
    PROVE  ParseServers(<<a, b>>) # Error
<1> DEFINE texts == <<a, b>>
           pa == <<ParseServer(a)>>
           pb == <<ParseServer(b)>>
           tt == [i \in DOMAIN texts |-> IF texts[i] = <<>> THEN <<>>
                                         ELSE <<ParseServer(texts[i])>>]
           ss == <<pa>>
<1>1. Servers(texts) = FlattenSeq(tt)  BY DEF Servers
<1>2. DOMAIN texts = 1..2 /\ texts[1] = a /\ texts[2] = b  OBVIOUS
<1>3. Len(tt) = 2 /\ tt[1] = pa /\ tt[2] = pb  BY <1>2
<1>4. pa \in Seq(Server) /\ pb \in Seq(Server) /\ Len(pa) = 1  OBVIOUS
<1> HIDE DEF texts, pa, pb, tt
<1>5. Len(ss) = 1 /\ ss[1] = pa  OBVIOUS
<1> HIDE DEF ss
<1>6. FlattenSeq(ss) = pa  BY <1>5, FlattenOne
<1>7. FlattenSeq(tt) = pa \o pb
  <2> DEFINE n == 1
  <2>1. n \in Nat \ {0} /\ Len(ss) = n /\ Len(tt) = n + 1 /\ tt[n + 1] = pb  BY <1>3, <1>5
  <2>2. \A i \in 1..n : ss[i] = tt[i]
    <3>1. \A i \in 1..n : i = 1  OBVIOUS
    <3>2. QED  BY <3>1, <1>3, <1>5
  <2> HIDE DEF n
  <2>3. FlattenSeq(tt) = FlattenSeq(ss) \o tt[n + 1]  BY <2>1, <2>2, FlattenOneMore
  <2>4. QED  BY <2>1, <2>3, <1>6
<1>8. pa \o pb \in Seq(Server) /\ pa \o pb # <<>>
  <2>1. pa \o pb \in Seq(Server) /\ Len(pb) \in Nat  BY <1>4
  <2>2. Len(pa \o pb) = Len(pa) + Len(pb)  BY <1>4, ConcatLen
  <2>3. QED  BY <2>1, <2>2, <1>4
<1>9. Servers(texts) \in Seq(Server) /\ Servers(texts) # <<>>  BY <1>1, <1>7, <1>8
<1>10. Error \notin ToSet(Servers(texts))
  <2>1. Error \notin Server  BY AddressesAssumption
  <2>2. QED  BY <2>1, <1>9 DEF ToSet
<1>11. Servers(texts) # Error  BY <1>9, AddressesAssumption
<1>12. QED  BY <1>9, <1>10, <1>11 DEF ParseServers, texts

\* A listen address with a port: two sockets, one of each transport.
LEMMA PlainListen ==
    ASSUME NEW text \in Seq(Words), HostPort(text), ~ Has(text, "://")
    PROVE  ParseListen(text) # Error /\ IsInjective(ParseListen(text))
<1> DEFINE nets == <<"udp", "tcp">>
           p == [i \in 1..Len(nets) |-> [net |-> nets[i], addr |-> text]]
<1>1. nets \in Seq({"udp", "tcp"}) /\ Len(nets) = 2 /\ nets[1] = "udp" /\ nets[2] = "tcp"
  OBVIOUS
<1>2. nets # Error  BY <1>1, AddressesAssumption
<1>3. ParseListen(text) = p  BY <1>2 DEF ParseListen
<1> HIDE DEF nets
<1>4. \A i \in 1..2 : p[i] = [net |-> nets[i], addr |-> text]  BY <1>1
<1>5. DOMAIN p = 1..2 /\ p = [i \in 1..2 |-> p[i]]  BY <1>1
<1>6. \A i \in 1..2 : nets[i] \in {"udp", "tcp"}  BY <1>1
<1>7. \A i \in 1..2 : p[i] \in Socket /\ p[i].net = nets[i]  BY <1>4, <1>6 DEF Socket
<1> HIDE DEF p
<1>8. p \in Seq(Socket)
  <2>1. DOMAIN nets = 1..2  BY <1>1
  <2>2. QED  BY <2>1, <1>1, <1>5, <1>7, ListOf
<1>9. p # Error  BY <1>8, AddressesAssumption
<1>10. \A i, j \in 1..2 : p[i] = p[j] => i = j
  <2>1. \A i \in 1..2 : i = 1 \/ i = 2  OBVIOUS
  <2>2. p[1].net = "udp" /\ p[2].net = "tcp"  BY <1>1, <1>7
  <2>3. QED  BY <2>1, <2>2
<1>11. QED  BY <1>3, <1>5, <1>9, <1>10 DEF IsInjective

\* What serve needs of the settings, and the import and the sample leave at their
\* defaults.
Served == {"listen", "upstream", "level", "format"}

\* What the defaults are good for.
LEMMA ServesAsDefault ==
    ASSUME NEW s, \A k \in Served : s[k] = DefaultSettings[k], s = [k \in Settings |-> s[k]]
    PROVE  /\ LogSetsUp(s) /\ ParseServers(s.upstream) # Error
           /\ ListenParses(s) /\ IsInjective(Sockets(s))
<1> DEFINE a == <<"1.1.1.1", ":", "53">>
           b == <<"8.8.8.8", ":", "53">>
           l == <<"127.0.0.1", ":", "53">>
<1>1. s.listen = <<l>> /\ s.upstream = <<a, b>> /\ s.level = "info" /\ s.format = "console"
  <2>1. DefaultSettings.listen = <<l>> /\ DefaultSettings.upstream = <<a, b>>
        /\ DefaultSettings.level = "info" /\ DefaultSettings.format = "console"
    BY DEF DefaultSettings
  <2> HIDE DEF a, b, l
  <2>2. QED  BY <2>1 DEF Served
<1>2. \A t \in {a, b, l} : /\ t \in Seq(Words) /\ t # <<>> /\ HostPort(t)
                           /\ ~ Has(t, "://") /\ ~ Has(t, "#")
  <2>1. \A w \in {"1.1.1.1", "8.8.8.8", "127.0.0.1"} : w \in DOMAIN IPv4 \ Colons
    BY ConfigAssumption
  <2>2. QED  BY <2>1, HostColonPort
<1> HIDE DEF a, b, l
<1>3. LogSetsUp(s)  BY <1>1 DEF LogSetsUp
<1>4. ParseServers(s.upstream) # Error  BY <1>1, <1>2, PlainServer, TwoServers
<1>5. ParseListen(l) # Error /\ IsInjective(ParseListen(l))  BY <1>2, PlainListen
<1>6. DOMAIN s.listen = 1..1 /\ s.listen[1] = l  BY <1>1
<1>7. ListenParses(s)  BY <1>5, <1>6 DEF ListenParses
<1>8. Sockets(s) = ParseListen(l)
  <2> DEFINE tt == [i \in DOMAIN s.listen |-> ParseListen(s.listen[i])]
  <2>1. Sockets(s) = FlattenSeq(tt)  BY DEF Sockets
  <2>2. Len(tt) = 1 /\ tt[1] = ParseListen(l)  BY <1>6
  <2> HIDE DEF tt
  <2>3. QED  BY <2>1, <2>2, FlattenOne
<1>9. QED  BY <1>3, <1>4, <1>5, <1>7, <1>8

\* A file that loads and leaves those settings alone starts a server.
LEMMA ServesAlone ==
    ASSUME NEW content, IsSeq(content.records), Loads(content),
           \A k \in Served : ApplyDefaults(content).settings[k] = DefaultSettings[k]
    PROVE  Outcome(content, NoFlags) = "serving"
<1> DEFINE c == ApplyDefaults(content)
<1>1. content.kind = "document" /\ Valid(c)  BY DEF Loads
<1>2. BuildConfig(content, NoFlags) = c  BY <1>1, BuiltAlone
<1>3. FlagsParse(NoFlags)
  <2>1. NoFlags.records = <<>>  BY DEF NoFlags
  <2>2. QED  BY <2>1 DEF FlagsParse
<1>4. Configures(content, NoFlags)  BY <1>1, <1>2, <1>3 DEF Configures
<1>5. c.settings = [k \in Settings |-> c.settings[k]]  BY DEF ApplyDefaults
<1> DEFINE s == c.settings
<1>6. /\ LogSetsUp(s) /\ ParseServers(s.upstream) # Error
      /\ ListenParses(s) /\ IsInjective(Sockets(s))
  <2> HIDE DEF c
  <2>1. QED  BY <1>5, ServesAsDefault DEF c
<1> HIDE DEF c
<1>7. QED  BY <1>2, <1>4, <1>6 DEF Outcome

\* What such a file is, as long as nobody edits it.
WrittenInv ==
    author # "user" =>
        /\ Loads(disk)
        /\ \A k \in Served : ApplyDefaults(disk).settings[k] = DefaultSettings[k]

\* An import sets nothing.
LEMMA BlankIsDefault ==
    ASSUME NEW h, NEW r
    PROVE  \A k \in Settings :
              ApplyDefaults(Document(Blank, h, r)).settings[k] = DefaultSettings[k]
<1>1. Document(Blank, h, r).settings = Blank  BY DEF Document
<1>2. \A k \in Settings : Blank[k] = Unset  BY DEF Blank
<1>3. QED  BY <1>1, <1>2 DEF ApplyDefaults

LEMMA WrittenStarts == Init => WrittenInv
BY DEF Init, WrittenInv

LEMMA WrittenStep == ImportInv /\ WrittenInv /\ [Next]_vars => WrittenInv'
<1> SUFFICES ASSUME ImportInv, WrittenInv, [Next]_vars PROVE WrittenInv'  OBVIOUS
<1>0. Served \subseteq Settings  BY DEF Served, Settings
<1>1. CASE Edit
  <2>1. author' = "user"  BY <1>1 DEF Edit, Put
  <2>2. QED  BY <2>1 DEF WrittenInv
<1>2. CASE InitFile
  <2>1. disk' = Sample  BY <1>2 DEF InitFile, Put
  <2>2. QED  BY <1>0, <2>1, SampleLoads DEF WrittenInv
<1>3. CASE WriteImport
  <2>1. disk' = Document(Blank, hosts, records)  BY <1>3 DEF WriteImport, Put, Imported
  <2>2. Loads(Document(Blank, hosts, records))
    BY BlankIsValid DEF ImportInv, HostsInv, RecordsInv
  <2>3. QED  BY <1>0, <2>1, <2>2, BlankIsDefault DEF WrittenInv
<1>4. CASE ~ (Edit \/ InitFile \/ WriteImport)
  <2>1. UNCHANGED <<disk, author>>
    BY <1>4 DEF Next, vars, ImportLine, Check, Serve, Reload, Stop, Query
  <2>2. QED  BY <2>1 DEF WrittenInv
<1>5. QED  BY <1>1, <1>2, <1>3, <1>4

\* A file that config init or config import wrote starts a server, as long as
\* nobody edits it, whatever was imported and whichever of the two ran over the
\* other's file: what they write loads, and leaves to the defaults all that is
\* parsed or bound after that (cmd/config.go:20-81, 188-213, config.go:159-226).
THEOREM GeneratedFilesStart == Spec => []GeneratedFilesServe
<1>1. ASSUME ListsInv, WrittenInv PROVE GeneratedFilesServe
  <2> SUFFICES ASSUME author # "user" PROVE Outcome(disk, NoFlags) = "serving"
    BY DEF GeneratedFilesServe
  <2>1. Loads(disk) /\ \A k \in Served : ApplyDefaults(disk).settings[k] = DefaultSettings[k]
    BY <1>1 DEF WrittenInv
  <2>2. IsSeq(disk.records)  BY <1>1, <2>1 DEF ListsInv, Loads
  <2>3. QED  BY <2>1, <2>2, ServesAlone
<1>2. QED
  BY ImportStarts, ImportStep, ListsStart, ListsStep, WrittenStarts, WrittenStep, <1>1,
     PTL DEF Spec
=============================================================================
