------------------------------ MODULE Commands ------------------------------
(***************************************************************************)
(* The commands of dnswizard around one configuration file: config init,   *)
(* config import, config check and serve with its reloads, and query       *)
(* beside them (src/cmd), while a user edits the file.  Config and Import  *)
(* say what is built, HotReload when a reload is made; here it may be made *)
(* at any time.                                                            *)
(*                                                                         *)
(* Encoding and decoding YAML is external: a Config is written with its    *)
(* unset settings left out, and reads back as it is.                       *)
(***************************************************************************)
EXTENDS Import, Text

CONSTANTS
    Situations,     \* [lines, disk, flags, edits, asked]: how a session begins
    QueryServers,   \* what query may be told to ask, texts
    Edits           \* what a user may make of the file

\* What YAML can make of a Config, and a line of a legacy file of its fields.
Upstreams(list) == list = Unset \/ list \in Seq(Texts)
Decoded(c) ==
    /\ c.records \in Seq(Specs) /\ c.hosts \in [Names -> Seq(Seq(Field))]
    /\ Upstreams(c.settings.upstream)
Split(line) ==
    /\ line.kind = "header" => line.section \in Words
    /\ line.kind = "entry" => line.name \in Names \cup {<<>>} /\ line.value \in Seq(Field)

ASSUME CommandsAssumption ==
    /\ \A s \in Situations :
          /\ s.edits \in Nat /\ s.asked \in {None, Unset}
          /\ s.flags.records \in Seq(Seq(Words))
          /\ "upstream" \in DOMAIN s.flags.settings => Upstreams(s.flags.settings.upstream)
          /\ \A i \in DOMAIN s.flags.records :
                LET r == ParseRecordFlag(s.flags.records[i])
                IN  r # Error => r.name \in Seq(Words)
          /\ s.lines # None =>
                s.lines \in Seq(ToSet(s.lines)) /\ \A i \in DOMAIN s.lines : Split(s.lines[i])
    /\ \A c \in Edits \cup {s.disk : s \in Situations} :
          c.kind = "document" => Decoded(c) /\ c.settings.ttl # 0
    /\ QueryServers \subseteq Texts

\* The file that config init writes: its settings are the defaults, spelled out
\* but for the log's.
DevLocal == <<"local", "dev">>
Starred == DevLocal \o <<Star>>
ApiHost == DevLocal \o <<"api">>
IPv6Host == DevLocal \o <<"ipv6">>
SPF == "v=spf1 -all"
SampleSettings ==
    [listen   |-> <<<<"127.0.0.1", ":", "53">>>>,
     upstream |-> <<<<"1.1.1.1", ":", "53">>, <<"8.8.8.8", ":", "53">>>>,
     ttl |-> 60, timeout |-> 3, fallback |-> "proxy", only |-> Unset, except |-> Unset,
     nodata |-> TRUE, chase |-> TRUE, level |-> Unset, format |-> Unset]
SampleHosts ==
    [n \in Names |->
        CASE n = Starred  -> <<Fields(<<"127.0.0.1">>)>>
          [] n = ApiHost  -> <<Fields(<<"10.0.0.10">>), Fields(<<"10.0.0.11">>)>>
          [] n = IPv6Host -> <<Fields(<<"::1">>)>>
          [] OTHER        -> <<>>]

\* A record of one value.
One(name, type, words, ttl) ==
    [name |-> name, type |-> type, values |-> <<Fields(words)>>, ttl |-> ttl]
SampleRecords ==
    <<One(DevLocal, "MX", <<"mail">>, 0),
      One(DevLocal \o <<"_tcp", "_sip">>, "SRV", <<"0", "5", "5060", "sip">>, 0),
      One(DevLocal, "TXT", <<SPF>>, 300),
      One(DevLocal \o <<"old">>, "CNAME", <<"api">>, 0)>>
Sample == Document(SampleSettings, SampleHosts, SampleRecords)

\* The sample is made of words and names that there are, and net.IP and dns.NewRR
\* know its addresses and numbers.
ASSUME SampleAssumption ==
    /\ {Starred, ApiHost, IPv6Host} \subseteq Names
    /\ {"local", "dev", "_tcp", "_sip", "old", "mail", "sip", SPF, "api",
        "0", "5", "5060"} \subseteq Words
    /\ {"0", "5", "5060"} \subseteq DOMAIN Numeral
    /\ {"10.0.0.10", "10.0.0.11"} \subseteq DOMAIN IPv4 /\ "::1" \in DOMAIN IPv6
    /\ "53" \notin Colons

VARIABLES
    flags,          \* the command line of serve
    disk,           \* the file, or Missing
    author,         \* who wrote it: "user", "init" or "import"
    edits,          \* bound: how often a user may still edit it
    printed,        \* what config check printed of the file, None if nothing
    stage,          \* "none", "serving", "stopped", or what serve failed at
    runtime,        \* the records and switches in use
    served,         \* the content of the file they were built from
    servers,        \* the upstreams in use
    asked           \* [text, tcp, server] of query, Unset before, None without

vars == <<import, flags, disk, author, edits, printed, stage, runtime, served,
          servers, asked>>
server == <<stage, runtime, served, servers, asked>>

Init ==
    /\ \E s \in Situations :
          /\ lines = s.lines /\ disk = s.disk /\ flags = s.flags
          /\ edits = s.edits /\ asked = s.asked
    /\ ImportInit /\ author = "user" /\ printed = None
    /\ stage = "none" /\ runtime = None /\ served = None /\ servers = <<>>

-----------------------------------------------------------------------------
(* The file.                                                               *)

Put(content, who) == disk' = content /\ author' = who /\ printed' = None

Edit ==
    /\ edits > 0 /\ edits' = edits - 1
    /\ \E content \in Edits : Put(content, "user")
    /\ UNCHANGED <<import, flags, server>>

\* config init: an existing file takes --force.
InitFile ==
    /\ edits > 0 /\ edits' = edits - 1
    /\ \E force \in BOOLEAN : disk = Missing \/ force
    /\ Put(Sample, "init")
    /\ UNCHANGED <<import, flags, server>>

\* config import: skipped sections are a warning only.
ImportLine == ReadLine /\ UNCHANGED <<flags, disk, author, edits, printed, server>>
WriteImport ==
    /\ outcome = "done" /\ outcome' = "written"
    /\ Put(Imported, "import")
    /\ UNCHANGED <<lines, position, section, hosts, records, skipped, flags, edits, server>>

\* config check: the records and the TTL each would have.
Table(c) ==
    LET store == BuildStore(c).records
    IN  [i \in DOMAIN store |->
            [name |-> store[i].name, type |-> store[i].type, value |-> store[i].value,
             ttl |-> IF store[i].ttl = 0 THEN c.settings.ttl ELSE store[i].ttl]]
Check ==
    /\ printed = None
    /\ printed' = IF Loads(disk) THEN Table(ApplyDefaults(disk)) ELSE Error
    /\ UNCHANGED <<import, flags, disk, author, edits, server>>

-----------------------------------------------------------------------------
(* serve.                                                                  *)

\* logging.Setup; the output itself is left out.
LogSetsUp(s) ==
    /\ s.level \in {"debug", "info", "warn", "warning", "error"}
    /\ s.format \in {"console", "text", "json"}

Sockets(s) == FlattenSeq([i \in DOMAIN s.listen |-> ParseListen(s.listen[i])])
ListenParses(s) == \A i \in DOMAIN s.listen : ParseListen(s.listen[i]) # Error

\* Where run fails, in its order; a socket can be bound once.  That another
\* program has it is in Lifecycle.
Outcome(content, given) ==
    LET s == BuildConfig(content, given).settings
    IN  IF ~ Configures(content, given) THEN "config"
        ELSE IF ~ LogSetsUp(s) THEN "log"
        ELSE IF ParseServers(s.upstream) = Error THEN "upstream"
        ELSE IF ~ ListenParses(s) THEN "listen"
        ELSE IF ~ IsInjective(Sockets(s)) THEN "bind"
        ELSE "serving"

Serve ==
    /\ stage = "none"
    /\ stage' = Outcome(disk, flags)
    /\ IF Outcome(disk, flags) = "serving"
         THEN /\ runtime' = Runtime(BuildConfig(disk, flags)) /\ served' = disk
              /\ servers' = ParseServers(BuildConfig(disk, flags).settings.upstream)
         ELSE UNCHANGED <<runtime, served, servers>>
    /\ UNCHANGED <<import, flags, disk, author, edits, printed, asked>>

\* A configuration that is not valid changes nothing; one that is changes the
\* records and the switches only.
Reload ==
    /\ stage = "serving" /\ Configures(disk, flags)
    /\ runtime' = Runtime(BuildConfig(disk, flags)) /\ served' = disk
    /\ UNCHANGED <<import, flags, disk, author, edits, printed, stage, servers, asked>>

Stop ==
    /\ stage = "serving" /\ stage' = "stopped"
    /\ UNCHANGED <<import, flags, disk, author, edits, printed, runtime, served, servers,
                   asked>>

-----------------------------------------------------------------------------
(* query.                                                                  *)

\* A mistake: --tcp is put before a transport that is there, too.
ServerSpecTwice(text, tcp) == IF tcp THEN <<"tcp", "://">> \o text ELSE text

ServerSpec(text, tcp) == IF tcp /\ ~ Has(text, "://") THEN <<"tcp", "://">> \o text ELSE text

\* One server, asked as Resolver says.
Query ==
    /\ asked = Unset
    /\ \E text \in QueryServers, tcp \in BOOLEAN :
          asked' = [text |-> text, tcp |-> tcp, server |-> ParseServers(<<ServerSpec(text, tcp)>>)]
    /\ UNCHANGED <<import, flags, disk, author, edits, printed, stage, runtime, served,
                   servers>>

Next ==
    \/ Edit \/ InitFile \/ ImportLine \/ WriteImport \/ Check
    \/ Serve \/ Reload \/ Stop \/ Query

Spec == Init /\ [][Next]_vars

-----------------------------------------------------------------------------
(* Properties.                                                             *)

NoFlags == [settings |-> <<>>, records |-> <<>>]

\* What serves, before and after any reload, was built from a file that loads by
\* itself, whatever the flags would make of it, or from none, and has at least
\* one upstream (serve.go:100-131, 174-184, config.go:175-194).
TypeOK ==
    /\ position \in Nat /\ outcome \in {"none", "reading", "failed", "done", "written"}
    /\ author \in {"user", "init", "import"} /\ edits \in Nat
    /\ stage \in {"none", "config", "log", "upstream", "listen", "bind", "serving", "stopped"}
    /\ stage \in {"serving", "stopped"} =>
          servers # <<>> /\ (served.kind = "missing" \/ Loads(served))

\* A file that config init or config import has written, and nobody has edited,
\* is one that serve starts with: it loads, and the defaults that fill it up can be
\* parsed and bound (cmd/config.go:20-81, 188-213, config.go:159-226).
GeneratedFilesServe ==
    author # "user" => Outcome(disk, NoFlags) = "serving"

\* "dnswizard config check validates a file and prints the records it would serve"
\* (README.md:109-110): what it printed is what serve, without flags, answers
\* with, record for record and with its TTL, which the two work out apart
\* (cmd/config.go:155-161, record.go:66-73).
CheckShowsWhatIsServed ==
    (/\ printed \notin {None, Error} /\ served = disk
     /\ flags = NoFlags /\ stage = "serving")
      => printed = [i \in DOMAIN runtime.records |->
                      LET r == runtime.records[i]
                      IN  [name |-> r.name, type |-> r.type, value |-> r.value,
                           ttl |-> TTL(r.ttl, runtime.ttl)]]

\* A file that is valid and flags that are valid make a valid configuration
\* together, even when one names an only list and the other an except list, and
\* so a reload of a valid file is never refused (serve.go:214-260).
ValidAloneValidTogether ==
    Loads(disk) /\ Configures(Missing, flags) => Configures(disk, flags)

Exact(n) == \A i \in DOMAIN n : n[i] # Star
HasExact(c, type, n) == \E k \in ByType(c.records, type) : c.records[k].name = n

\* "Command-line records are appended after file records. Both are matched by
\* specificity, so an exact --record still wins over a wildcard in the file"
\* (serve.go:246-247): its value is among those that answer for its name, no
\* wildcard's is, and neither a wildcard CNAME turns an exact address into an
\* alias nor a wildcard address keeps an exact CNAME from being followed.
ExactRecordFlagWins ==
    stage = "serving" => \A i \in DOMAIN flags.records :
        LET r == ParseRecordFlag(flags.records[i])
            type == ParseType(r.type)
            winners == Lookup(runtime.records, type, r.name)
        IN  Exact(r.name) =>
              /\ \A k \in winners : runtime.records[k].name = r.name
              /\ \E k \in winners : runtime.records[k].value = r.values[1]
              /\ Address(type) => ~ AliasWins(runtime, r.name, type)
              /\ type = "CNAME" /\ runtime.chase =>
                   \A t \in {"A", "AAAA"} : HasExact(runtime, t, r.name)
                                              \/ AliasWins(runtime, r.name, t)

\* A server's name in logs and error messages is "the way it would be written on
\* the command line" (resolver.go:27): put there, it means the same server, with
\* its port, transport and certificate name.  Brackets that are not those of an
\* IPv6 address with a port make an address that nothing can be said about.
LoggedServersParseBack ==
    \A i \in DOMAIN servers :
        LET srv == servers[i] IN
        HostPort(srv.addr) =>
          ParseServer(String(srv)) =
            [srv EXCEPT !.tlsName = IF srv.net = "tcp-tls" THEN @ ELSE <<>>]

\* query --tcp asks the server that it is told to, at the same address, and over
\* TCP or TLS unless it is spelled with udp:// or dns://, which then decides; a
\* server spelled with a transport of its own is asked exactly as without --tcp
\* (query.go:50-54).  HOST#PORT without one is left out: --tcp turns its port into
\* a certificate name, and another port is asked.
TcpAsksTheSameServer ==
    LET text == asked.text
        own == Has(text, "://")
        plain == ParseServer(text)
    IN  (/\ asked \notin {None, Unset} /\ asked.tcp
         /\ own \/ ~ Has(text, "#")
         /\ plain # Error)
          => /\ asked.server # Error
             /\ asked.server[1].addr = plain.addr
             /\ own => asked.server = <<plain>>
             /\ asked.server[1].net = "udp" =>
                  own /\ Before(text, "://") \in {<<"udp">>, <<"dns">>}

\* The friendly values of a record and their zone-file spelling, with dots,
\* quotes and a preference, are the same record: spelling one out changes
\* nothing, and is accepted (record.go:118-213).
StrictSpellingIsTheSame ==
    stage = "serving" => \A i \in DOMAIN runtime.records :
        LET r == runtime.records[i]
            strict == Normalise(r.type, r.value)
        IN  Normalise(r.type, strict) = strict /\ New(r.name, r.type, strict, 0) # Error

\* A TXT is read from the record as it was written, in pieces that fit, however
\* its quotes and backslashes fall to the pieces ("unquoted TXT strings (split into
\* 255-byte chunks automatically)", README.md:119).  Two kinds of texts are left
\* out, which the code does damage: one that is cut within a character, and one
\* with a piece that begins and ends with a quote, as if it were quoted.
WellCut(s) ==
    \A k \in DOMAIN Pieces(s) : ~ IsQuoted(Pieces(s)[k]) /\ Last(Pieces(s)[k]) # Lead
TxtKeepsItsText ==
    stage = "serving" => \A i \in DOMAIN runtime.records :
        LET r == runtime.records[i]
            s == Bytes[r.value[1].text]
            read == Strings(QuoteTXT(s))
        IN  r.type = "TXT" /\ r.value[1].text \in DOMAIN Bytes /\ WellCut(s) =>
              FlattenSeq(read) = s /\ \A k \in DOMAIN read : Len(read[k]) <= MaxChunk
=============================================================================
