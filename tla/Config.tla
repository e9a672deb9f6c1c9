------------------------------- MODULE Config -------------------------------
(***************************************************************************)
(* From a configuration file and command-line flags to what a server runs  *)
(* with (src/internal/config/config.go, serveOptions.buildConfig in        *)
(* src/cmd/serve.go).                                                      *)
(*                                                                         *)
(* A Config is [settings, hosts, records].  Unset stands for a setting at  *)
(* the zero value of its type, which is how the code knows it was left out. *)
(* hosts gives each name its addresses, none to a name that is not there.  *)
(* A record is [name, type, values, ttl], values those of its two fields.  *)
(* Names are sequences of labels, as in Patterns; the texts of flags are   *)
(* sequences of words, as in Addresses.                                    *)
(***************************************************************************)
EXTENDS Policy, Addresses

CONSTANTS
    NameOrder,      \* the names of hosts, in the order of their strings
    LabelsOf(_),    \* the name that a text spells; <<>> for the empty text
    Unset

\* Records, as a file gives them and as a store holds them.
Specs == [name : Seq(Words), type : Words, values : Seq(Seq(Field)), ttl : Nat]
Built == [name : Seq(Words), type : KnownTypes, value : Seq(Field), ttl : Nat]

ASSUME ConfigAssumption ==
    /\ NameOrder \in Seq(Seq(Words)) /\ Error \notin Built \cup Seq(Field)
    /\ \A i, j \in DOMAIN NameOrder : NameOrder[i] = NameOrder[j] => i = j
    /\ {"127.0.0.1", "1.1.1.1", "8.8.8.8"} \subseteq DOMAIN IPv4 \ Colons

Names == ToSet(NameOrder)
NoHosts == [n \in Names |-> <<>>]

Settings == {"listen", "upstream", "ttl", "timeout", "fallback", "only", "except",
             "nodata", "chase", "level", "format"}
Blank == [k \in Settings |-> Unset]

\* Default; timeouts in seconds.
DefaultSettings ==
    [listen   |-> <<<<"127.0.0.1", ":", "53">>>>,
     upstream |-> <<<<"1.1.1.1", ":", "53">>, <<"8.8.8.8", ":", "53">>>>,
     ttl |-> 60, timeout |-> 3, fallback |-> "proxy", only |-> Unset, except |-> Unset,
     nodata |-> TRUE, chase |-> TRUE, level |-> "info", format |-> "console"]
Default == [settings |-> DefaultSettings, hosts |-> NoHosts, records |-> <<>>]

ApplyDefaults(c) ==
    [settings |-> [k \in Settings |-> IF c.settings[k] = Unset THEN DefaultSettings[k]
                                      ELSE c.settings[k]],
     hosts    |-> c.hosts,
     records  |-> c.records]

-----------------------------------------------------------------------------
(* BuildStore, BuildFilter, Validate.                                      *)

HostRecord(name, addr) ==
    IF AddressType(addr) = Error THEN Error ELSE New(name, AddressType(addr), addr, 0)
SpecRecord(r, v) == New(r.name, r.type, v, r.ttl)

HostsBuild(hosts) ==
    \A n \in Names : \A i \in DOMAIN hosts[n] : HostRecord(n, hosts[n][i]) # Error
SpecBuilds(r) ==
    r.values # <<>> /\ \A i \in DOMAIN r.values : SpecRecord(r, r.values[i]) # Error
StoreBuilds(c) == HostsBuild(c.hosts) /\ \A i \in DOMAIN c.records : SpecBuilds(c.records[i])

\* Hosts in the order of their names, then records in theirs.
Records(c) ==
    LET ofHost(n) == [i \in DOMAIN c.hosts[n] |-> HostRecord(n, c.hosts[n][i])]
        ofSpec(r) == [i \in DOMAIN r.values |-> SpecRecord(r, r.values[i])]
    IN  FlattenSeq([k \in DOMAIN NameOrder |-> ofHost(NameOrder[k])]) \o
        FlattenSeq([k \in DOMAIN c.records |-> ofSpec(c.records[k])])
BuildStore(c) == [records |-> Records(c), ttl |-> c.settings.ttl]

BuildFilter(s) ==
    IF s.only # Unset THEN NewFilter("only", ToSet(s.only))
    ELSE IF s.except # Unset THEN NewFilter("except", ToSet(s.except))
    ELSE NewFilter("none", {})

Valid(c) ==
    /\ c.settings.fallback \in {"proxy", "nxdomain", "refused", "empty"}
    /\ c.settings.only = Unset \/ c.settings.except = Unset
    /\ StoreBuilds(c)

\* What is on disk: a document, with a Config in it, or none.
Document(settings, h, r) ==
    [kind |-> "document", settings |-> settings, hosts |-> h, records |-> r]
Undecodable == [kind |-> "undecodable"]
Missing == [kind |-> "missing"]

\* Load succeeds, with ApplyDefaults(content).
Loads(content) == content.kind = "document" /\ Valid(ApplyDefaults(content))

\* What server.Reload installs.
Runtime(c) ==
    [records |-> BuildStore(c).records, ttl |-> BuildStore(c).ttl,
     filter |-> BuildFilter(c.settings), fallback |-> c.settings.fallback,
     noData |-> c.settings.nodata, chase |-> c.settings.chase]

-----------------------------------------------------------------------------
(* ParseRecordFlag: [TYPE:]NAME=VALUE[#TTL].                               *)

Fields(words) == [i \in DOMAIN words |-> Plain(words[i])]
Inferred(v) == IF AddressType(v) = Error THEN "CNAME" ELSE AddressType(v)

\* The TTL is cut off at the last "#", the name at the first "=", and the type
\* at the first ":" of what is left of that.
ParseRecordFlag(text) ==
    LET at == SelectLastInSeq(text, LAMBDA w : w = "#")
        ttl == SubSeq(text, at + 1, Len(text))
        spec == IF at = 0 THEN text ELSE SubSeq(text, 1, at - 1)
        left == Before(spec, "=")
        value == Fields(After(spec, "="))
        typed == Has(left, ":")
        type == Before(left, ":")
        name == LabelsOf(IF typed THEN After(left, ":") ELSE left)
    IN  IF /\ at # 0 => ttl # <<>> /\ ttl[1] \in DOMAIN Numeral
           /\ Has(spec, "=") /\ value # <<>> /\ name # <<>>
           /\ typed => type # <<>> /\ ParseType(type[1]) # Error
          THEN [name |-> name, values |-> <<value>>,
                type |-> IF typed THEN type[1] ELSE Inferred(value),
                ttl |-> IF at = 0 THEN 0 ELSE Numeral[ttl[1]]]
          ELSE Error

-----------------------------------------------------------------------------
(* buildConfig.  The flags are [settings, records]: settings those that were *)
(* given, a function, records the texts of --record.                       *)

\* --only and --except each drop the other's list, --except last.
Dropped(given) ==
    IF "except" \in DOMAIN given THEN {"only"}
    ELSE IF "only" \in DOMAIN given THEN {"except"} ELSE {}

\* A mistake: the list of the file stays.
OverrideOnly(given, s) == [k \in Settings |-> IF k \in DOMAIN given THEN given[k] ELSE s[k]]

\* --fallback is put in lower case, a fallback in the file is not; one that is
\* in upper case stands for all.
Given(given, k) ==
    IF k = "fallback" /\ given[k] = "NXDOMAIN" THEN "nxdomain" ELSE given[k]

Override(given, s) ==
    [k \in Settings |-> IF k \in Dropped(given) THEN Unset
                        ELSE IF k \in DOMAIN given THEN Given(given, k)
                        ELSE s[k]]

\* The flags' records come after the file's.
Combine(file, flags) ==
    [settings |-> Override(flags.settings, file.settings),
     hosts    |-> file.hosts,
     records  |-> file.records \o
                  [i \in DOMAIN flags.records |-> ParseRecordFlag(flags.records[i])]]

FlagsParse(flags) == \A i \in DOMAIN flags.records : ParseRecordFlag(flags.records[i]) # Error

\* The Config that buildConfig returns, and whether it returns one.
BuildConfig(content, flags) ==
    LET file == IF content.kind = "missing" THEN Default ELSE ApplyDefaults(content)
    IN  ApplyDefaults(Combine(file, flags))

\* A mistake: the file is decoded, and only what comes out in the end validated.
ConfiguresAtLast(content, flags) ==
    /\ content.kind \in {"missing", "document"}
    /\ FlagsParse(flags)
    /\ Valid(BuildConfig(content, flags))

Configures(content, flags) ==
    /\ content.kind = "missing" \/ Loads(content)
    /\ FlagsParse(flags)
    /\ Valid(BuildConfig(content, flags))
=============================================================================
