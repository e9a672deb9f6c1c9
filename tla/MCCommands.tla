----------------------------- MODULE MCCommands -----------------------------
(***************************************************************************)
(* Commands with every legacy file of up to three lines after a header,    *)
(* and every pairing of the configuration files and command lines below.   *)
(***************************************************************************)
EXTENDS Commands

(* Words and names. *)
MCWords == STRING
V4 == ("127.0.0.1" :> "127.0.0.1") @@ ("10.0.0.10" :> "10.0.0.10")
      @@ ("10.0.0.11" :> "10.0.0.11") @@ ("1.1.1.1" :> "1.1.1.1")
      @@ ("8.8.8.8" :> "8.8.8.8") @@ ("::ffff:10.0.0.10" :> "10.0.0.10")
V6 == ("::1" :> "::1") @@ ("0::1" :> "::1")
WithColons == DOMAIN V6 \cup {"::ffff:10.0.0.10", ":", "://"}
Numerals == ("0" :> 0) @@ ("1" :> 1) @@ ("3" :> 3) @@ ("5" :> 5) @@ ("10" :> 10)
            @@ ("53" :> 53) @@ ("300" :> 300) @@ ("5060" :> 5060)

Dev == <<"local", "dev">>
Api == Dev \o <<"api">>
AnyDev == Dev \o <<"*">>
InnerDev == <<"local", "*", "api">>
Anything == <<"*">>
Order == <<Anything, AnyDev, Api, Dev \o <<"ipv6">>>>

MCLabelsOf(text) == CASE text = <<>>       -> <<>>
                      [] text = <<"api">>  -> Api
                      [] text = <<"any">>  -> AnyDev
                      [] text = <<"all">>  -> Anything
                      [] OTHER             -> Dev

(* Values, spelled loosely and strictly. *)
Value(words) == Fields(words)
Dotted(w) == [Plain(w) EXCEPT !.dot = TRUE]
Quoted(w) == [Plain(w) EXCEPT !.quoted = TRUE]
Spec1(n, t, v) == [name |-> n, type |-> t, values |-> <<v>>, ttl |-> 0]

EveryType == <<
    Spec1(Dev, "MX", Value(<<"mail">>)),
    [Spec1(Dev, "MX", <<Plain("5"), Dotted("mail")>>) EXCEPT !.ttl = 5],
    Spec1(Dev, "TXT", Value(<<"v=spf1 -all">>)),
    Spec1(Dev, "TXT", <<Quoted("v=spf1 -all")>>),
    Spec1(Dev, "SOA", Value(<<"ns", "admin", "1", "3", "3", "5", "5">>)),
    Spec1(Dev, "SRV", Value(<<"0", "5", "5060", "sip">>)),
    Spec1(Dev, "NAPTR", Value(<<"10", "0", "U", "E2U", "!x!", "sip">>)),
    Spec1(Dev, "RRSIG", Value(<<"A", "5", "3", "300", "exp", "inc", "10", "dev", "sig", "more">>)),
    Spec1(Dev, "CAA", Value(<<"0", "issue", "ca">>)),
    Spec1(Dev, "DNSKEY", Value(<<"0", "3", "5", "key">>)),
    Spec1(Api, "AAAA", Value(<<"0::1">>))>>

(* Files. *)
File(given, h, r) ==
    Document([k \in Settings |-> IF k \in DOMAIN given THEN given[k] ELSE Unset],
             [n \in Names |-> IF n \in DOMAIN h THEN h[n] ELSE <<>>],
             r)
NoneGiven == <<>>

Ten == Value(<<"10.0.0.10">>)
Eleven == Value(<<"10.0.0.11">>)
Local == Value(<<"127.0.0.1">>)
V6Local == Value(<<"::1">>)

Wildcards == File([except |-> <<AnyDev>>, ttl |-> 300],
                  (AnyDev :> <<Local>>) @@ (Anything :> <<Ten, V6Local>>),
                  <<Spec1(AnyDev, "CNAME", Value(<<"host">>)), Spec1(InnerDev, "A", Eleven)>>)
OnlyList == File([only |-> <<Api, <<>>>>, fallback |-> "refused", chase |-> FALSE],
                 (Api :> <<Ten, Value(<<"::ffff:10.0.0.10">>)>>),
                 <<Spec1(Api, "TXT", Value(<<"text">>)), Spec1(Api, "CNAME", Value(<<"host">>))>>)
AllTypes == File(NoneGiven, NoneGiven, EveryType)

(* Texts: all of up to three bytes, of up to five marks, in whole characters. *)
ShortTexts ==
    {s \in BoundedSeq({"a", Mark, Backslash, Lead, Trail}, 3)
              \cup BoundedSeq({Mark, Backslash}, 5) :
         s # <<>> /\ ~ IsQuoted(s) /\ Whole(s)}
MCBytes == [w \in {ToString(s) : s \in ShortTexts} |-> CHOOSE s \in ShortTexts : ToString(s) = w]
TextsFrom(b) ==
    LET words == {w \in DOMAIN Bytes : Bytes[w][1] = b}
    IN  [name |-> Dev, type |-> "TXT", ttl |-> 0,
         values |-> FoldSet(LAMBDA w, all : Append(all, Value(<<w>>)), <<>>, words)]
AllTexts == File(NoneGiven, NoneGiven,
                 <<TextsFrom("a"), TextsFrom(Mark), TextsFrom(Backslash), TextsFrom(Lead)>>)

Spellings == <<
    <<"8.8.8.8">>, <<"8.8.8.8", ":", "5060">>, <<"0::1">>, <<"[", "::1", "]", ":", "53">>,
    <<"[", "::1", "]">>, <<>>, <<"ns">>, <<"tcp", "://", "ns", ":", "53">>,
    <<"tls", "://", "1.1.1.1", ":", "853", "#", "cert">>, <<"tls", "://", "1.1.1.1">>,
    <<"dot", "://", "ns">>, <<"dns", "://", "ns", "#", "cert">>, <<"8.8.8.8", "#", "53", "#", "tcp">>,
    <<"::1", "#", "53">>, <<"ns", "#", "#", "udp">>>>
ManyUpstreams == File([upstream |-> Spellings], NoneGiven, <<>>)
TwoListeners == File([listen |-> <<<<"udp", "://", "127.0.0.1", ":", "53">>,
                                   <<"tcp", "://", "127.0.0.1", ":", "53">>, <<"0::1">>>>,
                      level |-> "debug"], NoneGiven, <<>>)

StartFails == {
    File([listen |-> <<<<"127.0.0.1", ":", "53">>, <<"tcp", "://", "127.0.0.1", ":", "53">>>>], NoneGiven, <<>>),
    File([listen |-> <<<<"ns">>>>], NoneGiven, <<>>),
    File([listen |-> <<<<"tls", "://", "ns", ":", "53">>>>], NoneGiven, <<>>),
    File([upstream |-> <<<<>>>>], NoneGiven, <<>>),
    File([upstream |-> <<<<"quic", "://", "ns">>>>], NoneGiven, <<>>),
    File([upstream |-> <<<<"ns", "#", "53", "#", "tls">>>>], NoneGiven, <<>>),
    File([upstream |-> <<<<"ns", " ", "ns">>>>], NoneGiven, <<>>),
    File([format |-> "xml"], NoneGiven, <<>>)}

Invalid == {
    Undecodable,
    File([only |-> <<Api>>, except |-> <<AnyDev>>], NoneGiven, <<>>),
    File([fallback |-> "NXDOMAIN"], NoneGiven, <<>>),
    File(NoneGiven, (Api :> <<Ten, Value(<<"host">>)>>), <<>>),
    File(NoneGiven, NoneGiven, <<Spec1(Api, "AAAA", Ten)>>),
    File(NoneGiven, NoneGiven, <<Spec1(Api, "NOPE", Ten)>>),
    File(NoneGiven, NoneGiven, <<Spec1(Api, "CNAME", Value(<<"two", "hosts">>))>>),
    File(NoneGiven, NoneGiven, <<Spec1(Api, "SRV", Value(<<"0", "5", "port", "sip">>))>>),
    File(NoneGiven, NoneGiven, <<[Spec1(Api, "A", Ten) EXCEPT !.values = <<>>]>>)}

MCQueryServers == ToSet(Spellings) \cup {<<"quic", "://", "ns">>, <<"udp", "://", "ns">>}

Good == {Wildcards, OnlyList, AllTypes, ManyUpstreams, TwoListeners}
MCEdits == Good \cup Invalid

(* Command lines. *)
Line_(given, r) == [settings |-> given, records |-> r]
CommandLines == {
    NoFlags,
    Line_([only |-> <<AnyDev>>], <<<<"api", "=", "10.0.0.11">>>>),
    Line_([except |-> <<Dev>>], <<<<"AAAA", ":", "api", "=", "::1", "#", "5">>>>),
    Line_([only |-> <<Api>>, except |-> <<Api>>], <<<<"api", "=", "host">>>>),
    Line_([except |-> Unset, ttl |-> Unset], <<<<"TXT", ":", "api", "=", "a", "#", "5">>>>),
    Line_([fallback |-> "NXDOMAIN", timeout |-> Unset],
          <<<<"MX", ":", "api", "=", "10", "mail">>, <<"all", "=", "0::1">>>>),
    Line_([listen |-> <<<<"127.0.0.1", ":", "5060">>>>, upstream |-> <<<<"ns", "#", "53">>>>,
           level |-> "warn"], <<>>),
    Line_([fallback |-> "explode"], <<>>),
    Line_(NoneGiven, <<<<"api">>>>),
    Line_(NoneGiven, <<<<"=", "host">>>>),
    Line_(NoneGiven, <<<<"api", "=">>>>),
    Line_(NoneGiven, <<<<"NOPE", ":", "api", "=", "10.0.0.10">>>>),
    Line_(NoneGiven, <<<<"TXT", ":", "api", "=", "a", "#", "b">>>>),
    Line_(NoneGiven, <<<<"AAAA", ":", "api", "=", "10.0.0.10">>>>)}

(* Legacy files. *)
Header_(s) == [kind |-> "header", section |-> s]
Entry_(n, v) == [kind |-> "entry", name |-> n, value |-> v]
Headers == {Header_("A"), Header_("AAAA"), Header_("MX"), Header_("BOGUS"), Header_("*")}
Entries == {Entry_(Api, Ten), Entry_(Api, V6Local), Entry_(AnyDev, Eleven),
            Entry_(Api, Value(<<"10", "mail">>)), Entry_(<<>>, Ten), Entry_(Api, <<>>)}
Others == {[kind |-> k] : k \in {"blank", "open", "junk"}}
LegacyFiles ==
    LET any == Headers \cup Entries \cup Others
    IN  {<<h>> \o s : h \in Headers, s \in BoundedSeq(Headers \cup Entries, 3)}
        \cup BoundedSeq(any, 2)
        \cup {<<Header_("A"), Entry_(Api, Ten), Header_("AAAA"), Entry_(Api, V6Local),
                Header_("A"), Entry_(Api, Eleven), Header_("BOGUS"), Entry_(Api, Ten),
                Header_("MX"), Entry_(Api, Value(<<"10", "mail">>)), Entry_(AnyDev, Value(<<"mail">>))>>}

MCSituations ==
    [lines : LegacyFiles, disk : {Missing}, flags : {NoFlags}, edits : {0},
     asked : {None}]
    \cup [lines : {None}, disk : Good \cup StartFails \cup {Missing, Undecodable},
          flags : CommandLines, edits : {1}, asked : {None}]
    \cup [lines : {None}, disk : {AllTexts}, flags : {NoFlags}, edits : {0}, asked : {None}]
    \cup [lines : {None}, disk : {Missing}, flags : {NoFlags}, edits : {0}, asked : {Unset}]
=============================================================================
