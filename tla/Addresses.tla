------------------------------ MODULE Addresses ------------------------------
(***************************************************************************)
(* How listen addresses and upstreams are written                          *)
(* (src/internal/server/server.go:134-174, src/internal/upstream/          *)
(* resolver.go:20-158).                                                    *)
(*                                                                         *)
(* A text is the sequence of its words, cut at the separators "://", ":",  *)
(* "#", "[", "]" and " ", which are words too; an IPv6 address is one word *)
(* that has colons in it.  Case is folded and blanks around a text gone.   *)
(* A text holds "://" at most once.                                        *)
(***************************************************************************)
EXTENDS Values, SequencesExt

CONSTANT Colons    \* the words that have colons in them

Separators == {"://", ":", "#", "[", "]", " "}

\* An upstream; tlsName is the name its certificate must have.
Server == [addr : Seq(Words), net : {"udp", "tcp", "tcp-tls"}, tlsName : Seq(Words)]

\* Something to listen on.
Socket == [net : {"udp", "tcp"}, addr : Seq(Words)]

ASSUME AddressesAssumption ==
    /\ DOMAIN IPv6 \cup {":", "://"} \subseteq Colons
    /\ Separators \cup {"53", "853"} \subseteq Words
    /\ Separators \cap (DOMAIN IPv4 \cup DOMAIN IPv6) = {}
    /\ Error \notin Seq(Words) \cup Server \cup Seq(Server) \cup {"udp", "tcp", "tcp-tls"}
    /\ Error \notin Seq(Socket) \cup Seq({"udp", "tcp"})

Texts == {text \in Seq(Words) : \A i, j \in DOMAIN text :
              text[i] = "://" /\ text[j] = "://" => i = j}

\* strings.Cut at the first sep: the text before it and the text after it.
At(text, sep) == SelectInSeq(text, LAMBDA w : w = sep)
Has(text, sep) == At(text, sep) # 0
Before(text, sep) == SubSeq(text, 1, At(text, sep) - 1)
After(text, sep) == SubSeq(text, At(text, sep) + 1, Len(text))

\* net.JoinHostPort: a host with colons is put in brackets.
Join(host, port) ==
    IF ToSet(host) \cap Colons # {} THEN <<"[">> \o host \o <<"]", ":">> \o port
                                    ELSE host \o <<":">> \o port

\* net.SplitHostPort: HOST:PORT, or [HOST]:PORT, cut at the last colon.
PortColon(text) == SelectLastInSeq(text, LAMBDA w : w = ":")
Host(text) ==
    LET h == SubSeq(text, 1, PortColon(text) - 1)
    IN  IF h # <<>> /\ h[1] = "[" THEN SubSeq(h, 2, Len(h) - 1) ELSE h
HostPort(text) ==
    LET i == PortColon(text)
        h == SubSeq(text, 1, i - 1)
        port == SubSeq(text, i + 1, Len(text))
        marks == Colons \cup {"[", "]"}
    IN  /\ i # 0
        /\ ToSet(port) \cap marks = {}
        /\ \/ ToSet(h) \cap marks = {}
           \/ /\ Len(h) >= 2 /\ h[1] = "[" /\ Last(h) = "]"
              /\ ToSet(Host(text)) \cap {"[", "]"} = {}

\* net.ParseIP, and String of what it returns.
IsIP(text) == Len(text) = 1 /\ text[1] \in DOMAIN IPv4 \cup DOMAIN IPv6
IPString(text) ==
    <<IF text[1] \in DOMAIN IPv4 THEN IPv4[text[1]] ELSE IPv6[text[1]]>>

-----------------------------------------------------------------------------
(* parseListen: the sockets, as [net, addr], or an Error.                  *)

ListenNets(scheme) ==
    CASE scheme = <<"udp">> -> <<"udp">>
      [] scheme = <<"tcp">> -> <<"tcp">>
      [] OTHER              -> Error

ParseListen(text) ==
    LET nets == IF Has(text, "://") THEN ListenNets(Before(text, "://"))
                                    ELSE <<"udp", "tcp">>
        rest == IF Has(text, "://") THEN After(text, "://") ELSE text
        addr == IF HostPort(rest) THEN rest ELSE Join(IPString(rest), <<"53">>)
    IN  IF nets = Error \/ ~ (HostPort(rest) \/ IsIP(rest)) THEN Error
        ELSE [i \in 1..Len(nets) |-> [net |-> nets[i], addr |-> addr]]

-----------------------------------------------------------------------------
(* ParseServer: an upstream [addr, net, tlsName], or an Error.             *)

Transport(scheme) ==
    CASE scheme \in {<<"udp">>, <<"dns">>} -> "udp"
      [] scheme = <<"tcp">>                -> "tcp"
      [] scheme \in {<<"tls">>, <<"dot">>} -> "tcp-tls"
      [] OTHER                             -> Error

\* The address: as it is, or with a port.
Dial(spec, port) ==
    IF HostPort(spec) THEN spec
    ELSE IF IsIP(spec) THEN Join(IPString(spec), port)
    ELSE IF spec # <<>> /\ " " \notin ToSet(spec) THEN Join(spec, port)
    ELSE Error

\* DoT without a certificate name takes the host's, if it has one.
TLSName(net, addr, name) ==
    IF net = "tcp-tls" /\ name = <<>> /\ HostPort(addr) /\ ~ IsIP(Host(addr))
      THEN Host(addr) ELSE name

\* SCHEME://ADDRESS[#NAME]
ParseURL(text) ==
    LET net == Transport(Before(text, "://"))
        rest == After(text, "://")
        name == IF Has(rest, "#") THEN After(rest, "#") ELSE <<>>
        spec == IF Has(rest, "#") THEN Before(rest, "#") ELSE rest
        addr == Dial(spec, IF net = "tcp-tls" THEN <<"853">> ELSE <<"53">>)
    IN  IF net = Error \/ addr = Error THEN Error
        ELSE [addr |-> addr, net |-> net, tlsName |-> TLSName(net, addr, name)]

\* HOST#PORT[#PROTOCOL]; the port may be left empty.
ParseLegacy(text) ==
    LET host == Before(text, "#")
        rest == After(text, "#")
        port == IF Has(rest, "#") THEN Before(rest, "#") ELSE rest
        protocol == IF Has(rest, "#") THEN After(rest, "#") ELSE <<"udp">>
        addr == IF port = <<>> THEN Dial(host, <<"53">>) ELSE Dial(Join(host, port), port)
    IN  IF addr = Error \/ protocol \notin {<<"udp">>, <<"tcp">>} THEN Error
        ELSE [addr |-> addr, net |-> protocol[1], tlsName |-> <<>>]

ParsePlain(text) ==
    IF Dial(text, <<"53">>) = Error THEN Error
    ELSE [addr |-> Dial(text, <<"53">>), net |-> "udp", tlsName |-> <<>>]

ParseServer(text) ==
    IF Has(text, "://") THEN ParseURL(text)
    ELSE IF Has(text, "#") THEN ParseLegacy(text)
    ELSE ParsePlain(text)

\* A mistake: the certificate name is left out.
StringWithoutName(srv) ==
    CASE srv.net = "tcp"     -> <<"tcp", "://">> \o srv.addr
      [] srv.net = "tcp-tls" -> <<"tls", "://">> \o srv.addr
      [] OTHER               -> srv.addr

\* Server.String, the name that logs and messages give it.
String(srv) ==
    CASE srv.net = "tcp"     -> <<"tcp", "://">> \o srv.addr
      [] srv.net = "tcp-tls" -> <<"tls", "://">> \o srv.addr \o
                                (IF srv.tlsName = <<>> THEN <<>> ELSE <<"#">> \o srv.tlsName)
      [] OTHER               -> srv.addr

\* Blank texts are skipped.
Servers(texts) ==
    FlattenSeq([i \in DOMAIN texts |-> IF texts[i] = <<>> THEN <<>>
                                       ELSE <<ParseServer(texts[i])>>])

\* New: the servers, in order; an Error if one cannot be parsed or none is left.
ParseServers(texts) ==
    IF Servers(texts) = <<>> \/ Error \in ToSet(Servers(texts)) THEN Error
    ELSE Servers(texts)
=============================================================================
