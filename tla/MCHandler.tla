----------------------------- MODULE MCHandler -----------------------------
(***************************************************************************)
(* Handler on a few configurations chosen so that every branch of ServeDNS *)
(* and cook is taken, and so that reloads change the answer to every name: *)
(*   Lab     an exact CNAME beside a broader address wildcard, a CNAME out *)
(*           to a real name and one to a local name of another type        *)
(*   Loop    two CNAMEs in a circle, REFUSED for everything else           *)
(*   Wild    a catch-all address, a CNAME for everything under lab, one    *)
(*           real name excepted; NODATA switched off                       *)
(*   Only    CNAMEs not followed, only lab names faked, NXDOMAIN otherwise *)
(***************************************************************************)
EXTENDS Handler

CONSTANTS ip1, ip2, txt, rr1, rr2

MCStar == "*"
MCLabels == {"*", "lab", "net", "a", "b", "e", "t", "x", "odd"}
MCTypes == {"A", "AAAA", "CNAME", "TXT"}
MCData == {ip1, ip2, txt}

Wildcard(p) == Append(p, "*")
A == <<"lab", "a">>
B == <<"lab", "b">>
E == <<"lab", "e">>
T == <<"lab", "t">>
Odd == <<"lab", "odd">>
X == <<"net", "x">>
M == <<"net", "t">>

MCBadOwners == {Odd}

Rec(n, t, v) == [name |-> n, type |-> t, value |-> v]

Lab == [
    records  |-> << Rec(A, "CNAME", B), Rec(Wildcard(<<"lab">>), "A", ip2),
                    Rec(B, "A", ip1), Rec(E, "CNAME", X),
                    Rec(T, "CNAME", M), Rec(M, "TXT", txt) >>,
    filter   |-> NewFilter("none", {}),
    fallback |-> "proxy", noData |-> TRUE, chase |-> TRUE]

Loop == [
    records  |-> << Rec(A, "CNAME", B), Rec(B, "CNAME", A), Rec(B, "TXT", txt) >>,
    filter   |-> NewFilter("none", {}),
    fallback |-> "refused", noData |-> TRUE, chase |-> TRUE]

Wild == [
    records  |-> << Rec(<<"*">>, "A", ip1), Rec(Wildcard(<<"lab">>), "CNAME", X) >>,
    filter   |-> NewFilter("except", {X}),
    fallback |-> "proxy", noData |-> FALSE, chase |-> TRUE]

Only == [
    records  |-> << Rec(A, "CNAME", B), Rec(B, "A", ip1), Rec(B, "A", ip2) >>,
    filter   |-> NewFilter("only", {Wildcard(<<"lab">>)}),
    fallback |-> "nxdomain", noData |-> TRUE, chase |-> FALSE]

MCConfigs == {Lab, Loop, Wild, Only}

Ask(n, t, u) == [kind |-> "plain", name |-> n, type |-> t, udp |-> u]
MCRequests ==
    {Ask(A, "A", TRUE), Ask(B, "AAAA", TRUE), Ask(E, "A", TRUE),
     Ask(T, "A", FALSE), Ask(X, "A", TRUE), Ask(Odd, "A", FALSE),
     Ask(B, "ANY", FALSE), Ask(T, "CNAME", FALSE),
     [kind |-> "unsupported", name |-> A, type |-> "A", udp |-> TRUE],
     [kind |-> "badclass", name |-> A, type |-> "A", udp |-> TRUE]}

\* For the liveness run: a loop and a dangling chain, an odd name, NODATA.
FewConfigs == {Loop, Wild}
FewRequests == {Ask(A, "A", TRUE), Ask(Odd, "A", FALSE), Ask(B, "AAAA", TRUE)}

MCReplies ==
    {[rcode |-> "NOERROR", rrs |-> {rr1, rr2}, tc |-> FALSE],
     [rcode |-> "NOERROR", rrs |-> {rr1}, tc |-> TRUE],
     [rcode |-> "NXDOMAIN", rrs |-> {}, tc |-> FALSE]}


FewReplies == {m \in MCReplies : m.tc}
=============================================================================
