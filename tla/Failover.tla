----------------------------- MODULE Failover -----------------------------
(***************************************************************************)
(* What the resolver promises each exchange, whatever the others do: no    *)
(* server is asked again once it has failed, the reply is that of a server *)
(* that has not, and only when every server has failed does the exchange.  *)
(***************************************************************************)
EXTENDS Integers

CONSTANTS Exchanges, Servers, None, Failed

VARIABLES
    refused,     \* the servers that failed each exchange
    outcome      \* None, Failed, or [server, how]

vars == <<refused, outcome>>

Init ==
    /\ refused = [e \in Exchanges |-> {}]
    /\ outcome = [e \in Exchanges |-> None]

\* A server fails, and another one is left.
Refuse(e) ==
    /\ outcome[e] = None
    /\ \E s \in Servers \ refused[e] :
          /\ refused' = [refused EXCEPT ![e] = @ \cup {s}]
          /\ refused[e] \cup {s} # Servers
    /\ UNCHANGED outcome

Answer(e) ==
    /\ outcome[e] = None
    /\ \E s \in Servers \ refused[e], how \in {"reply", "retry", "cut"} :
          outcome' = [outcome EXCEPT ![e] = [server |-> s, how |-> how]]
    /\ UNCHANGED refused

\* The last server fails.
Fail(e) ==
    /\ outcome[e] = None
    /\ \E s \in Servers \ refused[e] : refused[e] \cup {s} = Servers
    /\ refused' = [refused EXCEPT ![e] = Servers]
    /\ outcome' = [outcome EXCEPT ![e] = Failed]

Next == \E e \in Exchanges : Refuse(e) \/ Answer(e) \/ Fail(e)

Spec == Init /\ [][Next]_vars
=============================================================================
