----------------------------- MODULE Resolver -----------------------------
(***************************************************************************)
(* Resolver.Exchange (src/internal/upstream/resolver.go:179-233), run by   *)
(* many query goroutines at once over one shared cursor.                   *)
(*                                                                         *)
(* The cursor is a uint64 converted to int, so it goes negative half way   *)
(* round; Go's % keeps the sign of its left operand, and a negative index  *)
(* panics, which ends the process.  IntMax stands for the largest int.     *)
(***************************************************************************)
EXTENDS Integers, FiniteSets

CONSTANTS
    Exchanges,      \* the calls of Exchange
    N,              \* how many servers there are
    UDP,            \* those asked over plain UDP
    IntMax,
    None, Failed    \* no outcome yet; all upstreams failed

Servers == 0..(N - 1)

ASSUME ResolverAssumption ==
    /\ N \in Nat \ {0}
    /\ UDP \subseteq Servers
    /\ IntMax \in Nat /\ IntMax >= N
    /\ None # Failed
    /\ \A s \in Servers, how \in {"reply", "retry", "cut"} :
          [server |-> s, how |-> how] \notin {None, Failed}

VARIABLES
    cursor,         \* the shared counter
    crashed,        \* a panic has ended the process
    pc,             \* "idle", "trying", "retrying" or "done"
    start, i,       \* Exchange's offset, and its loop variable
    outcome

vars == <<cursor, crashed, pc, start, i, outcome>>

-----------------------------------------------------------------------------
(* Go's integers.                                                          *)

Modulus == 2 * (IntMax + 1)

\* An int that has overflowed.
Wrap(x) == IF x > IntMax THEN x - Modulus ELSE x

\* The remainder has the sign of x.
GoRem(x, n) == IF x >= 0 THEN x % n ELSE - ((- x) % n)

-----------------------------------------------------------------------------
Init ==
    /\ cursor = 0 /\ crashed = FALSE
    /\ pc = [e \in Exchanges |-> "idle"]
    /\ start = [e \in Exchanges |-> 0]
    /\ i = [e \in Exchanges |-> 0]
    /\ outcome = [e \in Exchanges |-> None]

\* Mistakes: counting down from the offset; asking the same server again.
IndexDown(e) == GoRem(start[e] - i[e], N)
IndexOfStart(e) == GoRem(start[e], N)

Index(e) == GoRem(Wrap(start[e] + i[e]), N)

\* A mistake: the cursor is read and not advanced.
BeginAtCursor(e) ==
    /\ ~ crashed /\ pc[e] = "idle"
    /\ start' = [start EXCEPT ![e] = Wrap(cursor)]
    /\ pc' = [pc EXCEPT ![e] = "trying"]
    /\ UNCHANGED <<cursor, crashed, i, outcome>>

\* start := int(r.cursor.Add(1) - 1)
Begin(e) ==
    /\ ~ crashed /\ pc[e] = "idle"
    /\ cursor' = (cursor + 1) % Modulus
    /\ start' = [start EXCEPT ![e] = Wrap(cursor)]
    /\ pc' = [pc EXCEPT ![e] = "trying"]
    /\ UNCHANGED <<crashed, i, outcome>>

Panic(e) ==
    /\ ~ crashed /\ pc[e] = "trying" /\ Index(e) < 0
    /\ crashed' = TRUE
    /\ UNCHANGED <<cursor, pc, start, i, outcome>>

Trying(e) == ~ crashed /\ pc[e] = "trying" /\ Index(e) >= 0

End(e, result) ==
    /\ outcome' = [outcome EXCEPT ![e] = result]
    /\ pc' = [pc EXCEPT ![e] = "done"]
    /\ UNCHANGED <<cursor, crashed, start, i>>

Returns(e, how) == End(e, [server |-> Index(e), how |-> how])

\* A mistake: one server more than there are.
ServerFailsOnceMore(e) ==
    /\ Trying(e) /\ i[e] < N
    /\ i' = [i EXCEPT ![e] = @ + 1]
    /\ UNCHANGED <<cursor, crashed, pc, start, outcome>>

\* An error, a timeout or an empty reply, with another server to try.
ServerFails(e) ==
    /\ Trying(e) /\ i[e] + 1 < N
    /\ i' = [i EXCEPT ![e] = @ + 1]
    /\ UNCHANGED <<cursor, crashed, pc, start, outcome>>

\* The same, of the last server.
AllFail(e) == Trying(e) /\ i[e] + 1 = N /\ End(e, Failed)

\* A mistake: a cut reply is returned as it is.
ServerRepliesCut(e) == Trying(e) /\ (Returns(e, "reply") \/ Returns(e, "cut"))

\* A reply that is complete, or cut by a server not asked over UDP.
ServerReplies(e) ==
    /\ Trying(e)
    /\ \/ Returns(e, "reply")
       \/ Index(e) \notin UDP /\ Returns(e, "cut")

\* A cut UDP reply is asked for again over TCP, of the same server.
ReplyIsCut(e) ==
    /\ Trying(e) /\ Index(e) \in UDP
    /\ pc' = [pc EXCEPT ![e] = "retrying"]
    /\ UNCHANGED <<cursor, crashed, start, i, outcome>>

RetryReplies(e) == ~ crashed /\ pc[e] = "retrying" /\ Returns(e, "retry")

\* A mistake: the server is asked over UDP again.
RetryFailsAgain(e) ==
    /\ ~ crashed /\ pc[e] = "retrying"
    /\ pc' = [pc EXCEPT ![e] = "trying"]
    /\ UNCHANGED <<cursor, crashed, start, i, outcome>>

\* The cut reply is better than none.
RetryFails(e) == ~ crashed /\ pc[e] = "retrying" /\ Returns(e, "cut")

Step(e) ==
    \/ Panic(e)
    \/ ServerFails(e) \/ AllFail(e) \/ ServerReplies(e)
    \/ ReplyIsCut(e) \/ RetryReplies(e) \/ RetryFails(e)

Next == \E e \in Exchanges : Begin(e) \/ Step(e)

\* Every exchangeWith ends: it carries a timeout (resolver.go:222).
Spec == Init /\ [][Next]_vars /\ \A e \in Exchanges : WF_vars(Step(e))

-----------------------------------------------------------------------------
(* Properties.                                                             *)

\* The cursor and the offsets are ints, and no exchange runs past its list of
\* servers (resolver.go:184-188).
TypeOK ==
    /\ cursor \in 0..(Modulus - 1)
    /\ crashed \in BOOLEAN
    /\ pc \in [Exchanges -> {"idle", "trying", "retrying", "done"}]
    /\ start \in [Exchanges -> (-(IntMax + 1))..IntMax]
    /\ i \in [Exchanges -> Servers]
    /\ outcome \in [Exchanges ->
          {None, Failed} \cup [server : Servers, how : {"reply", "retry", "cut"}]]

Asked(e) == {GoRem(Wrap(start[e] + j), N) : j \in 0..i[e]}

\* However the exchanges interleave on the cursor, the process panics only once
\* some exchange has drawn an offset from which the index overflows: never in
\* the first IntMax - N exchanges (resolver.go:184-188).
PanicsOnlyPastIntMax ==
    crashed => \E e \in Exchanges : start[e] \notin 0..(IntMax - N + 1)

\* Load is spread: however the exchanges interleave, the numbers of exchanges
\* that begin with two servers differ by at most one, until the offsets wrap
\* (resolver.go:117-121).
BeganWith(s) == {e \in Exchanges : pc[e] # "idle" /\ GoRem(start[e], N) = s}
LoadIsSpread ==
    (\A e \in Exchanges : start[e] >= 0) =>
        \A s, t \in Servers : Cardinality(BeganWith(s)) <= Cardinality(BeganWith(t)) + 1

\* A cut reply of a server asked over UDP is returned only after asking the
\* same server over TCP has failed (resolver.go:196-203).
CutOnlyAfterTCP ==
    [][\A e \in Exchanges :
          (outcome'[e] # outcome[e] /\ outcome'[e] # Failed) =>
              (outcome'[e].how = "cut" /\ outcome'[e].server \in UDP
                  => pc[e] = "retrying" /\ outcome'[e].server = Index(e))]_vars

\* The servers an exchange has moved on from, or all of them once it failed.
Promise == INSTANCE Failover WITH
    refused <- [e \in Exchanges |->
                  IF outcome[e] = Failed
                    THEN Servers
                    ELSE {GoRem(Wrap(start[e] + j), N) : j \in 0..(i[e] - 1)}]

\* Each exchange asks each server at most once, and fails only when every
\* server has failed it, at whatever offset it began (resolver.go:187-206).
FailsOver == Promise!Spec

\* Every exchange ends, unless the process does (resolver.go:222).
EveryExchangeEnds ==
    \A e \in Exchanges : pc[e] # "idle" ~> pc[e] = "done" \/ crashed

-----------------------------------------------------------------------------
(* What the documentation says and the code does not do.                   *)

\* "Upstreams fail over in order.  If the first upstream is unreachable the next
\* is tried" (README.md:176-177, config.go:51): the server listed first is asked
\* before any other answers.
FirstIsAskedFirst ==
    \A e \in Exchanges : outcome[e] \notin {None, Failed} => 0 \in Asked(e)
=============================================================================
