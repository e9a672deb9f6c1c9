----------------------------- MODULE Lifecycle -----------------------------
(***************************************************************************)
(* Server.Start (src/internal/server/server.go:176-252): bind every        *)
(* socket, start a goroutine for each, wait for the context or a failure,  *)
(* shut all of them down, wait for the goroutines.                         *)
(*                                                                         *)
(* What a dns.Server does is external (github.com/miekg/dns), modelled     *)
(* from its use: Shutdown of a server whose goroutine has not reached      *)
(* ActivateAndServe returns an error, which Start ignores; of a started    *)
(* one it waits for the queries in hand.  A TCP listener closes before they *)
(* end and a UDP socket after: here both close after.                      *)
(***************************************************************************)
EXTENDS Naturals, FiniteSets

CONSTANTS
    N,              \* how many sockets are to be bound
    MaxInFlight     \* bound: queries in hand on one socket

ASSUME LifecycleAssumption == N \in Nat \ {0} /\ MaxInFlight \in Nat

Servers == 1..N

VARIABLES
    loaded,         \* a record set is installed and every address parses
    pc,             \* where Start is
    k,              \* the server its loop is at
    bound,          \* the sockets that are open
    ready,          \* the channel that says so is closed
    cancelled,      \* the context is done
    goroutine,      \* where the goroutine of each server is
    started,        \* the servers whose own flag says so
    inFlight,       \* how many queries each has in hand
    failing,        \* the servers whose ActivateAndServe ends in an error
    errCh,          \* the servers whose error is in the channel
    result          \* what Start returns: "nil", or the error

vars == <<loaded, pc, k, bound, ready, cancelled, goroutine, started,
          inFlight, failing, errCh, result>>
start == <<pc, k, ready, result>>
servers == <<goroutine, started, inFlight, failing>>

-----------------------------------------------------------------------------
Init ==
    /\ loaded \in BOOLEAN
    /\ pc = "called" /\ k = 1 /\ result = "nil"
    /\ bound = {} /\ ready = FALSE /\ cancelled = FALSE
    /\ goroutine = [s \in Servers |-> "none"]
    /\ started = {}
    /\ inFlight = [s \in Servers |-> 0]
    /\ failing = {} /\ errCh = {}

Return(r) == pc' = "returned" /\ result' = r

\* Start needs a record set and addresses it can parse.
Call ==
    /\ pc = "called"
    /\ IF loaded THEN pc' = "binding" /\ UNCHANGED result
                 ELSE Return("not loaded")
    /\ UNCHANGED <<loaded, k, bound, ready, cancelled, errCh, servers>>

\* Mistakes: one socket too many; a goroutine as soon as its socket is open.
BindOneMore ==
    /\ pc = "binding" /\ k <= N + 1
    /\ bound' = bound \cup {k} /\ k' = k + 1
    /\ UNCHANGED <<loaded, pc, ready, cancelled, result, errCh, servers>>
BindAndServe ==
    /\ pc = "binding" /\ k <= N
    /\ bound' = bound \cup {k} /\ k' = k + 1
    /\ goroutine' = [goroutine EXCEPT ![k] = "spawned"]
    /\ UNCHANGED <<loaded, pc, ready, cancelled, result, errCh, started, inFlight, failing>>

Bind ==
    /\ pc = "binding" /\ k <= N
    /\ bound' = bound \cup {k} /\ k' = k + 1
    /\ UNCHANGED <<loaded, pc, ready, cancelled, result, errCh, servers>>

\* The cleanup shuts down servers that have not been started: it closes nothing.
BindFails ==
    /\ pc = "binding" /\ k <= N
    /\ Return("bind")
    /\ UNCHANGED <<loaded, k, bound, ready, cancelled, errCh, servers>>

\* A mistake: the cleanup will start at the second server.
LaunchFromSecond ==
    /\ pc = "binding" /\ k > N
    /\ ready' = TRUE /\ pc' = "serving" /\ k' = 2
    /\ goroutine' = [s \in Servers |-> "spawned"]
    /\ UNCHANGED <<loaded, bound, cancelled, result, errCh, started, inFlight, failing>>

\* close(s.ready), then a goroutine for each server.
Launch ==
    /\ pc = "binding" /\ k > N
    /\ ready' = TRUE /\ pc' = "serving" /\ k' = 1
    /\ goroutine' = [s \in Servers |-> "spawned"]
    /\ UNCHANGED <<loaded, bound, cancelled, result, errCh, started, inFlight, failing>>

Cancel ==
    /\ ~ cancelled /\ cancelled' = TRUE
    /\ UNCHANGED <<loaded, bound, errCh, start, servers>>

\* select: either case when both are ready.
ContextDone ==
    /\ pc = "serving" /\ cancelled
    /\ pc' = "cleanup"
    /\ UNCHANGED <<loaded, k, ready, result, bound, cancelled, errCh, servers>>

ServerFailed ==
    /\ pc = "serving"
    /\ \E s \in errCh : errCh' = errCh \ {s}
    /\ pc' = "cleanup" /\ result' = "serve"
    /\ UNCHANGED <<loaded, k, ready, bound, cancelled, servers>>

\* srv.Shutdown of the next server: "not started", and on to the next,
ShutdownRefused ==
    /\ pc = "cleanup" /\ k <= N /\ k \notin started
    /\ k' = k + 1
    /\ UNCHANGED <<loaded, pc, ready, result, bound, cancelled, errCh, servers>>

\* or the server is told to stop,
Shutdown ==
    /\ pc = "cleanup" /\ k <= N /\ k \in started
    /\ started' = started \ {k}
    /\ pc' = "draining"
    /\ UNCHANGED <<loaded, k, ready, result, bound, cancelled, errCh,
                   goroutine, inFlight, failing>>

\* and the call returns when its last query has been answered.
Drained ==
    /\ pc = "draining" /\ k \notin bound
    /\ pc' = "cleanup" /\ k' = k + 1
    /\ UNCHANGED <<loaded, ready, result, bound, cancelled, errCh, servers>>

\* A mistake: no wait for the goroutines.
WaitForNone ==
    /\ pc = "cleanup" /\ k > N
    /\ Return(result)
    /\ UNCHANGED <<loaded, k, ready, bound, cancelled, errCh, servers>>

\* wg.Wait()
Wait ==
    /\ pc = "cleanup" /\ k > N
    /\ \A s \in Servers : goroutine[s] = "done"
    /\ Return(result)
    /\ UNCHANGED <<loaded, k, ready, bound, cancelled, errCh, servers>>

Start == \/ Call \/ Bind \/ BindFails \/ Launch \/ ContextDone \/ ServerFailed
         \/ ShutdownRefused \/ Shutdown \/ Drained \/ Wait

-----------------------------------------------------------------------------
(* The goroutine of a server.                                              *)

\* A mistake: room for one error, as only one is received.
CapacityOne == 1

\* The room in errCh.
Capacity == N

Move(s, from, to) == goroutine[s] = from /\ goroutine' = [goroutine EXCEPT ![s] = to]

Activate(s) ==
    /\ Move(s, "spawned", "serving")
    /\ started' = started \cup {s}
    /\ UNCHANGED <<loaded, bound, cancelled, errCh, inFlight, failing, start>>

\* A query is read and handed to the handler.  One may be read before the
\* shutdown and handed over after it; then the loop ends.
Query(s) ==
    /\ inFlight[s] < MaxInFlight
    /\ Move(s, "serving", IF s \in started THEN "serving" ELSE "stopping")
    /\ inFlight' = [inFlight EXCEPT ![s] = @ + 1]
    /\ UNCHANGED <<loaded, bound, cancelled, errCh, started, failing, start>>

\* The handler writes its answer and returns.
Answer(s) ==
    /\ inFlight[s] > 0
    /\ inFlight' = [inFlight EXCEPT ![s] = @ - 1]
    /\ UNCHANGED <<loaded, bound, cancelled, errCh, goroutine, started, failing, start>>

ReadFails(s) ==
    /\ s \in started /\ Move(s, "serving", "stopping")
    /\ failing' = failing \cup {s}
    /\ UNCHANGED <<loaded, bound, cancelled, errCh, started, inFlight, start>>

Stop(s) ==
    /\ s \notin started /\ Move(s, "serving", "stopping")
    /\ UNCHANGED <<loaded, bound, cancelled, errCh, started, inFlight, failing, start>>

\* The queries in hand have been answered: the socket is closed.
Close(s) ==
    /\ inFlight[s] = 0
    /\ Move(s, "stopping", IF s \in failing THEN "sending" ELSE "done")
    /\ bound' = bound \ {s}
    /\ UNCHANGED <<loaded, cancelled, errCh, started, inFlight, failing, start>>

\* errCh <- the error: blocks when the channel is full.
Send(s) ==
    /\ Cardinality(errCh) < Capacity
    /\ Move(s, "sending", "done")
    /\ errCh' = errCh \cup {s}
    /\ UNCHANGED <<loaded, bound, cancelled, started, inFlight, failing, start>>

Serve(s) == Activate(s) \/ Answer(s) \/ Stop(s) \/ Close(s) \/ Send(s)

Next == \/ Start \/ Cancel
        \/ \E s \in Servers : Serve(s) \/ Query(s) \/ ReadFails(s)

\* The scheduler runs every goroutine that can run, and every query ends
\* (EveryQueryEnds of Handler); queries, failures and signals need not come.
Spec ==
    /\ Init /\ [][Next]_vars /\ WF_vars(Start)
    /\ \A s \in Servers : WF_vars(Activate(s)) /\ WF_vars(Answer(s)) /\ WF_vars(Stop(s))
                          /\ WF_vars(Close(s)) /\ WF_vars(Send(s))

-----------------------------------------------------------------------------
(* Properties.                                                             *)

\* The counters stay in range, and the loops of Start within their list
\* (server.go:199-222).
TypeOK ==
    /\ loaded \in BOOLEAN /\ ready \in BOOLEAN /\ cancelled \in BOOLEAN
    /\ pc \in {"called", "binding", "serving", "cleanup", "draining", "returned"}
    /\ k \in 1..(N + 1)
    /\ result \in {"nil", "not loaded", "bind", "serve"}
    /\ goroutine \in [Servers -> {"none", "spawned", "serving", "stopping", "sending", "done"}]
    /\ inFlight \in [Servers -> 0..MaxInFlight]
    /\ bound \subseteq Servers /\ started \subseteq Servers
    /\ failing \subseteq Servers /\ errCh \subseteq Servers

\* "Sockets are opened before any goroutine starts serving, so a bind failure is
\* reported synchronously": no query is taken by a server that will not stay
\* up, whatever socket fails to bind (server.go:178-180, 196-222).
BindFailureServesNothing ==
    (\E s \in Servers : goroutine[s] # "none") => ready /\ result # "bind"

\* When Start returns after having served, every socket is closed and no query
\* is in hand or will be: the totals logged next are final (server.go:248-251,
\* cmd/serve.go:158-168).
ReturnMeansDrained ==
    (pc = "returned" /\ ready) =>
        /\ bound = {}
        /\ \A s \in Servers : goroutine[s] = "done" /\ inFlight[s] = 0

\* A goroutine that ends with an error never blocks on reporting it, however
\* many fail and whether or not Start still listens (server.go:228-237).
SendersNeverBlock ==
    \A s \in Servers : goroutine[s] = "sending" => Cardinality(errCh) < Capacity

\* Once every server is up, a signal or the failure of one of them stops them
\* all, and Start returns (server.go:242-251).
EveryoneUp == pc = "serving" /\ \A s \in Servers : goroutine[s] # "spawned"
StopsOnceUp ==
    (EveryoneUp /\ (cancelled \/ failing # {})) ~> pc = "returned"

-----------------------------------------------------------------------------
(* What the documentation says and the code does not do.                   *)

\* Start "serves until ctx is cancelled" (server.go:176), and the tests wait for
\* it to return then (server_test.go:94-102).
StopsWhenCancelled == cancelled ~> pc = "returned"
=============================================================================
