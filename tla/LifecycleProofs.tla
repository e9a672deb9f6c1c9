-------------------------- MODULE LifecycleProofs --------------------------
(***************************************************************************)
(* For any number of sockets and of queries: what holds while a server     *)
(* starts and stops.  The inductive invariant says where the goroutines    *)
(* can be, given how far Start has come.                                   *)
(***************************************************************************)
EXTENDS Lifecycle, FiniteSetTheorems, TLAPS

Launched == \A s \in Servers : goroutine[s] # "none"

LifeInv ==
    /\ TypeOK
    /\ pc \in {"called", "binding"} => ~ ready
    /\ pc \in {"serving", "cleanup", "draining"} => ready
    /\ pc = "draining" => k \in Servers /\ k <= N
    /\ ready => Launched
    /\ ~ ready => \A s \in Servers : goroutine[s] = "none"
    /\ result = "bind" => ~ ready /\ pc = "returned"
    /\ \A s \in Servers :
          goroutine[s] \in {"sending", "done"} => s \notin bound /\ inFlight[s] = 0
    /\ \A s \in errCh : goroutine[s] = "done"
    /\ (pc = "returned" /\ ready) => \A s \in Servers : goroutine[s] = "done"

LEMMA Start0 == Init => LifeInv
  <1> SUFFICES ASSUME Init PROVE LifeInv  OBVIOUS
  <1>1. k \in 1..(N + 1)  BY LifecycleAssumption DEF Init
  <1>2. inFlight \in [Servers -> 0..MaxInFlight]  BY LifecycleAssumption DEF Init
  <1>3. TypeOK  BY <1>1, <1>2 DEF Init, TypeOK
  <1> QED  BY <1>3 DEF Init, LifeInv

\* Start's loops stay within the list of sockets.
LEMMA NextServer ==
  /\ 1 \in 1..(N + 1)
  /\ \A j \in 1..(N + 1) : j <= N => j \in Servers /\ j + 1 \in 1..(N + 1)
  BY LifecycleAssumption DEF Servers

LEMMA CountUpAndDown ==
  \A n \in 0..MaxInFlight : /\ n < MaxInFlight => n + 1 \in 0..MaxInFlight
                            /\ n > 0 => n - 1 \in 0..MaxInFlight /\ n # 0
  BY LifecycleAssumption

\* Start's own steps move no goroutine but to launch them all.
LEMMA StartStep ==
  ASSUME LifeInv, Start
  PROVE  LifeInv'
  <1> USE DEF LifeInv, TypeOK, Launched, servers
  <1>1. CASE Call       BY <1>1 DEF Call, Return
  <1>2. CASE Bind
    <2>1. bound' \subseteq Servers /\ k' \in 1..(N + 1)
      <3>1. k \in 1..(N + 1) /\ k <= N /\ bound \subseteq Servers
            /\ bound' = bound \cup {k} /\ k' = k + 1
        BY <1>2 DEF Bind
      <3> HIDE DEF LifeInv, TypeOK, Launched, servers
      <3>2. QED  BY <3>1, NextServer
    <2>2. \A s \in Servers : goroutine[s] = "none"         BY <1>2 DEF Bind
    <2> QED  BY <1>2, <2>1, <2>2 DEF Bind
  <1>3. CASE BindFails  BY <1>3 DEF BindFails, Return
  <1>4. CASE Launch
    <2>1. goroutine' \in [Servers -> {"none", "spawned", "serving", "stopping", "sending", "done"}]
      BY <1>4 DEF Launch
    <2>2. \A s \in Servers : goroutine'[s] = "spawned" /\ goroutine[s] = "none"
      BY <1>4 DEF Launch
    <2>3. errCh = {}  BY <2>2
    <2> QED  BY <1>4, <2>1, <2>2, <2>3, NextServer DEF Launch
  <1>5. CASE ContextDone      BY <1>5 DEF ContextDone
  <1>6. CASE ServerFailed     BY <1>6 DEF ServerFailed
  <1>7. CASE ShutdownRefused  BY <1>7, NextServer DEF ShutdownRefused
  <1>8. CASE Shutdown         BY <1>8, NextServer DEF Shutdown
  <1>9. CASE Drained          BY <1>9, NextServer DEF Drained
  <1>10. CASE Wait            BY <1>10 DEF Wait, Return
  <1> QED  BY <1>1, <1>2, <1>3, <1>4, <1>5, <1>6, <1>7, <1>8, <1>9, <1>10 DEF Start

\* A goroutine moves only itself, and closes its socket on the way to "done".
LEMMA GoroutineStep ==
  ASSUME LifeInv, NEW s \in Servers, Serve(s) \/ Query(s) \/ ReadFails(s)
  PROVE  LifeInv'
  <1> USE DEF TypeOK, Move, start
  <1>1. CASE Activate(s)
    <2>1. TypeOK'  BY <1>1 DEF Activate, LifeInv
    <2> QED  BY <1>1, <2>1 DEF Activate, LifeInv, Launched
  <1>2. CASE Query(s)
    <2>1. inFlight' \in [Servers -> 0..MaxInFlight]
      BY <1>2, CountUpAndDown DEF Query, LifeInv
    <2>2. \A t \in Servers : t # s => inFlight'[t] = inFlight[t]
      BY <1>2 DEF Query, LifeInv
    <2>3. TypeOK'  BY <1>2, <2>1 DEF Query, LifeInv
    <2> QED  BY <1>2, <2>2, <2>3 DEF Query, LifeInv, Launched
  <1>3. CASE Answer(s)
    <2>1. inFlight' \in [Servers -> 0..MaxInFlight]
      BY <1>3, CountUpAndDown DEF Answer, LifeInv
    <2>2. \A t \in Servers : t # s => inFlight'[t] = inFlight[t]
      BY <1>3 DEF Answer, LifeInv
    <2>3. inFlight[s] # 0  BY <1>3, CountUpAndDown DEF Answer, LifeInv
    <2>4. TypeOK'  BY <1>3, <2>1 DEF Answer, LifeInv
    <2> QED  BY <1>3, <2>2, <2>3, <2>4 DEF Answer, LifeInv, Launched
  <1>4. CASE ReadFails(s)
    <2>1. TypeOK'  BY <1>4 DEF ReadFails, LifeInv
    <2> QED  BY <1>4, <2>1 DEF ReadFails, LifeInv, Launched
  <1>5. CASE Stop(s)
    <2>1. TypeOK'  BY <1>5 DEF Stop, LifeInv
    <2> QED  BY <1>5, <2>1 DEF Stop, LifeInv, Launched
  <1>6. CASE Close(s)
    <2>1. TypeOK'  BY <1>6 DEF Close, LifeInv
    <2> QED  BY <1>6, <2>1 DEF Close, LifeInv, Launched
  <1>7. CASE Send(s)
    <2>1. TypeOK'  BY <1>7 DEF Send, LifeInv
    <2> QED  BY <1>7, <2>1 DEF Send, LifeInv, Launched
  <1> QED  BY <1>1, <1>2, <1>3, <1>4, <1>5, <1>6, <1>7 DEF Serve

LEMMA LifeInvariant == Spec => []LifeInv
  <1>1. LifeInv /\ [Next]_vars => LifeInv'
    <2> SUFFICES ASSUME LifeInv, [Next]_vars PROVE LifeInv'  OBVIOUS
    <2>1. CASE Start  BY <2>1, StartStep
    <2>2. CASE Cancel
      BY <2>2 DEF Cancel, LifeInv, TypeOK, Launched, start, servers
    <2>3. CASE \E s \in Servers : Serve(s) \/ Query(s) \/ ReadFails(s)
      BY <2>3, GoroutineStep
    <2>4. CASE UNCHANGED vars
      BY <2>4 DEF vars, LifeInv, TypeOK, Launched
    <2> QED  BY <2>1, <2>2, <2>3, <2>4 DEF Next
  <1> QED  BY Start0, <1>1, PTL DEF Spec

\* Start and the goroutines keep to the states the code has.
THEOREM TypeCorrect == Spec => []TypeOK
  BY LifeInvariant, PTL DEF LifeInv

\* No query is taken when a socket did not bind.
THEOREM NoServiceAfterBindFailure == Spec => []BindFailureServesNothing
  <1>1. LifeInv => BindFailureServesNothing
    BY DEF LifeInv, BindFailureServesNothing, Launched
  <1> QED  BY LifeInvariant, <1>1, PTL

\* Nothing is left running, open or unanswered when Start returns.
THEOREM DrainedOnReturn == Spec => []ReturnMeansDrained
  <1>1. LifeInv => ReturnMeansDrained
    BY DEF LifeInv, TypeOK, ReturnMeansDrained
  <1> QED  BY LifeInvariant, <1>1, PTL

\* A server that is about to report its error is not among those in the
\* channel, which holds N: there is room.
THEOREM ChannelHasRoom == Spec => []SendersNeverBlock
  <1>1. ASSUME LifeInv PROVE SendersNeverBlock
    <2> SUFFICES ASSUME NEW s \in Servers, goroutine[s] = "sending"
                 PROVE  Cardinality(errCh) < Capacity
      BY DEF SendersNeverBlock
    <2>1. IsFiniteSet(Servers) /\ Cardinality(Servers) = N
      BY FS_Interval, LifecycleAssumption DEF Servers
    <2>2. errCh \subseteq Servers \ {s}
      BY <1>1 DEF LifeInv, TypeOK
    <2>3. IsFiniteSet(Servers \ {s}) /\ Cardinality(Servers \ {s}) = N - 1
      BY <2>1, FS_RemoveElement
    <2>4. Cardinality(errCh) <= N - 1
      BY <2>2, <2>3, FS_Subset
    <2>5. Cardinality(errCh) \in Nat
      BY <2>2, <2>3, FS_Subset, FS_CardinalityType
    <2> QED  BY <2>4, <2>5, LifecycleAssumption DEF Capacity
  <1> QED  BY LifeInvariant, <1>1, PTL
=============================================================================
