-------------------------- MODULE HotReloadProofs --------------------------
(***************************************************************************)
(* For any configurations, queue and number of edits: what a reload may    *)
(* put in place of the records, and what it says of the rest.  The         *)
(* inductive invariant relates buildConfig's path and result, and the      *)
(* addresses reload remembers, to where the process is.                    *)
(***************************************************************************)
EXTENDS HotReload, SequenceTheorems, TLAPS

QueueInv ==
    /\ events \in Seq({"change", "other", "overflow"})
    /\ Len(events) <= QueueMax + 1
    /\ Len(events) > QueueMax => events[Len(events)] = "overflow"

StateOK ==
    /\ given \in Flags
    /\ file \in [Files -> Contents] /\ edits \in 0..MaxEdits
    /\ watched \in Files \cup {None} /\ found \in Files \cup {None}
    /\ phase \in {"find", "find2", "read", "swap", "add", "select", "unwatched", "exited"}
    /\ timer \in {"none", "armed", "fired"}
    /\ fresh \in Configs \cup {None} /\ served \in Configs \cup {None}
    /\ said \in BOOLEAN

\* What buildConfig is about to return, and what has been said so far.
ReloadInv ==
    /\ phase = "read" /\ given # None => found = given
    /\ phase = "find2" => given = None
    /\ phase = "swap" => fresh \in Configs
    /\ phase = "add" => found # None
    /\ phase \in {"add", "select", "unwatched"} => served # None
    /\ served # None => served.listen = old /\ (old # bound => said)

HotInv == QueueInv /\ StateOK /\ ReloadInv

-----------------------------------------------------------------------------
LEMMA InitHot == Init => HotInv
  <1> SUFFICES ASSUME Init PROVE HotInv  OBVIOUS
  <1>1. QueueInv   BY HotReloadAssumption DEF Init, QueueInv
  <1>2. edits \in 0..MaxEdits  BY HotReloadAssumption DEF Init
  <1>3. StateOK    BY <1>2 DEF Init, StateOK
  <1>4. ReloadInv  BY DEF Init, ReloadInv
  <1> QED  BY <1>1, <1>3, <1>4 DEF HotInv

\* What the operating system appends fits, or ends in the word "overflow".
LEMMA QueueStep ==
  ASSUME QueueInv, NEW e \in {"change", "other"}, Queue(e)
  PROVE  QueueInv'
  <1> DEFINE Word == {"change", "other", "overflow"}
  <1> USE HotReloadAssumption DEF QueueInv
  <1>1. CASE UNCHANGED events  BY <1>1
  <1>2. CASE Len(events) < QueueMax /\ events' = Append(events, e)
    <2>1. events' \in Seq(Word) /\ Len(events') = Len(events) + 1
      BY <1>2, AppendProperties
    <2> QED  BY <1>2, <2>1, LenProperties
  <1>3. CASE /\ ~ Len(events) < QueueMax /\ Last(events) # "overflow"
             /\ events' = Append(events, "overflow")
    <2>1. Len(events) <= QueueMax  BY <1>3, LenProperties DEF Last
    <2>2. /\ events' \in Seq(Word) /\ Len(events') = Len(events) + 1
          /\ events'[Len(events')] = "overflow"
      BY <1>3, AppendProperties
    <2> QED  BY <2>1, <2>2, LenProperties
  <1> QED  BY <1>1, <1>2, <1>3 DEF Queue

\* Reading an event leaves the last one where it was.
LEMMA HearStep ==
  ASSUME QueueInv, events # <<>>, events' = Tail(events)
  PROVE  QueueInv'
  <1> DEFINE Word == {"change", "other", "overflow"}
  <1>1. /\ Tail(events) \in Seq(Word)
        /\ Len(Tail(events)) = Len(events) - 1
        /\ \A j \in 1..Len(Tail(events)) : Tail(events)[j] = events[j + 1]
    BY HeadTailProperties DEF QueueInv
  <1>2. Len(events) \in Nat  BY LenProperties DEF QueueInv
  <1> QED  BY <1>1, <1>2, HotReloadAssumption DEF QueueInv

LEMMA EditStep ==
  ASSUME StateOK, ReloadInv, NEW f \in Files, NEW c \in Contents, Edit(f, c)
  PROVE  StateOK' /\ ReloadInv'
  <1>1. edits' \in 0..MaxEdits  BY HotReloadAssumption DEF StateOK, Edit
  <1>2. file' \in [Files -> Contents]  BY DEF StateOK, Edit
  <1> QED  BY <1>1, <1>2 DEF StateOK, ReloadInv, Edit, program

\* No step of the program touches the disk; each sets what the next one needs.
LEMMA ProgramStep ==
  ASSUME HotInv, Reload \/ Add \/ AddFails \/ Hear \/ Expire \/ Fire \/ Cancel
  PROVE  HotInv'
  <1> USE DEF HotInv, StateOK, ReloadInv, disk
  <1>1. CASE Find
    <2>1. given \in Files \cup {None}  BY HotReloadAssumption
    <2>2. CASE FindNamed   BY <2>1, <2>2 DEF FindNamed, Fail, QueueInv
    <2>3. CASE FindFirst   BY <2>3 DEF FindFirst, Files, QueueInv
    <2>4. CASE FindSecond  BY <2>4 DEF FindSecond, Files, QueueInv
    <2> QED  BY <1>1, <2>2, <2>3, <2>4 DEF Find
  <1>2. CASE Read
    BY <1>2, HotReloadAssumption DEF Read, Fail, QueueInv, Configs
  <1>3. CASE Begin
    BY <1>3, HotReloadAssumption DEF Begin, QueueInv
  <1>4. CASE Swap
    BY <1>4, HotReloadAssumption DEF Swap, QueueInv
  <1>5. CASE Add       BY <1>5 DEF Add, QueueInv
  <1>6. CASE AddFails  BY <1>6 DEF AddFails, QueueInv
  <1>7. CASE HearChange  BY <1>7, HearStep DEF HearChange
  <1>8. CASE HearOther   BY <1>8, HearStep DEF HearOther, program
  <1>9. CASE Expire    BY <1>9 DEF Expire, QueueInv
  <1>10. CASE Fire     BY <1>10 DEF Fire, QueueInv
  <1>11. CASE Cancel   BY <1>11 DEF Cancel, QueueInv
  <1> QED  BY <1>1, <1>2, <1>3, <1>4, <1>5, <1>6, <1>7, <1>8, <1>9, <1>10, <1>11 DEF Reload, Hear

LEMMA HotInvariant == Spec => []HotInv
  <1>1. HotInv /\ [Next]_vars => HotInv'
    <2> SUFFICES ASSUME HotInv, [Next]_vars PROVE HotInv'  OBVIOUS
    <2>1. ASSUME NEW f \in Files, NEW c \in Written \cup {Broken}, Save(f, c) PROVE HotInv'
      BY <2>1, EditStep, QueueStep DEF Save, EventOf, HotInv, Contents
    <2>2. ASSUME NEW f \in Files, MoveAway(f) PROVE HotInv'
      BY <2>2, EditStep, QueueStep DEF MoveAway, EventOf, HotInv, Contents
    <2>3. ASSUME NEW f \in Files, Delete(f) PROVE HotInv'
      BY <2>3, EditStep, QueueStep DEF Delete, HotInv, Contents
    <2>4. CASE Reload \/ Add \/ AddFails \/ Hear \/ Expire \/ Fire \/ Cancel
      BY <2>4, ProgramStep
    <2>5. CASE UNCHANGED vars
      BY <2>5 DEF vars, HotInv, QueueInv, StateOK, ReloadInv
    <2> QED  BY <2>1, <2>2, <2>3, <2>4, <2>5 DEF Next
  <1> QED  BY InitHot, <1>1, PTL DEF Spec

-----------------------------------------------------------------------------
\* The queue and the phases of a reload keep to the states the code has.
THEOREM TypeCorrect == Spec => []TypeOK
  <1>1. HotInv => TypeOK  BY DEF HotInv, QueueInv, StateOK, TypeOK
  <1> QED  BY HotInvariant, <1>1, PTL

\* Addresses that are in the file but not open have been reported.
THEOREM RestartReported == Spec => []RestartIsCalledFor
  <1>1. HotInv => RestartIsCalledFor
    BY DEF HotInv, ReloadInv, RestartIsCalledFor
  <1> QED  BY HotInvariant, <1>1, PTL

\* One step of anything, the file of --config being gone or not to be loaded:
\* the records stay, and no reload is about to replace them.
LEMMA UnusableChangesNothing ==
  ASSUME NEW c \in Configs, HotInv, [Next]_vars,
         served = c, phase # "swap", NamedFileIsUnusable
  PROVE  served' = c /\ phase' # "swap"
  <1>1. served # None  BY HotReloadAssumption
  <1>2. CASE Read
    <2>1. phase = "read" /\ found = given /\ given \in Files
      BY <1>2, HotReloadAssumption DEF Read, HotInv, ReloadInv, StateOK, NamedFileIsUnusable
    <2>2. file[given] \in {Broken, Missing}
      BY <2>1 DEF HotInv, StateOK, NamedFileIsUnusable, Contents
    <2>3. file[given] \notin Configs  BY <2>2, HotReloadAssumption
    <2>4. Fail /\ served' = served
      BY <1>2, <2>1, <2>3 DEF Read, Fail, NamedFileIsUnusable
    <2> QED  BY <1>1, <2>4 DEF Fail
  <1>3. CASE Next /\ ~ Read
    BY <1>1, <1>3 DEF Next, Save, MoveAway, Delete, Edit, Reload, Find, FindNamed,
       FindFirst, FindSecond, Fail, Begin, Swap, Add, AddFails, Hear, HearChange,
       HearOther, Expire, Fire, Cancel, program
  <1>4. CASE UNCHANGED vars  BY <1>4 DEF vars
  <1> QED  BY <1>2, <1>3, <1>4

\* With --config, a file that is gone or does not load changes no records.
THEOREM UnusableFileChangesNothing == Spec => RecordsStayInPlace
  <1>1. ASSUME NEW c \in Configs
        PROVE  Spec => []((served = c /\ phase # "swap" /\ []NamedFileIsUnusable)
                            => [](served = c))
    <2> DEFINE Kept == served = c /\ phase # "swap"
    <2>1. HotInv /\ Kept /\ NamedFileIsUnusable /\ [Next]_vars => Kept'
      BY UnusableChangesNothing
    <2>2. Kept => served = c  OBVIOUS
    <2>3. served = c /\ phase # "swap" => Kept  OBVIOUS
    <2> HIDE DEF Kept
    <2> QED  BY <2>1, <2>2, <2>3, HotInvariant, PTL DEF Spec
  <1> QED  BY <1>1 DEF RecordsStayInPlace
=============================================================================
