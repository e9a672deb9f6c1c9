----------------------------- MODULE HotReload -----------------------------
(***************************************************************************)
(* A configuration file on its way to the running server: the start-up of  *)
(* serveOptions.run, the watcher's loop, and the reload it calls           *)
(* (src/cmd/serve.go:100-284, src/internal/watcher/watcher.go:28-78),      *)
(* while editors write, replace, move and remove the files.                *)
(*                                                                         *)
(* The operating system queues the events of the directory (inotify, by    *)
(* way of fsnotify), a bounded number of them: the queue is external.      *)
(* What a reload compares and does not apply, the listen addresses and the *)
(* upstreams, is one field here, listen.  The flags on top of a file never *)
(* change while the program runs, so they are part of what a file says.    *)
(***************************************************************************)
EXTENDS Naturals, Sequences, SequencesExt

CONSTANTS
    Written,        \* [records, listen]: what a file that loads may say, also one
                    \* half written that still decodes; {} says Default
    Default,        \* config.Default(), when there is no file
    Flags,          \* what --config may name: a file, or None
    Broken,         \* the content of a file that does not load
    Missing,        \* no file of that name
    None,
    QueueMax,       \* how many events the operating system keeps
    MaxEdits        \* bound: how often the files change

\* configNames: dnswizard.yaml, then dnswizard.yml.
Files == 1..2

Contents == Written \cup {Broken, Missing}
Configs == Written \cup {Default}

ASSUME HotReloadAssumption ==
    /\ Flags \subseteq Files \cup {None} /\ None \notin Files
    /\ {Broken, Missing, None} \cap Configs = {} /\ Broken # Missing
    /\ QueueMax \in Nat \ {0} /\ MaxEdits \in Nat

VARIABLES
    given,          \* the file of --config, or None
    file,           \* what is on disk
    edits,          \* how often it changed
    events,         \* "change" of the watched file, "other" or "overflow"
    watched,        \* the file whose directory is watched, or None
    phase,          \* where the process, or its watcher, is
    timer,          \* the debounce: "none", "armed" or "fired"
    found, fresh,   \* buildConfig's path and result
    served,         \* the configuration in use, None before the first
    bound,          \* the listen addresses in use
    old,            \* those reload compares with
    said            \* whether a restart was ever called for

vars == <<given, file, edits, events, watched, phase, timer, found, fresh,
          served, bound, old, said>>
disk == <<given, file, edits>>
program == <<watched, phase, timer, found, fresh, served, bound, old, said>>

-----------------------------------------------------------------------------
(* The files and the event queue.                                          *)

\* A full queue drops what comes, and says so once.
Queue(e) ==
    events' = IF watched = None THEN events
              ELSE IF Len(events) < QueueMax THEN Append(events, e)
              ELSE IF Last(events) # "overflow" THEN Append(events, "overflow")
              ELSE events

Edit(f, c) ==
    /\ edits < MaxEdits /\ edits' = edits + 1
    /\ file' = [file EXCEPT ![f] = c]
    /\ UNCHANGED <<given, program>>

EventOf(f) == IF f = watched THEN "change" ELSE "other"

\* Written in place, half written, or replaced by a rename onto it.
Save(f, c) == Edit(f, c) /\ Queue(EventOf(f))

\* Renamed to something else.
MoveAway(f) == file[f] # Missing /\ Edit(f, Missing) /\ Queue(EventOf(f))

\* Watch ignores a removal.
Delete(f) == file[f] # Missing /\ Edit(f, Missing) /\ Queue("other")

-----------------------------------------------------------------------------
(* buildConfig: findConfig, then Load.                                     *)

Init ==
    /\ given \in Flags
    /\ file \in [Files -> Contents] /\ edits = 0
    /\ events = <<>> /\ watched = None
    /\ phase = "find" /\ timer = "none"
    /\ found = None /\ fresh = None /\ served = None
    /\ bound = None /\ old = None /\ said = FALSE

Exists(f) == file[f] # Missing

\* findConfig on an unchanging disk: None for flags alone.
ConfigFile ==
    IF given # None THEN given
    ELSE IF Exists(1) THEN 1 ELSE IF Exists(2) THEN 2 ELSE None

\* An error ends the start-up; a reload keeps the previous records.
Fail ==
    /\ phase' = IF served = None THEN "exited" ELSE "select"
    /\ UNCHANGED <<watched, timer, fresh, served, bound, old, said>>

\* A mistake: a --config file that is gone counts as none given.
FindOrDefault ==
    /\ phase = "find" /\ given # None /\ phase' = "read"
    /\ found' = IF Exists(given) THEN given ELSE None
    /\ UNCHANGED <<disk, events, watched, timer, fresh, served, bound, old, said>>

\* The file of --config is there, or the load fails.
FindNamed ==
    /\ phase = "find" /\ given # None
    /\ found' = given
    /\ IF Exists(given)
         THEN /\ phase' = "read"
              /\ UNCHANGED <<watched, timer, fresh, served, bound, old, said>>
         ELSE Fail
    /\ UNCHANGED <<disk, events>>

\* The names are looked for in turn; the files may change in between.
FindFirst ==
    /\ phase = "find" /\ given = None
    /\ IF Exists(1) THEN found' = 1 /\ phase' = "read"
                    ELSE phase' = "find2" /\ UNCHANGED found
    /\ UNCHANGED <<disk, events, watched, timer, fresh, served, bound, old, said>>

FindSecond ==
    /\ phase = "find2" /\ phase' = "read"
    /\ found' = IF Exists(2) THEN 2 ELSE None
    /\ UNCHANGED <<disk, events, watched, timer, fresh, served, bound, old, said>>

\* A mistake: a file that does not load is used as far as it goes.
ReadUnchecked ==
    /\ phase = "read" /\ phase' = "swap"
    /\ fresh' = IF found = None THEN Default ELSE file[found]
    /\ UNCHANGED <<disk, events, found, watched, timer, served, bound, old, said>>

Read ==
    /\ phase = "read"
    /\ LET content == IF found = None THEN Default ELSE file[found] IN
       IF content \in Configs
         THEN /\ fresh' = content /\ phase' = "swap"
              /\ UNCHANGED <<watched, timer, served, bound, old, said>>
         ELSE Fail
    /\ UNCHANGED <<disk, events, found>>

\* The first configuration: its listeners are opened, its file is watched.
Begin ==
    /\ phase = "swap" /\ served = None
    /\ served' = fresh /\ bound' = fresh.listen /\ old' = fresh.listen
    /\ phase' = IF found = None THEN "unwatched" ELSE "add"
    /\ UNCHANGED <<disk, events, watched, timer, found, fresh, said>>

\* Mistakes: remembering the new addresses before they are compared; dropping
\* the events that came in during the reload.
SwapSilently ==
    /\ phase = "swap" /\ served # None
    /\ served' = fresh /\ old' = fresh.listen
    /\ phase' = "select"
    /\ UNCHANGED <<disk, events, watched, timer, found, fresh, bound, said>>
SwapAndDrain ==
    /\ phase = "swap" /\ served # None
    /\ served' = fresh /\ old' = fresh.listen
    /\ said' = (said \/ old # fresh.listen)
    /\ phase' = "select" /\ events' = <<>>
    /\ UNCHANGED <<disk, watched, timer, found, fresh, bound>>

\* srv.Reload, then a word about what it does not apply.
Swap ==
    /\ phase = "swap" /\ served # None
    /\ served' = fresh
    /\ said' = (said \/ old # fresh.listen)
    /\ old' = fresh.listen
    /\ phase' = "select"
    /\ UNCHANGED <<disk, events, watched, timer, found, fresh, bound>>

-----------------------------------------------------------------------------
(* Watch.                                                                  *)

\* w.Add: what changed before it is never heard of.
Add ==
    /\ phase = "add"
    /\ watched' = found /\ phase' = "select"
    /\ UNCHANGED <<disk, events, timer, found, fresh, served, bound, old, said>>

\* The directory cannot be watched: the server runs on without.
AddFails ==
    /\ phase = "add"
    /\ phase' = "unwatched"
    /\ UNCHANGED <<disk, events, watched, timer, found, fresh, served, bound, old, said>>

\* An event starts the debounce, or starts it again; a timer that has fired
\* meanwhile is forgotten.
HearChange ==
    /\ phase = "select" /\ events # <<>> /\ Head(events) = "change"
    /\ events' = Tail(events) /\ timer' = "armed"
    /\ UNCHANGED <<disk, watched, phase, found, fresh, served, bound, old, said>>

\* Another file's event, a removal, or an error that is only logged.
HearOther ==
    /\ phase = "select" /\ events # <<>> /\ Head(events) \in {"other", "overflow"}
    /\ events' = Tail(events)
    /\ UNCHANGED <<disk, program>>

Expire ==
    /\ timer = "armed" /\ timer' = "fired"
    /\ UNCHANGED <<disk, events, watched, phase, found, fresh, served, bound, old, said>>

\* onChange()
Fire ==
    /\ phase = "select" /\ timer = "fired"
    /\ timer' = "none" /\ phase' = "find"
    /\ UNCHANGED <<disk, events, watched, found, fresh, served, bound, old, said>>

\* The context is cancelled.
Cancel ==
    /\ phase \in {"select", "unwatched"}
    /\ phase' = "exited"
    /\ UNCHANGED <<disk, events, watched, timer, found, fresh, served, bound, old, said>>

Find == FindNamed \/ FindFirst \/ FindSecond
Reload == Find \/ Read \/ Begin \/ Swap
Hear == HearChange \/ HearOther

Next ==
    \/ \E f \in Files : \/ \E c \in Written \cup {Broken} : Save(f, c)
                        \/ MoveAway(f) \/ Delete(f)
    \/ Reload \/ Add \/ AddFails \/ Hear \/ Expire \/ Fire \/ Cancel

\* The process runs, events are read, timers expire; editors owe nothing.
Spec ==
    /\ Init /\ [][Next]_vars
    /\ WF_vars(Reload) /\ WF_vars(Add \/ AddFails)
    /\ WF_vars(Hear) /\ WF_vars(Expire) /\ WF_vars(Fire)

-----------------------------------------------------------------------------
(* Properties.                                                             *)

\* The debounce and the queue stay in range; nothing but a configuration that
\* loaded is ever served (serve.go:174-184).
TypeOK ==
    /\ given \in Flags
    /\ file \in [Files -> Contents] /\ edits \in 0..MaxEdits
    /\ events \in Seq({"change", "other", "overflow"}) /\ Len(events) <= QueueMax + 1
    /\ watched \in Files \cup {None} /\ found \in Files \cup {None}
    /\ phase \in {"find", "find2", "read", "swap", "add", "select", "unwatched", "exited"}
    /\ timer \in {"none", "armed", "fired"}
    /\ fresh \in Configs \cup {None} /\ served \in Configs \cup {None}
    /\ said \in BOOLEAN

\* f is the file the program would find, and says c.
Says(f, c) == ConfigFile = f /\ file[f] = c

\* A change has been heard of, or is in the queue, and the file not read since.
Noticed ==
    \/ \E j \in 1..Len(events) : events[j] = "change"
    \/ timer # "none"
    \/ phase = "find" /\ served # None

\* A change that was noticed is served in the end, if the files then stay as
\* they are and load: however the edits fall between the debounce, the look-up,
\* the read and the swap of earlier ones (watcher.go:49-72, serve.go:174-184).
NoticedChangesAreServed ==
    \A f \in Files, c \in Written :
        (Noticed /\ []Says(f, c)) ~> [](served = c \/ phase = "exited")

\* Once the file in use has been read to mean other addresses than those that
\* are open, the log has said that a restart is needed (serve.go:189-195).
RestartIsCalledFor == (served # None /\ served.listen # bound /\ phase = "select") => said

\* The file of --config is gone, or says nothing that loads.
NamedFileIsUnusable == given # None /\ file[given] \notin Written

\* With --config, from the moment the file is gone or does not load, and as long
\* as that lasts, the records that are served stay: no reload puts others, the
\* defaults among them, in their place, unless one had read the file before
\* (serve.go:175-184, 264-284).  A file cut short that still decodes loads.
RecordsStayInPlace ==
    \A c \in Configs :
        []((served = c /\ phase # "swap" /\ []NamedFileIsUnusable) => [](served = c))

-----------------------------------------------------------------------------
(* What the documentation says and the code does not do.                   *)

\* "The file is re-read when it changes, so editing records takes effect without
\* a restart" (README.md:105-106).
EditsTakeEffect ==
    \A f \in Files, c \in Written :
        (watched = f /\ []Says(f, c)) ~> (served = c \/ phase = "exited")
=============================================================================
