------------------------------- MODULE Import -------------------------------
(***************************************************************************)
(* ImportINI: a legacy file, a section per record type and one             *)
(* "domain=value" pair per line, read line by line                         *)
(* (src/internal/config/legacy.go).                                        *)
(*                                                                         *)
(* A line is [kind, section, name, value]: blank (or a comment), header,   *)
(* open (a header without its "]"), entry, or junk (a line without "=").   *)
(* The name of an entry is a name, or <<>> when it is empty, and so is its  *)
(* value, cut as in Values.                                                *)
(***************************************************************************)
EXTENDS Config

VARIABLES
    lines,          \* the file, or None
    position,       \* how many of them are read
    section,        \* the type of the section, or None when it is not one
    hosts, records, \* the Config in the making
    skipped,        \* the headers that name no type
    outcome         \* "reading", "failed", "done", or "none" without a file

CONSTANT None

import == <<lines, position, section, hosts, records, skipped, outcome>>

Line == lines[position + 1]
Reading == outcome = "reading" /\ position < Len(lines)

ImportInit ==
    /\ position = 0 /\ section = None /\ skipped = <<>>
    /\ hosts = NoHosts /\ records = <<>>
    /\ outcome = IF lines = None THEN "none" ELSE "reading"

ReadOn == position' = position + 1 /\ UNCHANGED <<lines, outcome>>
Fail == outcome' = "failed" /\ UNCHANGED <<lines, position, section, hosts, records, skipped>>

\* A blank line, or one of a section that is ignored.
Ignored ==
    /\ Reading
    /\ \/ Line.kind = "blank"
       \/ Line.kind \in {"entry", "junk"} /\ section = None
    /\ ReadOn /\ UNCHANGED <<section, hosts, records, skipped>>

\* A line is too long to be read, or reading fails: at any line, or at the end.
Unreadable == outcome = "reading" /\ Fail

Unterminated == Reading /\ Line.kind = "open" /\ Fail

Header ==
    /\ Reading /\ Line.kind = "header" /\ ParseType(Line.section) # Error
    /\ section' = Line.section
    /\ ReadOn /\ UNCHANGED <<hosts, records, skipped>>

\* A mistake: what follows goes on under the section before.
UnknownHeaderStays ==
    /\ Reading /\ Line.kind = "header" /\ ParseType(Line.section) = Error
    /\ skipped' = Append(skipped, Line.section)
    /\ ReadOn /\ UNCHANGED <<section, hosts, records>>

UnknownHeader ==
    /\ Reading /\ Line.kind = "header" /\ ParseType(Line.section) = Error
    /\ section' = None /\ skipped' = Append(skipped, Line.section)
    /\ ReadOn /\ UNCHANGED <<hosts, records>>

\* Mistakes: an entry is only looked at for its parts; an address not at all.
EntryHasParts == Line.name # <<>> /\ Line.value # <<>>

Entry == Reading /\ Line.kind = "entry" /\ section # None
EntryBuilds == New(Line.name, section, Line.value, 0) # Error

BadLine ==
    /\ \/ Reading /\ Line.kind = "junk" /\ section # None
       \/ Entry /\ ~ EntryBuilds
    /\ Fail

AddressUnchecked ==
    /\ Entry /\ Line.name # <<>> /\ section \in {"A", "AAAA"}
    /\ hosts' = [hosts EXCEPT ![Line.name] = Append(@, Line.value)]
    /\ ReadOn /\ UNCHANGED <<section, records, skipped>>

\* Addresses go to the hosts, whatever their family, under the name as it is
\* normalised; everything else becomes a record.
AddressEntry ==
    /\ Entry /\ EntryBuilds /\ section \in {"A", "AAAA"}
    /\ hosts' = [hosts EXCEPT ![Line.name] = Append(@, Line.value)]
    /\ ReadOn /\ UNCHANGED <<section, records, skipped>>

OtherEntry ==
    /\ Entry /\ EntryBuilds /\ section \notin {"A", "AAAA"}
    /\ records' = Append(records, [name |-> Line.name, type |-> section,
                                   values |-> <<Line.value>>, ttl |-> 0])
    /\ ReadOn /\ UNCHANGED <<section, hosts, skipped>>

EndOfFile ==
    /\ outcome = "reading" /\ position = Len(lines)
    /\ outcome' = "done"
    /\ UNCHANGED <<lines, position, section, hosts, records, skipped>>

ReadLine ==
    \/ Unreadable \/ Ignored \/ Unterminated \/ Header \/ UnknownHeader \/ BadLine
    \/ AddressEntry \/ OtherEntry \/ EndOfFile

\* What it returns: a Config with nothing else set.
Imported == Document(Blank, hosts, records)

-----------------------------------------------------------------------------
(* Properties.                                                             *)

\* The section that line i is in: that of the last header before it.
SectionOf(i) ==
    LET headers == {j \in 1..i-1 : lines[j].kind = "header"}
    IN  IF headers = {} THEN None ELSE lines[Max(headers)].section

Files(i, type, n) ==
    /\ lines[i].kind = "entry" /\ lines[i].name = n
    /\ SectionOf(i) # None /\ ParseType(SectionOf(i)) = type

\* The values read so far for a type and a name, and those that are built, in
\* order.
EntriesFor(type, n) ==
    FlattenSeq([i \in 1..position |-> IF Files(i, type, n) THEN <<lines[i].value>> ELSE <<>>])
ValuesFor(store, type, n) ==
    FlattenSeq([k \in DOMAIN store |->
                  IF store[k].type = type /\ store[k].name = n THEN <<store[k].value>> ELSE <<>>])

\* Whatever has been taken over loads: every record passes again when the file is
\* read, where addresses are told apart by their family and not by the section
\* they came from, and nothing that was left unset stands in the way
\* (legacy.go:81-95, config.go:196-281).
ImportLoads == Loads(Imported)

\* No entry of a known section is lost, doubled, filed under another type or
\* out of order, and none of an unknown section is kept, however the sections
\* follow each other and whether or not they come back: the configuration holds
\* for each type and name the values of the file in their order, although
\* addresses of both families share a list (legacy.go:52-95).
ImportKeepsRecords ==
    outcome = "done" => \A type \in KnownTypes, n \in Names :
        ValuesFor(Records(Imported), type, n) = EntriesFor(type, n)
=============================================================================
