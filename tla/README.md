# dnswizard in TLA+

A model of [dnswizard](../src/README.md), a DNS server that answers configured
names itself and forwards the rest. The modules here model its record lookup,
query handler, upstream resolver, start-up and shutdown, and hot reload, and what
comes before them: configuration files, flags, addresses, record values and the
commands that make and read them. TLC checks them on small instances, and TLAPS
proves the safety properties, two refinements among them, for instances of any size. Line numbers refer to `../src`.

## 1. The system

| Component | State | Operations | Meets |
|---|---|---|---|
| Record store, patterns, filter (`internal/records/store.go`) | the records, immutable once built | `LookupScored`, `TypesFor`, `Knows`, `ShouldFake` | called by the handler for every query |
| Records (`internal/records/record.go`) | none | `New`, `RR`, `Normalise` | builds answers; checks values when a config is loaded |
| Query handler (`internal/server/handler.go`) | per query: runtime, name, answer so far | `ServeDNS` and what it calls | one goroutine per query; reads the runtime pointer once; asks the resolver |
| Runtime and counters (`internal/server/server.go`) | an atomic pointer, five atomic counters | `Reload`, `Stats` | written by the watcher's goroutine, read by every query |
| Start and shutdown (`internal/server/server.go`) | sockets, a goroutine per socket, an error channel, a wait group | `Start` | the context of `serve`, miekg/dns servers |
| Resolver (`internal/upstream/resolver.go`) | a shared atomic cursor | `Exchange` | called by query goroutines, with a timeout per attempt |
| Watcher (`internal/watcher/watcher.go`) | a debounce timer, the directory's event queue | `Watch` | calls `reload` in its own goroutine |
| `serve` (`cmd/serve.go`) | the flags, the addresses last reported | `run`, `reload`, `buildConfig`, `findConfig` | everything above |
| Configuration file (`internal/config/config.go`) | none | `Load`, `ApplyDefaults`, `Validate`, `BuildStore`, `BuildFilter`, `ParseRecordFlag` | read at start-up and by every reload, and by `config check` |
| Legacy import (`internal/config/legacy.go`) | per file: the section, the config so far | `ImportINI` | called by `config import`, whose output is a configuration file |
| Listen addresses, upstreams (`server.go:134-174`, `resolver.go:20-158`) | none | `parseListen`, `ParseServer`, `Server.String` | called where `serve` and `query` start |
| `config` commands (`cmd/config.go`) | the file on disk | `init`, `check`, `import` | share the file with `serve` and the user |
| `query` (`cmd/query.go`) | none | one exchange | `ParseServer`, the resolver |
| Logging, root command | none that others read | output | `serve` fails on an unknown level or format |

What is hard in it, and what makes each part correct:

* **Lookup**: two nested loops with early exits over patterns that may be as
  specific as one another. Correct: the result depends on the records, not on
  the path through the loops; the most specific pattern answers, and all of it.
* **Handler**: queries interleave with each other and with reloads, and span an
  upstream exchange. Correct: a query is answered as if by one step under the
  configuration it came in under; a name leaves the machine only if that
  configuration lets it; every query ends; the counters say what happened.
* **Resolver**: concurrent exchanges share a counter that may overflow. Correct:
  every server is tried once before failing, a truncated reply is retried over
  TCP, load is spread, nothing panics before the overflow.
* **Start**: the goroutines of the sockets start, fail and drain in any order
  around a signal. Correct: all sockets or none; nothing is left when it returns;
  nobody blocks; it does return.
* **Hot reload**: files change between any two steps of a reload, while events
  are queued, dropped or debounced. Correct: the last change that was noticed is
  served; a file that cannot be used changes nothing; what a reload does not
  apply is reported.
* **Configuration**: a setting may come from the file, a flag or the default, and
  zero means unset; the same values are read by four commands along different
  paths. Correct: what one command writes or accepts the next one accepts and
  reads the same way; flags win where they say they do; a valid file and valid
  flags are valid together, so a reload never fails for their combination.
* **Import**: the section is carried from line to line. Correct: every entry of a
  known type arrives once, in order, under its type; the result loads.
* **Addresses**: one server has many spellings and a name in the logs. Correct:
  all of them mean what they say, and the name means the same server.

The lines where each of these bites are the `hazards` of `PROJECT.json`.

## 2. Modules

    Patterns   matching, scores, the filter          (pure)
      Store    the lookups, one line each            (pure)
        LookupScan   the loops that compute them
        Policy       what one runtime makes of a name (pure)
          DnsService   what a client is promised
          Handler      ServeDNS and Reload; implements DnsService
    Failover   what an exchange is promised
      Resolver   Exchange; implements Failover
    Lifecycle  Start
    HotReload  serve's start-up, Watch, reload
    Values     record types and values              (pure)
      Addresses  listen addresses and upstreams     (pure)
        Config     file and flags to runtime; extends Policy, too (pure)
          Import     ImportINI, line by line
            Commands   config init, import, check, serve, query around a file
    Text       TXT values in bytes; extended by Commands (pure)

Each `MC…` module gives TLC its instance, each `…Proofs` module holds the
theorems of the module it is named after; `ServiceProofs` has what relates the
handler to `DnsService` and to its counters, and `RecordsProofs` what other proofs
need to know of lists, values, scores and lookups. Operators whose comment begins with "A
mistake" are variants of the definition below them with a plausible bug in it;
no specification uses them. They show that the properties can fail: putting one
in the place of the definition makes the property that PROJECT.json pairs it with
fail.

**Names** are sequences of labels, top-level label first, as `reverseLabels`
returns them, so case and trailing dots are already gone. The `Star` label is
`*`, and the leftmost label of a pattern is its last element.

**Patterns, Store.** `MatchPattern` and `Score` are `matchPattern` and `score`
written as conditions on a pattern; `Lookup`, `LookupScore`, `TypesFor` and
`Knows` are the store's methods. A store is its list of records, and a lookup
returns the positions that win, which also fixes their order.

**LookupScan.** `LookupScored` and `matchPattern` as they run: one action per
case of the loop bodies (`LastStar`, `InnerStar`, `LiteralLabel`, `EndOfPattern`
for a label; `Better`, `SamePattern`, `NoBetter` for a candidate that matched).
`ReturnsTheWinners` says that they compute `Lookup` and `LookupScore`, which is
what entitles the other modules to use those.

**Policy.** The parts of `handler.go` that only depend on the runtime and a name:
when a CNAME wins over a direct record, what an ANY query is answered with, what
is left dangling. `BadOwners` are the names under which `dns.NewRR` cannot build
a record; the values were checked when the configuration was loaded.

**Handler.** `Queries` are the goroutines. `Receive` counts the query and loads
the runtime pointer; then a query is turned away (`RejectUnsupported`,
`RejectClass`), cooked (`CookAny`, or `StartCook` and one `FollowAlias` per CNAME
up to `TakeDirect`, `AliasUnbuildable` or the depth limit, `GiveUp`), answered
(`AnswerLocally`, `NoData`), chased upstream (`Chase`, then `ChaseReply` or
`ChaseFail`) or left to the fallback (`Block`, `Forward`, `ProxyReply`,
`ProxyFail`); `Write` and `WriteFail` end it. `Reload` swaps the runtime at any
moment. A resolver call is two steps, so reloads and other queries fall between.
`tail` is the set of the records after the chain: equal records of a configuration
are one there, also where `UDPLimit` counts them.

**DnsService** is the same without goroutines or loops: a query is judged by the
configuration in force when it is accepted; the judgement alone says what may be
disclosed and what may be answered. `ImplementsService` maps the handler to it.

**Resolver, Failover.** One action per outcome of an attempt in `Exchange`. The
cursor, the conversion to `int` and Go's remainder keep their width: `IntMax`
stands for the largest `int`, and `Panic` is what a negative index does.
`Failover` is what one exchange is promised whatever the others do: no server
that failed is asked again, and it fails only when all have.

**Lifecycle.** The steps of `Start` and of the goroutine of each socket.
`dns.Server` is external: `Activate` sets the flag without which `Shutdown`
refuses, `Query` and `Answer` are queries in hand, `ReadFails` a fatal read error.

**HotReload.** `serve` from its first look for a file (`Find`, `Read`, `Begin`)
to the watcher (`Add`, `HearChange`, `HearOther`, `Expire`, `Fire`) and each reload
(`Find`, `Read`, `Swap`). `Find` is `FindNamed` with `--config` and otherwise
`FindFirst` and, when that finds nothing, `FindSecond`. A look that fails for
another reason than a missing file is left out; a file of that name that cannot be
read ends the same way.
Editors `Save`, `MoveAway` and `Delete` either file
between any two of these. A half-written file is one that does not load, or one
that does and is whatever was written of it, the defaults included. `Listen`
addresses and upstreams, which a reload compares and does not apply, are one field.

**Values.** `ParseType`, `Normalise`, `Record.RR` and `New`. A value is the
sequence of its fields, a field a word with or without a final dot and quotes;
`Forms` says which fields of a type are host names and which are quoted. `Words`
are the words there are, every string for TLC. What `dns.NewRR` reads is external: fields that must be numbers are.

**Text.** `quoteTXT` and `quoteField` over bytes, where `Values` has one word: how
a text is cut into pieces, and each piece quoted and escaped. A character of two
bytes and what Go's loop over characters makes of half of one are there; how
`dns.NewRR` reads the pieces is external: `ReadByte` is what it makes of a byte,
given the strings it has, whether the last is open, and whether a backslash came
before.

**Addresses.** `parseListen`, `ParseServer` and `Server.String` over texts cut at
their separators; the functions of package `net` they use (`SplitHostPort`,
`JoinHostPort`, `ParseIP`) are external and modelled over the same words.

**Config.** `Load` with its defaults and checks, `BuildStore`, `BuildFilter`,
`ParseRecordFlag` and `buildConfig`. A setting that is left out is `Unset`, as in
the code, where it is the zero value. `Loads` and `Configures` say that `Load` and
`buildConfig` succeed, `ApplyDefaults(content)` and `BuildConfig` what they return.
`Runtime` is the configuration that `Handler` and `Policy` work with. A `#` is always
a word of its own, so a `#` within a TXT of `--record` splits it where the code does not.

**Import.** One action per kind of line in its context: `Header` and
`UnknownHeader` set the section, `AddressEntry` and `OtherEntry` take an entry over,
`Ignored` skips it, `Unterminated` and `BadLine` give up, as does `Unreadable` for a
line that the scanner cannot read, and `EndOfFile` returns.

**Commands.** The file on disk, written by a user (`Edit`), `config init`
(`InitFile`, which writes `Sample`, the source's `sampleConfig`) or `config import`
(`ImportLine`, `WriteImport`), shown by `config check` (`Check`), and served
(`Serve`, with the place where it may fail in `Outcome`; `Reload`, `Stop`); `Query`
is `query` finding its server. `HotReload` has the steps within a reload and takes configurations as wholes; `Commands` has what
is in them and takes a reload as one step, which it may be since a reload reads
the file once.

## 3. Runs

| Run (module, cfg) | Instance | Properties and what they show |
|---|---|---|
| `lookup_scan` (`MCLookupScan`) | all stores of up to 3 records from 8, all names of up to 3 labels over 2 | `TypeOK`; `ScanReturns`: the scan ends; `ReturnsTheWinners`: with all the records of the best pattern; `ExactBeatsWildcard`: an exact name beats a fixed wildcard beats an open one; `MatchesWhatIsWritten`: a pattern matches what it spells out and nothing else |
| `handler` (`MCHandler`) | 2 queries of 10 kinds, 4 configurations, 3 upstream replies, depth 3 | `TypeOK`; `UpstreamOnlyByPolicy`: who may be asked about what; `NoDataBesideCNAME`: an answer to any query but ANY says nothing else of a name it gives a CNAME for; `CountersAddUp`: the counters are those of the queries served; `ImplementsService`: every response is one `DnsService` allows |
| `handler_live` (`MCHandler`, `MCHandlerLive.cfg`) | 2 queries of 3 kinds, 2 configurations | `EveryQueryEnds`, CNAME loops and lost upstreams included |
| `resolver` (`MCResolver`) | 3 exchanges, 3 servers (1 over TCP only), `IntMax` 3 | `TypeOK`; `PanicsOnlyPastIntMax`: no negative index before the counter overflows; `LoadIsSpread`: the starts are evenly divided; `CutOnlyAfterTCP`: a cut reply is returned only when TCP failed; `FailsOver`: `Failover` is implemented; `EveryExchangeEnds` |
| `lifecycle` (`MCLifecycle`) | 3 sockets, up to 2 queries in hand on each | `TypeOK`; `BindFailureServesNothing`: all sockets or none; `ReturnMeansDrained`: nothing runs after `Start` has returned; `SendersNeverBlock`: the error channel has room; `StopsOnceUp`: a stop after every socket is up ends |
| `hot_reload` (`MCHotReload`) | 2 files, 3 configurations, one of them what the defaults say, and a broken one, 3 edits, a queue of 2 events, with and without `--config` | `TypeOK`; `NoticedChangesAreServed`: what the watcher sees is served in the end; `RecordsStayInPlace`: a file named by `--config` that is gone or does not load changes no records, whatever is edited meanwhile; `RestartIsCalledFor`: changed addresses are reported |
| `commands` (`MCCommands`) | all legacy files of a header and up to three lines from 11, all of up to two lines from 14, and one of 11 lines; 15 configuration files with each of 14 command lines, and one edit to any of 14; 17 spellings of a server to query; 78 texts, with pieces of 2 bytes | `TypeOK`: `serve` runs with a file that loads by itself or with none, and with an upstream; `ImportLoads`: an import loads; `ImportKeepsRecords`: it holds every entry of a known type, in order, and no other; `GeneratedFilesServe`: what `init` or `import` wrote can be served; `CheckShowsWhatIsServed`: what `check` prints is what is answered; `ValidAloneValidTogether`: no file and flags spoil each other; `ExactRecordFlagWins`: an exact `--record` answers before every wildcard of the file; `LoggedServersParseBack`: a server's name in the log means that server; `TcpAsksTheSameServer`: `query --tcp` asks the server it was told to, over UDP only if that was said, `HOST#PORT` without a transport excepted; `StrictSpellingIsTheSame`: a value and its zone-file spelling are one record; `TxtKeepsItsText`: a TXT is read as it was written |
| `local_names_leak` (`MCHandler`) | 1 query | `LocalNamesDoNotLeak` is violated: finding 1 |
| `excepted_names_faked` (`MCHandler`) | 1 query | `ExceptedNamesAreNotFaked` is violated: finding 2 |
| `first_upstream_first` (`MCResolver`) | as `resolver` | `FirstIsAskedFirst` is violated: finding 3 |
| `stop_race` (`MCLifecycle`) | 2 sockets | `StopsWhenCancelled` is violated: finding 4 |
| `edit_before_watch` (`MCHotReload`) | 1 edit | `EditsTakeEffect` is violated: finding 5 |

A run's cfg has the name of its module, or of the property it refutes.

**Bounds.** Three labels reach every case of the pattern loops: a leftmost star
after a literal, an inner star between two, two patterns of equal score. Three
records let a better, an equal and a worse candidate follow each other in any
order. Two queries suffice for the handler because queries share only the runtime
pointer and the counters; a query and the reload are the pair that races, the
second query is there for the counters. The four configurations are chosen so
that the same name is a CNAME, an address, excepted and unknown in turn, with a
loop longer than the depth limit of 3. Three exchanges and `IntMax` = 3 make the
sum of offset and loop index overflow. Three sockets are the least for which a
channel with room for one error is too small. Two files, three edits and two
events let an edit fall into every gap of a reload caused by another, and the
queue overflow. `MaxInFlight` and `MaxEdits` are bounds of the model, in its
guards. `MaxCNAMEDepth` is the program's (8 in the code, 3 here), `QueueMax` is the
operating system's event queue, and `UDPLimit` is the number of records that fit
the client's UDP buffer, 2 here.

Three lines after a header let a section begin, be interrupted by another or by
an unknown one, and come back; the long file does it with every type. The 15
configuration files hold every record type with a form, loosely and strictly
spelled, every spelling of a server, both filter lists and each way in which a
start fails; the 14 command lines every way a `--record` may be written, both
filter flags, and flags given as zero. Pairing them all is what
`ValidAloneValidTogether` and `ExactRecordFlagWins` need; one edit
(`edits`, a bound of the model) separates what is served from what is on disk. A
text holds "://" at most once. With `MaxChunk` = 2 the texts, all of up to three
bytes and of up to five marks, are cut before, after and between escapes. Words are a few, since only being an address, a
number or neither tells them apart.

`CHECK_DEADLOCK FALSE` stands where the modelled call, or process, ends.

**Fairness.** Weak fairness of a goroutine's own steps, since Go schedules every
goroutine that can run: `Serve(q)`, `Step(e)`, `Start` and the steps of each
socket's goroutine. An upstream attempt ends because it carries a timeout
(`resolver.go:222`), a timer because it is one, a queued event because `Watch`
reads until it is cancelled. No fairness for clients, signals, read errors,
editors or reloads: none of them owes the program anything. `Query` and
`ReadFails` of `Lifecycle` are not fair, and `StopsOnceUp` holds without.

## 4. Proofs

Every safety property that a passing run checks is proved, for all constants that
meet the assumptions named in its module. Each proof rests on an inductive
invariant; what it adds to the property is said here.

**LookupScanProofs.** `TypeCorrect`, and `ScanIsLookup`: what the loops return is
`Lookup` and `LookupScore`. The invariant says what the loops have established
half-way: the labels passed match, the literals counted are those passed, and
`best`, `bestPattern` and `matches` are the result for the records already seen.
`ReturnsTheWinners` alone says nothing before the return. `MatchesAreWritten`: the
label-wise `MatchPattern` accepts the names that a pattern spells out, cut into one
block for each of its labels; in one direction the blocks are given, in the other
the first star takes what is left over. `ExactNameWins` holds for any length;
`MostSpecificWins` says `ExactBeatsWildcard` for names of up to 101 labels, and no
more can be said: a literal scores 1000 and having no leftmost star 100000, so at 102
labels 101 stars and one literal tie with 101 literals under a leftmost star
(section 5).

**HandlerProofs.** `TypeCorrect`, `UpstreamByPolicy`, `NoDataBesideAnyCNAME`. The
invariant relates a query's phase to what it has asked, and its chain to its own
runtime: each CNAME is the winner for the end of the one before, and what ends the
chain is of the type asked for. With that, two
CNAMEs of one owner are equal and no direct record has the owner of one, because
who wins a name is a function of the runtime. A CNAME query has an empty chain and
CNAMEs after it; an ANY query is left out, since it is answered with all records of
a name (section 5).

**ServiceProofs.** `HandlerImplementsService`: the refinement, a step at a time.
`OutcomeInv` is what the mapping needs beside the handler's invariant: in each phase
what has been judged, answered and sent is what `DnsService` would have for the
configuration the query holds (`Staged`), and the links of its chain could be built
(`Built`). `CountersAlwaysAddUp`: each counter is the cardinality of a set of
queries, and a step moves one query, so each set gains it or stays (`CountInv`;
queries are finitely many that were received, `Queries` need not be finite).

**ResolverProofs.** `TypeCorrect`, `NoPanicBelowIntMax`: the invariant bounds the
loop variable, and a panic is traced to the offset that made it.
`TruncatedOnlyAfterTCP`: a retry is of a server of `UDP`. `ImplementsFailover`: the
servers that refused are those at the indices passed so far (`FailoverInv`), which
are distinct because `GoRem` is injective on a list's length of consecutive numbers
below the overflow; all of them are refused when the loop ends. `RoundRobinIsFair`:
the offsets are those below `cursor`, each drawn once (`SpreadInv`), and of any two
servers one has at most one more of them.

**LifecycleProofs.** `TypeCorrect`, `NoServiceAfterBindFailure`, `DrainedOnReturn`,
`ChannelHasRoom`. The invariant says where the goroutines may be for each place of
`Start`, and that an error in the channel belongs to a goroutine that has ended: a
sender is not among them, so they are fewer than N.

**HotReloadProofs.** `TypeCorrect`, `RestartReported`, `UnusableFileChangesNothing`.
The invariant relates the path and the result of `buildConfig` to the phase, and the
remembered addresses to those in use. With `--config` what is read is the file it
names, so while that is gone or does not load no reload reaches `Swap`
(`UnusableChangesNothing`, one step); a reload that has read the file before is
excluded by the hypothesis that none is about to swap.

**RecordsProofs.** `NormaliseOnce`, `StrictSpellingRenders`: for any type and value,
what `Normalise` returns it returns again, and it makes a record if the value did.
Its lemmas are about what a fold over lists has: the elements of `FlattenSeq` and
their order, and what is left of them when each is kept or dropped (`Through`);
that of patterns matching one name an exact one has the highest score; and what a
lookup returns when there is one. An induction over a list is made by its least
counterexample, a prefix, since the library's induction theorems cannot be used.

**CommandsProofs.**
* `TypeCorrect`, and `SourceInv`: what serves was built from a file that loads by
  itself, or none, and from flags with which it is a configuration, and whose values
  are lists of fields.
* `ImportedLoads`: the invariant says, before the end, that the hosts and the
  records taken over so far build, under the family of an address and not under
  the section it came from; `SectionIsFamily` is where the two judgements meet.
* `ImportLosesNothing`: at every line the section is that of the last header, if it
  names a type (`PlaceInv`), and what is held for each name and type is what the
  lines so far file there (`KeptInv`). Addresses of both families share a list, so
  what is held for one is the list through a filter, as is the store that it builds;
  filters are exchanged with concatenation, and names are found in `NameOrder` once.
* `ValidTogether`: the case distinction of `Override` (a flag drops the other list)
  and that a list builds if its parts do.
* `CheckTellsTheTruth`: no TTL in use is zero (`TTLInv`), and what was printed is
  the table of the file as it still is (`ShownInv`).
* `ExactFlagAnswers`: a flag's record is in the store, its name is spelled by
  itself, and no score is higher. `SpellingOutIsSafe`: `NormaliseOnce` for whatever
  is in the store.
* `GeneratedFilesStart`: a file that nobody has edited since `init` or `import` wrote
  it loads, and has the default listen addresses, upstreams and log settings
  (`WrittenInv`). Of an imported file that follows from `ImportInv`; of the sample,
  each host and record is shown to build. `ServesAlone` is what the defaults are good
  for: they parse, and no socket is bound twice.
* `TxtIsKept`: what is read of two texts one after the other is what the second makes
  of the state the first leaves (`ReadConcat`). An escaped byte is taken as it is
  (`EscapedRead`), a quoted piece is one more string, closed again (`QuotedIsRead`),
  so the pieces are read in order (`PiecesRead`); put together they are the text
  (`PiecesFlatten`), for every `MaxChunk` above zero. That no piece is cut within a
  character keeps `Runes` from replacing a byte.
* `NamesInLogsMeanServers`, `TcpAsksIt`: every server in use was parsed from a text
  (`ServersInv`, `AskedInv`); what `Server.String` prints has its separators where
  `ParseServer` cuts, because the parts have none. `TcpAsksIt` leaves out `HOST#PORT`
  without a transport, where another port is asked, and says where UDP remains
  (section 5).

**Assumptions.** They say what the code's types and libraries say: a store is a
slice of records, a value a list of fields, a line of a legacy file has the parts
that it was split into, and what YAML decodes is of the types of `Config` (with a
zero TTL left out, which is how `omitempty` writes it). A legacy file has names of
`Names`, the domain of `hosts`, or none. `net.IP` prints what it reads, in the same
family; a separator is no address; the models of errors and of absent values
(`Error`, `None`, `Failed`, `Lost`) are none of the results they are told from. A TXT
in bytes is of whole characters and not in quotes, which are no part of the word
(`TextAssumption`). The words of the sample are words and its names names, and what
is an address or a number in it is one to `net.IP` and `dns.NewRR`
(`SampleAssumption`). TLC evaluates all of them on the runs.

Only model-checked: liveness, which is out of the prover's reach (`ScanReturns`,
`EveryQueryEnds`, `EveryExchangeEnds`, `StopsOnceUp`, `NoticedChangesAreServed`).

## 5. Findings

1. **Local names leak** (`handler.go:57`). The open end of a local chain is sent
   upstream without asking whether it is local. `README.md:179-185` promises
   NODATA for local names and upstream only for targets that are not local.
2. **Excepted names are faked** (`handler.go:142`) when a CNAME leads to them;
   `config.go:62` says they are proxied.
3. **Upstreams rotate** (`resolver.go:184,188`); `README.md:176` says they fail
   over in order.
4. **Shutdown can hang** (`server.go:249-250`). A signal that comes before a
   socket's goroutine has called `ActivateAndServe` shuts nothing down there, and
   the wait group waits for it for ever. `StopsOnceUp` is what does hold.
5. **An edit during start-up is missed** (`serve.go:149`, `watcher.go:37`): the
   file is read before the watch begins and not again after.
   `NoticedChangesAreServed` is what does hold.

Seen in the model, without a run of their own:

* An ANY query is answered with the CNAME of a name and its other records together
  (`handler.go:96-109`).
* A file caught half written that decodes replaces the records; `{}`, or the file of
  `config init` cut before its hosts, loads as the defaults (`config.go:174-194`).
* Without `--config`, a file moved away makes the reload install the defaults,
  with no records (`serve.go:206, 283`).
* An upstream's TC bit is lost when its answer is appended (`handler.go:194`).
* An overflow of the event queue drops a change (`watcher.go:71-75`).
* A file changed back to the addresses in use is reported as needing a restart
  (`serve.go:189-195`); a changed timeout or log setting takes one, too, and is
  not reported.
* `--only` with `--except` is accepted, and `--only` dropped (`serve.go:230-235`).
* A flag given as zero or empty falls to the default, not to the file
  (`serve.go:256`).
* A file that `config check` accepts may not start: listen addresses, upstreams
  and log settings are looked at by `serve` only (`config.go:228-240`).
* `[::1]` without a port, or `1.1.1.1:53#name` without `tls://`, is accepted as an
  upstream that can never be dialled (`resolver.go:99-107`).
* `query --tcp -s HOST#PORT` takes the port for a certificate name
  (`query.go:50-52`), and with a server that names `udp://` or `dns://` the query
  stays on UDP, although the flag's help says "query over TCP" (`query.go:87`).
* A `#` in the value of a `--record` begins its TTL (`config.go:322`).
* 101 literals under a leftmost star tie with 101 stars and a literal, and the first
  of them answers, although the comment calls the fixed one more specific
  (`store.go:195-203`): the only names `MostSpecificWins` leaves out.
* A TXT of more than 255 bytes is cut within a character, which damages it, and a
  piece that begins and ends with a quote loses both (`record.go:229-243`);
  `TxtKeepsItsText` says what holds for the other texts.

## 6. Not modelled, and the plan

Not modelled: YAML (a file decodes or it does not), how a name is normalised, EDNS
options other than the size, how log lines look, the log file, what `query` and
`config check` print beside servers and records, and the command tree, which
declares the rest.

Done: 1 lookup; 2 handler and its service; 3 resolver; 4 lifecycle; 5 hot reload;
6 values and addresses; 7 configuration; 8 import; 9 commands.

Open: no property says what becomes of an upstream's rcode and TC bit
(`handler.go:194`), of sockets opened before a bind failure (`server.go:209`),
of a flag's value that is cut at a `#` (`config.go:322`), or which upstreams can be
dialled (`resolver.go:103`); no document promises anything of them. What the proofs say ends where the model does: a library that is external
here does what the assumptions say.
