# TLA+ models of Packet Analyzer

Packet Analyzer reads a `.pcap` file, finds flows, applications and domains in
it, applies blocking rules and writes a filtered capture and reports.  The
repository holds four programs around the same idea:

* `packet_analyzer` (`src/main.cpp`, the one the build file names): one thread,
  one pass over the capture;
* the v1 engine (`src/dpi_engine.cpp` with the classes it uses): a reader, load
  balancers, fast paths and an output thread connected by bounded queues, each
  in its own class, with connection tracker and rule manager;
* the v2 engine (`src/dpi_mt.cpp`): the same pipeline rewritten in one file;
* the single-threaded engine (`src/main_working.cpp`): one loop with a flow table.

This directory keeps their models, the TLC configurations that check them on
small instances, and proofs.  Paths below are relative to the repository.

## Inventory

| Component | State | Operations | Interacts through | Correct when |
|---|---|---|---|---|
| `ThreadSafeQueue` (`include/thread_safe_queue.h`) | `queue_`, `shutdown_`, two wait sets | `push`, `tryPush`, `pop`, `popWithTimeout`, `shutdown` | shared by all threads of an engine | nothing lost, duplicated or reordered; capacity kept; no wakeup lost; shutdown releases everybody |
| `DPIEngine` v1 | `running_`, output queue, statistics, output file | `processFile`, `start`, `waitForCompletion`, `stop`, reader and output thread | pushes to load balancers; fast paths call `handleOutput` | header first; counters agree; `stop` returns; a second file is like the first |
| `LoadBalancer`, `LBManager` | `running_`, input queue, counts | `run`, `stop`, `selectFP`, `getLBForPacket`, `stopAll` | queues in and out | a flow always goes to the same fast path, in order |
| `FastPathProcessor`, `FPManager` | `running_`, input queue, connection table, counts | `run`, `processPacket`, `inspectPayload`, `checkRules`, `updateTCPState` | queue in, callback out, rule manager | rules obeyed on every packet; a blocked connection stays blocked |
| `ConnectionTracker`, `GlobalConnectionTable` | connections by five-tuple | get or create, update, classify, block, evict, clean up | owned by one fast path | table bounded; classification kept; nothing forgotten that matters |
| `RuleManager` | four rule sets, a lock each | block, unblock, `shouldBlock`, save, load | called by the main thread and all fast paths | an answer matches rules in force; saved rules come back; unblock undoes block (it does not: see Findings) |
| v2 engine | `running_` of each thread, flow tables, `Stats`, file | `process`, `LoadBalancer::run`, `FastPath::run`, the writer | `TSQueue` | as v1, and everything forwarded is written |
| `packet_analyzer` (`main`, `RuleSet`, `analyze`) | rules, flow table, summary, PCAP | one step per line of a rule file, one iteration per packet | parser, extractors | all rules or none; classification depends on the flow alone; rules act at once and for good; totals agree |
| `PacketParser`, `PcapReader` | file position, byte order | `open`, `readNextPacket`, `parse` | bytes of a file; every program starts with them | headers found where they are, truncation detected |
| extractors, `types.cpp` | none | SNI, Host, DNS name; name to application; hash | bytes of a payload, whose offset each program computes | a name that is there is found, and nothing else |
| single-threaded engine (`main_working.cpp`) | flow table, counters, output file | one iteration per packet | reader, parser, extractors | as `analyze`, and the same verdicts as the v2 engine |
| reports, UI, command line, generator, build | none that others read | - | files | not a matter for these models |

What is hard here: threads that stop in an order (every queue may be full when
its reader leaves); `notify_one` against timeouts; discarding pushes; sleeps in
place of synchronisation; a header and packets of one file written by different
threads; flow state that changes as packets come, against rules that look at it
once per packet; blocks that a close, an eviction or a clean-up forgets; rules
that change while they are read or saved; four copies of the same
classification, and three of the computation of a payload's offset, that have to
agree; captures of the other byte order, cut, or with packets that are too long.
`PROJECT.json` lists each at its line, with
the properties that would notice it going wrong.

## Modules

`ThreadSafeQueue` is the queue at the level of its monitor: what a method does
under `mutex_` is one step, `wait` ends a step, and a waiting thread becomes
`notified` (by `notify_one`, `notify_all` or spuriously) or `expired` (by the
timeout of `popWithTimeout`) before it runs on.  `pushed` and `popped` record
history.  `BoundedQueue` is what the queue promises: `Put`, `Take`, `Close`.
`QueueOps` has the same operations as functions of a record, for modules that
use the queue as one atomic object; that this is allowed is the refinement proved
in `ThreadSafeQueueProofs`.

`DPIEngine` composes the threads of the v1 engine over `QueueOps`: one action
per step between two accesses to shared state -- a loop condition, a pop, a
decision with its statistics, a push.  `stage` is where `processFile` is
(reading, then stopping and joining each thread in the order of `stop`), `lb`,
`fp`, `reader` and `writer` the other threads, `verdict` a history of
decisions.  A fast path may decide either way about any packet.  The history
makes it comparable with `FlowFilter`, the abstract specification of both
engines: one verdict per packet and a file of forwarded packets, in order
within each flow.

`DpiMt` is the v2 engine in the same style.  Differences that matter: the
header is written before any thread starts, the writer has a flag of its own,
`output_running`, cleared after the fast paths have been joined, and each fast
path keeps a block flag per flow.

`RuleManager` holds the rules: `rules` has a set per kind and the patterns as a
list, as `domain_patterns_` is; a domain is a sequence of labels, and one with a
star (`IsPattern`) goes to the list, as often as it is blocked.  `Block`, `Unblock`,
`BlockDomain` and `UnblockDomain` are the public calls, `ClearAll` with `ClearStep`
is `clearAll`, which takes the four locks one after the other.  The program itself only blocks,
and before processing; the other calls are the class's interface, made for use
while packets flow.  The lookups are operators.

`FastPath` is `processPacket` on its connection tracker, over `RuleManager`:
`Take` pops a packet, `Process` is everything up to `checkRules`
(`getOrCreateConnection` with `evictOldest`, `updateConnection`,
`updateTCPState`, `inspectPayload`, the test for a blocked connection), then
`pc` goes through the four lookups of `shouldBlock` -- rules may change between
them -- until one succeeds (`BlockConnection`) or none does (`NextLookup`).
`cleanupStale` happens between packets, with any age as the limit, since any time
may have passed.  A connection's time is the number of packets taken when it was
last heard of: only the order of times is used.  Three histories serve the
properties: `fate`, what has happened to a connection since the table knows it;
`steady` and `some`, the lookups that have succeeded all through the current
check, and at some time in it.  The packets are records with what the extractors
find in them.

`RuleSet` has the operators of the class of that name: which rules are accepted,
and `domainMatchesPattern`, on texts cut into pieces (`*` and `.` are pieces of
their own).  `Analyzer` is `main` with `analyze`.  First come the rules:
`FileMissing`, `BlankLine`, `SectionLine`, `AddLine` and `NextFile` are
`loadRuleFile`, one line per step, then `ApplyCliRule` takes the rules of the
command line one by one; a rule that is not accepted (`AddRule`) ends the program,
and `RulesLoaded` is the call of `analyze`.  Then `ReadPacket` is one iteration of the loop of
`analyze`, by kind of packet; `classifyPacket`, `updateFlowClassification` and
`match` are the functions of these names.  Packets are records with what parser
and extractors find.  The properties do not speak of `rules`, which the steps
build up, but of `Given`, what the user wrote, and of `Stands`, what a pattern
means: its core, with what may come before and after it.

`RuleFile` adds `saveRules` and `loadRules` to `RuleManager`: `SaveOpens` empties
the file, each `SaveSection` copies the rules of one kind under their lock, and
another thread may change rules in between (`ChangeRules`).  `LinesOf` is the file
as the lines that `getline` gives, headers and blank lines among them, and each
`LoadLine` takes one for what it looks like, whoever wrote it: an empty one is
skipped (`Blank`), one that begins with `[` is a header (`IsHeader`), any other is a
rule of the kind of the last header (`WithLine`), or an exception leaves `loadRules`
(`LoadThrows`) when `std::stoi` finds no number.  So a blocked domain that is empty
or begins with `[` does not come back, and what follows it may be taken for
something else.  How an address, an application or a port is printed and read is a
constant function; `ConversionAssumption` says what the code makes true of them.
The two methods are called by one thread.  Histories: `inForce` (per section, what
has been in force since saving began), `asSaved` and `base` (the rules saved, and
those before loading, unless somebody interfered), `unblocked` (domains unblocked
and not blocked or loaded since).

`PcapFile`, `PacketParser` and `Extractors` are operators without state.
`PcapFile` reads and writes files: a file is the sequence of its header fields
and packets, numbers are sequences of bytes, so that byte order is what it is in
the code.  In `PacketParser` a frame is a record of header fields and a length;
`parse` tests lengths as the parser does, and `JobPayload`, `MtPayload` and
`WorkingPayload` are the computations of the payload's offset in the engines: one
that misses the payload yields `Misread`.  `Extractors` works on messages whose
parts have lengths, from the first `length` bytes of a message; a name is the
sequence of its labels.  The length of all extensions is a field of its own
(`total`), which need not be the sum of theirs, and `ExtensionsEnd` is the smaller
of what it gives and what was captured, as at `src/sni_extractor.cpp:82-88`; a
ClientHello may also go on in a second record of the same segment, so that the
record's length ends before it.

`WorkingEngine` is `main_working.cpp` over these three: `Open`, then for each
packet `Take` with `SkipPacket` or `ProcessPacket`, then `Finish`.  Its state is
that of `main`: the reader, `flows`, the counters, the output file.
`EngineAgreement` gives the same packets to the flow tables of the other three
programs: `mt` (`classifyFlow`, written here), `fp` (`updateTCPState` and
`inspectPayload` of `FastPath`) and `an` (`classifyPacket` and
`updateFlowClassification` of `Analyzer`).  `FastPath` and `Analyzer` start from
packets with a payload that is already understood; `JobPacket` and
`AnalyzerPacket` say which packet that is for a frame, so this module also shows
what those two leave out.  One fast path stands for all of v1 and v2: that a flow's
packets reach one fast path, in order, is shown by the runs `engine` and `mt`.

Definitions under a comment `Variant:` are not part of the specifications.  Each
is a definition of the model with one fault a programmer could make; replacing
the original by it makes the property named in `PROJECT.json` fail.

## Runs

| Run | Instance | Shows |
|---|---|---|
| `queue` | 2 producers, 3 consumers, 2 places, 2 calls each | safety, refinement and liveness of the queue, with timeouts, spurious wakeups, a shutdown anywhere |
| `engine` | 2 load balancers with 1 fast path each, 4 packets of 2 flows and one ignored, queues of 1 | order within flows, no discarded push, header first, counters, refinement of `FlowFilter`, the reader finishes |
| `engine_stop` | 1 x 1, 2 packets of a flow, queues of 1 | **violation**: `stop` may never return |
| `mt` | 1 load balancer with 2 fast paths, the same capture | as `engine`; blocks stick, nothing forwarded is lost, `process` returns |
| `mt_drain` | the same | **violation**: packets read may get no verdict |
| `fastpath` | 10 packets of 3 connections, 3 of them in any order, a table of 2, 3 rule sets, 2 changes | rules obeyed and drops justified while rules change, blocks kept, statistics cover the table |
| `fastpath_closed` | the same | **violation**: a connection that closes is no longer blocked |
| `analyzer` | 19 ways of giving rules in files and on the command line, then all captures of up to 3 of 12 packets, with and without limit and PCAP | flow records, rules, PCAP and totals |
| `analyzer_ip` | the same packets, up to 2 | **violation** of what the documentation says of rules about addresses: an ICMP packet of a blocked address is forwarded |
| `rules` | 4 sets of rules to start with, among them domains taken for a blank line, a header, an address or a port; 2 changes, 2 saves or loads | each section saved was in force; saved rules come back, all of them when no domain looks like something else |
| `engines` | all captures of up to 3 of 22 packets, up to 2 when cut, swapped or with a short snaplen; 3 rule sets | reading stops where it should, the output of a capture in the machine's byte order can be read back, four programs find the same names, two with the same rules give the same verdicts |
| `engines_swapped` | the captures of up to 2 packets | **violation**: the output for a byte-swapped capture cannot be read |

Seven more configurations are kept for what they show when TLC is run by hand.
Each is of a module of the table, on a small instance, and each ends in a
counterexample to a sentence of the repository; the findings below say which.

| Configuration | Counterexample to |
|---|---|
| `MCDPIEngineReuse` | `HeaderFirst`, in the second file that v1 processes |
| `MCDPIEngineDrain` | `EveryPacketDecided`, as `mt_drain` but in v1 |
| `MCAnalyzerDomain` | `DomainRuleObeyed`, by a second name in a flow |
| `MCRuleFileUnblock` | `UnblockedIsFree`, by a pattern blocked twice |
| `MCEngineAgreementOversize` | `EveryPacketRead`, by a record longer than the snaplen |
| `MCEngineAgreementTruncated` | `TruncatedParsed`, by a ClientHello that lacks its last byte |
| `MCEngineAgreementV1` | `LaterNameFound`, by a payload without a name before the ClientHello |

Bounds.  The queues of the engines hold 10000 packets; in the models 1 or 2,
with captures longer than that, since what matters is that each queue can be
empty, full, and full while its reader is leaving.  Two flows are what it takes
for packets to overtake one another, two load balancers or two fast paths for a
flow to be split.  In the queue, three consumers let a timeout, a theft and a
wait happen together; `MaxCalls` bounds calls per producer, and the proofs do
without any of these numbers.  In `Analyzer`, three packets are enough for a flow
to be classified, classified anew, blocked, and hit again; `CaptureBound` is that
bound.  `MCUserRules` has every kind of rule, every form of pattern with a name it
matches and one it only nearly matches, and every reason to refuse a rule, in a
first file, a second one and the command line.  In `FastPath` three packets let a connection be blocked, evicted or cleaned up
and come back, or be blocked, closed and heard of again; with a table of two the third
connection makes `evictOldest` choose between two.  `MaxPackets` and `MaxChanges` are these bounds, and the proofs do without
them.  `MaxFiles` bounds calls of `processFile`.  `MaxUses` bounds saves and
loads: two are a save and a load, or two loads of one file, with `MaxChanges` = 2
changes before, between and during them.  `MCText` has every way in which one text may
be taken for another kind of line.

The packets of `engines` are chosen so that every length test of parser and
extractors is met from both sides: bare and padded TCP segments, IP and TCP
options, a ClientHello that just fits, one that lacks a byte, one that goes on in a
second record before or behind its name, one whose extensions are said to end before
the name, an empty name, a host name and a queried name cut between two labels,
headers that claim too much, other protocols.  `ShownAssumption`, which TLC evaluates,
lists each with the name that a reader of its bytes would find.
Names are cut between labels only, with `LabelSize` characters each: a name cut
within a label would be one more name.  `NamesFound` and `SameVerdict` speak of
flows whose packets carry what belongs on their port and protocol (`Usual`): a
ClientHello on another port is looked at by some programs and not by others, by
design.  What "the name its packets show" means is said by `Shown`, from the positions
of extensions, lines and labels in a message, without the loops that look for them:
the name in front of a cut is shown.  `NamesFound` leaves out what the programs do
not find: a name in a ClientHello whose record is not whole (`RecordsWhole`); for v2 a name
after an empty one (`NoneEmpty`); for v1 any name after a payload without one
(`NameFirst`), and all flows with FIN or RST (`NeverClosed`), after which v1 looks
again (see `fastpath_closed`).  None of this is claimed to be right: the first and the
third are contrary to the repository's own words and listed under Findings.

Sleeps.  `waitForCompletion`, `processFile` and v2's `process` sleep for some
hundred milliseconds where they mean to wait for the queues.  A sleep promises
nothing about other threads, so in the models the main thread may go on at once.

Deadlock checking is off where the system stops: a processed file, a read
capture, a fast path whose bounded supply of packets is used up.  In `queue` it is on
but says nothing, since `Shutdown` can always be called: that no thread waits for
ever is what `PushReturns`, `ShutdownReleases` and `Delivered` say there.

Fairness.  In the engines every thread is weakly fair: an operating system runs
a thread that can run.  In `ThreadSafeQueue` a thread that has left a wait
eventually gets the mutex and timers run out; no call is required, except where
`PushReturns` and `Delivered` assume `ConsumersLoop`, the loops of the
engines' threads.  Spurious wakeups are never required.  `PushReturns` needs in
addition that calls are finite in number: a condition variable does not keep
threads from overtaking one another.

## Proofs

`ThreadSafeQueueProofs` proves, for any finite sets of threads, any capacity
and any number of calls (`QueueAssumption`):

* `TypeCorrect`, `ItemsConserved`, `WakeupsSuffice`, `ShutdownEmptiesWaitSets`:
  the four invariants of the run `queue`;
* `Refinement`: the monitor implements `BoundedQueue`.

All follow from one inductive invariant, `Inv`: types, conservation, no lost
wakeup, no waiter after a shutdown.  The interesting part is `NoLostWakeup`.
"An item in the queue implies a woken consumer" is not inductive: after two
pushes one consumer has been woken twice over, in effect, and the second item
depends on the other.  The invariant counts: as long as some consumer waits,
there are at least as many woken consumers as items, and likewise producers and
free places.  A push adds an item and wakes one more; a pop takes an item and
may use up one woken consumer; a timeout or spurious wakeup only adds woken
threads; and a consumer that goes back to sleep found the queue empty.  It needs
`NoWaiterAfterShutdown`, since a pop after the shutdown notifies nobody who
waits, and types.  The lemmas about `Enqueue` and `Dequeue` carry the arithmetic on
cardinalities, one lemma per way of leaving or entering a wait the rest.

`FastPathProofs` proves, for any packets, names, rules, size of the table and
number of changes (`FastPathAssumption`, `RuleAssumption`):

* `TypeCorrect`: types, and the limit of the table, which needs that
  `evictOldest` finds a connection (`OldestIsLive`, by well-foundedness of the
  times) and never the one the packet belongs to (`TableBound`);
* `BlockStays`: from `Remembered`, that history and state agree on which
  connections are blocked, and that a connection whose rules are being looked at
  is not.  Eviction and clean-up forget both at once, and `ProcessEffect` says
  that processing a packet unblocks a connection exactly when it closes it;
* `RulesAreObeyed` and `DropsAreJustified`: from `Looking`, that at each lookup
  the rules that have matched throughout match now, those that match now have
  matched at some time, and those already looked up have not matched throughout.
  The last part is what makes it inductive: the packet passes only after four
  lookups at four different times.

`CountersAreCover` is `CountersCover`, for the same constants.  The counters cover
the table step by step only if a tuple that is not in it has a new connection, so
that one put back into the table adds nothing to any sum: that is `CoverInv`.  Two
of its parts allow for the packet in hand, which is counted when it is taken.

`DPIEngineProofs` and `DpiMtProofs` prove about the engines, for any capture, any
numbers of threads, any capacities of the queues and any hash
(`EngineAssumption`, `MtAssumption`):

| | v1 | v2 |
|---|---|---|
| types and capacities | `TypeCorrect` | `TypeCorrect` |
| order within flows, at every place | `FlowsInOrder` | in `Implements` |
| nothing lost | `Lossless`: `NothingDiscarded` | `Lossless`: `NothingLost` |
| header before packets | `HeaderWrittenFirst` | (written before any thread starts) |
| counters | `CountersAddUp` | forwarded packets, in `Lossless` |
| a block is for good | `BlockStays` of `FastPathProofs` | `BlockedStays` |
| refinement of `FlowFilter` | `Implements` | `Implements` |

None of these is inductive.  What a queue holds depends on who may still push
into it, which depends on who has been joined; what the writer may write next
depends on what every thread upstream holds.  The inductive invariant `IInv` says
where every packet is:

* `HandsOK`: what a thread holds, and what is in its queue, belongs to it;
* `OrderOK`: from the verdict back to the reader, and from the file back to the
  fast paths, no packet follows one that must not follow it.  `Bad` is the
  relation of packets that meet at a fast path and stand in the wrong order.
  `Upstream` and `Downstream` list the places a packet passes through; a `Chain`
  of places has no bad pair between an earlier and a later one, and each queue
  none within itself.  The relation is about fast paths and not flows: two
  threads of a level never share a packet of one fast path, so that order
  survives although the places of a level are taken together;
* `VerdictsOK`: what is on its way to the file has been forwarded;
* `PhasesOK`: which threads have ended and which queues are shut down, at each
  stage of stopping.  It gives "a queue is shut down only when those who push have
  been joined", and from it `PlacesOK`, that no packet disappears;
* `HeaderOK` and `CountersOK` (v2: `CountOK`): the header, and each counter as the
  next one and what is on the way between the two.

For v1 the header, the places and the counters are claimed of the first call of
`processFile`, the theorems say so, and `Implements` assumes `MaxFiles = 1`: the
configuration `MCDPIEngineReuse` shows that a second call finds queues that are shut down.
Types and order are proved for any number of files.  `SharedTheorems` has what several proofs
need: of queues and of chains, what `Push` and `Pop` do to order and contents,
and that a packet may move to the next place of a chain (`MoveInChain`); of sums
over a set of threads, flows or connections, what one more or one less does
(`SumBump`: one value grows; `PartSum`: the sum over a part of a table).  `SumOf` of
module `Sums` is a cardinality, so that facts about it need no induction.

`DPIEngineProofs` also proves how packets are spread over fast paths.  Both levels
reduce the same hash, so their indices agree modulo every common divisor
(`SpreadTogether`, from `RemainderOfRemainder`: the remainder by `d` survives a
reduction modulo a multiple of `d`, by uniqueness of the remainder).  With the
default of 2 and 2 half of the fast paths never get a packet (`OneFastPathEach`).
Order and verdicts do not suffer, only the speed that the fast paths are there for.

`AnalyzerProofs` proves every property of the run `analyzer`, for any packets,
rules, limit and capture (`AnalyzerAssumption`, `RuleSetAssumption`: names are
finite sequences of pieces, no two applications have the same alias):

* `TypeCorrect`, `BlockedStays` and `TotalsAddUp`; the last property is inductive
  together with types, since a packet adds one to a count of one flow and one to
  the same count of the summary (`OneMore` of `SharedTheorems`).  It includes that no
  packet beyond the limit is counted, although one more is read;
* `HistoryKept`: the record of a flow is a function of its own packets.  Each
  packet extends the sets `Mine`, `Named` and `Specific` by at most its own
  number, the largest, so the first element stays, or is the new one;
* `RulesAsGiven`: `LoadInv`, that the rules in force are those of the lines taken
  so far, for any files.  The section in force is a state of the loader that the
  invariant has to tie to the lines above the current one;
* `PatternsMean`: `domainMatchesPattern`, with its five forms and their tests of
  lengths, finds exactly the domains that `Stands` describes, for names of any
  length;
* `BlockedWithReason` and `NothingForwarded` from these: a match of the rules in
  force is one of `Given`.  The second needs in addition that a flow a rule has
  applied to is blocked (`MatchInv`), and that what a flow is known by after its
  `k`-th packet is not changed by later ones (`RuledSame`);
* `PcapAsReported`: `PcapInv` adds that no packet number in the file is beyond
  the packets read, and that a flow that is not blocked has lost none.

`RuleFileProofs` proves about saving and loading, for any rules to start with
whose parts are finite sets and a list (`RuleFileAssumption`), any texts as domains, any
changes in between and any number of uses.  Of the conversions it assumes
(`ConversionAssumption`) that addresses and ports are read as what was written, that
applications have different names, and that none of the three is written like a
header or a blank line:

* `SavedWhatWasInForce`, from `SavedInv`: during saving, the rules of the moment are
  among those in force since it began, and so is each section already in the file;
* `RulesComeBack`: addresses and applications come back whatever the domains look like,
  since they are written before them, and everything comes back, besides what was in
  force before, when no domain is empty or begins with `[` (`Plain`).  It holds however
  loading ends: when all is plain no line makes `std::stoi` throw, otherwise a domain
  that was taken for the header of the ports may.  From `TripInv`: the file becomes
  the rules saved section by section (`Done`), and while it is loaded what is in force
  and what is left to load make up the rules of before and those saved.  `Beginning`
  says this as long as addresses or applications are left, `Second` afterwards, with
  `Ending` for plain rules; each has the few shapes that the remaining lines and the
  section can have (`AtFirst`, `AtLast`), and `BeginningStep` and `EndingStep` take one line
  from them.  The lines of a set come in whatever order its iteration has; `AllLines` says
  all that is needed of it.

`EngineAgreementProofs` proves every property of the run `engines`, for any captures,
rules, names and lengths of labels.  It assumes what those are: `NameAssumption` (a name
is a sequence of labels; what is left of a cut name is a name and has an application,
none of them "unknown", which is all that is asked of the table of `sniToAppType`),
`CaptureAssumption` (how a capture may end) and `FrameAssumption` (fields are
numbers, lengths fit into 32 bits, a method that is recognized comes before any `Host`).

* `ReadsRecordsHolds`, from `Reading`: the reader stands at a multiple of five
  fields behind the header, with the packets before it seen.  `NextFacts` says
  for every position and either byte order which packets `readNextPacket` accepts;
  it rests on `WordValue` and `WordOrder`, that the bytes of a number determine it
  and that comparing them from the most significant one compares numbers;
* `OutputRereadHolds`, from `Written`: the output is the header followed by the
  records of the packets forwarded, each of them readable since it has been read.
  `ReadsBack` shows that such a file is read back under a header of this machine's
  byte order.  The property speaks of captures of that order, and for the others of
  the file with the magic number that `analyze` writes; `engines_swapped` is about
  what the other programs write;
* `TypeOKHolds`, from `Counted`: the counts of the flows add up to the packets that
  have a verdict;
* `PayloadsAgree`: the four computations of a payload's offset give the same for
  every frame that parses, UDP in the single-threaded engine apart, which does not
  look into it;
* `SameVerdictHolds`, from `Alike`: the entries of the two tables agree in name,
  application and verdict, and v2 has stopped looking exactly when the other
  would not take another name, as long as no name found is empty.  `Proper` is what
  `Usual` asks of each packet;
* `NamesFoundHolds`, from `Known`: the four tables hold the same flows, and each knows
  a flow by the first name shown.  What makes it inductive differs by program: the
  single-threaded engine has only generic applications as long as there is no name,
  v2 has stopped only behind a name or on the port of DNS (that its name is there at
  all follows from `Alike`), v1 is `CLASSIFIED` or no name has been shown, and stays so
  since nothing closes the connection; when the first payload shows the name, it is not
  `CLASSIFIED` without it (`KnownFirst`).  `Legible` is what each packet has to be: proper,
  and a record whole if it shows a name.  That the
  extractors find exactly what is shown is `ServerFound`, `HostFound` and `QueryFound`:
  the first extension, line or label that the loops of `sni_extractor.cpp` reach is
  the first there is, since their positions do not decrease (`ExtensionOrder`,
  `LineOrder`).

That these needed no induction over data is due to how the model says it: positions in
files and messages are sums or multiples, never the result of a recursion.

Model-checked only: liveness, which is out of the prover's reach (`ShutdownReleases`,
`PushReturns`, `Delivered`, `ReaderFinishes`, `ProcessReturns`).  Every other property of
a passing run is a theorem.  The violations are counterexamples, and need no proof.

## Findings

* `engine_stop`: v1's output thread ends when `running_` is false and its queue
  is empty for a moment; fast paths stopped later may block on that queue.
* `mt_drain`: "Wait for queues to drain" is a sleep.  v1 does the same, in two places
  (`src/dpi_engine.cpp:117`, `MCDPIEngineDrain`).
* `fastpath_closed`: `state` holds TCP state, classification and block in one; a
  FIN and an ACK, or a RST, turn `BLOCKED` into `CLOSED`, the next payload is
  classified by its port and passes.
* `analyzer_ip`: `analyze` applies the rules to TCP and UDP packets only
  (`src/main.cpp:1330`), where `workflow/COMMAND_REFERENCE.md:119` says of `--block-ip`
  that it drops packets by address: an ICMP packet of a blocked address passes.
* `engines_swapped`: v2, v1 and the single-threaded engine copy the global header of a
  byte-swapped capture with its magic number and write the rest in the machine's
  order; what they write cannot be read, by this program or another.  `analyze`
  replaces the magic number.

With the other configurations:

* `MCDPIEngineReuse`: v1 keeps queues, what is in them and their shutdown flags from
  file to file; `processFile` is written to be called again (`src/dpi_engine.cpp:129`).
* `MCAnalyzerDomain`: only the first domain of a flow meets the domain rules
  (`src/main.cpp:780`), so that a second query for a blocked one passes, where
  `workflow/COMMAND_REFERENCE.md:140` says "Drops packets when the detected domain
  matches the pattern."
* `MCRuleFileUnblock`: a domain with a star is appended to a list whenever it is blocked or
  loaded, and `unblockDomain` erases one entry (`src/rule_manager.cpp:121`), where
  `include/rule_manager.h:69` says "Unblock a domain".
* `MCEngineAgreementOversize`: `readNextPacket` returns false at a record longer than the
  snaplen (`src/pcap_reader.cpp:89`), as at the end of the file, where
  `include/pcap_reader.h:50` says "returns false if no more packets": what follows is
  never read.
* `MCEngineAgreementTruncated`: "Truncated, but try to parse anyway"
  (`src/sni_extractor.cpp:87`), but a record longer than what was captured has been
  refused at line 36.  Line 87 is reached only by a ClientHello that goes on in a
  second record of the same segment.
* `MCEngineAgreementV1`: in v1 a payload without a name, if only the Ethernet padding of a
  short frame (the length in the IP header is not looked at), classifies the connection
  by its port for good (`src/fast_path.cpp:140`), and the name in a later
  packet is not found, where `about/04_application_detection.md:12` says that a flow
  "first seen as generic HTTPS can later become YouTube".

Met while modelling, without a configuration:

* A domain that is empty or begins with `[`, once blocked and saved, does not come back:
  its line is skipped, or taken for a header that sends the lines behind it elsewhere
  (`src/rule_manager.cpp:291`, `:294`).  Nothing in the repository says
  which domains may be blocked; `RoundTrip` says what comes back in either case.
* The detection method that `analyze` shows for a flow is that of the first
  packet with any (`src/main.cpp:783`), the application may be from a later one.
* A pattern for `analyze` that begins with `*.` and ends with a star, like
  `*.example.*`, matches nothing: the first test takes it for a suffix with a star
  in it (`src/main.cpp:352`).  A lone `*` matches nothing either.  The
  documentation lists neither form.
* An empty server name ends v2's classification of a flow and not that of the
  single-threaded engine, the exception in `SameVerdict`.
* Where the four classifications differ on packets that are out of place, which
  `Usual` and `NeverClosed` exclude and the proofs need: an HTTP request over UDP to
  port 80 has a `Host` for v1 and v2 (`src/dpi_mt.cpp:276`), which do not ask for the
  protocol there, and none for the other two.  Once a packet has made a flow from
  port 53 to port 443 DNS, the single-threaded engine (`src/main_working.cpp:235`) and v2
  look no more for a server name in it; v1 and `analyze` do.  A query over
  TCP has a name for v1 and `analyze` as one over UDP has; the other two take names
  from no query.  After a FIN with ACK or a RST v1 classifies the connection once
  more and may take another name.

## Not modelled

Report texts, the web page, command lines except for rules, timestamps,
byte counts, indicators and service names (data no decision depends on);
`QUICSNIExtractor` and `extractExtensions`, which nothing calls; formatting of
addresses, and letter case; `main_simple.cpp` and `main_dpi.cpp` (front ends without
state).  The table of `sniToAppType` is data (`AppOf`): the model does not say
which application a name ought to be.

## Plan

Done, in this order: `ThreadSafeQueue` and its abstract specification; its
proofs; `DPIEngine`; `DpiMt`; `Analyzer`; `RuleManager` and `FastPath` with
their proofs; `RuleFile`; `RuleSet` and the rule files of `Analyzer`;
`PcapFile`, `PacketParser`, `Extractors`; `WorkingEngine` and `EngineAgreement`;
the spreading of packets in `DPIEngineProofs`; the invariants and refinements of
both engines; the properties of `Analyzer`; `CountersCover`; the properties of
`RuleFile`; files, extractors and the agreement of the four programs in
`EngineAgreementProofs`.  Left: handshakes across the two directions of a connection
in `FastPath`, and the reports of `analyze` that can fail one by one.
