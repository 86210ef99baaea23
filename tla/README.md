# field-cage in TLA+

field-cage watches the outbound connections of a CI job and, in block mode,
denies by default all that the policy does not allow. It is one Go process,
the agent, and four sets of eBPF programs. This directory holds TLA+ models of
it, TLC configurations that check them on small instances, and TLAPS proofs of
what matters most for every instance. Paths and line numbers below are those
of `src/`.

    tlc -workers 2 -config BlockWatcher_enforcement.cfg MCBlockWatcher.tla
    tlapm BlockWatcher_proofs.tla

Every safety property that a passing run checks is also a theorem, and so are the safety facts the liveness properties
start from; liveness itself stays with TLC.

## 1. Inventory of the system

| Component | State it keeps | Operations |
|---|---|---|
| Startup and shutdown: `run`, `seedAllowlist` (`cmd/agent/main.go`) | the step of the startup sequence, lookup results, the pending signal or reader error | attach, seed resolvers, start DNS capture, set the DNS option, seed addresses, ranges and lookup results, announce readiness, select, `Close` |
| Enforcement programs (`internal/ebpf/bpf/block.c`) | two tries, two resolver sets, one option | `connect4/6`, `sendmsg4/6`: admit or deny |
| Watcher (`internal/ebpf/loader.go`) | open kernel objects, the cleanup stack | `newWatcher`, `attachBlock`, `AllowIP`, `AllowCIDR`, `AllowResolver`, `SetAllowAllDNS`, `Read`, `Close` |
| DNS goroutine and cache (`dns_watcher.go`, `dns_cache.go`) | the answer being applied, the map from address to name | read a record, decide, cache, permit |
| DNS capture and parser (`bpf/dns.c`, `dns_parse.go`) | a ring buffer | capture a packet, parse a message |
| Connect tracepoints (`bpf/connect.c`, `event.go`) | pending calls by thread, a ring buffer | enter, exit, parse an event |
| Configuration: policy file, mode, nameservers (`internal/policy`, `resolveMode`, `resolversFrom`) | the allowlist, the mode, the trusted resolvers | load entry by entry, resolve, reject; `IsAllowedDomain`, `Allow` |
| Verdicts (`internal/report/verdict.go`, `dnsExemptFor`, `verdictForEvent`) | none | label an event |
| Startup lookups (the pool in `seedAllowlist`) | semaphore, WaitGroup, result slots | spawn, look up, release, wait |
| Log parser, summary, renderers (`internal/report`, `cmd/agent/report.go`) | totals per verdict and destination, the mode found, the number of malformed lines | parse a line, add, summarise, render; raw output |
| Action steps (`action.yml`, `report/action.yml`, `stop/action.yml`) | the recorded pid, the log, the outcome of each step | start, record, check; three scans and fail-on-deny; SIGTERM, poll, SIGKILL, verify |

### How they interact

The **main goroutine** attaches the hooks first and fills the maps they consult
afterwards, entry by entry, while all processes of the machine, the agent's own
lookups included, already pass through those hooks. The **DNS goroutine** starts
in the middle of that: it takes captured answers from a ring buffer, writes
each address to the cache and, when the answer is about an allowed domain and
comes from a trusted resolver, to the same tries. The **reader goroutine**
starts last; it takes connection events, captured since the tracepoints were
attached, from another ring buffer, looks their domain up in the cache and
prints a verdict. The verdict is computed from the policy, in Go, independently
of the decision the **kernel** took from the maps. Only the cache has a lock,
and only around single accesses. A signal, or an error of the event reader,
makes `run` return, and the deferred `Close` ends enforcement; the kernel ends it
when the process dies in any other way. The report commands read the log later,
possibly while the agent still writes it: the report step runs the command up to
three times, and the stop step, inside the report action or of its own, ends the
agent through the pid that the start step recorded, which is that of `sudo`.

### What is hard here, and what makes each part correct

* *Startup and enforcement.* From the first moment of full attachment only what
  the policy justifies is admitted, in every interleaving of seeding, observed
  answers and traffic; at readiness everything seedable is in the maps; nothing
  but a stop takes enforcement down.
* *DNS observation.* Only trusted answers for allowed domains extend the tries;
  one that does reaches them unless they are full; a malformed record, a message
  cut short or a full ring harms nothing else; the name is known before the
  address is permitted.
* *Reporting.* What is reported as exempt was exempt; one bad record does not
  end the reader; a captured connection is reported.
* *Event capture.* An event is about the call that ended, once; leftovers of
  interrupted calls never silence later ones.
* *Lifecycle.* Whatever step fails, nothing stays open; a watcher is whole or
  there is none; `Close` is complete and ordered.
* *Lookup pool.* The bound holds, the results are complete when read, startup
  ends.
* *Configuration.* An agent enforces exactly when block mode was asked for, and takes every
  allowlist entry for what it is, or refuses to run; what merely looks like a name is excepted.
* *Report.* Totals, rows and suggestions agree with the log, whatever markers the name of a
  process holds; an event whose name breaks its line is counted as damaged, and its pieces
  disturb nothing else; a denial that is not shown is announced as omitted.
* *Action steps.* After a stop step that reports success the agent is gone; an agent
  whose pid is known is never forgotten; the scans of a growing log do not contradict
  fail-on-deny.

`PROJECT.json` lists these hazards line by line with the properties that cover
them.

## 2. Modules

| Module | Models | Corresponds to |
|---|---|---|
| `EgressPolicy` | the kernel's decision and the agent's verdict as two operators over the same policy | `check_ipv4/6`, `Allow`, `VerdictFor`, `dnsExemptFor`, `isTrustedSourceIP` |
| `BlockWatcher` | the three goroutines, the kernel maps and both ring buffers in block mode | `run`, `seedAllowlist`, `newWatcher`, `dnsWatcher.run`, `Read` |
| `EgressGuard` | the abstract guard that `BlockWatcher` implements | the promise of block mode |
| `<module>_proofs` | theorems about `BlockWatcher`, `AgentRun`, `SeedPool`, `WatcherLifecycle`, `JobSteps`, `ConnectTracer`, `DnsCapture`, `ReportCollector` (section 4) | |
| `PolicyLoad` | what an entry, a mode and a resolv.conf are taken for, without state | `newEngine`, `LoadFile`, `resolveMode`, `parseResolvConf`, `resolversFrom` |
| `WatcherLifecycle` | acquisition, failure, unwinding and `Close` | `newWatcher`, `attachBlock`, `newDNSWatcher`, both `Close` |
| `SeedPool` | the bounded pool of startup lookups | `seedAllowlist` 296-335 |
| `AgentRun` | one run in either mode, from the command line to the exit: composes the three above | `run` |
| `AgentLife` | the abstract life of the agent's process; `AgentRun` implements it, `JobSteps` uses it | what the scripts rely on |
| `JobSteps` | the start, report and stop steps around an agent | `action.yml`, `report/action.yml`, `stop/action.yml` |
| `ConnectTracer` | from `connect(2)` to one event | `bpf/connect.c` |
| `DnsCapture` | from a packet to learned addresses | `bpf/dns.c`, `parseDNSResponse` |
| `ReportCollector` | one run of `field-cage report` | `runReport`, `ParseLine`, `ScanLog`, `Collector`, `render*.go` |

`MC*` modules give the constants small values; `Mutant` operators next to a
definition are that definition with a plausible mistake, used to confirm that
each property would notice it.

**EgressPolicy.** An address is a model value of one family; an IPv4-mapped IPv6
address is the IPv4 address it embeds, as in `net.IP.String` and `check_ipv6`.
A prefix is the set of addresses it covers, so longest-prefix matching becomes
membership in some prefix of the trie (all values are 1). A port is 53 or not.

**BlockWatcher.** `phase` is the program counter of the main goroutine and `todo`
what is left of its current loop; the loops run in any order where the code
ranges over a Go map, and a fixed order of a slice is one of those. `SeedIP`,
`SeedCIDR`, `SeedResolver` and `SeedResult` are one map write each. `dns` and
`job` are the DNS goroutine: `DnsRead` takes a record and decides once whether it
may extend the allowlist, `CacheSet` and `AllowResolved` alternate for each
address. `ReadEvent` is `Watcher.Read` and the loop in `run`. `AppConnect`,
`WireAnswer`, `Signal` and `Kill` are the environment. An event carries, as
history, whether the kernel admitted the connection and whether readiness had
been announced; `looked` and `heard` record what lookups returned and what was
captured from trusted sources. None of these histories influences a step. A
lookup is taken to have answered truthfully: `LookupAnswers` records it as evidence.
Map writes to a full map fail and change nothing; `Gone` is the kernel cleaning
up after the process. The lookup phase is one set of outstanding lookups here;
how the pool bounds and joins them is `SeedPool`. The answers that arrive in the
ring are whole; which part of a message survives capture is `DnsCapture`. An
event is captured in one step with the decision; how tracepoints pair the two
ends of a call is `ConnectTracer`.

**EgressGuard.** `mode`, `evidence`, `granted`: the guard goes on once and ends once,
evidence accumulates, and a prefix is granted only when listed or evidenced and
never withdrawn; what belongs to an allowed domain is granted while there is
room. `BlockWatcher!Guard` maps the hooks to `mode`, the histories to `evidence` and
the tries to `granted`.

**PolicyLoad.** An entry is `[kind, host, bracketed, text, port]`: what it is without brackets and
port suffix, and how it is written. `SplitHostPort` takes one port off and the brackets with it;
where it fails, the text stays as it is, brackets included (`KeepsBrackets`, `Host`), and a colon may be
left over (`ColonLeft`). `KindOf` is what newEngine then sees, and `Classify` gives the list of the
engine or "error": "[a.example]" and "[10.0.0.0/8]" are names, "[2001:db8::1]" is an error. A line of
resolv.conf is a key and a value.

**WatcherLifecycle.** `Plan` is the sequence of acquisitions of the mode, `pc` the
next one, `held` what is open. A failing step releases what its own function had
acquired (`FailBlock`, `FailDnsBlock`), sets the named result `w` to nil and starts the
deferred loop, one cleanup per step.

**SeedPool.** One action per channel operation, WaitGroup call and store; `Begin`
takes the engine's exact names.

**AgentRun.** `step` is where `run` is. The file is decoded, its entries are classified one
by one (`LoadEntry`, `RejectEntry`), the mode is resolved, nameservers are read, and then
`WatcherLifecycle` and `SeedPool` run as they are, on the variables of this module. `Kill` is
SIGKILL or a signal before `Announce` has installed the handler. What enforcement does
in the meantime is `BlockWatcher`; neither needs the other's detail: `BlockWatcher` takes
the configuration as constants, `AgentRun` takes no interest in connections.

**AgentLife.** Five stages. `AgentRun!Life` maps a run to them: "attached" when any of the
four hooks is held, "closing" once the select has ended.

**JobSteps.** `pc` is the next command of the job's shells, `agent` a stage of `AgentLife`, and
`sudo` whether a waiting parent lives. Signals are sent, then delivered: `pending` holds
those on the way. A waiting sudo passes SIGTERM on and dies of SIGKILL alone; an
exec'ing one is the agent. `Cancel` may come at any command; steps with `always()` still run
(report/action.yml:202, docs/github-actions.md:51,65,77,81, README.md:149,155). A scan
counts the denials that are in the log at that moment.

**ReportCollector.** A line is a sequence of chunks, one for each field marker it
contains, so a process name can hold a marker, " dst=" included, or a line break: `LinesOf` splits a
printed event as the scanner does, and each piece can be a line of the log. `log` and `written` are history: what was
scanned with the event each line was logged for, and these events alone. `Add`, `SortKey`, `limitRows`, `resolveLevel` and
the tables of the renderers are operators; `Render` evaluates them at the end of the log. `Sorted` is `sort.Slice`: some
order in which no row comes after one it precedes, so a tie may come out either way. `countEvents` sums as the number of pairs of a
verdict and a number up to its count.

**ConnectTracer.** A call's number stands for its destination and command.
`pending` is the LRU table; when it is full the kernel may evict any entry.
`excused` collects the calls that lose their event to something the code cannot
help: a probe not attached, an eviction, a refused update, a full ring, a death.

**DnsCapture.** Lengths are in bytes and the limit is the real 512. A record of a message has a type, the
length it declares and the offset of its data; `LaidOut` says that records follow one another. `Take` is the
goroutine's read with its checks and the header of the message; then the parser goes from answer to answer by an
offset of its own (`job.off`): `ParseAddress` reads the 4 or 16 bytes of its type at that offset, whatever the
record declares, and `SkipAnswer` and both move on by the declared length, as dnsmessage does. `Return` hands on
the bytes that were read for addresses. That the offsets of the walk are those of whole records is what
`Attributed` checks: with the length check of dns_parse.go:157 and 165 dropped, a read runs into the next
record. A load that succeeds for the payload implies that the loads of the header fields before it
did, so one condition stands for all of them.

## 3. Runs

| Run | Bounds | Shows |
|---|---|---|
| `BlockWatcher_enforcement` | 5 addresses, 2 domains, 4 answers, tries of 3, rings of 1 and 2 (1.1 million states) | `EnforcementSound`, `TrieJustified`, `LiveEntriesNamed`, `SeededAtReadiness`, `EnforcedUntilStop` in every interleaving |
| `BlockWatcher_reporting` | 3 targets, an event ring of 2, a reader that may fail, malformed records (434,351 states) | `SkipMeansAdmitted`, `DenyExplained`, `EventReported`, `StopDetaches` |
| `BlockWatcher_guard` | two exact names, of which one lookup is never answered, another domain, IPv4 and IPv6 addresses, tries of 2, `allow_all_dns` set and its write failing or not (67,356 states) | `ImplementsGuard`, `StartupCompletes`, `AnswerApplied` |
| `AgentRun` | 18 policy files with every kind of entry, in brackets or not, 4 flags, 4 resolver configurations, 14 failing steps, 3 lookups on 2 slots, signals and kills anywhere (45,693 states) | `EnforcesAsAsked`, `NoSilentEntry`; `WholeOrNothing`, `DependenciesHeld`; `BoundedInFlight`, `ResultsComplete`; `RunSettles`; the refinement `ImplementsLife` |
| `JobSteps` | every combination of report options, 0 to 2 stop steps, 2 polls, 2 denials, both kinds of sudo (352,584 states) | `StopMeansStopped`, `NeverForgotten`, `ReportHonest`, `StopEnds` |
| `ReportCollector` | every log of up to 4 lines out of 10 events, one of which breaks into three lines, 2 damaged lines and 2 diagnostics, under 7 command lines (1.4 million states) | `RawFaithful`, `ReportAgrees`, `ProcessesExact`, `StableOrder`, `DenialsFirst` |
| `ConnectTracer` | 3 threads, table of 2, ring of 1, 4 calls | `OwnEvent`, `AtMostOnce`, `Accounted` |
| `DnsCapture` | 10 packets, ring of 2, records whose length is not that of their type (801,792 states) | `Attributed`, `ShortResponsesLearned` |
| `BlockWatcher_dns_label`, `BlockWatcher_mapped_cidr`, `AgentRun_unwind`, `ReportCollector_long_line` | as above | the four disagreements of section 6 |

*Why the bounds are enough.* The address set has one member of every class the
decisions distinguish: loopback, a resolver, a server to be learned, a listed
address, an IPv6 address. The answers have a trusted one for an allowed domain,
a trusted one that gives the same address to another domain, one from a host
that is no resolver, and one without a question. The tries and resolver sets of two
or three entries, and the rings of one or two, fill up. Goroutines are single, as in
the code. Three lookups on two slots block the loop while
the others run. Three threads on
a table of two evict each other. The packets have payloads below, at and above the
mask, IP options, and length fields that disagree with the packet or with the type of a record. `MaxCalls` bounds
the calls of a behaviour of `ConnectTracer`; `MaxDenied` bounds the
denials an agent logs in `JobSteps` (two: one before a scan, one between two), `MaxPolls` stands for the
ten polls of the script (two: a first and a last), `MaxLines` bounds the log (four: a mode line or a
damaged one among events, or three names for a destination that keeps two and one of them again). `ProcCap` and
`MaxAnnotations` are 2 for the 10 of each in the code. Everything else is finite by itself. The tries of 4096
entries, the resolver sets of 16, the ring buffers and the pool of 8 are constants.

*Deadlock.* `AgentRun`, `JobSteps`, `ReportCollector` and `ConnectTracer` end (the process is gone, the job is
over, the report is printed, the bound on calls is reached), so their configurations turn the check
off, and liveness, `ReportAgrees` or `Accounted` say instead that they end well. In `BlockWatcher` and
`DnsCapture` the world goes on, so the check stays on.

*Fairness.* Weak fairness of the main goroutine, of the lookups as a group, of the
DNS goroutine and of the reader: Go schedules runnable goroutines, and each lookup
has a timeout (main.go:317), so it ends, possibly with an error. `LookupAnswers` is not forced.
Nothing is assumed of the environment: no connection, answer, signal or failure has to happen. Weak
fairness is enough because none of these steps can be disabled by another process for ever.
In `AgentRun` the main goroutine has weak fairness and every lookup has its own. In
`JobSteps` only the stop script has: its commands return. Nothing is assumed there of the agent, of the
delivery of signals or of what the job runs, which is what makes `StopEnds` say something.
The safety modules assume none.

## 4. Proofs

`tlapm M_proofs.tla` checks the theorems about module `M`, for all values of the constants that satisfy the module's
`ASSUME`s, which TLC evaluates on the instances of section 3. They say what the code or the kernel guarantees: address
families are disjoint, capacities are natural numbers (positive where the code has a constant), the inputs of a model have the shape their
fields give them. Two theorems have one more hypothesis, named below; `ReportCollector` assumes that no line
but that of an event parses, pieces of broken events included (`LinesAssumption`).

| Module | Theorem | States |
|---|---|---|
| `BlockWatcher_proofs` | `TypeCorrect` | `TypeOK` |
| | `TriesJustified` | `TrieJustified` |
| | `DefaultDeny` | `EnforcementSound` |
| | `PermittedAreNamed` | `LiveEntriesNamed` |
| | `EnforcementStays` | `EnforcedUntilStop` |
| | `SeedingComplete` | `SeededAtReadiness` |
| | `DenialsExplained` | `DenyExplained` |
| | `SkipsAdmitted` | `SkipMeansAdmitted`, if `ResolversFit` |
| | `GuardSafe` | every step of `BlockWatcher` is a step or a stutter of `EgressGuard` |
| | `NothingHeardIsLost` | an answer heard is in the ring, with the goroutine, or in its trie (behind `AnswerApplied`) |
| | `PolicyTakesEffect` | what the policy permits is admitted after readiness (the converse of `EnforcementSound`) |
| | `CloseFindsItsLinks` | hooks come and go in the order of `attachBlock` (behind `StopDetaches`) |
| | `RunGoesOneWay` | no step leads back to an earlier phase (behind `StartupCompletes`, `StopDetaches`) |
| `AgentRun_proofs` | `TypeCorrect` | `TypeOK` |
| | `ModeIsHonoured` | `EnforcesAsAsked` |
| | `EntriesAllLoaded` | `NoSilentEntry` |
| | `WatcherWhole` | `WholeOrNothing` |
| | `NothingOutlivesItsNeeds` | `DependenciesHeld` |
| | `LookupsBounded` | `BoundedInFlight` |
| | `SeedingComplete` | `ResultsComplete` |
| | `RunIsALife` | `ImplementsLife`: the refinement of `AgentLife` |
| | `RunNeverBlocks` | a step of the run is possible, or a lookup that makes one possible (behind `RunSettles`) |
| | `OnlyDnsCapturePanics` | finding 3 of section 6 happens in no other case |
| `JobSteps_proofs` | `TypeCorrect` | `TypeOK` |
| | `StoppedIsGone` | `StopMeansStopped` |
| | `AgentNotForgotten` | `NeverForgotten` |
| | `ReportIsHonest` | `ReportHonest` |
| | `StopIsBounded` | what is left of the stop steps only falls (behind `StopEnds`) |
| `ConnectTracer_proofs` | `TypeCorrect` | `TypeOK` |
| | `OneEventPerCall` | `AtMostOnce` |
| | `NoneLostUnexplained` | `Accounted` |
| | `EventIsOwn` | `OwnEvent`, an action property |
| `DnsCapture_proofs` | `TypeCorrect` | `TypeOK` |
| | `LearnsOnlyAnswers` | `Attributed` |
| | `MaskLosesNoShortResponse` | `ShortResponsesLearned` |
| `ReportCollector_proofs` | `TypeCorrect` | `TypeOK` |
| | `RawIsWritten` | `RawFaithful` |
| | `NamesAddUp` | `ProcessesExact` |
| | `ReportAddsUp` | `ReportAgrees` |
| | `DenialsAnnounced` | `DenialsFirst` |
| | `OneOrder` | `StableOrder`, if `NamesNotAddresses` |
| `SeedPool_proofs` | `PoolCorrect` | `TypeOK`, `BoundedInFlight` and `ResultsComplete` of the pool by itself |
| | `PoolNeverBlocks` | a full channel or a WaitGroup above zero has a goroutine behind it |
| `WatcherLifecycle_proofs` | `LifecycleCorrect` | `TypeOK`, `WholeOrNothing` and `DependenciesHeld` of the watcher by itself |
| | `OnlyDnsPanics` | what is left open when the unwinding panics, and why it did |

### Along which arguments

**BlockWatcher.** `TrieJustified` is not inductive. An address written by the DNS goroutine comes from
`job`, which came from a record in `dnsRing`; one written by seeding comes from `results`.
`IInv` follows the evidence along that way: what a trusted record in the ring says
has been heard (`RingHeard`), what the job will still permit has been heard for
an allowed domain (`JobHeard`), every lookup result was returned for an exact entry
(`ResultsLooked`), and the other maps hold configuration only (`MapsFromPolicy`).
`DefaultDeny` then unfolds `Check`. `PermittedAreNamed` rests on `JobNamed`: the address about to be permitted
has been cached, and cached names are only replaced by names. `EnforcementStays` needs only that hooks change in
the attach and close phases. `SeedingComplete` follows each loop (`Seeded`): what it has passed is present or its map is
full, and both survive every later write, since maps only grow (`PutPresent`, `MapsStep`).
`DenialsExplained` keeps with every event in the ring the reason it was admitted for (`EventsExplained`); evidence
is never lost, so the reason outlives the wait in the ring. `SkipsAdmitted` keeps with it that it was
admitted if exempt, and that an event from after readiness finds `allow_all_dns` as it stays (`ServingStays`). Its hypothesis `ResolversFit` says that the nameservers of a family fit in the resolver set (16 in block.c:71):
one that `AllowResolver` could not write would be refused and reported as exempt all the same. `GuardSafe`
maps the steps one by one; it is the safety part of `ImplementsGuard`, `EgressGuard!Safety`, and leaves `Prompt`, its fairness, to TLC.
`PolicyTakesEffect` reads `Seeded` the other way: below its capacity a map that "has or is full" has it, and `ToAdmit` says which
connections that admits; ranges mapped into IPv6 (finding 2) are left out of it, since they never reach a trie.
`NothingHeardIsLost` needs `GrantIsOne` (one address at a time is between cache and trie, so finishing it drops no other) and
`DnsByPhase` (from the watcher's start to the end of the process there is a goroutine to read the ring). `CloseFindsItsLinks` says that
the hooks are always an initial part of one list, which attaching lengthens and `Close` shortens. `RunGoesOneWay`
is an action property over `PhaseOrder`; that a stop is final also needs `StopLate`.

**SeedPool and WatcherLifecycle.** That the results are complete when read holds because the WaitGroup is the number of
goroutines that have not called `Done`, plus the one about to be spawned (`Waited`); that the bound holds, because
the semaphore holds one token for each lookup in flight (`Tokens`). The watcher's invariant says
how high the stack is and what is held at each step of the plan (`BuildOK`), and that the stack is always
the lower part of the whole one (`StackOK`), so that each cleanup finds what it releases.
`NeverBlocked` is a consequence of the first two: a set whose cardinality is a counter above zero has a member.
`PanicOK` adds that the cleanup of the hooks is on the stack only from step 11 on, in block mode, so that what failed is DNS capture.

**AgentRun.** The two parts run on variables of `AgentRun`, so the lemmas of `SeedPool_proofs` and
`WatcherLifecycle_proofs` are used through `INSTANCE`; `PoolNext` and `CycleNext` show that every step of a run is a step or
a stutter of each part, as long as there is a process. Over them, `EngineOK` says that the engine holds the
entries loaded so far and the list of those to come is the rest of the file; `ModeOK`, that from `resolveMode` on the mode is the one
asked for; `Where`, what pool and watcher are doing at each step. `AgentLife` has no fairness, so `RunIsALife` is
the whole of `ImplementsLife`. `GoesOn` lists, for each point of `run` from `newWatcher` on, what its next step
waits for; the invariant needs `Begun` beside `IInv` (the pool is begun before it is waited for, and `newWatcher` never closes), the lookups come from
`SomebodyReleases`, and that `Close` has a next object from `CloseGoesOn`: its order lists every object.

**JobSteps.** `PidOK` (a pid is that of an agent that was started, and only SIGKILL to a waiting sudo separates the two), `StopOrder`
(a stop step that has ended left an outcome) and `ScanOrder` (the scan that decides is the one that saw the most) make the three properties inductive.
`StopIsBounded` gives each place in a stop step a number of commands left (`Left`), polls included, and the job the
sum over the stop steps to come (`StopBound`).

**ConnectTracer.** `NoTwoAlike` (no two entries of one call), `Recorded` (the call a thread is in has an entry of its own or an
excuse) and `OwnEntry` (another call's entry can only be that of a thread that missed an exit); the end of a
call then finds its own entry or none.

**DnsCapture.** A record in the ring is a packet that was offered, cut where the mask cuts it (`RingOK`). The offset of
the walk is where the answers passed so far end, and what was read are the addresses among them (`JobOK`, `Passed`), because
each step advances by the length that places the next record; where it gives up, no whole address lies behind
(`NothingBehind`, `NoneLeft`), since records only begin further on. For a payload
below 512 the mask is the identity (`MaskedFits`), so the walk reaches every record of the message.

**ReportCollector.** The lemma it rests on is `RoundTrip`: `ParseLine(Format(e)) = Clean(e)`, for every event on one line, whatever markers its process name
holds, because dst is looked for from the end. `Collected` then relates totals, rows and names to the history,
by counting: one more event is one more place in the history (`CountAppend`), one more pair in its family (`PairsIncrement`)
and one more name at most in its row (`AddProcExact`). `SortExists` shows that a finite set of rows has a sorted sequence, so
that `Sorted` is one: in a strict total order that refines the keys, an element stands where the number of those below it
says. `OneOrder` assumes `NamesNotAddresses`, that no connection is logged with its own address for a domain. The code does not exclude
that, and then a row with the domain 192.0.2.1 and a row of that address without a domain tie in the comparison function.

### Only model-checked

The liveness properties `StartupCompletes`, `AnswerApplied`, `EventReported`, `StopDetaches`, `RunSettles` and `StopEnds`, and the
liveness part of `ImplementsGuard`: liveness under fairness and `ENABLED` are out of the prover's reach. What their arguments start
from is proved, as the table says: that nothing is lost on the way, that somebody can always go on, that what remains to be
done is bounded or never grows. What TLC adds is that the scheduled steps are then taken. `EventReported` is the exception: it has no
such theorem, since an event in the ring leaves it by the reader's step alone.

The four runs of section 6 show violations. `PolicyLoad` and `EgressPolicy` have no state; what the proofs need of their operators are lemmas
in the modules that use them.

## 5. Not modelled, and abstracted

Versions, hooks, release workflows, the install script and documentation have no state of the running
system. Everywhere, text formats, byte order, key layouts, durations and log wording are left out, and the
kernel, `cilium/ebpf`, `dnsmessage`, the YAML decoder, Go's resolver, the shell, `sudo` and the network appear as the code
uses them. In particular:

* *Agent.* Audit mode has its configuration, acquisition and close in `AgentRun`; its reader, the one of
  `BlockWatcher` without enforcement, is not composed with them. Map writes that fail because `Close` has closed the
  descriptor are logged by the code and not distinguished here, and closing the DNS reader stands for the end of its
  goroutine, which `Close` does not wait for. Events still in the ring at a stop are lost; `EventReported` excuses that.
* *Failing writes.* A write to a map fails when that is full, or, for `allow_all_dns`, at any time: then the report goes by the
  policy and exempts port 53 that the kernel restricts, which `SkipMeansAdmitted` and `SkipsAdmitted` leave out
  (`OptionApplied`). A full trie or resolver set is excused by `AnswerApplied`, `ImplementsGuard` and `SeededAtReadiness`.
* *Capture.* Packet fragments and VLAN tags. An LRU element reused while the exit program copies it
  (connect.c:158): lookup, copy and delete are one step.
* *Length mask.* bpf/dns.c:62-64 says that the mask drops no valid payload; 512 & 511 is 0, so one of exactly
  512 bytes, which RFC 1035 allows, is dropped and a longer one is cut. `DnsCapture` models that as it is;
  `ShortResponsesLearned` is about the payloads below.
* *Labels.* A connection the kernel let through can be reported as denied, because loader.go:412 looks the
  domain up when the event is read, in a cache that seeding does not fill and that keeps one name per
  address. `DenyExplained` states when.
* *Policy.* An unbracketed IPv6 address followed by a port is ambiguous as text and is taken as the address it
  parses to. `TrimSpace` and the texts of errors. The code looks for colons and stars only, so a name, an IPv4 address or
  a range in brackets without a port, or any other text without either, is stored as a domain and matches nothing.
  The comment at policy.go:147-152 explains why such an entry should fail fast, but promises it of colons only;
  `NoSilentEntry` excepts exactly these entries (`LooksLikeName`).
* *Report.* Escaping, column layout, glyphs and the per-verdict tally are wording. A domain that
  holds a field marker. A piece of a broken event that is a whole event by itself, as the start of one can be when its
  process name holds " dst=" and then a line break: it would be counted as an event. A scan that reads a half-written line. A stand-alone
  report on an older log, and two starts in one job. What sanitizing does is a function of the instance.
* *Action steps.* Downloading, verifying and uploading. A pid that the system has reused before the stop step.
  A job cancelled between starting the agent and recording its pid leaves an agent no stop step can find;
  `NeverForgotten` is about recorded pids. An agent that fails after the check two seconds into its run is
  not noticed until the report: `JobSteps` contains the behaviour, no script checks it. SIGKILL goes to `sudo`: when that waits for its
  child, the agent survives and the check that follows does not see it; `StopMeansStopped` and `NeverForgotten`
  exclude exactly this case.

## 6. Where documentation and code disagree

1. *Denied DNS reported as exempt* (`BlockWatcher_dns_label`, `DeniedDnsReported`). README.md:231 says denied port-53
   connections are reported as `DENY`. With `allow_all_dns` the kernel option is set at main.go:277, after
   the hooks were attached; a connection denied in between is later reported as `SKIP(dns)`.
2. *IPv4-mapped ranges* (`BlockWatcher_mapped_cidr`, `CIDRPermitted`). README.md:66 says all addresses of a range are permitted;
   loader.go:289 passes a prefix length that counts 128 bits to the IPv4 trie, which
   refuses it.
3. *The cleanup stack panics* (`AgentRun_unwind`, `UnwindCompletes`). loader.go:75-79 promises complete unwinding; when DNS
   capture fails in block mode, `return nil` (loader.go:148) has cleared `w` before the cleanup of
   loader.go:121-127 uses it.
4. *A long line hides the report* (`ReportCollector_long_line`, `CorruptLineOnlyCounted`). parse.go:203-205 says that a single
   corrupted line cannot hide the rest; one longer than the scan buffer ends the scan with an error, and
   nothing is rendered.

## 7. Plan

Done, in this order: `EgressPolicy`, `BlockWatcher`, `EgressGuard` and the refinement,
`BlockWatcher_proofs`, `WatcherLifecycle`, `SeedPool`, `ConnectTracer`, `DnsCapture`; then `ReportCollector`,
`PolicyLoad`, `AgentRun` and its refinement of `AgentLife`, `JobSteps`; then the theorems of section 4.

Then the safety facts behind the liveness properties (`NothingHeardIsLost`, `RunGoesOneWay`, `CloseFindsItsLinks`, `PoolNeverBlocks`,
`RunNeverBlocks`, `StopIsBounded`), and the case in which finding 3 happens.

Left: a composition of the audit mode reader with `AgentRun`, which today has its acquisition and `Close` only.
