---------------------------- MODULE BlockWatcher ----------------------------
(***************************************************************************)
(* The agent in block mode: the main goroutine that attaches the           *)
(* enforcement programs and seeds their maps (cmd/agent/main.go), the DNS  *)
(* goroutine that extends them from observed answers                       *)
(* (internal/ebpf/dns_watcher.go), the reader goroutine that reports every *)
(* captured connection, and the kernel side they share: four cgroup hooks, *)
(* the allowlist tries, the resolver sets and two ring buffers.            *)
(*                                                                         *)
(* The goroutines share the maps and the DNS cache and no lock orders      *)
(* their steps, so one map write or one cache write is one action.         *)
(***************************************************************************)
EXTENDS EgressPolicy, Sequences

CONSTANTS
    Answers,        \* DNS answers that may appear: [src, domain, ips]
    Targets,        \* <<address, port>> pairs that processes connect to
    TrieCap,        \* max_entries of each allowlist trie
    ResolverCap,    \* max_entries of each resolver set
    EventCap,       \* connection events the ring buffer holds
    DnsCap,         \* DNS records the ring buffer holds
    ReaderMayFail   \* whether the event reader may return an error

ASSUME BlockAssumption ==
    /\ Answers \subseteq [src : Addr, domain : Domain \cup {NoDomain},
                          ips : SUBSET Addr]
    /\ Targets \subseteq Addr \X Port
    /\ TrieCap \in Nat /\ ResolverCap \in Nat
    /\ EventCap \in Nat /\ DnsCap \in Nat
    /\ ReaderMayFail \in BOOLEAN

VARIABLES
    phase,      \* where the main goroutine is
    todo,       \* what is left of the loop of that phase
    results,    \* addresses the startup lookups returned
    stop,       \* why run returns: "no" yet, "signal" or "readError"
    hooks,      \* the attached cgroup programs
    allowed,    \* allowed_ips and allowed_ips6
    resolvers,  \* dns_resolvers and dns_resolvers6
    allowAll,   \* config[0]
    dnsRing,    \* DNS answers captured and not read
    dns,        \* the DNS goroutine: "off", "read" or "apply"
    job,        \* the answer it is applying
    cache,      \* DNSCache.entries
    events,     \* connection events captured and not read
    line,       \* the last line written to standard output
    looked,     \* history: <<domain, ip>> pairs the lookups returned
    heard       \* history: pairs captured from a trusted source

mainVars   == <<phase, todo, results, stop>>
kernelVars == <<hooks, allowed, resolvers, allowAll>>
dnsVars    == <<dns, job>>
history    == <<looked, heard>>
vars == <<mainVars, kernelVars, dnsRing, dnsVars, cache, events, line,
          history>>

-----------------------------------------------------------------------------
(* The kernel side. *)

Op   == {"connect", "sendmsg"}
Hook == Op \X Family

\* attachBlock attaches in this order; Close detaches in the reverse one.
AttachOrder == << <<"connect", "v4">>, <<"connect", "v6">>,
                  <<"sendmsg", "v4">>, <<"sendmsg", "v6">> >>
First(n) == {AttachOrder[i] : i \in 1..n}

\* What the kernel does with an operation on a destination.
Admits(op, ip, port) ==
    LET f == FamilyOf(ip) IN
    \/ <<op, f>> \notin hooks
    \/ Check(ip, port, allowed[f], resolvers[f], allowAll)

\* A map update: it fails, and changes nothing, when the map is full.
Put(map, key, cap) ==
    IF key \in map \/ Cardinality(map) < cap THEN map \cup {key} ELSE map

AllowIP(ip) ==
    allowed' = [allowed EXCEPT ![FamilyOf(ip)] = Put(@, {ip}, TrieCap)]

\* cidr.Mask.Size counts 128 bits for a mapped range, and the kernel
\* rejects a prefix longer than the 32 bits of the key it is put in.
AllowCIDR(net) ==
    allowed' = IF net \in MappedNets THEN allowed
               ELSE [allowed EXCEPT ![FamilyOfNet(net)] = Put(@, net, TrieCap)]

AllowResolver(ip) ==
    resolvers' = [resolvers EXCEPT ![FamilyOf(ip)] = Put(@, ip, ResolverCap)]

\* A record offered to a ring buffer is dropped when there is no room.
Offer(ring, rec, cap) == IF Len(ring) < cap THEN Append(ring, rec) ELSE ring

Event == [ip : Addr, port : Port, self : BOOLEAN,
          admitted : BOOLEAN, ready : BOOLEAN]

\* A record that parseEvent rejects.
Garbage == [ip |-> NoDomain, port |-> "other", self |-> FALSE,
            admitted |-> TRUE, ready |-> FALSE]

\* connect(2): the decision, and the event the tracepoints capture.
\* "admitted" and "ready" are history, not fields of the C record.
Connect(ip, port, self) ==
    events' = Offer(events, [ip |-> ip, port |-> port, self |-> self,
                             admitted |-> Admits("connect", ip, port),
                             ready |-> phase = "serve"], EventCap)

Trusted(a)  == IsTrustedSource(a.src)
PairsOf(a)  == {a.domain} \X a.ips
CanCapture  == phase \notin {"attach", "resolvers", "close", "closed"}

\* An answer crosses an interface: the socket filter sees IPv4 only.
Capture(a) ==
    IF CanCapture /\ a.src \in V4 /\ Len(dnsRing) < DnsCap
    THEN /\ dnsRing' = Append(dnsRing, a)
         /\ heard' = IF Trusted(a) THEN heard \cup PairsOf(a) ELSE heard
    ELSE UNCHANGED <<dnsRing, heard>>

-----------------------------------------------------------------------------
(* The main goroutine: newWatcher, seedAllowlist, run. *)

\* job.grant holds the address that is cached and not yet permitted.
NoJob  == [domain |-> NoDomain, allow |-> FALSE, ips |-> {}, grant |-> {}]

\* Before the first line.
NoLine == [verdict |-> "ALLOW", ip |-> NoDomain, port |-> "other",
           admitted |-> TRUE, ready |-> FALSE]

Init ==
    /\ phase = "attach" /\ todo = {} /\ results = {} /\ stop = "no"
    /\ hooks = {}
    /\ allowed = [f \in Family |-> {}]
    /\ resolvers = [f \in Family |-> {}]
    /\ allowAll = FALSE
    /\ dnsRing = <<>> /\ dns = "off" /\ job = NoJob
    /\ cache = [ip \in Addr |-> NoDomain]
    /\ events = <<>> /\ line = NoLine
    /\ looked = {} /\ heard = {}

AttachHook ==
    /\ phase = "attach"
    /\ \E n \in 1..4 : hooks = First(n - 1) /\ hooks' = hooks \cup {AttachOrder[n]}
    /\ UNCHANGED <<mainVars, allowed, resolvers, allowAll, dnsRing, dnsVars,
                   cache, events, line, history>>

\* The loops of the startup sequence, each with what it ranges over.
Enter(p, items) == phase' = p /\ todo' = items /\ UNCHANGED <<results, stop>>

BeginResolvers ==
    /\ phase = "attach" /\ hooks = Hook
    /\ Enter("resolvers", SystemResolvers \ Loopback)
    /\ UNCHANGED <<kernelVars, dnsRing, dnsVars, cache, events, line, history>>

SeedResolver(ip) ==
    /\ phase = "resolvers" /\ ip \in todo
    /\ AllowResolver(ip)
    /\ todo' = todo \ {ip}
    /\ UNCHANGED <<phase, results, stop, hooks, allowed, allowAll, dnsRing,
                   dnsVars, cache, events, line, history>>

\* newDNSWatcher returns after `go w.run()`.
StartDNSWatcher ==
    /\ phase = "resolvers" /\ todo = {}
    /\ Enter("config", {})
    /\ dns' = "read"
    /\ UNCHANGED <<kernelVars, dnsRing, job, cache, events, line, history>>

\* An error of this one write is logged, and the option stays off.
SetAllowAllDNS ==
    /\ phase = "config"
    /\ allowAll' \in {AllowAllDNS, allowAll}
    /\ Enter("ips", PolicyIPs)
    /\ UNCHANGED <<hooks, allowed, resolvers, dnsRing, dnsVars, cache, events,
                   line, history>>

SeedIP(ip) ==
    /\ phase = "ips" /\ ip \in todo
    /\ AllowIP(ip)
    /\ todo' = todo \ {ip}
    /\ UNCHANGED <<phase, results, stop, hooks, resolvers, allowAll, dnsRing,
                   dnsVars, cache, events, line, history>>

\* Mutant: ranges over the addresses a second time.
BeginCIDRsWrongList ==
    /\ phase = "ips" /\ todo = {}
    /\ Enter("cidrs", PolicyIPs)
    /\ UNCHANGED <<kernelVars, dnsRing, dnsVars, cache, events, line, history>>

BeginCIDRs ==
    /\ phase = "ips" /\ todo = {}
    /\ Enter("cidrs", PolicyNets)
    /\ UNCHANGED <<kernelVars, dnsRing, dnsVars, cache, events, line, history>>

SeedCIDR(net) ==
    /\ phase = "cidrs" /\ net \in todo
    /\ AllowCIDR(net)
    /\ todo' = todo \ {net}
    /\ UNCHANGED <<phase, results, stop, hooks, resolvers, allowAll, dnsRing,
                   dnsVars, cache, events, line, history>>

BeginLookups ==
    /\ phase = "cidrs" /\ todo = {}
    /\ Enter("lookup", ExactDomains)
    /\ UNCHANGED <<kernelVars, dnsRing, dnsVars, cache, events, line, history>>

\* One of the concurrent lookups returns addresses.  Its query went through
\* the hooks like any other; the answer may have been captured on the way
\* (not when it travelled over TCP).
LookupAnswers(a) ==
    /\ phase = "lookup" /\ a.domain \in todo
    /\ a.src \in SystemResolvers /\ Admits("connect", a.src, "dns")
    /\ todo' = todo \ {a.domain}
    /\ results' = results \cup a.ips
    /\ looked' = looked \cup PairsOf(a)
    /\ Capture(a) \/ UNCHANGED <<dnsRing, heard>>
    /\ UNCHANGED <<phase, stop, kernelVars, dnsVars, cache, events, line>>

\* Mutant: no timeout, the lookup waits for an answer.
LookupWaits(d) == FALSE

\* ... or an error, the timeout included; seedAllowlist logs it and goes on.
LookupFails(d) ==
    /\ phase = "lookup" /\ d \in todo
    /\ todo' = todo \ {d}
    /\ UNCHANGED <<phase, results, stop, kernelVars, dnsRing, dnsVars, cache,
                   events, line, history>>

\* wg.Wait returns.
BeginWrites ==
    /\ phase = "lookup" /\ todo = {}
    /\ Enter("write", results)
    /\ UNCHANGED <<kernelVars, dnsRing, dnsVars, cache, events, line, history>>

SeedResult(ip) ==
    /\ phase = "write" /\ ip \in todo
    /\ AllowIP(ip)
    /\ todo' = todo \ {ip}
    /\ UNCHANGED <<phase, results, stop, hooks, resolvers, allowAll, dnsRing,
                   dnsVars, cache, events, line, history>>

\* Mutant: readiness is announced before the results are written.
BeginServingEarly ==
    /\ phase = "write"
    /\ Enter("serve", {})
    /\ UNCHANGED <<kernelVars, dnsRing, dnsVars, cache, events, line, history>>

\* Readiness is announced, the signal handler installed, the reader started.
BeginServing ==
    /\ phase = "write" /\ todo = {}
    /\ Enter("serve", {})
    /\ UNCHANGED <<kernelVars, dnsRing, dnsVars, cache, events, line, history>>

\* The select in run returns, and with it the deferred Close: the DNS
\* socket first, then the hooks.
BeginClose ==
    /\ phase = "serve" /\ stop # "no"
    /\ Enter("close", {})
    /\ UNCHANGED <<kernelVars, dnsRing, dnsVars, cache, events, line, history>>

\* Mutant: the sendmsg links are forgotten.
DetachConnectOnly ==
    /\ phase = "close"
    /\ \E f \in Family : /\ <<"connect", f>> \in hooks
                         /\ hooks' = hooks \ {<<"connect", f>>}
    /\ UNCHANGED <<mainVars, allowed, resolvers, allowAll, dnsRing, dnsVars,
                   cache, events, line, history>>

DetachHook ==
    /\ phase = "close"
    /\ \E n \in 1..4 : hooks = First(n) /\ hooks' = hooks \ {AttachOrder[n]}
    /\ UNCHANGED <<mainVars, allowed, resolvers, allowAll, dnsRing, dnsVars,
                   cache, events, line, history>>

\* The process is gone: its links and maps with it, read or not.
Gone ==
    /\ phase' = "closed" /\ hooks' = {} /\ dns' = "off"
    /\ UNCHANGED <<todo, results, allowed, resolvers, allowAll, dnsRing, job,
                   cache, events, line, history>>

Exit == phase = "close" /\ hooks = {} /\ Gone /\ UNCHANGED stop

MainStep ==
    \/ AttachHook \/ BeginResolvers \/ StartDNSWatcher \/ SetAllowAllDNS
    \/ BeginCIDRs \/ BeginLookups \/ BeginWrites \/ BeginServing
    \/ BeginClose \/ DetachHook \/ Exit
    \/ \E ip \in Addr : SeedResolver(ip) \/ SeedIP(ip) \/ SeedResult(ip)
    \/ \E net \in PolicyNets : SeedCIDR(net)

LookupStep ==
    \/ \E a \in Answers : LookupAnswers(a)
    \/ \E d \in ExactDomains : LookupFails(d)

-----------------------------------------------------------------------------
(* The DNS goroutine, dnsWatcher.run. *)

\* Mutants: an answer from anywhere, or about any domain, is good enough.
MayExtendAnySource(a) == IsAllowedDomain(a.domain)
MayExtendAnyDomain(a) == Trusted(a)

\* Whether an answer extends the allowlist, not only the cache.
MayExtend(a) == IsAllowedDomain(a.domain) /\ Trusted(a)

\* Mutant: the goroutine returns where it should continue.
DnsReadReturns ==
    /\ dns = "read" /\ dnsRing # <<>>
    /\ phase \notin {"close", "closed"}
    /\ LET a == Head(dnsRing) IN
       IF a.domain = NoDomain \/ a.ips = {}
       THEN dns' = "off" /\ UNCHANGED job
       ELSE /\ dns' = "apply"
            /\ job' = [domain |-> a.domain, ips |-> a.ips, grant |-> {},
                       allow |-> MayExtend(a)]
    /\ dnsRing' = Tail(dnsRing)
    /\ UNCHANGED <<mainVars, kernelVars, cache, events, line, history>>

\* An answer without a question is dropped.  Whether its addresses may
\* extend the allowlist is decided once, here.
DnsRead ==
    /\ dns = "read" /\ dnsRing # <<>>
    /\ phase \notin {"close", "closed"}
    /\ LET a == Head(dnsRing) IN
       IF a.domain = NoDomain \/ a.ips = {}
       THEN UNCHANGED dnsVars
       ELSE /\ dns' = "apply"
            /\ job' = [domain |-> a.domain, ips |-> a.ips, grant |-> {},
                       allow |-> MayExtend(a)]
    /\ dnsRing' = Tail(dnsRing)
    /\ UNCHANGED <<mainVars, kernelVars, cache, events, line, history>>

\* The end of the loop over the addresses of the answer.
Continue(ips, grant) ==
    /\ job' = [job EXCEPT !.ips = ips, !.grant = grant]
    /\ dns' = IF ips = {} /\ grant = {} THEN "read" ELSE "apply"

\* Mutant: an address that will be permitted is not cached.
CacheSetDeniedOnly(ip) ==
    /\ dns = "apply" /\ job.grant = {} /\ ip \in job.ips
    /\ cache' = IF job.allow THEN cache ELSE [cache EXCEPT ![ip] = job.domain]
    /\ Continue(job.ips \ {ip}, IF job.allow THEN {ip} ELSE {})
    /\ UNCHANGED <<mainVars, kernelVars, dnsRing, events, line, history>>

\* For each address, the cache first ...
CacheSet(ip) ==
    /\ dns = "apply" /\ job.grant = {} /\ ip \in job.ips
    /\ cache' = [cache EXCEPT ![ip] = job.domain]
    /\ Continue(job.ips \ {ip}, IF job.allow THEN {ip} ELSE {})
    /\ UNCHANGED <<mainVars, kernelVars, dnsRing, events, line, history>>

\* ... then the trie; an error is logged and the loop goes on.
AllowResolved(ip) ==
    /\ dns = "apply" /\ ip \in job.grant
    /\ AllowIP(ip)
    /\ Continue(job.ips, {})
    /\ UNCHANGED <<mainVars, hooks, resolvers, allowAll, dnsRing, cache,
                   events, line, history>>

DnsStep == DnsRead \/ \E ip \in Addr : CacheSet(ip) \/ AllowResolved(ip)

-----------------------------------------------------------------------------
(* The reader goroutine: Watcher.Read and the loop in run. *)

\* The line printed for an event.
LineFor(e) == [verdict |-> VerdictForEvent(e.self, e.port, e.ip, cache[e.ip]),
               ip |-> e.ip, port |-> e.port,
               admitted |-> e.admitted, ready |-> e.ready]

\* Mutants: a record that does not parse ends the reader, or is never
\* consumed.
ReadEventFatal ==
    /\ phase \in {"serve", "close"} /\ stop # "readError"
    /\ events # <<>>
    /\ IF Head(events) = Garbage
       THEN stop' = "readError" /\ UNCHANGED line
       ELSE line' = LineFor(Head(events)) /\ UNCHANGED stop
    /\ events' = Tail(events)
    /\ UNCHANGED <<phase, todo, results, kernelVars, dnsRing, dnsVars, cache,
                   history>>
ReadEventStuck ==
    /\ phase \in {"serve", "close"} /\ stop # "readError"
    /\ events # <<>> /\ Head(events) # Garbage
    /\ line' = LineFor(Head(events))
    /\ events' = Tail(events)
    /\ UNCHANGED <<mainVars, kernelVars, dnsRing, dnsVars, cache, history>>

\* A record that does not parse is skipped.  The domain is looked up now,
\* not when the connection was made.
ReadEvent ==
    /\ phase \in {"serve", "close"} /\ stop # "readError"
    /\ events # <<>>
    /\ IF Head(events) = Garbage
       THEN UNCHANGED line
       ELSE line' = LineFor(Head(events))
    /\ events' = Tail(events)
    /\ UNCHANGED <<mainVars, kernelVars, dnsRing, dnsVars, cache, history>>

\* The ring buffer reader itself fails.
ReaderFails ==
    /\ ReaderMayFail /\ phase = "serve" /\ stop = "no"
    /\ stop' = "readError"
    /\ UNCHANGED <<phase, todo, results, kernelVars, dnsRing, dnsVars, cache,
                   events, line, history>>

-----------------------------------------------------------------------------
(* What goes on around the agent. *)

\* A process of the job connects; the tracepoints precede the hooks.
AppConnect(ip, port) ==
    /\ phase # "closed"
    /\ Connect(ip, port, FALSE)
    /\ UNCHANGED <<mainVars, kernelVars, dnsRing, dnsVars, cache, line,
                   history>>

\* The agent's own connects, while its lookups run: queries to resolvers,
\* and the address-preference probes of Go's resolver.
SelfConnect(ip, port) ==
    /\ phase = "lookup" /\ todo # {}
    /\ Connect(ip, port, TRUE)
    /\ UNCHANGED <<mainVars, kernelVars, dnsRing, dnsVars, cache, line,
                   history>>

GarbageEvent ==
    /\ phase # "closed"
    /\ events' = Offer(events, Garbage, EventCap)
    /\ UNCHANGED <<mainVars, kernelVars, dnsRing, dnsVars, cache, line,
                   history>>

\* Somebody's lookup is answered.
WireAnswer(a) ==
    /\ Capture(a)
    /\ UNCHANGED <<mainVars, kernelVars, dnsVars, cache, events, line, looked>>

\* SIGTERM or SIGINT, once the handler is installed.
Signal ==
    /\ phase = "serve" /\ stop = "no" /\ stop' = "signal"
    /\ UNCHANGED <<phase, todo, results, kernelVars, dnsRing, dnsVars, cache,
                   events, line, history>>

\* SIGKILL at any time, or any signal before that.
Kill == phase # "closed" /\ stop' = "signal" /\ Gone

EnvStep ==
    \/ \E t \in Targets : AppConnect(t[1], t[2]) \/ SelfConnect(t[1], t[2])
    \/ GarbageEvent
    \/ \E a \in Answers : WireAnswer(a)
    \/ Signal \/ Kill

Next == MainStep \/ LookupStep \/ DnsStep \/ ReadEvent \/ ReaderFails \/ EnvStep

\* Goroutines are scheduled, and each lookup ends within its timeout.
Fairness == WF_vars(MainStep) /\ WF_vars(LookupStep) /\ WF_vars(DnsStep)
            /\ WF_vars(ReadEvent)

Spec == Init /\ [][Next]_vars /\ Fairness

-----------------------------------------------------------------------------
(* Properties. *)

Phase == {"attach", "resolvers", "config", "ips", "cidrs", "lookup", "write",
          "serve", "close", "closed"}

\* What each loop of the startup sequence ranges over.
TodoOK ==
    /\ phase = "resolvers" => todo \subseteq SystemResolvers
    /\ phase = "ips" => todo \subseteq PolicyIPs
    /\ phase = "cidrs" => todo \subseteq PolicyNets
    /\ phase = "lookup" => todo \subseteq ExactDomains
    /\ phase = "write" => todo \subseteq results

\* The type invariant of the agent and of the kernel maps it writes.
TypeOK ==
    /\ phase \in Phase /\ TodoOK /\ results \subseteq Addr
    /\ stop \in {"no", "signal", "readError"}
    /\ hooks \subseteq Hook
    /\ allowed \in [Family -> SUBSET Net]
    /\ resolvers \in [Family -> SUBSET Addr]
    /\ allowAll \in BOOLEAN
    /\ dnsRing \in Seq(Answers)
    /\ dns \in {"off", "read", "apply"}
    /\ job \in [domain : Domain \cup {NoDomain}, allow : BOOLEAN,
               ips : SUBSET Addr, grant : SUBSET Addr]
    /\ cache \in [Addr -> Domain \cup {NoDomain}]
    /\ events \in Seq(Event \cup {Garbage})
    /\ line \in [verdict : Verdict, ip : Addr \cup {NoDomain}, port : Port,
                admitted : BOOLEAN, ready : BOOLEAN]
    /\ looked \subseteq Domain \X Addr
    /\ heard \subseteq (Domain \cup {NoDomain}) \X Addr

\* ip is an address of an allowed domain according to a trusted answer.
Vouched(ip, answers) ==
    \E d \in Domain : IsAllowedDomain(d) /\ <<d, ip>> \in answers

\* Every prefix in the tries is an allowlist entry or an address that a
\* trusted answer gave for an allowed domain.
TrieJustified ==
    \A f \in Family : \A net \in allowed[f] :
        \/ net \in PolicyNets
        \/ \E ip \in Addr :
               net = {ip} /\ (ip \in PolicyIPs \/ Vouched(ip, looked \cup heard))

\* Default deny, end to end: from the moment the four hooks are attached a
\* destination is admitted only for a reason the policy gives, whatever the
\* DNS goroutine and the seeding have written so far.
EnforcementSound ==
    hooks = Hook =>
        \A op \in Op, ip \in Addr, port \in Port : Admits(op, ip, port) =>
            \/ ip \in Loopback \/ Listed(ip) \/ Vouched(ip, looked \cup heard)
            \/ port = "dns" /\ (AllowAllDNS \/ ip \in SystemResolvers)

\* An address that only an observed answer permits has a name in the cache:
\* the connection it admits is never reported as DENY(no-domain).
LiveEntriesNamed ==
    \A ip \in Addr :
        {ip} \in allowed[FamilyOf(ip)] =>
            \/ ip \in PolicyIPs \/ {ip} \in PolicyNets \/ Vouched(ip, looked)
            \/ cache[ip] # NoDomain

Present(key, map, cap) == key \in map \/ Cardinality(map) >= cap

\* When readiness is announced every resolver, allowlist entry and looked-up
\* address is in the kernel, except what a full map refused; port 53 is open
\* to every destination only if the policy says so.
SeededAtReadiness ==
    phase = "serve" =>
        /\ allowAll => AllowAllDNS
        /\ \A ip \in SystemResolvers \ Loopback :
               Present(ip, resolvers[FamilyOf(ip)], ResolverCap)
        /\ \A ip \in PolicyIPs \cup {pair[2] : pair \in looked} :
               Present({ip}, allowed[FamilyOf(ip)], TrieCap)
        /\ \A net \in PolicyNets \ MappedNets :
               Present(net, allowed[FamilyOfNet(net)], TrieCap)

\* Once attached, the hooks stay until a signal: a record that does not
\* parse must not end enforcement, only a failure of the reader itself may.
EnforcedUntilStop ==
    phase # "attach" /\ hooks # Hook =>
        stop = "signal" \/ (ReaderMayFail /\ stop = "readError")

\* The kernel was told of the option, if the policy sets it.
OptionApplied == AllowAllDNS => allowAll

\* What is reported as exempt after readiness was let through by the kernel:
\* the exemptions of the report do not exceed those of check_ipv4/6, unless
\* the option that the report goes by could not be written.
SkipMeansAdmitted ==
    OptionApplied /\ line.ready /\ line.verdict \in {"SKIP(dns)", "SKIP(loopback)"}
        => line.admitted

\* policy.go, ModeBlock: violations are logged and blocked.  The label is
\* taken from a cache that may have missed or overwritten a name since; that
\* is the one way a connection let through after readiness is reported as
\* denied: a trusted answer did give its address to an allowed domain.
DenyExplained ==
    line.ready /\ line.verdict \in Deny /\ line.admitted =>
        Vouched(line.ip, looked \cup heard)

\* Startup ends, whatever the lookups return and whatever is observed.
StartupCompletes == <>(phase \in {"serve", "close", "closed"})

\* A captured trusted answer for an allowed domain reaches the trie, unless
\* that is full or the agent is stopped first.
AnswerApplied ==
    \A d \in Domain, ip \in Addr :
        IsAllowedDomain(d) /\ <<d, ip>> \in heard
            ~> \/ stop # "no"
               \/ Present({ip}, allowed[FamilyOf(ip)], TrieCap)

\* A captured connection is reported, unless the agent is stopped first.
EventReported ==
    \A t \in Targets :
        (\E i \in DOMAIN events : events[i].ip = t[1] /\ events[i].port = t[2])
            ~> stop # "no" \/ (line.ip = t[1] /\ line.port = t[2])

\* Once run is told to stop, nothing stays attached.
StopDetaches == stop # "no" ~> hooks = {}

-----------------------------------------------------------------------------
(* The agent implements the abstract guard. *)

GuardMode == IF hooks = Hook THEN "on"
             ELSE IF phase = "attach" THEN "off" ELSE "ended"

Guard == INSTANCE EgressGuard WITH
    mode     <- GuardMode,
    evidence <- looked \cup heard,
    granted  <- allowed["v4"] \cup allowed["v6"],
    Capacity <- TrieCap

\* Seeding and live observation together only ever grant what the policy and
\* the evidence justify, never take a grant back, never switch enforcement
\* on again once it ended, and grant all they learn while there is room.
ImplementsGuard == Guard!Spec

-----------------------------------------------------------------------------
(* What the documentation says and the code does not do. *)

\* README, "Block mode enforcement model": denied port-53 connections are
\* reported as DENY, not SKIP(dns).
DeniedDnsReported ==
    line.port = "dns" /\ ~line.admitted => line.verdict # "SKIP(dns)"

\* README, "Policy file": a CIDR entry permits all addresses in the subnet.
CIDRPermitted ==
    phase = "serve" => \A net \in PolicyNets : \A ip \in net :
        Admits("connect", ip, "other")
=============================================================================
