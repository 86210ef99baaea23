------------------------------ MODULE AgentRun ------------------------------
(***************************************************************************)
(* One run of the agent, from its command line to its exit (run in         *)
(* cmd/agent/main.go): the policy file is loaded entry by entry, the mode  *)
(* resolved, the nameservers found, the watcher built, the allowlist       *)
(* seeded in block mode, readiness announced, and on a signal or a read    *)
(* error everything is closed.  It composes PolicyLoad, WatcherLifecycle   *)
(* and SeedPool; what enforcement does meanwhile is BlockWatcher.          *)
(***************************************************************************)
EXTENDS PolicyLoad, FiniteSets

CONSTANTS
    Files,          \* policy files: [keysKnown, mode, allowAllDNS, allowlist]
    Flags,          \* values of --mode, "" when it is not given
    ResolvConfs,    \* [etc, run, readable]: the two files, if etc is readable
    NoFile,         \* no --config
    NoEngine,       \* the nil engine
    MayFail,        \* the steps of newWatcher that may fail
    Domains,        \* what an allowlist may hold that is taken for a name
    MaxConcurrentLookups

VARIABLES
    file, flag, resolv,     \* the inputs
    step,       \* where run is
    todo,       \* entries of the allowlist not yet classified
    engine,     \* the loaded policy
    resolvers,  \* the nameservers every consumer is given
    ready,      \* the label of the readiness line, "" before it
    stop,       \* what ended the select: "no" yet, "signal" or "readError"
    exit,       \* how the process ended: "no" yet, "ok", "error", "killed"
    mode, pc, held, cleanups, w, state,                          \* the watcher
    main, domains, rest, current, sem, wg, lookup, results       \* the pool

Lifecycle == INSTANCE WatcherLifecycle WITH Modes <- {"audit", "block"}
Pool      == INSTANCE SeedPool
Hooks     == {"connect4", "connect6", "sendmsg4", "sendmsg6"}

\* What the rest of the job sees of a run.
Stage == IF step = "gone" THEN "gone"
         ELSE IF stop # "no" THEN "closing"
         ELSE IF step = "serve" THEN "serving"
         ELSE IF held \cap Hooks # {} THEN "attached"
         ELSE "loading"
Life  == INSTANCE AgentLife WITH agent <- Stage

ASSUME LifecycleOK == Lifecycle!LifecycleAssumption
ASSUME PoolOK      == Pool!PoolAssumption
ASSUME AgentAssumption ==
    /\ \A f \in Files \ {NoFile} :
           /\ f \in Config
           /\ \A i \in DOMAIN f.allowlist :
                  LET e == f.allowlist[i] IN
                  e.kind \in {"name", "text"} \/ KeepsBrackets(e) =>
                      ToLower(Host(e)) \in Domains
    /\ NoEngine \notin Engine

inputs      == <<file, flag, resolv>>
watcherVars == <<pc, held, cleanups, w, state>>
poolVars    == <<main, domains, rest, current, sem, wg, lookup, results>>
outcome     == <<ready, stop, exit>>
vars == <<inputs, step, todo, engine, resolvers, outcome, mode, watcherVars,
          poolVars>>

Init ==
    /\ file \in Files /\ flag \in Flags /\ resolv \in ResolvConfs
    /\ step = "load" /\ todo = <<>> /\ engine = NoEngine /\ resolvers = {}
    /\ ready = "" /\ stop = "no" /\ exit = "no"
    /\ Lifecycle!Init /\ mode = "audit"
    /\ Pool!Init

-----------------------------------------------------------------------------
(* Configuration. *)

\* run returns an error before there is anything to release.
Fail ==
    /\ exit' = "error" /\ step' = "gone"
    /\ UNCHANGED <<inputs, todo, engine, resolvers, ready, stop, mode,
                   watcherVars, poolVars>>

ReadFile ==
    /\ step = "load" /\ file # NoFile /\ Decodes(file)
    /\ engine' = NewEngine(file) /\ todo' = file.allowlist
    /\ step' = "entries"
    /\ UNCHANGED <<inputs, resolvers, outcome, mode, watcherVars, poolVars>>

RejectFile == step = "load" /\ file # NoFile /\ ~Decodes(file) /\ Fail

LoadEntry ==
    /\ step = "entries" /\ todo # <<>> /\ Classify(Head(todo)) # "error"
    /\ engine' = AddEntry(engine, Head(todo))
    /\ todo' = Tail(todo)
    /\ UNCHANGED <<inputs, step, resolvers, outcome, mode, watcherVars, poolVars>>

RejectEntry ==
    step = "entries" /\ todo # <<>> /\ Classify(Head(todo)) = "error" /\ Fail

Configured == (step = "load" /\ file = NoFile) \/ (step = "entries" /\ todo = <<>>)
FlagOrFile == ModeFrom(flag, IF engine = NoEngine THEN "" ELSE engine.mode)

ResolveMode ==
    /\ Configured /\ ~ModeRefused(FlagOrFile, engine # NoEngine)
    /\ mode' = FlagOrFile
    /\ step' = "resolvers"
    /\ UNCHANGED <<inputs, todo, engine, resolvers, outcome, watcherVars, poolVars>>

RefuseMode == Configured /\ ModeRefused(FlagOrFile, engine # NoEngine) /\ Fail

\* Only with a policy; an unreadable resolv.conf is logged and leaves none.
SystemResolvers ==
    /\ step = "resolvers"
    /\ resolvers' = IF engine # NoEngine /\ resolv.readable
                    THEN resolversFrom(resolv.etc, resolv.run) ELSE NoAddress
    /\ step' = "watcher"
    /\ UNCHANGED <<inputs, todo, engine, outcome, mode, watcherVars, poolVars>>

-----------------------------------------------------------------------------
(* The watcher, seeding and service. *)

NewWatcher ==
    /\ step = "watcher" /\ Lifecycle!Build
    /\ UNCHANGED <<inputs, step, todo, engine, resolvers, outcome, poolVars>>

\* A panic ends the process: the kernel closes what it had open.
WatcherFailed ==
    /\ step = "watcher" /\ state \in {"error", "panic"}
    /\ exit' = "error" /\ step' = "gone" /\ held' = {}
    /\ UNCHANGED <<inputs, todo, engine, resolvers, ready, stop, mode, pc,
                   cleanups, w, state, poolVars>>

SeedAllowlist ==
    /\ step = "watcher" /\ state = "serving" /\ mode = "block"
    /\ Pool!Begin(engine.domains)
    /\ step' = "seed"
    /\ UNCHANGED <<inputs, todo, engine, resolvers, outcome, mode, watcherVars>>

SeedMain ==
    /\ step = "seed" /\ Pool!MainStep
    /\ UNCHANGED <<inputs, step, todo, engine, resolvers, outcome, mode, watcherVars>>

SeedLookup(d) ==
    /\ step = "seed" /\ Pool!LookupStep(d)
    /\ UNCHANGED <<inputs, step, todo, engine, resolvers, outcome, mode, watcherVars>>

\* The readiness line; then the signal handler and the reader goroutine.
Announce ==
    /\ \/ step = "watcher" /\ state = "serving" /\ mode = "audit"
       \/ step = "seed" /\ main = "done"
    /\ ready' = IF engine = NoEngine THEN "audit (no policy)" ELSE mode
    /\ step' = "serve"
    /\ UNCHANGED <<inputs, todo, engine, resolvers, stop, exit, mode,
                   watcherVars, poolVars>>

\* Mutant: the handler is installed before seeding, which does not look at it.
StopEarly(why) ==
    /\ step \in {"seed", "serve"} /\ stop = "no" /\ stop' = why
    /\ UNCHANGED <<inputs, step, todo, engine, resolvers, ready, exit, mode,
                   watcherVars, poolVars>>

Stop(why) ==
    /\ step = "serve" /\ stop = "no" /\ stop' = why
    /\ UNCHANGED <<inputs, step, todo, engine, resolvers, ready, exit, mode,
                   watcherVars, poolVars>>

\* run returns and the deferred Close runs.
Close ==
    /\ step = "serve" /\ stop # "no"
    /\ Lifecycle!BeginClose \/ Lifecycle!CloseNext \/ Lifecycle!Closed
    /\ UNCHANGED <<inputs, step, todo, engine, resolvers, outcome, poolVars>>

Exit ==
    /\ step = "serve" /\ state = "closed"
    /\ exit' = IF stop = "readError" THEN "error" ELSE "ok"
    /\ step' = "gone"
    /\ UNCHANGED <<inputs, todo, engine, resolvers, ready, stop, mode,
                   watcherVars, poolVars>>

\* A signal without its handler, or SIGKILL.
Kill ==
    /\ step # "gone" /\ step' = "gone" /\ exit' = "killed" /\ held' = {}
    /\ UNCHANGED <<inputs, todo, engine, resolvers, ready, stop, mode, pc,
                   cleanups, w, state, poolVars>>

Configure == ReadFile \/ RejectFile \/ LoadEntry \/ RejectEntry \/ ResolveMode
             \/ RefuseMode \/ SystemResolvers

MainGoroutine == Configure \/ NewWatcher \/ WatcherFailed \/ SeedAllowlist
                 \/ SeedMain \/ Announce \/ Close \/ Exit

Next ==
    \/ MainGoroutine
    \/ \E d \in Domains : SeedLookup(d)
    \/ Stop("signal") \/ Stop("readError") \/ Kill

\* Goroutines are scheduled and lookups have a timeout; nothing is assumed
\* of signals and failures.
Spec == Init /\ [][Next]_vars /\ WF_vars(MainGoroutine)
             /\ \A d \in Domains : WF_vars(SeedLookup(d))

-----------------------------------------------------------------------------
(* Properties. *)

\* The type invariant of the run, of its watcher and of its lookup pool.
TypeOK ==
    /\ step \in {"load", "entries", "resolvers", "watcher", "seed", "serve", "gone"}
    /\ engine # NoEngine =>
           engine.domains \cup engine.wildcards \subseteq
               {ToLower(Host(file.allowlist[i])) : i \in DOMAIN file.allowlist}
    /\ resolvers \subseteq Nameserver
    /\ ready \in {"", "audit", "audit (no policy)", "block"}
    /\ stop \in {"no", "signal", "readError"}
    /\ exit \in {"no", "ok", "error", "killed"}
    /\ Lifecycle!TypeOK /\ Pool!TypeOK

\* What the user asked for: the flag, or else the file as it was meant.
BlockWanted == flag = "block" \/ (flag = "" /\ file # NoFile /\ file.mode = "block")

\* LoadFile and resolveMode: an agent that serves enforces exactly when block
\* mode was asked for, on all four hooks, whichever step or key went wrong;
\* an agent in audit mode never has a hook, and none enforces without policy.
EnforcesAsAsked ==
    /\ step = "serve" /\ stop = "no" => (BlockWanted <=> Hooks \subseteq held)
    /\ held \cap Hooks # {} => BlockWanted /\ engine # NoEngine
    /\ ready = "block" => BlockWanted

\* Whether what the engine holds lets this entry match anything at all.
Matches(e) ==
    LET name == ToLower(e.host) IN
    CASE e.kind \in {"ip", "ip6"}       -> e.host \in engine.allowedIP
      [] e.kind \in {"range", "range6"} -> e.host \in engine.cidrs
      [] e.kind = "wildcard"            -> name \in engine.wildcards
      [] e.kind = "name"                -> name \in engine.domains
      [] OTHER                          -> FALSE

\* What newEngine takes for a domain although no name is written so: it looks
\* for colons and stars only, and leaves the brackets of an entry without port.
LooksLikeName(e) ==
    \/ e.kind = "text"
    \/ e.bracketed /\ e.port = "none" /\ e.kind \notin Colons \cup Wildcards

\* newEngine: an allowlist with an entry that would allow nothing, or too much,
\* because of its port, its "*" or a colon never gets as far as a watcher: each
\* entry is in the engine as the address, range, wildcard or name that it is.
\* Excepted are empty ones, and those that look like a name, which are kept and
\* match nothing.
NoSilentEntry ==
    step \in {"resolvers", "watcher", "seed", "serve"} /\ engine # NoEngine =>
        \A i \in DOMAIN file.allowlist :
            LET e == file.allowlist[i] IN
            (e.kind = "empty" \/ Matches(e) \/ LooksLikeName(e)) /\ e.port # "more"

\* A watcher is returned whole, and an error and Close leave nothing behind.
WholeOrNothing == step # "gone" => Lifecycle!WholeOrNothing

\* What an open object works on is open too.
DependenciesHeld == Lifecycle!DependenciesHeld

\* Never more than maxConcurrentLookups lookups at a time.
BoundedInFlight == Pool!BoundedInFlight

\* The results are read when no lookup can still write them.
ResultsComplete == Pool!ResultsComplete

\* Whatever fails, an agent comes to serve or to exit: a finished lookup
\* frees the slot the loop may be blocked on, so startup is delayed by the
\* timeouts, never for ever.  After a signal or a read error it exits.
RunSettles ==
    /\ <>(step \in {"serve", "gone"})
    /\ stop # "no" ~> exit # "no"

\* The steps of a job see no more of a run than AgentLife: hooks only in the
\* middle of it, a signal that is handled only once the agent serves.
ImplementsLife == Life!Spec

-----------------------------------------------------------------------------
(* What a comment says and the code does not do. *)

\* newWatcher: on any error the deferred unwind closes the resources in
\* reverse order, so the unwinding gets to its end.
UnwindCompletes == Lifecycle!UnwindCompletes
=============================================================================
