--------------------------- MODULE AgentRun_proofs ---------------------------
(***************************************************************************)
(* Theorems about AgentRun, for every policy file, every set of steps that *)
(* may fail and every number of domains.  What is proved of SeedPool and   *)
(* WatcherLifecycle by themselves is used here.                            *)
(***************************************************************************)
EXTENDS AgentRun, SequenceTheorems, TLAPS

PoolProof  == INSTANCE SeedPool_proofs
CycleProof == INSTANCE WatcherLifecycle_proofs WITH Modes <- {"audit", "block"}

-----------------------------------------------------------------------------
(* The pool and the watcher of a run are those of their own modules. *)

\* What the pool's proofs assume is what AgentRun assumes of its pool.
LEMMA PoolAssumed == PoolProof!PoolAssumption
  BY PoolOK DEF PoolProof!PoolAssumption, Pool!PoolAssumption, PoolProof!IsFiniteSet, Pool!IsFiniteSet

\* The same of the watcher: any of its steps may fail.
LEMMA CycleAssumed == CycleProof!LifecycleAssumption
  BY LifecycleOK
  DEF CycleProof!LifecycleAssumption, Lifecycle!LifecycleAssumption,
      CycleProof!Step, Lifecycle!Step, CycleProof!WatcherSteps, Lifecycle!WatcherSteps,
      CycleProof!BlockSteps, Lifecycle!BlockSteps, CycleProof!DnsSteps, Lifecycle!DnsSteps,
      CycleProof!Range, Lifecycle!Range

\* A step of the pool of a run is a step of SeedPool.
LEMMA PoolNext ==
    ASSUME (Pool!Begin(engine.domains) /\ engine.domains \subseteq Domains) \/ Pool!MainStep
               \/ \E d \in Domains : Pool!LookupStep(d)
    PROVE  PoolProof!Next
  <1>1. CASE Pool!Begin(engine.domains) /\ engine.domains \subseteq Domains
    BY <1>1 DEF Pool!Begin, PoolProof!Begin, PoolProof!Next
  <1>2. CASE Pool!MainStep
    BY <1>2 DEF Pool!MainStep, Pool!NextDomain, Pool!Acquire, Pool!Spawn, Pool!EndRange,
                Pool!WaitReturns, Pool!WriteResults, PoolProof!MainStep, PoolProof!NextDomain,
                PoolProof!Acquire, PoolProof!Spawn, PoolProof!EndRange, PoolProof!WaitReturns,
                PoolProof!WriteResults, PoolProof!Next
  <1>3. ASSUME NEW d \in Domains, Pool!LookupStep(d)
        PROVE  PoolProof!Next
    BY <1>3 DEF Pool!LookupStep, Pool!Store, Pool!Release, Pool!Done, PoolProof!LookupStep,
                PoolProof!Store, PoolProof!Release, PoolProof!Done, PoolProof!Next
  <1> QED  BY <1>1, <1>2, <1>3

\* The plan, the orders and what releases what are the same lists.
LEMMA CycleLists ==
    /\ Lifecycle!WatcherSteps = CycleProof!WatcherSteps
    /\ Lifecycle!BlockSteps = CycleProof!BlockSteps
    /\ Lifecycle!DnsSteps = CycleProof!DnsSteps
    /\ Lifecycle!Resource = CycleProof!Resource
    /\ Lifecycle!Plan = CycleProof!Plan
    /\ Lifecycle!CloseOrder = CycleProof!CloseOrder
    /\ \A s : Lifecycle!Range(s) = CycleProof!Range(s)
    /\ \A s : Lifecycle!Last(s) = CycleProof!Last(s)
    /\ \A s : Lifecycle!Front(s) = CycleProof!Front(s)
    /\ \A s : Lifecycle!Cleanup(s) = CycleProof!Cleanup(s)
    /\ \A s : Lifecycle!Released(s) = CycleProof!Released(s)
  BY DEF CycleProof!Step, Lifecycle!Step, CycleProof!WatcherSteps, Lifecycle!WatcherSteps,
      CycleProof!BlockSteps, Lifecycle!BlockSteps, CycleProof!DnsSteps, Lifecycle!DnsSteps,
      CycleProof!Range, Lifecycle!Range, CycleProof!Resource, Lifecycle!Resource,
      CycleProof!Plan, Lifecycle!Plan, CycleProof!CloseOrder, Lifecycle!CloseOrder,
      CycleProof!Last, Lifecycle!Last, CycleProof!Front, Lifecycle!Front,
      CycleProof!Cleanup, Lifecycle!Cleanup, CycleProof!Released, Lifecycle!Released

\* A step of the watcher of a run is a step of WatcherLifecycle.
LEMMA CycleNext ==
    ASSUME Lifecycle!Build \/ Lifecycle!BeginClose \/ Lifecycle!CloseNext \/ Lifecycle!Closed
    PROVE  CycleProof!Next
  <1> USE CycleLists
  <1>1. CASE Lifecycle!Succeed
    BY <1>1 DEF Lifecycle!Succeed, Lifecycle!Building, CycleProof!Succeed, CycleProof!Building,
                CycleProof!Next, CycleProof!Build
  <1>2. CASE Lifecycle!FailWatcher
    BY <1>2 DEF Lifecycle!FailWatcher, Lifecycle!Building, Lifecycle!ReturnError,
                CycleProof!FailWatcher, CycleProof!Building, CycleProof!ReturnError,
                CycleProof!Next, CycleProof!Build
  <1>3. CASE Lifecycle!FailBlock
    BY <1>3 DEF Lifecycle!FailBlock, Lifecycle!Building, Lifecycle!ReturnError,
                CycleProof!FailBlock, CycleProof!Building, CycleProof!ReturnError,
                CycleProof!Next, CycleProof!Build
  <1>4. CASE Lifecycle!FailDnsBlock
    BY <1>4 DEF Lifecycle!FailDnsBlock, Lifecycle!Building, Lifecycle!ReturnError,
                CycleProof!FailDnsBlock, CycleProof!Building, CycleProof!ReturnError,
                CycleProof!Next, CycleProof!Build
  <1>5. CASE Lifecycle!FailDnsAudit
    BY <1>5 DEF Lifecycle!FailDnsAudit, Lifecycle!Building,
                CycleProof!FailDnsAudit, CycleProof!Building, CycleProof!Next, CycleProof!Build
  <1>6. CASE Lifecycle!Unwind \/ Lifecycle!UnwindPanics
    BY <1>6 DEF Lifecycle!Unwind, Lifecycle!UnwindPanics, Lifecycle!ThroughNil,
                CycleProof!Unwind, CycleProof!UnwindPanics, CycleProof!ThroughNil,
                CycleProof!Next, CycleProof!Build
  <1>7. CASE Lifecycle!Unwound \/ Lifecycle!Return \/ Lifecycle!BeginClose
    BY <1>7 DEF Lifecycle!Unwound, Lifecycle!Return, Lifecycle!BeginClose,
                CycleProof!Unwound, CycleProof!Return, CycleProof!BeginClose,
                CycleProof!Next, CycleProof!Build
  <1>8. CASE Lifecycle!CloseNext \/ Lifecycle!Closed
    BY <1>8 DEF Lifecycle!CloseNext, Lifecycle!Closed, Lifecycle!Opens,
                CycleProof!CloseNext, CycleProof!Closed, CycleProof!Opens, CycleProof!Next
  <1> QED  BY <1>1, <1>2, <1>3, <1>4, <1>5, <1>6, <1>7, <1>8 DEF Lifecycle!Build

\* What is proved of the watcher and of the pool is what AgentRun states.
LEMMA SameProperties ==
    /\ CycleProof!TypeOK <=> Lifecycle!TypeOK
    /\ CycleProof!WholeOrNothing <=> Lifecycle!WholeOrNothing
    /\ CycleProof!DependenciesHeld <=> Lifecycle!DependenciesHeld
    /\ PoolProof!TypeOK <=> Pool!TypeOK
    /\ PoolProof!ResultsComplete <=> Pool!ResultsComplete
    /\ PoolProof!BoundedInFlight <=> Pool!BoundedInFlight
  <1>1. CycleProof!TypeOK <=> Lifecycle!TypeOK
    BY CycleLists DEF CycleProof!TypeOK, Lifecycle!TypeOK
  <1>2. CycleProof!WholeOrNothing <=> Lifecycle!WholeOrNothing
    BY CycleLists DEF CycleProof!WholeOrNothing, Lifecycle!WholeOrNothing
  <1>3. CycleProof!DependenciesHeld <=> Lifecycle!DependenciesHeld
    BY CycleLists DEF CycleProof!DependenciesHeld, Lifecycle!DependenciesHeld
  <1>4. PoolProof!TypeOK <=> Pool!TypeOK
    BY DEF PoolProof!TypeOK, Pool!TypeOK
  <1>5. PoolProof!ResultsComplete <=> Pool!ResultsComplete
    BY DEF PoolProof!ResultsComplete, Pool!ResultsComplete
  <1>6. PoolProof!BoundedInFlight <=> Pool!BoundedInFlight
    BY DEF PoolProof!BoundedInFlight, Pool!BoundedInFlight, PoolProof!In, Pool!In,
           PoolProof!Cardinality, Pool!Cardinality, PoolProof!IsFiniteSet, Pool!IsFiniteSet
  <1> QED  BY <1>1, <1>2, <1>3, <1>4, <1>5, <1>6

\* The watcher's types agree in the next state as well.
LEMMA SameNext == CycleProof!TypeOK' <=> Lifecycle!TypeOK'
  BY SameProperties, PTL

-----------------------------------------------------------------------------
(* Loading the policy. *)

\* The list an entry goes to says what it is, and that nothing is left over.
LEMMA ClassifyIs ==
    ASSUME NEW e
    PROVE  /\ Classify(e) \in {"skip", "wildcards", "allowedIP", "cidrs", "domains", "error"}
           /\ Classify(e) # "error" => e.port # "more"
           /\ Classify(e) = "skip" => e.kind = "empty"
           /\ Classify(e) = "wildcards" => e.kind = "wildcard" /\ Host(e) = e.host
           /\ Classify(e) = "allowedIP" => e.kind \in {"ip", "ip6"}
           /\ Classify(e) = "cidrs" => e.kind \in {"range", "range6"}
           /\ Classify(e) = "domains" =>
                  \/ e.kind = "name" /\ Host(e) = e.host
                  \/ LooksLikeName(e) /\ (e.kind = "text" \/ KeepsBrackets(e))
  <1>1. CASE KeepsBrackets(e) /\ ~ColonLeft(e)
    <2>1. e.bracketed /\ e.port = "none" /\ e.kind \notin Colons
      BY <1>1 DEF KeepsBrackets, ColonLeft
    <2>2. /\ e.kind \in Wildcards => KindOf(e) = "starElsewhere"
          /\ e.kind \notin Wildcards => KindOf(e) = "text" /\ LooksLikeName(e)
      BY <1>1, <2>1 DEF KindOf, LooksLikeName
    <2>3. /\ KindOf(e) = "starElsewhere" => Classify(e) = "error"
          /\ KindOf(e) = "text" => Classify(e) = "domains"
      BY DEF Classify
    <2> QED  BY <1>1, <2>1, <2>2, <2>3
  <1>2. CASE ~KeepsBrackets(e) /\ ~ColonLeft(e)
    <2>1. KindOf(e) = e.kind /\ Host(e) = e.host /\ e.port # "more"
      BY <1>2 DEF KindOf, Host, ColonLeft, SplitHostPort
    <2>2. /\ Classify(e) \in {"skip", "wildcards", "allowedIP", "cidrs", "domains", "error"}
          /\ Classify(e) = "skip" => e.kind = "empty"
          /\ Classify(e) = "wildcards" => e.kind = "wildcard"
          /\ Classify(e) = "allowedIP" => e.kind \in {"ip", "ip6"}
          /\ Classify(e) = "cidrs" => e.kind \in {"range", "range6"}
          /\ Classify(e) = "domains" => e.kind \in {"name", "text"}
      BY <2>1 DEF Classify
    <2>3. e.kind = "text" => LooksLikeName(e)
      BY DEF LooksLikeName
    <2> QED  BY <2>1, <2>2, <2>3
  <1>3. CASE ColonLeft(e)
    BY <1>3 DEF KindOf, Classify
  <1> QED  BY <1>1, <1>2, <1>3

\* What an entry adds to the engine; nothing is taken out.
LEMMA AddEntryIs ==
    ASSUME NEW eng \in Engine, NEW e \in AllowEntry, Classify(e) # "error"
    PROVE  /\ AddEntry(eng, e) \in Engine /\ AddEntry(eng, e).mode = eng.mode
           /\ AddEntry(eng, e).domains =
                  eng.domains \cup (IF Classify(e) = "domains" THEN {ToLower(Host(e))} ELSE {})
           /\ AddEntry(eng, e).wildcards =
                  eng.wildcards \cup (IF Classify(e) = "wildcards" THEN {ToLower(Host(e))} ELSE {})
           /\ AddEntry(eng, e).allowedIP =
                  eng.allowedIP \cup (IF Classify(e) = "allowedIP" THEN {e.host} ELSE {})
           /\ AddEntry(eng, e).cidrs =
                  eng.cidrs \cup (IF Classify(e) = "cidrs" THEN {e.host} ELSE {})
  <1>1. e.host \in STRING /\ ToLower(Host(e)) \in STRING
    BY LowerAssumption DEF AllowEntry, ToLower, Host
  <1>2. CASE Classify(e) = "skip"
    BY <1>2 DEF AddEntry, Engine
  <1>3. CASE Classify(e) = "wildcards"
    BY <1>1, <1>3 DEF AddEntry, Engine
  <1>4. CASE Classify(e) = "allowedIP"
    BY <1>1, <1>4 DEF AddEntry, Engine
  <1>5. CASE Classify(e) = "cidrs"
    BY <1>1, <1>5 DEF AddEntry, Engine
  <1>6. CASE Classify(e) = "domains"
    BY <1>1, <1>6 DEF AddEntry, Engine
  <1> QED  BY <1>2, <1>3, <1>4, <1>5, <1>6, ClassifyIs

-----------------------------------------------------------------------------
(* The invariant. *)

\* What the watcher and the pool are doing where run is.
Where ==
    /\ step \in {"load", "entries", "resolvers", "watcher", "seed", "serve", "gone"}
    /\ step \in {"load", "entries", "resolvers"} => CycleProof!Init
    /\ step \in {"load", "entries", "resolvers", "watcher"} => main = "idle"
    /\ step = "seed" => state = "serving"
    /\ step = "serve" =>
           state \in {"serving", "closing", "closed"} /\ (stop = "no" => state = "serving")
    /\ step \notin {"serve", "gone"} => stop = "no"
    /\ step = "gone" => held = {}

\* From the mode resolved to the end it is the one asked for.
ModeOK ==
    /\ step = "load" => engine = NoEngine
    /\ step = "entries" => file # NoFile /\ engine # NoEngine /\ engine.mode = file.mode
    /\ step \in {"resolvers", "watcher", "seed", "serve"} =>
           /\ mode = "block" <=> BlockWanted
           /\ mode = "block" => engine # NoEngine
    /\ ready \in {"", "audit", "audit (no policy)", "block"}
    /\ ready = "block" => BlockWanted

Loaded(e) == (e.kind = "empty" \/ Matches(e) \/ LooksLikeName(e)) /\ e.port # "more"

\* The engine holds what was loaded of its file; the entries to come are the
\* end of the allowlist.
EngineOK ==
    /\ file \in Files
    /\ engine # NoEngine =>
           /\ file # NoFile /\ engine \in Engine /\ engine.domains \subseteq Domains
           /\ engine.domains \cup engine.wildcards \subseteq
                  {ToLower(Host(file.allowlist[i])) : i \in DOMAIN file.allowlist}
    /\ step = "entries" =>
           \E n \in 0..Len(file.allowlist) :
               /\ todo = SubSeq(file.allowlist, n + 1, Len(file.allowlist))
               /\ \A i \in 1..n : Loaded(file.allowlist[i])
    /\ step \in {"resolvers", "watcher", "seed", "serve"} /\ engine # NoEngine =>
           \A i \in DOMAIN file.allowlist : Loaded(file.allowlist[i])

\* The watcher and the pool, for as long as there is a process.
PartsOK ==
    /\ PoolProof!IInv /\ Lifecycle!TypeOK
    /\ step # "gone" => CycleProof!IInv /\ CycleProof!AuditOK

IInv ==
    /\ Where /\ ModeOK /\ EngineOK /\ PartsOK
    /\ resolvers \subseteq Nameserver
    /\ stop \in {"no", "signal", "readError"}
    /\ exit \in {"no", "ok", "error", "killed"}

\* A watcher that is not begun is in order in either mode.
LEMMA FreshCycle == CycleProof!Init => CycleProof!IInv /\ CycleProof!AuditOK
  BY CycleAssumed, CycleProof!InitInv DEF CycleProof!Init, CycleProof!AuditOK

\* The same of the next state.
LEMMA FreshCycleNext == CycleProof!Init' => CycleProof!IInv' /\ CycleProof!AuditOK'
  BY FreshCycle, PTL

\* A run begins with nothing loaded, acquired or looked up.
LEMMA InitInv == Init => IInv
  <1> SUFFICES ASSUME Init PROVE IInv
    OBVIOUS
  <1>1. CycleProof!Init
    BY DEF Init, Lifecycle!Init, CycleProof!Init
  <1>2. PoolProof!Init
    BY DEF Init, Pool!Init, PoolProof!Init
  <1>3. PartsOK
    BY <1>1, <1>2, FreshCycle, PoolAssumed, PoolProof!InitInv, SameProperties
    DEF PartsOK, CycleProof!IInv
  <1>4. Where
    BY <1>1 DEF Init, Where, Pool!Init
  <1> QED  BY <1>3, <1>4 DEF Init, IInv, ModeOK, EngineOK

\* No step of the watcher changes the mode.
LEMMA CycleMode ==
    ASSUME Lifecycle!Build \/ Lifecycle!BeginClose \/ Lifecycle!CloseNext \/ Lifecycle!Closed
    PROVE  mode' = mode
  BY DEF Lifecycle!Build, Lifecycle!BeginClose, Lifecycle!CloseNext, Lifecycle!Closed,
         Lifecycle!Succeed, Lifecycle!FailWatcher, Lifecycle!FailBlock, Lifecycle!FailDnsBlock,
         Lifecycle!ReturnError, Lifecycle!FailDnsAudit, Lifecycle!Unwind,
         Lifecycle!UnwindPanics, Lifecycle!Unwound, Lifecycle!Return

\* The next entry is the first of the allowlist that is not loaded.
LEMMA NextEntry ==
    ASSUME EngineOK, step = "entries", file # NoFile, todo # <<>>
    PROVE  /\ file \in Config
           /\ \E n \in 0..(Len(file.allowlist) - 1) :
                  /\ Head(todo) = file.allowlist[n + 1] /\ Head(todo) \in AllowEntry
                  /\ n + 1 \in DOMAIN file.allowlist
                  /\ Tail(todo) = SubSeq(file.allowlist, (n + 1) + 1, Len(file.allowlist))
                  /\ \A i \in 1..n : Loaded(file.allowlist[i])
  <1>1. file \in Config /\ file.allowlist \in Seq(AllowEntry)
    BY AgentAssumption DEF EngineOK, Config
  <1>2. PICK n \in 0..Len(file.allowlist) :
            /\ todo = SubSeq(file.allowlist, n + 1, Len(file.allowlist))
            /\ \A i \in 1..n : Loaded(file.allowlist[i])
    BY DEF EngineOK
  <1>3. n # Len(file.allowlist)
    <2> SUFFICES ASSUME n = Len(file.allowlist) PROVE FALSE
      OBVIOUS
    <2>1. SubSeq(file.allowlist, n + 1, n) = <<>>
      BY <1>1, SubSeqEmpty
    <2> QED  BY <1>2, <2>1
  <1>4. n \in 0..(Len(file.allowlist) - 1) /\ n + 1 \in 1..Len(file.allowlist)
        /\ Len(file.allowlist) \in Nat
    BY <1>1, <1>3
  <1>5. /\ Head(todo) = file.allowlist[n + 1]
        /\ Tail(todo) = SubSeq(file.allowlist, (n + 1) + 1, Len(file.allowlist))
    BY <1>1, <1>2, <1>4, HeadTailOfSubSeq
  <1>6. file.allowlist[n + 1] \in AllowEntry /\ DOMAIN file.allowlist = 1..Len(file.allowlist)
    BY <1>1, <1>4
  <1> QED  BY <1>1, <1>2, <1>4, <1>5, <1>6

\* The kernel objects and the lookups go on as in their own modules.
LEMMA PartsStep == IInv /\ [Next]_vars => PartsOK'
  <1> SUFFICES ASSUME IInv, [Next]_vars PROVE PartsOK'
    OBVIOUS
  <1> USE DEF watcherVars, poolVars, outcome, inputs
  <1>1. PoolProof!IInv'
    <2>1. PoolProof!Next \/ UNCHANGED poolVars
      <3>1. ASSUME SeedAllowlist PROVE PoolProof!Next
        <4>1. engine.domains \subseteq Domains
          BY <3>1 DEF SeedAllowlist, IInv, ModeOK, EngineOK
        <4> QED  BY <3>1, <4>1, PoolNext DEF SeedAllowlist
      <3>2. ASSUME SeedMain \/ \E d \in Domains : SeedLookup(d) PROVE PoolProof!Next
        BY <3>2, PoolNext DEF SeedMain, SeedLookup
      <3> QED
        BY <3>1, <3>2 DEF Next, MainGoroutine, Configure, ReadFile, RejectFile, LoadEntry,
           RejectEntry, Fail, ResolveMode, RefuseMode, SystemResolvers, NewWatcher,
           WatcherFailed, Announce, Close, Exit, Stop, Kill, vars
    <2>2. [PoolProof!Next]_PoolProof!vars
      BY <2>1 DEF PoolProof!vars
    <2> QED  BY <2>2, PoolAssumed, PoolProof!StepInv DEF IInv, PartsOK
  <1>2. CASE NewWatcher \/ Close
    <2>1. step # "gone" /\ CycleProof!Next
      BY <1>2, CycleNext DEF NewWatcher, Close
    <2>2. CycleProof!IInv' /\ CycleProof!AuditOK'
      BY <2>1, CycleAssumed, CycleProof!StepInv, CycleProof!AuditStep DEF IInv, PartsOK
    <2>3. Lifecycle!TypeOK'
      BY <2>2, SameNext DEF CycleProof!IInv
    <2> QED  BY <1>1, <2>2, <2>3 DEF PartsOK
  <1>3. CASE ResolveMode
    <2>1. CycleProof!Init /\ UNCHANGED watcherVars /\ mode' \in {"audit", "block"}
      BY <1>3 DEF ResolveMode, Configured, ModeRefused, IInv, Where
    <2>2. CycleProof!Init'
      BY <2>1 DEF CycleProof!Init
    <2>3. Lifecycle!TypeOK'
      BY <2>2, FreshCycleNext, SameNext DEF CycleProof!IInv
    <2> QED  BY <1>1, <2>2, <2>3, FreshCycleNext DEF PartsOK
  <1>4. CASE WatcherFailed \/ Kill
    <2>1. step' = "gone" /\ UNCHANGED <<mode, pc, cleanups, w, state>> /\ held' = {}
      BY <1>4 DEF WatcherFailed, Kill
    <2>2. Lifecycle!TypeOK'
      BY <2>1 DEF IInv, PartsOK, Lifecycle!TypeOK, Lifecycle!Plan
    <2> QED  BY <1>1, <2>1, <2>2 DEF PartsOK
  <1>5. CASE ~(NewWatcher \/ Close \/ ResolveMode \/ WatcherFailed \/ Kill)
    <2>1. UNCHANGED <<mode, watcherVars>> /\ (step = "gone" => step' = "gone")
      BY <1>5 DEF Next, MainGoroutine, Configure, ReadFile, RejectFile, LoadEntry,
           RejectEntry, Fail, RefuseMode, SystemResolvers, Configured, SeedAllowlist, SeedMain,
           SeedLookup, Announce, Exit, Stop, vars
    <2>2. UNCHANGED CycleProof!vars
      BY <2>1 DEF CycleProof!vars
    <2>3. step' # "gone" => CycleProof!IInv' /\ CycleProof!AuditOK'
      BY <2>1, <2>2, CycleAssumed, CycleProof!StepInv, CycleProof!AuditStep DEF IInv, PartsOK
    <2>4. Lifecycle!TypeOK'
      BY <2>1 DEF IInv, PartsOK, Lifecycle!TypeOK, Lifecycle!Plan
    <2> QED  BY <1>1, <2>3, <2>4 DEF PartsOK
  <1> QED  BY <1>2, <1>3, <1>4, <1>5

\* run goes through its steps in order, and so does the watcher.
LEMMA WhereStep == IInv /\ [Next]_vars => Where'
  <1> SUFFICES ASSUME IInv, [Next]_vars PROVE Where'
    OBVIOUS
  <1> USE DEF IInv, Where, watcherVars, poolVars, outcome, inputs
  <1>1. CASE ReadFile \/ LoadEntry \/ SystemResolvers
    <2>1. /\ step \in {"load", "entries", "resolvers"} /\ step' \in {"entries", "resolvers", "watcher"}
          /\ UNCHANGED <<mode, watcherVars, poolVars, stop>>
          /\ step' = "resolvers" => step = "resolvers"
      BY <1>1 DEF ReadFile, LoadEntry, SystemResolvers
    <2> QED  BY <2>1 DEF CycleProof!Init
  <1>2. CASE RejectFile \/ RejectEntry \/ RefuseMode
    <2>1. /\ step \in {"load", "entries"} /\ step' = "gone"
          /\ UNCHANGED <<mode, watcherVars, poolVars, stop>>
      BY <1>2 DEF RejectFile, RejectEntry, RefuseMode, Configured, Fail
    <2> QED  BY <2>1 DEF CycleProof!Init
  <1>3. CASE ResolveMode
    <2>1. /\ step \in {"load", "entries"} /\ step' = "resolvers" /\ mode' \in {"audit", "block"}
          /\ UNCHANGED <<watcherVars, poolVars, stop>>
      BY <1>3 DEF ResolveMode, Configured, ModeRefused
    <2> QED  BY <2>1 DEF CycleProof!Init
  <1>4. CASE NewWatcher
    BY <1>4 DEF NewWatcher
  <1>5. CASE WatcherFailed \/ Kill
    BY <1>5 DEF WatcherFailed, Kill
  <1>6. CASE SeedAllowlist
    BY <1>6 DEF SeedAllowlist
  <1>7. ASSUME SeedMain \/ \E d \in Domains : SeedLookup(d) PROVE Where'
    <2>1. step = "seed" /\ UNCHANGED <<step, mode, watcherVars, stop>>
      BY <1>7 DEF SeedMain, SeedLookup
    <2> QED  BY <2>1
  <1>8. CASE Announce \/ Stop("signal") \/ Stop("readError")
    BY <1>8 DEF Announce, Stop
  <1>9. CASE Close
    <2>1. step = "serve" /\ stop # "no" /\ UNCHANGED <<step, stop>>
      BY <1>9 DEF Close
    <2>2. state' \in {"closing", "closed"}
      BY <1>9 DEF Close, Lifecycle!BeginClose, Lifecycle!CloseNext, Lifecycle!Closed
    <2> QED  BY <2>1, <2>2
  <1>10. CASE Exit
    <2>1. step' = "gone" /\ held' = held /\ step # "gone" /\ state = "closed"
      BY <1>10 DEF Exit
    <2>2. held = {}
      BY <2>1 DEF PartsOK, CycleProof!IInv, CycleProof!WholeOrNothing
    <2> QED  BY <2>1, <2>2
  <1>11. CASE UNCHANGED vars
    BY <1>11 DEF vars, CycleProof!Init
  <1> QED
    BY <1>1, <1>2, <1>3, <1>4, <1>5, <1>6, <1>7, <1>8, <1>9, <1>10, <1>11
    DEF Next, MainGoroutine, Configure

\* The mode is resolved from the flag and the engine of the file.
LEMMA ModeStep == IInv /\ [Next]_vars => ModeOK'
  <1> SUFFICES ASSUME IInv, [Next]_vars PROVE ModeOK'
    OBVIOUS
  <1> USE DEF IInv, ModeOK, BlockWanted, watcherVars, poolVars, outcome, inputs
  <1>1. CASE ReadFile
    <2>1. file \in Config /\ file # NoFile /\ Decodes(file)
      BY <1>1, AgentAssumption DEF ReadFile, EngineOK
    <2>2. NewEngine(file) \in Engine /\ NewEngine(file).mode = file.mode
      BY <2>1 DEF NewEngine, Decodes, Config, Engine
    <2>3. engine' # NoEngine /\ engine'.mode = file.mode
      BY <1>1, <2>2, AgentAssumption DEF ReadFile
    <2> QED  BY <1>1, <2>1, <2>3 DEF ReadFile
  <1>2. CASE LoadEntry
    <2>1. engine \in Engine /\ Head(todo) \in AllowEntry
      BY <1>2, NextEntry DEF LoadEntry, EngineOK
    <2>2. engine' \in Engine /\ engine'.mode = engine.mode
      BY <1>2, <2>1, AddEntryIs DEF LoadEntry
    <2> QED  BY <1>2, <2>2, AgentAssumption DEF LoadEntry
  <1>3. CASE ResolveMode
    <2>1. /\ mode' = FlagOrFile /\ step' = "resolvers" /\ UNCHANGED <<file, flag, engine, ready>>
          /\ FlagOrFile \in {"audit", "block"} /\ (FlagOrFile = "block" => engine # NoEngine)
      BY <1>3 DEF ResolveMode, ModeRefused
    <2>2. FlagOrFile = "block" <=> BlockWanted
      <3>1. CASE step = "load" /\ file = NoFile
        BY <3>1 DEF FlagOrFile, ModeFrom
      <3>2. CASE step = "entries"
        BY <3>2 DEF FlagOrFile, ModeFrom
      <3> QED  BY <1>3, <3>1, <3>2 DEF ResolveMode, Configured
    <2> QED  BY <2>1, <2>2
  <1>4. CASE Announce
    <2>1. /\ UNCHANGED <<file, flag, mode, engine>> /\ step \in {"watcher", "seed"} /\ step' = "serve"
          /\ ready' \in {mode, "audit (no policy)"}
      BY <1>4 DEF Announce
    <2>2. mode \in {"audit", "block"}
      BY DEF PartsOK, Lifecycle!TypeOK
    <2> QED  BY <2>1, <2>2
  <1>5. CASE RejectFile \/ RejectEntry \/ RefuseMode
    BY <1>5 DEF RejectFile, RejectEntry, RefuseMode, Fail
  <1>6. CASE NewWatcher \/ Close
    <2>1. UNCHANGED <<file, flag, step, engine, ready>>
      BY <1>6 DEF NewWatcher, Close
    <2>2. mode' = mode
      BY <1>6, CycleMode DEF NewWatcher, Close
    <2> QED  BY <2>1, <2>2
  <1>7. CASE SystemResolvers \/ WatcherFailed \/ SeedAllowlist \/ Exit \/ Kill
    <2>1. /\ UNCHANGED <<file, flag, engine, ready, mode>> /\ step' \in {"watcher", "seed", "gone"}
          /\ step' # "gone" => step \in {"resolvers", "watcher"}
      BY <1>7 DEF SystemResolvers, WatcherFailed, SeedAllowlist, Exit, Kill
    <2> QED  BY <2>1
  <1>8. ASSUME SeedMain \/ (\E d \in Domains : SeedLookup(d)) \/ Stop("signal") \/ Stop("readError")
               \/ UNCHANGED vars
        PROVE  ModeOK'
    <2>1. UNCHANGED <<file, flag, step, engine, ready, mode>>
      BY <1>8 DEF SeedMain, SeedLookup, Stop, vars
    <2> QED  BY <2>1
  <1> QED
    BY <1>1, <1>2, <1>3, <1>4, <1>5, <1>6, <1>7, <1>8 DEF Next, MainGoroutine, Configure

\* An entry that is loaded leaves one more behind.
LEMMA NextIndex ==
    ASSUME NEW l \in Nat, NEW n \in 0..(l - 1)
    PROVE  n + 1 \in 0..l
  OBVIOUS

\* An entry that is loaded stays loaded, and one that is classified becomes so.
LEMMA LoadEntryStep ==
    ASSUME IInv, LoadEntry
    PROVE  /\ engine # NoEngine /\ engine' # NoEngine /\ file # NoFile /\ file' = file
           /\ engine' \in Engine /\ engine'.domains \subseteq Domains
           /\ engine'.domains \cup engine'.wildcards \subseteq
                  {ToLower(Host(file.allowlist[i])) : i \in DOMAIN file.allowlist}
           /\ \E n \in 0..Len(file.allowlist) :
                  /\ todo' = SubSeq(file.allowlist, n + 1, Len(file.allowlist))
                  /\ \A i \in 1..n : Loaded(file.allowlist[i])'
  <1> USE DEF IInv
  <1>1. /\ step = "entries" /\ todo # <<>> /\ Classify(Head(todo)) # "error"
        /\ engine' = AddEntry(engine, Head(todo)) /\ todo' = Tail(todo) /\ UNCHANGED <<file, step>>
    BY DEF LoadEntry, inputs
  <1>2. file # NoFile /\ engine # NoEngine /\ file \in Files
    BY <1>1 DEF ModeOK, EngineOK
  <1>3. /\ engine \in Engine /\ engine.domains \subseteq Domains
        /\ engine.domains \cup engine.wildcards \subseteq
               {ToLower(Host(file.allowlist[i])) : i \in DOMAIN file.allowlist}
    BY <1>2 DEF EngineOK
  <1>4. PICK n \in 0..(Len(file.allowlist) - 1) :
            /\ Head(todo) = file.allowlist[n + 1] /\ Head(todo) \in AllowEntry
            /\ n + 1 \in DOMAIN file.allowlist
            /\ Tail(todo) = SubSeq(file.allowlist, (n + 1) + 1, Len(file.allowlist))
            /\ \A i \in 1..n : Loaded(file.allowlist[i])
    BY <1>1, <1>2, NextEntry
  <1>5. file.allowlist \in Seq(AllowEntry) /\ Len(file.allowlist) \in Nat
    BY <1>1, <1>2, NextEntry DEF Config
  <1> DEFINE e == Head(todo)
  <1>6. /\ engine' \in Engine
        /\ engine'.domains =
               engine.domains \cup (IF Classify(e) = "domains" THEN {ToLower(Host(e))} ELSE {})
        /\ engine'.wildcards =
               engine.wildcards \cup (IF Classify(e) = "wildcards" THEN {ToLower(Host(e))} ELSE {})
        /\ engine'.allowedIP =
               engine.allowedIP \cup (IF Classify(e) = "allowedIP" THEN {e.host} ELSE {})
        /\ engine'.cidrs =
               engine.cidrs \cup (IF Classify(e) = "cidrs" THEN {e.host} ELSE {})
    BY <1>1, <1>3, <1>4, AddEntryIs
  <1>7. engine' # NoEngine
    BY <1>6, AgentAssumption
  <1>8. engine'.domains \subseteq Domains
    <2>1. Classify(e) = "domains" => e.kind \in {"name", "text"} \/ KeepsBrackets(e)
      BY ClassifyIs
    <2>2. Classify(e) = "domains" => ToLower(Host(e)) \in Domains
      BY <1>2, <1>4, <2>1, AgentAssumption
    <2> QED  BY <1>3, <1>6, <2>2
  <1>9. ToLower(Host(e)) \in {ToLower(Host(file.allowlist[i])) : i \in DOMAIN file.allowlist}
    BY <1>4
  <1>10. Loaded(file.allowlist[n + 1])'
    <2>1. /\ Classify(e) \in {"skip", "wildcards", "allowedIP", "cidrs", "domains"}
          /\ e.port # "more"
          /\ Classify(e) = "skip" => e.kind = "empty"
          /\ Classify(e) = "wildcards" => e.kind = "wildcard" /\ Host(e) = e.host
          /\ Classify(e) = "allowedIP" => e.kind \in {"ip", "ip6"}
          /\ Classify(e) = "cidrs" => e.kind \in {"range", "range6"}
          /\ Classify(e) = "domains" =>
                 (e.kind = "name" /\ Host(e) = e.host) \/ LooksLikeName(e)
      BY <1>1, ClassifyIs
    <2>2. file.allowlist[n + 1]' = e
      BY <1>1, <1>4
    <2> HIDE DEF e
    <2> QED  BY <1>6, <2>1, <2>2 DEF Loaded, Matches
  <1>11. ASSUME NEW i \in 1..n PROVE Loaded(file.allowlist[i])'
    <2>1. Loaded(file.allowlist[i]) /\ file' = file
      BY <1>1, <1>4, <1>11
    <2> QED  BY <1>6, <2>1 DEF Loaded, Matches
  <1>12. \A i \in 1..(n + 1) : Loaded(file.allowlist[i])'
    BY <1>1, <1>4, <1>10, <1>11
  <1>13. n + 1 \in 0..Len(file.allowlist)
    <2> DEFINE L == Len(file.allowlist)
    <2>1. L \in Nat /\ n \in 0..(L - 1)
      BY <1>4, <1>5, Zenon
    <2>2. n + 1 \in 0..L
      BY <2>1, NextIndex, Zenon
    <2> QED  BY <2>2
  <1> QED  BY <1>1, <1>2, <1>3, <1>4, <1>6, <1>7, <1>8, <1>9, <1>12, <1>13

\* The engine is filled from the allowlist, entry by entry, and then left alone.
LEMMA EngineStep == IInv /\ [Next]_vars => EngineOK'
  <1> SUFFICES ASSUME IInv, [Next]_vars PROVE EngineOK'
    OBVIOUS
  <1> USE DEF IInv, EngineOK, Loaded, Matches, watcherVars, poolVars, outcome, inputs
  <1>1. CASE ReadFile
    <2>1. /\ file \in Config /\ file # NoFile /\ Decodes(file) /\ UNCHANGED file
          /\ todo' = file.allowlist /\ step' = "entries" /\ engine' = NewEngine(file)
      BY <1>1, AgentAssumption DEF ReadFile
    <2>2. /\ NewEngine(file) \in Engine /\ NewEngine(file).domains = {}
          /\ NewEngine(file).wildcards = {}
      BY <2>1 DEF NewEngine, Decodes, Config, Engine
    <2>3. /\ file.allowlist \in Seq(AllowEntry) /\ Len(file.allowlist) \in Nat
          /\ file.allowlist = SubSeq(file.allowlist, 1, Len(file.allowlist))
      BY <2>1, SubSeqFull DEF Config
    <2>4. \E n \in 0..Len(file.allowlist) :
              /\ todo' = SubSeq(file.allowlist, n + 1, Len(file.allowlist))
              /\ \A i \in 1..n : Loaded(file.allowlist[i])'
      <3> WITNESS 0 \in 0..Len(file.allowlist)
      <3> QED  BY <2>1, <2>3
    <2> QED  BY <2>1, <2>2, <2>4
  <1>2. CASE LoadEntry
    <2>1. step' = "entries"
      BY <1>2 DEF LoadEntry
    <2> QED  BY <1>2, <2>1, LoadEntryStep
  <1>3. CASE ResolveMode
    <2>1. UNCHANGED <<file, engine>> /\ step' = "resolvers" /\ Configured
      BY <1>3 DEF ResolveMode
    <2>2. ASSUME engine # NoEngine PROVE \A i \in DOMAIN file.allowlist : Loaded(file.allowlist[i])
      <3>1. step = "entries" /\ todo = <<>>
        BY <2>1, <2>2 DEF Configured, ModeOK
      <3>2. file \in Config /\ file.allowlist \in Seq(AllowEntry) /\ Len(file.allowlist) \in Nat
        BY <2>2, AgentAssumption DEF Config
      <3>3. PICK n \in 0..Len(file.allowlist) :
                /\ todo = SubSeq(file.allowlist, n + 1, Len(file.allowlist))
                /\ \A i \in 1..n : Loaded(file.allowlist[i])
        BY <3>1
      <3>4. n = Len(file.allowlist)
        <4>1. /\ todo \in Seq(AllowEntry)
              /\ n < Len(file.allowlist) => Len(todo) = Len(file.allowlist) - n
          BY <3>2, <3>3, SubSeqProperties
        <4> QED  BY <3>1, <3>2, <4>1
      <3> QED  BY <3>2, <3>3, <3>4
    <2> QED  BY <2>1, <2>2
  <1>4. CASE RejectFile \/ RejectEntry \/ RefuseMode \/ WatcherFailed \/ Exit \/ Kill
    <2>1. UNCHANGED <<file, engine>> /\ step' = "gone"
      BY <1>4 DEF RejectFile, RejectEntry, RefuseMode, WatcherFailed, Exit, Kill, Fail
    <2> QED  BY <2>1
  <1>5. CASE SystemResolvers \/ SeedAllowlist \/ Announce
    <2>1. /\ UNCHANGED <<file, engine>> /\ step \in {"resolvers", "watcher", "seed"}
          /\ step' \in {"watcher", "seed", "serve"}
      BY <1>5 DEF SystemResolvers, SeedAllowlist, Announce
    <2> QED  BY <2>1
  <1>6. ASSUME NewWatcher \/ Close \/ SeedMain \/ (\E d \in Domains : SeedLookup(d)) \/ Stop("signal")
               \/ Stop("readError") \/ UNCHANGED vars
        PROVE  EngineOK'
    <2>1. UNCHANGED <<file, engine, step, todo>>
      BY <1>6 DEF NewWatcher, Close, SeedMain, SeedLookup, Stop, vars
    <2> QED  BY <2>1
  <1> QED
    BY <1>1, <1>2, <1>3, <1>4, <1>5, <1>6 DEF Next, MainGoroutine, Configure

\* What the nameservers, the reason to stop and the outcome may be.
LEMMA OutcomeStep ==
    IInv /\ [Next]_vars => /\ resolvers' \subseteq Nameserver
                           /\ stop' \in {"no", "signal", "readError"}
                           /\ exit' \in {"no", "ok", "error", "killed"}
  <1> SUFFICES ASSUME IInv, [Next]_vars
               PROVE  /\ resolvers' \subseteq Nameserver
                      /\ stop' \in {"no", "signal", "readError"}
                      /\ exit' \in {"no", "ok", "error", "killed"}
    OBVIOUS
  <1> USE DEF IInv, outcome
  <1>1. resolvers' \subseteq Nameserver
    <2>1. CASE SystemResolvers
      <3>1. \A lines : parseResolvConf(lines) \subseteq Nameserver
        BY DEF parseResolvConf
      <3> QED  BY <2>1, <3>1 DEF SystemResolvers, resolversFrom, NoAddress
    <2>2. CASE ~SystemResolvers
      BY <2>2 DEF Next, MainGoroutine, Configure, ReadFile, RejectFile, LoadEntry, RejectEntry,
         Fail, ResolveMode, RefuseMode, NewWatcher, WatcherFailed, SeedAllowlist, SeedMain,
         SeedLookup, Announce, Close, Exit, Stop, Kill, vars
    <2> QED  BY <2>1, <2>2
  <1>2. stop' \in {"no", "signal", "readError"} /\ exit' \in {"no", "ok", "error", "killed"}
    BY DEF Next, MainGoroutine, Configure, ReadFile, RejectFile, LoadEntry, RejectEntry,
       Fail, ResolveMode, RefuseMode, SystemResolvers, NewWatcher, WatcherFailed, SeedAllowlist,
       SeedMain, SeedLookup, Announce, Close, Exit, Stop, Kill, vars
  <1> QED  BY <1>1, <1>2

\* Every step preserves the invariant.
LEMMA StepInv == IInv /\ [Next]_vars => IInv'
  BY WhereStep, ModeStep, EngineStep, PartsStep, OutcomeStep DEF IInv

\* It holds in every state of a run.
LEMMA Inductive == Spec => []IInv
  <1> QED  BY InitInv, StepInv, PTL DEF Spec

-----------------------------------------------------------------------------
(* Theorems. *)

\* A run, its watcher and its lookup pool have the types their modules
\* declare; the engine holds names of the allowlist only (AddEntry).
THEOREM TypeCorrect == Spec => []TypeOK
  <1>1. IInv => TypeOK
    BY PoolAssumed, SameProperties
    DEF IInv, Where, ModeOK, EngineOK, PartsOK, TypeOK, PoolProof!IInv
  <1> QED  BY <1>1, Inductive, PTL

\* An agent that serves has its hooks attached exactly when the flag, or
\* without it the file, asked for block mode; no other ever has one, and none
\* has one without a policy (resolveMode, newWatcher, attachBlock).
THEOREM ModeIsHonoured == Spec => []EnforcesAsAsked
  <1>1. ASSUME IInv PROVE EnforcesAsAsked
    <2> USE <1>1 DEF IInv, Where, ModeOK, PartsOK
    <2>1. step # "gone" /\ mode # "block" => held \cap Hooks = {}
      BY DEF CycleProof!AuditOK, CycleProof!Hook, Lifecycle!TypeOK, Hooks
    <2>2. step = "serve" /\ stop = "no" => (BlockWanted <=> Hooks \subseteq held)
      <3>1. Hooks \subseteq CycleProof!Resource
        BY CycleProof!Steps DEF CycleProof!Hook, Hooks
      <3> QED  BY <2>1, <3>1 DEF CycleProof!IInv, CycleProof!WholeOrNothing, Hooks
    <2>3. held \cap Hooks # {} => BlockWanted /\ engine # NoEngine
      <3>1. held \cap Hooks # {} => step \in {"watcher", "seed", "serve"}
        BY DEF CycleProof!Init
      <3> QED  BY <2>1, <3>1
    <2> QED  BY <2>2, <2>3 DEF EnforcesAsAsked
  <1> QED  BY <1>1, Inductive, PTL

\* Past newEngine no entry has a port or a colon left over, and each is in the
\* engine as the address, range, wildcard or name that it is, but for empty ones
\* and those that only look like a name (policy.go:97-156).
THEOREM EntriesAllLoaded == Spec => []NoSilentEntry
  <1>1. IInv => NoSilentEntry
    BY DEF IInv, EngineOK, Loaded, NoSilentEntry
  <1> QED  BY <1>1, Inductive, PTL

\* The watcher of a run: newWatcher returns it whole or leaves nothing open,
\* and Close leaves nothing open.
THEOREM WatcherWhole == Spec => []WholeOrNothing
  <1>1. IInv /\ step = "gone" => WholeOrNothing
    BY DEF IInv, Where, WholeOrNothing
  <1>2. IInv /\ step # "gone" => WholeOrNothing
    BY SameProperties DEF IInv, PartsOK, CycleProof!IInv, WholeOrNothing
  <1>3. IInv => WholeOrNothing
    BY <1>1, <1>2
  <1> QED  BY <1>3, Inductive, PTL

\* What an open object of the run's watcher works on is open too, while
\* newWatcher builds, while its cleanup stack unwinds and while Close runs,
\* and a kill leaves none of them behind.
THEOREM NothingOutlivesItsNeeds == Spec => []DependenciesHeld
  <1>1. IInv /\ step = "gone" => DependenciesHeld
    BY DEF IInv, Where, DependenciesHeld, Lifecycle!DependenciesHeld
  <1>2. IInv /\ step # "gone" => DependenciesHeld
    BY SameProperties DEF IInv, PartsOK, CycleProof!IInv, DependenciesHeld
  <1>3. IInv => DependenciesHeld
    BY <1>1, <1>2
  <1> QED  BY <1>3, Inductive, PTL

\* seedAllowlist never has more than maxConcurrentLookups lookups under way,
\* whatever the allowlist and whenever the run stops.
THEOREM LookupsBounded == Spec => []BoundedInFlight
  <1>1. IInv => BoundedInFlight
    BY PoolAssumed, PoolProof!InFlightBounded, SameProperties
    DEF IInv, PartsOK, BoundedInFlight
  <1> QED  BY <1>1, Inductive, PTL

\* seedAllowlist reads its results only when every lookup has left its own.
THEOREM SeedingComplete == Spec => []ResultsComplete
  <1>1. IInv => ResultsComplete
    BY PoolAssumed, PoolProof!NothingMissing, SameProperties
    DEF IInv, PartsOK, ResultsComplete
  <1> QED  BY <1>1, Inductive, PTL

\* A run is one of the lives the steps of a job reckon with: hooks come and go
\* before it serves, a signal closes it only once it serves, and it is gone
\* after that (AgentLife, which JobSteps builds on).
THEOREM RunIsALife == Spec => ImplementsLife
  <1>1. Init => Life!Init
    BY DEF Init, Lifecycle!Init, Life!Init, Stage
  <1>2. IInv /\ [Next]_vars => [Life!Next]_Stage
    <2> SUFFICES ASSUME IInv, [Next]_vars PROVE [Life!Next]_Stage
      OBVIOUS
    <2> USE DEF Stage, IInv, Where, watcherVars, poolVars, outcome, inputs
    <2>1. CASE ReadFile \/ LoadEntry \/ ResolveMode \/ SystemResolvers
      <3>1. /\ step \in {"load", "entries", "resolvers"}
            /\ step' \in {"entries", "resolvers", "watcher"} /\ UNCHANGED <<held, stop>>
        BY <2>1 DEF ReadFile, LoadEntry, ResolveMode, Configured, SystemResolvers
      <3> QED  BY <3>1
    <2>2. CASE RejectFile \/ RejectEntry \/ RefuseMode
      <3>1. step \in {"load", "entries"} /\ step' = "gone"
        BY <2>2 DEF RejectFile, RejectEntry, RefuseMode, Configured, Fail
      <3>2. Stage = "loading" /\ Stage' = "gone"
        BY <3>1 DEF CycleProof!Init
      <3> QED  BY <3>2 DEF Life!Next, Life!Exit
    <2>3. CASE NewWatcher
      <3>1. step = "watcher" /\ stop = "no" /\ UNCHANGED <<step, stop>>
        BY <2>3 DEF NewWatcher
      <3>2. Stage \in {"loading", "attached"} /\ Stage' \in {"loading", "attached"}
        BY <3>1
      <3> QED  BY <3>2 DEF Life!Next, Life!Attach, Life!Detach
    <2>4. CASE WatcherFailed \/ Kill
      <3>1. step # "gone" /\ step' = "gone"
        BY <2>4 DEF WatcherFailed, Kill
      <3>2. Stage \in Life!Stages \ {"gone"} /\ Stage' = "gone"
        BY <3>1 DEF Life!Stages
      <3> QED  BY <3>2 DEF Life!Next, Life!Killed
    <2>5. CASE SeedAllowlist
      BY <2>5 DEF SeedAllowlist
    <2>6. ASSUME SeedMain \/ (\E d \in Domains : SeedLookup(d)) \/ UNCHANGED vars
          PROVE  UNCHANGED Stage
      <3>1. UNCHANGED <<step, stop, held>>
        BY <2>6 DEF SeedMain, SeedLookup, vars
      <3> QED  BY <3>1
    <2>7. CASE Announce
      <3>1. step \in {"watcher", "seed"} /\ step' = "serve" /\ stop' = stop
        BY <2>7 DEF Announce
      <3>2. Stage \in {"loading", "attached"} /\ Stage' = "serving"
        BY <3>1
      <3> QED  BY <3>2 DEF Life!Next, Life!Ready
    <2>8. CASE Stop("signal") \/ Stop("readError")
      <3>1. Stage = "serving" /\ Stage' = "closing"
        BY <2>8 DEF Stop
      <3> QED  BY <3>1 DEF Life!Next, Life!Closing
    <2>9. CASE Close
      BY <2>9 DEF Close
    <2>10. CASE Exit
      <3>1. Stage = "closing" /\ Stage' = "gone"
        BY <2>10 DEF Exit
      <3> QED  BY <3>1 DEF Life!Next, Life!Exit
    <2> QED
      BY <2>1, <2>2, <2>3, <2>4, <2>5, <2>6, <2>7, <2>8, <2>9, <2>10
      DEF Next, MainGoroutine, Configure
  <1> QED  BY <1>1, <1>2, Inductive, PTL DEF Spec, ImplementsLife, Life!Spec

-----------------------------------------------------------------------------
(* A run never comes to a halt half way: RunSettles starts from here.      *)

\* newWatcher does not close what it returned, and the pool is begun before
\* the run waits for it.
Begun ==
    /\ step = "watcher" => state \notin {"closing", "closed"}
    /\ step = "seed" => main # "idle"

\* Wherever the main goroutine is, the guard of one of its steps holds, or a
\* lookup is under way that will make one hold.
GoesOn ==
    /\ step = "watcher" =>
           \/ state = "building" /\ pc \in 1..(Len(Lifecycle!Plan) + 1)
           \/ state \in {"unwinding", "error", "panic"}
           \/ state = "serving" /\ (mode = "audit" \/ (main = "idle" /\ engine # NoEngine))
    /\ step = "seed" => main # "idle" /\ PoolProof!NeverBlocked
    /\ step = "serve" /\ stop # "no" =>
           \/ state \in {"serving", "closed"}
           \/ state = "closing" /\ \/ held = {}
                                   \/ \E i \in 1..Len(Lifecycle!CloseOrder) : Lifecycle!Opens(i)

\* Only newWatcher's own steps run before it returns, and the pool never goes
\* back to where it was before seedAllowlist.
LEMMA BegunStep == IInv /\ Begun /\ [Next]_vars => Begun'
  <1> SUFFICES ASSUME IInv, Begun, [Next]_vars PROVE Begun'
    OBVIOUS
  <1> USE DEF Begun, watcherVars, poolVars, outcome, inputs
  <1>1. CASE NewWatcher
    <2>1. step = "watcher" /\ step' = "watcher" /\ Lifecycle!Build
      BY <1>1 DEF NewWatcher
    <2>2. state' \notin {"closing", "closed"}
      BY <2>1 DEF Lifecycle!Build, Lifecycle!Succeed, Lifecycle!FailWatcher, Lifecycle!FailBlock,
         Lifecycle!FailDnsBlock, Lifecycle!ReturnError, Lifecycle!FailDnsAudit,
         Lifecycle!Unwind, Lifecycle!UnwindPanics, Lifecycle!Unwound, Lifecycle!Return
    <2> QED  BY <2>1, <2>2
  <1>2. CASE SystemResolvers
    <2>1. step' = "watcher" /\ state' = "building"
      BY <1>2 DEF SystemResolvers, IInv, Where, CycleProof!Init
    <2> QED  BY <2>1
  <1>3. CASE SeedAllowlist
    BY <1>3 DEF SeedAllowlist, Pool!Begin
  <1>4. CASE SeedMain
    BY <1>4 DEF SeedMain, Pool!MainStep, Pool!NextDomain, Pool!Acquire, Pool!Spawn, Pool!EndRange,
                Pool!WaitReturns, Pool!WriteResults
  <1>5. ASSUME NEW d \in Domains, SeedLookup(d) PROVE Begun'
    BY <1>5 DEF SeedLookup, Pool!LookupStep, Pool!Store, Pool!Release, Pool!Done
  <1>6. CASE ReadFile \/ LoadEntry \/ ResolveMode \/ RejectFile \/ RejectEntry \/ RefuseMode
             \/ WatcherFailed \/ Kill \/ Exit
    BY <1>6 DEF ReadFile, LoadEntry, ResolveMode, RejectFile, RejectEntry, RefuseMode, Fail,
                WatcherFailed, Kill, Exit
  <1>7. CASE Announce \/ Close \/ Stop("signal") \/ Stop("readError") \/ UNCHANGED vars
    BY <1>7 DEF Announce, Close, Stop, vars
  <1> QED
    BY <1>1, <1>2, <1>3, <1>4, <1>5, <1>6, <1>7 DEF Next, MainGoroutine, Configure

\* From newWatcher to the end of Close the run can always go on: no step of
\* the plan is missing, no token of the lookup pool is lost, and Close, which
\* a signal or a read error leads to, always finds its next object.
THEOREM RunNeverBlocks == Spec => []GoesOn
  <1>1. Init => Begun
    BY DEF Init, Begun
  <1>2. ASSUME IInv, Begun PROVE GoesOn
    <2> USE <1>2 DEF IInv, Begun
    <2>1. ASSUME step = "watcher"
          PROVE  \/ state = "building" /\ pc \in 1..(Len(Lifecycle!Plan) + 1)
                 \/ state \in {"unwinding", "error", "panic"}
                 \/ state = "serving" /\ (mode = "audit" \/ (main = "idle" /\ engine # NoEngine))
      BY <2>1 DEF PartsOK, Lifecycle!TypeOK, Where, ModeOK
    <2>2. PoolProof!NeverBlocked
      BY PoolAssumed, PoolProof!SomebodyReleases DEF PartsOK
    <2>3. ASSUME step = "serve", held # {}
          PROVE  \E i \in 1..Len(Lifecycle!CloseOrder) : Lifecycle!Opens(i)
      <3>1. CycleProof!TypeOK
        BY SameProperties DEF PartsOK
      <3>2. \E i \in 1..Len(CycleProof!CloseOrder) : CycleProof!Opens(i)
        BY <2>3, <3>1, CycleProof!CloseGoesOn
      <3> QED  BY <3>2, CycleLists DEF CycleProof!Opens, Lifecycle!Opens
    <2> QED  BY <2>1, <2>2, <2>3 DEF GoesOn, Where
  <1>3. Spec => []Begun
    BY <1>1, BegunStep, Inductive, PTL DEF Spec
  <1> QED  BY <1>2, <1>3, Inductive, PTL

\* How far newWatcher had got when its unwinding panicked.
Panics ==
    /\ state = "panic" => mode = "block" /\ pc \in 11..14
    /\ step # "gone" => CycleProof!PanicOK

\* The steps of the watcher are those of WatcherLifecycle; no other begins to
\* unwind.
LEMMA PanicsStep == IInv /\ Panics /\ [Next]_vars => Panics'
  <1> SUFFICES ASSUME IInv, Panics, [Next]_vars PROVE Panics'
    OBVIOUS
  <1> USE DEF Panics, watcherVars, poolVars, outcome, inputs
  <1>1. CASE NewWatcher \/ Close
    <2>1. step # "gone" /\ CycleProof!Next
      BY <1>1, CycleNext DEF NewWatcher, Close
    <2>2. CycleProof!PanicOK'
      BY <2>1, CycleAssumed, CycleProof!PanicStep DEF IInv, PartsOK
    <2> QED  BY <2>2 DEF CycleProof!PanicOK
  <1>2. CASE ResolveMode
    <2>1. state' = "building"
      BY <1>2 DEF ResolveMode, Configured, IInv, Where, CycleProof!Init
    <2> QED  BY <2>1 DEF CycleProof!PanicOK
  <1>3. CASE WatcherFailed \/ Kill
    BY <1>3 DEF WatcherFailed, Kill
  <1>4. CASE ~(NewWatcher \/ Close \/ ResolveMode \/ WatcherFailed \/ Kill)
    <2>1. UNCHANGED <<mode, watcherVars>> /\ (step = "gone" => step' = "gone")
      BY <1>4 DEF Next, MainGoroutine, Configure, ReadFile, RejectFile, LoadEntry,
           RejectEntry, Fail, RefuseMode, SystemResolvers, Configured, SeedAllowlist, SeedMain,
           SeedLookup, Announce, Exit, Stop, vars
    <2> QED  BY <2>1 DEF CycleProof!PanicOK
  <1> QED  BY <1>1, <1>2, <1>3, <1>4

\* A run ends by the panic of its own unwinding only when a step of DNS
\* capture fails in block mode; whatever else fails, the comment on the
\* cleanup stack of newWatcher is right.
THEOREM OnlyDnsCapturePanics ==
    Spec => [](state = "panic" =>
                   mode = "block" /\ Lifecycle!Plan[pc] \in Lifecycle!Range(Lifecycle!DnsSteps))
  <1>1. Init => Panics
    BY DEF Init, Lifecycle!Init, Panics, CycleProof!PanicOK
  <1>2. Spec => []Panics
    BY <1>1, PanicsStep, Inductive, PTL DEF Spec
  <1>3. Panics => (state = "panic" =>
                       mode = "block" /\ Lifecycle!Plan[pc] \in Lifecycle!Range(Lifecycle!DnsSteps))
    BY CycleLists, CycleProof!DnsStepsLast DEF Panics
  <1> QED  BY <1>2, <1>3, PTL
=============================================================================
