-------------------------- MODULE WatcherLifecycle --------------------------
(***************************************************************************)
(* How a Watcher comes and goes (internal/ebpf/loader.go, newDNSWatcher    *)
(* and Close in internal/ebpf/dns_watcher.go): newWatcher acquires kernel  *)
(* objects one by one, any of which may fail; a failure releases what the  *)
(* failing function holds itself and then runs the cleanup stack; Close    *)
(* releases what a finished watcher holds.                                 *)
(***************************************************************************)
EXTENDS Naturals, Sequences, SequencesExt

CONSTANTS
    Modes,      \* the modes considered, a subset of {"audit", "block"}
    MayFail     \* the steps that may fail

WatcherSteps == <<"memlock", "objs", "tp", "tpExit", "reader">>
BlockSteps   == <<"blockObjs", "connect4", "connect6", "sendmsg4", "sendmsg6">>
DnsSteps     == <<"dnsObjs", "dnsSocket", "dnsFilter", "dnsReader">>
Step         == Range(WatcherSteps \o BlockSteps \o DnsSteps)

\* Two steps acquire nothing: the rlimit and attaching the socket filter.
Resource == Step \ {"memlock", "dnsFilter"}

LifecycleAssumption ==
    Modes \subseteq {"audit", "block"} /\ MayFail \subseteq Step

VARIABLES
    mode,       \* audit or block
    pc,         \* the next step of the plan
    held,       \* the kernel objects this process has open
    cleanups,   \* the cleanup stack of newWatcher
    w,          \* its named result: "nil" or "watcher"
    state       \* "building", "unwinding", "serving", "closing", and at the
                \* end "error", "panic" or "closed"

vars == <<mode, pc, held, cleanups, w, state>>

Plan == WatcherSteps \o (IF mode = "block" THEN BlockSteps ELSE <<>>) \o DnsSteps

Init ==
    /\ mode \in Modes /\ pc = 1 /\ held = {} /\ cleanups = <<>>
    /\ w = "nil" /\ state = "building"

-----------------------------------------------------------------------------
(* newWatcher. *)

\* Mutant: no cleanup is pushed for the exit tracepoint.
CleanupNoTpExit(step) ==
    CASE step \in {"objs", "tp", "reader"} -> <<step>>
      [] step = "sendmsg6"                 -> <<"block">>
      [] OTHER                             -> <<>>

\* What a step that succeeded pushes; one function releases the whole of
\* attachBlock, once that has returned.
Cleanup(step) ==
    CASE step \in {"objs", "tp", "tpExit", "reader"} -> <<step>>
      [] step = "sendmsg6"                           -> <<"block">>
      [] OTHER                                       -> <<>>

Building == state = "building" /\ pc <= Len(Plan)

\* The watcher is allocated when its reader is open.
Succeed ==
    /\ Building
    /\ held' = held \cup ({Plan[pc]} \cap Resource)
    /\ cleanups' = cleanups \o Cleanup(Plan[pc])
    /\ w' = IF Plan[pc] = "reader" THEN "watcher" ELSE w
    /\ pc' = pc + 1
    /\ UNCHANGED <<mode, state>>

\* `return nil, err` sets the named result before the deferred loop runs.
ReturnError(kept) ==
    /\ held' = kept /\ w' = "nil" /\ state' = "unwinding"
    /\ UNCHANGED <<mode, pc, cleanups>>

\* newWatcher's own steps release nothing themselves ...
FailWatcher ==
    /\ Building /\ Plan[pc] \in Range(WatcherSteps) \cap MayFail
    /\ ReturnError(held)

\* ... attachBlock closes what it attached before the hook that failed ...
FailBlock ==
    /\ Building /\ Plan[pc] \in Range(BlockSteps) \cap MayFail
    /\ ReturnError(held \ Range(BlockSteps))

\* ... and so does newDNSWatcher.  That is fatal in block mode; in audit mode
\* the agent goes on without names.
FailDnsBlock ==
    /\ Building /\ Plan[pc] \in Range(DnsSteps) \cap MayFail /\ mode = "block"
    /\ ReturnError(held \ Range(DnsSteps))

\* Mutant: skips four steps from wherever DNS capture failed.
FailDnsSkipsFour ==
    /\ Building /\ Plan[pc] \in Range(DnsSteps) \cap MayFail /\ mode = "audit"
    /\ held' = held \ Range(DnsSteps)
    /\ pc' = pc + Len(DnsSteps)
    /\ UNCHANGED <<mode, cleanups, w, state>>

FailDnsAudit ==
    /\ Building /\ Plan[pc] \in Range(DnsSteps) \cap MayFail /\ mode = "audit"
    /\ held' = held \ Range(DnsSteps)
    /\ pc' = Len(Plan) + 1
    /\ UNCHANGED <<mode, cleanups, w, state>>

\* The deferred loop runs the cleanups last in, first out.  The one for
\* attachBlock goes through w.
Released(cleanup) == IF cleanup = "block" THEN Range(BlockSteps) ELSE {cleanup}

ThroughNil == Last(cleanups) = "block" /\ w = "nil"

Unwind ==
    /\ state = "unwinding" /\ cleanups # <<>> /\ ~ThroughNil
    /\ held' = held \ Released(Last(cleanups))
    /\ cleanups' = Front(cleanups)
    /\ UNCHANGED <<mode, pc, w, state>>

UnwindPanics ==
    /\ state = "unwinding" /\ cleanups # <<>> /\ ThroughNil
    /\ state' = "panic"
    /\ UNCHANGED <<mode, pc, held, cleanups, w>>

Unwound ==
    /\ state = "unwinding" /\ cleanups = <<>>
    /\ state' = "error"
    /\ UNCHANGED <<mode, pc, held, cleanups, w>>

Return ==
    /\ state = "building" /\ pc = Len(Plan) + 1
    /\ state' = "serving"
    /\ UNCHANGED <<mode, pc, held, cleanups, w>>

-----------------------------------------------------------------------------
(* Close, deferred by run; errors are collected and do not stop it. *)

\* Mutant: the maps are closed before the DNS goroutine's reader.
CloseMapsFirst ==
    <<"sendmsg6", "sendmsg4", "connect6", "connect4", "blockObjs",
      "dnsReader", "dnsSocket", "dnsObjs", "reader", "tpExit", "tp", "objs">>

CloseOrder ==
    <<"dnsReader", "dnsSocket", "dnsObjs",
      "sendmsg6", "sendmsg4", "connect6", "connect4", "blockObjs",
      "reader", "tpExit", "tp", "objs">>

BeginClose == state = "serving" /\ state' = "closing"
              /\ UNCHANGED <<mode, pc, held, cleanups, w>>

\* Fields that are nil are skipped.
Opens(i) == CloseOrder[i] \in held /\ \A j \in 1..(i - 1) : CloseOrder[j] \notin held

CloseNext ==
    /\ state = "closing"
    /\ \E i \in 1..Len(CloseOrder) : Opens(i) /\ held' = held \ {CloseOrder[i]}
    /\ UNCHANGED <<mode, pc, cleanups, w, state>>

Closed ==
    /\ state = "closing" /\ Range(CloseOrder) \cap held = {}
    /\ state' = "closed"
    /\ UNCHANGED <<mode, pc, held, cleanups, w>>

Build ==
    \/ Succeed \/ FailWatcher \/ FailBlock \/ FailDnsBlock \/ FailDnsAudit
    \/ Unwind \/ UnwindPanics \/ Unwound \/ Return

Next == Build \/ BeginClose \/ CloseNext \/ Closed

Spec == Init /\ [][Next]_vars /\ WF_vars(Next)

-----------------------------------------------------------------------------
(* Properties. *)

\* The type invariant of the acquisition and release steps of the watcher.
TypeOK ==
    /\ mode \in Modes /\ pc \in 1..(Len(Plan) + 1)
    /\ held \subseteq Resource
    /\ cleanups \in Seq({"objs", "tp", "tpExit", "reader", "block"})
    /\ w \in {"nil", "watcher"}
    /\ state \in {"building", "unwinding", "serving", "closing", "error",
                  "panic", "closed"}

\* newWatcher and Close: whichever step fails, an error leaves nothing that
\* was acquired open, and neither does Close; a watcher is returned whole, in
\* block mode with all four hooks and DNS capture, in audit mode with DNS
\* capture or without, never with half of it.
WholeOrNothing ==
    /\ state \in {"error", "closed"} => held = {}
    /\ state = "serving" =>
           /\ {"objs", "tp", "tpExit", "reader"} \subseteq held
           /\ w = "watcher"
           /\ mode = "block" => held = Resource
           /\ Range(DnsSteps) \cap held \in {{}, Range(DnsSteps) \cap Resource}

\* What an open object works on is open too, while building, unwinding and
\* closing: links need their programs, the DNS goroutine the tries it fills.
DependenciesHeld ==
    /\ held \cap {"tp", "tpExit", "reader"} # {} => "objs" \in held
    /\ held \cap (Range(BlockSteps) \ {"blockObjs"}) # {} => "blockObjs" \in held
    /\ held \cap {"dnsSocket", "dnsReader"} # {} => "dnsObjs" \in held
    /\ mode = "block" /\ "dnsReader" \in held => "blockObjs" \in held

-----------------------------------------------------------------------------
(* What a comment says and the code does not do. *)

\* newWatcher, on the cleanup stack: on any error the deferred unwind closes
\* the resources in reverse order, which makes it impossible to leak one.  So
\* the unwinding gets to its end.
UnwindCompletes == state # "panic"
=============================================================================
