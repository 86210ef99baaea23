------------------------------ MODULE SeedPool ------------------------------
(***************************************************************************)
(* The lookup phase of seedAllowlist (cmd/agent/main.go): the main         *)
(* goroutine spawns one goroutine per allowlisted domain, never more than  *)
(* MaxConcurrentLookups at a time, waits for all of them, and only then    *)
(* reads the results slice that they write without a lock.                 *)
(***************************************************************************)
EXTENDS Naturals, FiniteSets

CONSTANTS
    Domains,                \* the names an allowlist may hold
    MaxConcurrentLookups    \* capacity of the semaphore channel

PoolAssumption ==
    IsFiniteSet(Domains) /\ MaxConcurrentLookups \in Nat \ {0}

VARIABLES
    main,       \* "idle", "range", "acquire", "spawn", "wait", "write" or "done"
    domains,    \* engine.Domains()
    rest,       \* domains the range loop has not reached
    current,    \* the domain of this iteration, as a set of at most one
    sem,        \* tokens in the semaphore channel
    wg,         \* the WaitGroup counter
    lookup,     \* per domain: "none", "running", "stored", "released", "done"
    results     \* per domain: "empty", "ok" or "error"

vars == <<main, domains, rest, current, sem, wg, lookup, results>>

Init ==
    /\ main = "idle" /\ domains = {} /\ rest = {} /\ current = {}
    /\ sem = 0 /\ wg = 0
    /\ lookup = [d \in Domains |-> "none"]
    /\ results = [d \in Domains |-> "empty"]

-----------------------------------------------------------------------------
(* The main goroutine. *)

\* seedAllowlist asks the engine for its exact names.
Begin(names) ==
    /\ main = "idle"
    /\ main' = "range" /\ domains' = names /\ rest' = names
    /\ UNCHANGED <<current, sem, wg, lookup, results>>

\* Mutant: the counter is raised by the goroutine, after it was started.
NextDomainNoAdd(d) ==
    /\ main = "range" /\ d \in rest
    /\ rest' = rest \ {d} /\ current' = {d}
    /\ main' = "acquire"
    /\ UNCHANGED <<domains, wg, sem, lookup, results>>

\* The next domain of the range loop; wg.Add(1).
NextDomain(d) ==
    /\ main = "range" /\ d \in rest
    /\ rest' = rest \ {d} /\ current' = {d}
    /\ wg' = wg + 1
    /\ main' = "acquire"
    /\ UNCHANGED <<domains, sem, lookup, results>>

\* Mutant: the channel has one slot more.
AcquireOneMore ==
    /\ main = "acquire" /\ sem <= MaxConcurrentLookups
    /\ sem' = sem + 1
    /\ main' = "spawn"
    /\ UNCHANGED <<domains, rest, current, wg, lookup, results>>

\* sem <- struct{}{} blocks while the channel is full.
Acquire ==
    /\ main = "acquire" /\ sem < MaxConcurrentLookups
    /\ sem' = sem + 1
    /\ main' = "spawn"
    /\ UNCHANGED <<domains, rest, current, wg, lookup, results>>

Spawn ==
    /\ main = "spawn"
    /\ lookup' = [d \in Domains |-> IF d \in current THEN "running" ELSE lookup[d]]
    /\ current' = {}
    /\ main' = "range"
    /\ UNCHANGED <<domains, rest, sem, wg, results>>

\* The loop ends; wg.Wait follows.
EndRange ==
    /\ main = "range" /\ rest = {}
    /\ main' = "wait"
    /\ UNCHANGED <<domains, rest, current, sem, wg, lookup, results>>

WaitReturns ==
    /\ main = "wait" /\ wg = 0
    /\ main' = "write"
    /\ UNCHANGED <<domains, rest, current, sem, wg, lookup, results>>

\* The loop over the results, which writes the kernel maps: an error is
\* logged and skipped.  BlockWatcher models the writes themselves.
WriteResults ==
    /\ main = "write"
    /\ main' = "done"
    /\ UNCHANGED <<domains, rest, current, sem, wg, lookup, results>>

-----------------------------------------------------------------------------
(* The goroutine of one domain. *)

\* LookupIP returns, with addresses or an error, at the latest when its
\* context times out; the result is stored in the goroutine's own slot.
Store(d, r) ==
    /\ lookup[d] = "running"
    /\ results' = [results EXCEPT ![d] = r]
    /\ lookup' = [lookup EXCEPT ![d] = "stored"]
    /\ UNCHANGED <<domains, main, rest, current, sem, wg>>

\* Mutant: the token is not taken back.
ReleaseNothing(d) ==
    /\ lookup[d] = "stored"
    /\ lookup' = [lookup EXCEPT ![d] = "released"]
    /\ UNCHANGED <<domains, main, rest, current, sem, wg, results>>

\* The deferred calls run last in, first out: <-sem, then wg.Done.
Release(d) ==
    /\ lookup[d] = "stored"
    /\ sem' = sem - 1
    /\ lookup' = [lookup EXCEPT ![d] = "released"]
    /\ UNCHANGED <<domains, main, rest, current, wg, results>>

Done(d) ==
    /\ lookup[d] = "released"
    /\ wg' = wg - 1
    /\ lookup' = [lookup EXCEPT ![d] = "done"]
    /\ UNCHANGED <<domains, main, rest, current, sem, results>>

MainStep ==
    \/ \E d \in Domains : NextDomain(d)
    \/ Acquire \/ Spawn \/ EndRange \/ WaitReturns \/ WriteResults

LookupStep(d) == Store(d, "ok") \/ Store(d, "error") \/ Release(d) \/ Done(d)

Next == (\E names \in SUBSET Domains : Begin(names)) \/ MainStep
        \/ \E d \in Domains : LookupStep(d)

\* Every goroutine is scheduled, and every lookup has a timeout.
Spec == Init /\ [][Next]_vars /\ WF_vars(MainStep)
             /\ \A d \in Domains : WF_vars(LookupStep(d))

-----------------------------------------------------------------------------
(* Properties. *)

In(stages) == {d \in Domains : lookup[d] \in stages}

\* The type invariant of the bounded lookup pool.
TypeOK ==
    /\ main \in {"idle", "range", "acquire", "spawn", "wait", "write", "done"}
    /\ domains \subseteq Domains /\ rest \subseteq domains /\ current \subseteq Domains
    /\ sem \in Nat /\ wg \in Nat
    /\ lookup \in [Domains -> {"none", "running", "stored", "released", "done"}]
    /\ results \in [Domains -> {"empty", "ok", "error"}]

\* maxConcurrentLookups: the bound holds at every moment, so a large
\* allowlist cannot open an unbounded number of sockets.
BoundedInFlight == Cardinality(In({"running", "stored"})) <= MaxConcurrentLookups

\* The results slice is read only when no goroutine can still write it, and
\* with every slot written: wg.Wait covers every goroutine of the loop.
ResultsComplete ==
    main \in {"write", "done"} =>
        \A d \in domains : lookup[d] = "done" /\ results[d] # "empty"
=============================================================================
