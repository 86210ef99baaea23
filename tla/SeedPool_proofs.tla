-------------------------- MODULE SeedPool_proofs ---------------------------
(***************************************************************************)
(* Theorems about SeedPool, for any finite number of domains and any       *)
(* capacity of the semaphore.                                              *)
(***************************************************************************)
EXTENDS SeedPool, FiniteSetTheorems, TLAPS

\* Where each domain is: not started while the loop has not reached it or is
\* at it; its slot in the results written once its lookup has returned.
Places ==
    /\ main = "idle" => domains = {}
    /\ IF main \in {"acquire", "spawn"}
       THEN \E d \in domains \ rest : current = {d} ELSE current = {}
    /\ main \in {"wait", "write", "done"} => rest = {}
    /\ \A d \in Domains : lookup[d] = "none" <=> d \notin domains \/ d \in rest \cup current
    /\ \A d \in Domains :
           lookup[d] \in {"stored", "released", "done"} => results[d] # "empty"

\* The WaitGroup counts the goroutines that have not called Done, the one
\* about to be spawned included.
Waited ==
    /\ wg = Cardinality(In({"running", "stored", "released"}))
            + (IF main \in {"acquire", "spawn"} THEN 1 ELSE 0)
    /\ main \in {"write", "done"} => wg = 0

\* The channel holds one token per lookup in flight or about to be spawned.
Tokens ==
    /\ sem = Cardinality(In({"running", "stored"})) + (IF main = "spawn" THEN 1 ELSE 0)
    /\ sem <= MaxConcurrentLookups

IInv == TypeOK /\ Places /\ Waited /\ Tokens

-----------------------------------------------------------------------------
(* Lemmas about the lookups that are at some stage. *)

\* They are finitely many.
LEMMA InType ==
    ASSUME PoolAssumption, NEW stages
    PROVE  /\ IsFiniteSet(In(stages)) /\ Cardinality(In(stages)) \in Nat
           /\ IsFiniteSet(In(stages)') /\ Cardinality(In(stages)') \in Nat
  <1>1. In(stages) \subseteq Domains /\ In(stages)' \subseteq Domains
    BY DEF In
  <1> QED  BY <1>1, FS_Subset, FS_CardinalityType DEF PoolAssumption

\* One that joins them counts for one more.
LEMMA Joins ==
    ASSUME PoolAssumption, NEW stages, NEW d \in Domains, lookup[d] \notin stages,
           In(stages)' = In(stages) \cup {d}
    PROVE  Cardinality(In(stages)') = Cardinality(In(stages)) + 1
  <1>1. d \notin In(stages)
    BY DEF In
  <1> QED  BY <1>1, InType, FS_AddElement

\* One that leaves them counts for one less.
LEMMA Leaves ==
    ASSUME PoolAssumption, NEW stages, NEW d \in Domains, lookup[d] \in stages,
           In(stages)' = In(stages) \ {d}
    PROVE  /\ Cardinality(In(stages)') = Cardinality(In(stages)) - 1
           /\ Cardinality(In(stages)) > 0
  <1>1. d \in In(stages)
    BY DEF In
  <1>2. /\ Cardinality(In(stages) \ {d}) = Cardinality(In(stages)) - 1
        /\ Cardinality(In(stages)) \in Nat /\ Cardinality(In(stages)') \in Nat
    BY <1>1, InType, FS_RemoveElement
  <1> QED  BY <1>2

-----------------------------------------------------------------------------
(* The invariant. *)

\* Before seeding nothing is in flight.
LEMMA InitInv == PoolAssumption /\ Init => IInv
  <1> SUFFICES ASSUME PoolAssumption, Init PROVE IInv
    OBVIOUS
  <1>1. In({"running", "stored", "released"}) = {} /\ In({"running", "stored"}) = {}
    BY DEF Init, In
  <1> QED
    BY <1>1, FS_EmptySet DEF PoolAssumption, Init, IInv, TypeOK, Places, Waited, Tokens

\* Steps of the loop that start no goroutine leave every lookup where it is.
LEMMA LoopStep ==
    ASSUME PoolAssumption, IInv,
           (\E names \in SUBSET Domains : Begin(names)) \/ (\E d \in Domains : NextDomain(d))
               \/ Acquire \/ EndRange \/ WaitReturns \/ WriteResults
    PROVE  IInv'
  <1> DEFINE Flying == In({"running", "stored", "released"})
             Holding == In({"running", "stored"})
  <1>0. UNCHANGED <<lookup, results, Flying, Holding>>
    BY DEF Begin, NextDomain, Acquire, EndRange, WaitReturns, WriteResults, In
  <1>1. Cardinality(Flying) \in Nat /\ Cardinality(Holding) \in Nat
    BY InType
  <1> HIDE DEF Flying, Holding
  <1>2. wg = Cardinality(Flying) + (IF main \in {"acquire", "spawn"} THEN 1 ELSE 0)
        /\ sem = Cardinality(Holding) + (IF main = "spawn" THEN 1 ELSE 0)
    BY DEF IInv, Waited, Tokens, Flying, Holding
  <1> DEFINE Kept ==
                 /\ TypeOK' /\ Places'
                 /\ wg' = Cardinality(Flying) + (IF main' \in {"acquire", "spawn"} THEN 1 ELSE 0)
                 /\ main' \in {"write", "done"} => wg' = 0
                 /\ sem' = Cardinality(Holding) + (IF main' = "spawn" THEN 1 ELSE 0)
                 /\ sem' <= MaxConcurrentLookups
  <1>3. SUFFICES Kept
    BY <1>0 DEF IInv, Waited, Tokens, Flying, Holding
  <1> USE <1>0, <1>1, <1>2 DEF PoolAssumption, IInv, TypeOK, Places, Waited, Tokens
  <1>4. ASSUME NEW names \in SUBSET Domains, Begin(names)
        PROVE  Kept
    BY <1>4 DEF Begin
  <1>5. ASSUME NEW d \in Domains, NextDomain(d)
        PROVE  Kept
    BY <1>5 DEF NextDomain
  <1>6. CASE Acquire
    BY <1>6 DEF Acquire
  <1>7. CASE EndRange \/ WaitReturns \/ WriteResults
    BY <1>7 DEF EndRange, WaitReturns, WriteResults
  <1> QED  BY <1>4, <1>5, <1>6, <1>7

\* A goroutine that starts takes over the token and the count of its domain.
LEMMA SpawnStep ==
    ASSUME PoolAssumption, IInv, Spawn
    PROVE  IInv'
  <1> USE DEF PoolAssumption, IInv
  <1>1. PICK d \in domains \ rest : current = {d}
    BY DEF Spawn, Places
  <1>2. /\ main = "spawn" /\ main' = "range" /\ current' = {}
        /\ UNCHANGED <<domains, rest, sem, wg, results>>
        /\ d \in Domains /\ lookup[d] = "none"
        /\ lookup' = [lookup EXCEPT ![d] = "running"]
    BY <1>1 DEF Spawn, TypeOK, Places
  <1>3. TypeOK' /\ Places'
    BY <1>1, <1>2 DEF TypeOK, Places
  <1>4. /\ In({"running", "stored", "released"})' = In({"running", "stored", "released"}) \cup {d}
        /\ In({"running", "stored"})' = In({"running", "stored"}) \cup {d}
    BY <1>2 DEF In, TypeOK
  <1>5. /\ Cardinality(In({"running", "stored", "released"})')
               = Cardinality(In({"running", "stored", "released"})) + 1
        /\ Cardinality(In({"running", "stored"})') = Cardinality(In({"running", "stored"})) + 1
    BY <1>2, <1>4, Joins
  <1>6. Waited' /\ Tokens'
    BY <1>2, <1>5, InType DEF Waited, Tokens
  <1> QED  BY <1>3, <1>6

\* A lookup that returns writes its own slot and keeps token and count.
LEMMA StoreStep ==
    ASSUME PoolAssumption, IInv, NEW d \in Domains, NEW r \in {"ok", "error"}, Store(d, r)
    PROVE  IInv'
  <1> USE DEF IInv
  <1>1. TypeOK' /\ Places'
    BY DEF Store, TypeOK, Places
  <1>2. UNCHANGED <<In({"running", "stored", "released"}), In({"running", "stored"})>>
    BY DEF Store, TypeOK, In
  <1>3. Waited' /\ Tokens'
    BY <1>2 DEF Store, Waited, Tokens
  <1> QED  BY <1>1, <1>3

\* One that is over gives its token back.
LEMMA ReleaseStep ==
    ASSUME PoolAssumption, IInv, NEW d \in Domains, Release(d)
    PROVE  IInv'
  <1> USE DEF IInv
  <1>1. /\ UNCHANGED In({"running", "stored", "released"})
        /\ In({"running", "stored"})' = In({"running", "stored"}) \ {d}
    BY DEF Release, TypeOK, In
  <1>2. /\ Cardinality(In({"running", "stored"})') = Cardinality(In({"running", "stored"})) - 1
        /\ Cardinality(In({"running", "stored"})) > 0
    BY <1>1, Leaves DEF Release
  <1>3. Waited' /\ Tokens'
    BY <1>1, <1>2, InType DEF Release, Waited, Tokens, PoolAssumption
  <1>4. sem' \in Nat
    BY <1>2, InType DEF Release, Tokens
  <1>5. TypeOK' /\ Places'
    BY <1>4 DEF Release, TypeOK, Places
  <1> QED  BY <1>3, <1>5

\* One that calls Done is counted no more.
LEMMA DoneStep ==
    ASSUME PoolAssumption, IInv, NEW d \in Domains, Done(d)
    PROVE  IInv'
  <1> USE DEF IInv
  <1>1. /\ UNCHANGED In({"running", "stored"})
        /\ In({"running", "stored", "released"})' = In({"running", "stored", "released"}) \ {d}
    BY DEF Done, TypeOK, In
  <1>2. /\ Cardinality(In({"running", "stored", "released"})')
               = Cardinality(In({"running", "stored", "released"})) - 1
        /\ Cardinality(In({"running", "stored", "released"})) > 0
    BY <1>1, Leaves DEF Done
  <1>3. Waited' /\ Tokens'
    BY <1>1, <1>2, InType DEF Done, Waited, Tokens
  <1>4. wg' \in Nat
    BY <1>2, InType DEF Done, Waited
  <1>5. TypeOK' /\ Places'
    BY <1>4 DEF Done, TypeOK, Places
  <1> QED  BY <1>3, <1>5

\* The invariant is inductive.
LEMMA StepInv == PoolAssumption /\ IInv /\ [Next]_vars => IInv'
  <1> SUFFICES ASSUME PoolAssumption, IInv, [Next]_vars PROVE IInv'
    OBVIOUS
  <1>1. CASE UNCHANGED vars
    <2> UNCHANGED <<In({"running", "stored", "released"}), In({"running", "stored"})>>
      BY <1>1 DEF vars, In
    <2> QED  BY <1>1 DEF vars, IInv, TypeOK, Places, Waited, Tokens
  <1>2. CASE Next
    BY <1>2, LoopStep, SpawnStep, StoreStep, ReleaseStep, DoneStep DEF Next, MainStep, LookupStep
  <1> QED  BY <1>1, <1>2

-----------------------------------------------------------------------------
(* What the invariant says. *)

\* A lookup in flight holds a token of the channel.
LEMMA InFlightBounded == PoolAssumption /\ IInv => BoundedInFlight
  BY InType DEF IInv, Tokens, BoundedInFlight, PoolAssumption

\* wg.Wait returns when no goroutine is left: each has stored its result.
LEMMA NothingMissing == PoolAssumption /\ IInv => ResultsComplete
  <1> SUFFICES ASSUME PoolAssumption, IInv, main \in {"write", "done"}, NEW d \in domains
               PROVE  lookup[d] = "done" /\ results[d] # "empty"
    BY DEF ResultsComplete
  <1>1. Cardinality(In({"running", "stored", "released"})) = 0
    BY InType DEF IInv, Waited
  <1>2. In({"running", "stored", "released"}) = {}
    BY <1>1, InType, FS_EmptySet
  <1>3. d \in Domains /\ lookup[d] # "none"
    BY DEF IInv, TypeOK, Places
  <1>4. lookup[d] = "done"
    BY <1>2, <1>3 DEF IInv, TypeOK, In
  <1> QED  BY <1>3, <1>4 DEF IInv, Places

\* maxConcurrentLookups holds at every moment, and the results slice is read
\* complete and when no goroutine can still write it, for every allowlist.
THEOREM PoolCorrect ==
    ASSUME PoolAssumption PROVE Spec => [](TypeOK /\ BoundedInFlight /\ ResultsComplete)
  <1>1. Init => IInv
    BY InitInv
  <1>2. IInv /\ [Next]_vars => IInv'
    BY StepInv
  <1>3. IInv => TypeOK /\ BoundedInFlight /\ ResultsComplete
    BY InFlightBounded, NothingMissing DEF IInv
  <1> QED  BY <1>1, <1>2, <1>3, PTL DEF Spec

-----------------------------------------------------------------------------
(* The loop is never blocked for good: RunSettles starts from here.        *)

\* A full channel, or a counter that is not zero, has a goroutine behind it
\* that will take a token out or call Done, whatever the others do.
NeverBlocked ==
    /\ main = "acquire" =>
           sem < MaxConcurrentLookups \/ \E d \in Domains : lookup[d] \in {"running", "stored"}
    /\ main = "wait" =>
           wg = 0 \/ \E d \in Domains : lookup[d] \in {"running", "stored", "released"}

\* The tokens and the count are those of goroutines that exist.
LEMMA SomebodyReleases == PoolAssumption /\ IInv => NeverBlocked
  <1> SUFFICES ASSUME PoolAssumption, IInv PROVE NeverBlocked
    OBVIOUS
  <1>1. ASSUME NEW stages, Cardinality(In(stages)) # 0
        PROVE  \E d \in Domains : lookup[d] \in stages
    <2>1. In(stages) # {}
      BY <1>1, FS_EmptySet
    <2> QED  BY <2>1 DEF In
  <1>2. ASSUME main = "acquire", ~(sem < MaxConcurrentLookups)
        PROVE  \E d \in Domains : lookup[d] \in {"running", "stored"}
    <2>1. Cardinality(In({"running", "stored"})) # 0
      BY <1>2, InType DEF IInv, Tokens, PoolAssumption
    <2> QED  BY <1>1, <2>1
  <1>3. ASSUME main = "wait", wg # 0
        PROVE  \E d \in Domains : lookup[d] \in {"running", "stored", "released"}
    <2>1. Cardinality(In({"running", "stored", "released"})) # 0
      BY <1>3, InType DEF IInv, Waited
    <2> QED  BY <1>1, <2>1
  <1> QED  BY <1>2, <1>3 DEF NeverBlocked

\* The loop of seedAllowlist that waits for a slot, and the wg.Wait after it,
\* always wait for a goroutine that is there and gives back what it took: no
\* token is lost and none is counted twice.
THEOREM PoolNeverBlocks ==
    ASSUME PoolAssumption PROVE Spec => []NeverBlocked
  <1>1. Init => IInv
    BY InitInv
  <1>2. IInv /\ [Next]_vars => IInv'
    BY StepInv
  <1>3. IInv => NeverBlocked
    BY SomebodyReleases
  <1> QED  BY <1>1, <1>2, <1>3, PTL DEF Spec
=============================================================================
