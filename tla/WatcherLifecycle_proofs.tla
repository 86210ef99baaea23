---------------------- MODULE WatcherLifecycle_proofs -----------------------
(***************************************************************************)
(* Theorems about WatcherLifecycle, whichever steps may fail.              *)
(***************************************************************************)
EXTENDS WatcherLifecycle, SequenceTheorems, TLAPS

-----------------------------------------------------------------------------
(* What the plan and the orders list. *)

\* The objects of a watcher without enforcement and names, of block mode and
\* of DNS capture.
Base == {"objs", "tp", "tpExit", "reader"}
Hook == {"connect4", "connect6", "sendmsg4", "sendmsg6"}
Dns  == {"dnsObjs", "dnsSocket", "dnsReader"}

\* The cleanup stack when newWatcher is through.
Pushed == <<"objs", "tp", "tpExit", "reader", "block">>

\* What a stack of n cleanups releases.
OfStack(n) == UNION {Released(Pushed[i]) : i \in 1..n}

\* Which steps there are.
LEMMA Steps ==
    /\ Range(WatcherSteps) = Base \cup {"memlock"}
    /\ Range(BlockSteps) = Hook \cup {"blockObjs"}
    /\ Range(DnsSteps) = Dns \cup {"dnsFilter"}
    /\ Resource = Base \cup Hook \cup Dns \cup {"blockObjs"}
    /\ Range(CloseOrder) = Resource
  BY DEF Range, WatcherSteps, BlockSteps, DnsSteps, Resource, Step, CloseOrder, Base, Hook, Dns

\* The plan, step by step.
LEMMA PlanIs ==
    /\ mode = "audit" =>
           /\ Len(Plan) = 9
           /\ Plan[1] = "memlock" /\ Plan[2] = "objs" /\ Plan[3] = "tp"
           /\ Plan[4] = "tpExit" /\ Plan[5] = "reader" /\ Plan[6] = "dnsObjs"
           /\ Plan[7] = "dnsSocket" /\ Plan[8] = "dnsFilter" /\ Plan[9] = "dnsReader"
    /\ mode = "block" =>
           /\ Len(Plan) = 14
           /\ Plan[1] = "memlock" /\ Plan[2] = "objs" /\ Plan[3] = "tp"
           /\ Plan[4] = "tpExit" /\ Plan[5] = "reader" /\ Plan[6] = "blockObjs"
           /\ Plan[7] = "connect4" /\ Plan[8] = "connect6" /\ Plan[9] = "sendmsg4"
           /\ Plan[10] = "sendmsg6" /\ Plan[11] = "dnsObjs" /\ Plan[12] = "dnsSocket"
           /\ Plan[13] = "dnsFilter" /\ Plan[14] = "dnsReader"
  BY DEF Plan, WatcherSteps, BlockSteps, DnsSteps

\* The only place of each object in the plan.
LEMMA PlaceOf ==
    ASSUME mode \in {"audit", "block"}, NEW j \in 1..Len(Plan)
    PROVE  /\ Plan[j] = "objs" <=> j = 2
           /\ Plan[j] = "tp" <=> j = 3
           /\ Plan[j] = "tpExit" <=> j = 4
           /\ Plan[j] = "reader" <=> j = 5
           /\ Plan[j] = "blockObjs" <=> mode = "block" /\ j = 6
           /\ Plan[j] = "connect4" <=> mode = "block" /\ j = 7
           /\ Plan[j] = "connect6" <=> mode = "block" /\ j = 8
           /\ Plan[j] = "sendmsg4" <=> mode = "block" /\ j = 9
           /\ Plan[j] = "sendmsg6" <=> mode = "block" /\ j = 10
           /\ Plan[j] = "dnsObjs" <=> j = IF mode = "block" THEN 11 ELSE 6
           /\ Plan[j] = "dnsSocket" <=> j = IF mode = "block" THEN 12 ELSE 7
           /\ Plan[j] = "dnsReader" <=> j = IF mode = "block" THEN 14 ELSE 9
  <1>1. CASE mode = "audit"
    <2>1. j \in 1..9
      BY <1>1, PlanIs
    <2>2. j = 1 \/ j = 2 \/ j = 3 \/ j = 4 \/ j = 5 \/ j = 6 \/ j = 7 \/ j = 8 \/ j = 9
      BY <2>1
    <2> QED  BY <1>1, <2>2, PlanIs
  <1>2. CASE mode = "block"
    <2>1. j \in 1..14
      BY <1>2, PlanIs
    <2>2. \/ j = 1 \/ j = 2 \/ j = 3 \/ j = 4 \/ j = 5 \/ j = 6 \/ j = 7
          \/ j = 8 \/ j = 9 \/ j = 10 \/ j = 11 \/ j = 12 \/ j = 13 \/ j = 14
      BY <2>1
    <2> QED  BY <1>2, <2>2, PlanIs
  <1> QED  BY <1>1, <1>2

\* What a stack of each height releases.
LEMMA StackIs ==
    /\ OfStack(0) = {} /\ OfStack(1) = {"objs"} /\ OfStack(2) = {"objs", "tp"}
    /\ OfStack(3) = {"objs", "tp", "tpExit"} /\ OfStack(4) = Base
    /\ OfStack(5) = Base \cup Hook \cup {"blockObjs"}
  BY Steps DEF OfStack, Pushed, Released, Base, Hook

-----------------------------------------------------------------------------
(* The invariant. *)

\* The objects acquired by the steps of the plan before step i.
Acquired(i) == {Plan[j] : j \in 1..(i - 1)} \cap Resource

\* While newWatcher builds, its stack is as high as the steps it has done,
\* and it holds what they acquired; without DNS capture, if that failed in
\* audit mode.
BuildOK ==
    state = "building" =>
        /\ Len(cleanups) = IF pc <= 2 THEN 0 ELSE IF pc <= 6 THEN pc - 2
                           ELSE IF mode = "block" /\ pc > 10 THEN 5 ELSE 4
        /\ w = IF pc > 5 THEN "watcher" ELSE "nil"
        /\ held = Acquired(pc) \/ (mode = "audit" /\ pc = 10 /\ held = Base)

\* The stack is always a bottom part of the whole one, and while it unwinds
\* just what it will release is held.
StackOK ==
    /\ Len(cleanups) <= 5 /\ \A i \in 1..Len(cleanups) : cleanups[i] = Pushed[i]
    /\ state = "unwinding" => held = OfStack(Len(cleanups)) /\ w = "nil"

IInv == TypeOK /\ BuildOK /\ StackOK /\ WholeOrNothing /\ DependenciesHeld

\* The objects acquired before a step, one by one.
LEMMA AcquiredIs ==
    ASSUME mode \in {"audit", "block"}, NEW i \in 1..(Len(Plan) + 1)
    PROVE  /\ Acquired(i) \subseteq Resource
           /\ "objs" \in Acquired(i) <=> i > 2
           /\ "tp" \in Acquired(i) <=> i > 3
           /\ "tpExit" \in Acquired(i) <=> i > 4
           /\ "reader" \in Acquired(i) <=> i > 5
           /\ "blockObjs" \in Acquired(i) <=> mode = "block" /\ i > 6
           /\ "connect4" \in Acquired(i) <=> mode = "block" /\ i > 7
           /\ "connect6" \in Acquired(i) <=> mode = "block" /\ i > 8
           /\ "sendmsg4" \in Acquired(i) <=> mode = "block" /\ i > 9
           /\ "sendmsg6" \in Acquired(i) <=> mode = "block" /\ i > 10
           /\ "dnsObjs" \in Acquired(i) <=> i > IF mode = "block" THEN 11 ELSE 6
           /\ "dnsSocket" \in Acquired(i) <=> i > IF mode = "block" THEN 12 ELSE 7
           /\ "dnsReader" \in Acquired(i) <=> i > IF mode = "block" THEN 14 ELSE 9
  <1>1. \A r \in Resource : r \in Acquired(i) <=> \E j \in 1..(i - 1) : Plan[j] = r
    BY DEF Acquired
  <1>2. Len(Plan) \in Nat /\ Len(Plan) = IF mode = "block" THEN 14 ELSE 9
    BY PlanIs
  <1>3. i \in Nat /\ 1..(i - 1) \subseteq 1..Len(Plan)
    BY <1>2
  <1>4. Acquired(i) \subseteq Resource
    BY DEF Acquired
  <1>5. /\ "objs" \in Acquired(i) <=> i > 2
        /\ "tp" \in Acquired(i) <=> i > 3
        /\ "tpExit" \in Acquired(i) <=> i > 4
        /\ "reader" \in Acquired(i) <=> i > 5
    BY <1>1, <1>2, <1>3, PlaceOf, Steps DEF Base
  <1>6. /\ "blockObjs" \in Acquired(i) <=> mode = "block" /\ i > 6
        /\ "connect4" \in Acquired(i) <=> mode = "block" /\ i > 7
        /\ "connect6" \in Acquired(i) <=> mode = "block" /\ i > 8
        /\ "sendmsg4" \in Acquired(i) <=> mode = "block" /\ i > 9
        /\ "sendmsg6" \in Acquired(i) <=> mode = "block" /\ i > 10
    BY <1>1, <1>2, <1>3, PlaceOf, Steps DEF Hook
  <1>7. /\ "dnsObjs" \in Acquired(i) <=> i > IF mode = "block" THEN 11 ELSE 6
        /\ "dnsSocket" \in Acquired(i) <=> i > IF mode = "block" THEN 12 ELSE 7
        /\ "dnsReader" \in Acquired(i) <=> i > IF mode = "block" THEN 14 ELSE 9
    BY <1>1, <1>2, <1>3, PlaceOf, Steps DEF Dns
  <1> QED  BY <1>4, <1>5, <1>6, <1>7

\* A stack of any height keeps what its objects work on.
LEMMA StackDependencies ==
    ASSUME NEW n \in 0..5, held' = OfStack(n) PROVE DependenciesHeld'
  <1>1. n = 0 \/ n = 1 \/ n = 2 \/ n = 3 \/ n = 4 \/ n = 5
    OBVIOUS
  <1> QED  BY <1>1, StackIs, Steps DEF DependenciesHeld, Base, Hook

\* What a step pushes is what is missing next on the stack.
LEMMA CleanupIs ==
    ASSUME mode \in {"audit", "block"}, NEW i \in 1..Len(Plan)
    PROVE  Cleanup(Plan[i]) = IF i \in 2..5 THEN <<Pushed[i - 1]>>
                              ELSE IF mode = "block" /\ i = 10 THEN <<Pushed[5]>>
                              ELSE <<>>
  <1>1. /\ Plan[i] = "objs" <=> i = 2
        /\ Plan[i] = "tp" <=> i = 3
        /\ Plan[i] = "tpExit" <=> i = 4
        /\ Plan[i] = "reader" <=> i = 5
        /\ Plan[i] = "sendmsg6" <=> mode = "block" /\ i = 10
    BY PlaceOf
  <1>2. /\ Pushed[1] = "objs" /\ Pushed[2] = "tp" /\ Pushed[3] = "tpExit"
        /\ Pushed[4] = "reader" /\ Pushed[5] = "block"
    BY DEF Pushed
  <1>3. i \in Nat /\ (i \in 2..5 <=> i = 2 \/ i = 3 \/ i = 4 \/ i = 5)
    BY PlanIs
  <1> QED  BY <1>1, <1>2, <1>3 DEF Cleanup

\* Nothing is held when newWatcher starts.
LEMMA InitInv == LifecycleAssumption /\ Init => IInv
  <1> SUFFICES ASSUME LifecycleAssumption, Init PROVE IInv
    OBVIOUS
  <1>1. mode \in {"audit", "block"}
    BY DEF Init, LifecycleAssumption
  <1>2. TypeOK
    BY <1>1, PlanIs DEF Init, TypeOK
  <1>3. Acquired(1) = {}
    BY DEF Acquired
  <1> QED
    BY <1>2, <1>3 DEF Init, IInv, BuildOK, StackOK, WholeOrNothing, DependenciesHeld

\* A step that succeeds.
LEMMA SucceedStep == ASSUME LifecycleAssumption, IInv, Succeed PROVE IInv'
  <1> USE DEF IInv
  <1>1. /\ mode \in {"audit", "block"} /\ mode' = mode /\ Plan' = Plan
        /\ state = "building" /\ state' = "building"
        /\ pc \in 1..Len(Plan) /\ Len(Plan) = (IF mode = "block" THEN 14 ELSE 9)
        /\ pc' = pc + 1 /\ pc' \in 1..(Len(Plan) + 1)
    BY PlanIs DEF Succeed, Building, TypeOK, LifecycleAssumption, Plan
  <1>2. held = Acquired(pc) /\ held' = Acquired(pc')
    <2>1. held = Acquired(pc)
      BY <1>1 DEF BuildOK
    <2>2. 1..(pc' - 1) = 1..(pc - 1) \cup {pc}
      BY <1>1
    <2>3. Acquired(pc + 1) = Acquired(pc) \cup ({Plan[pc]} \cap Resource)
      BY <1>1, <2>2 DEF Acquired
    <2> QED  BY <1>1, <2>1, <2>3 DEF Succeed
  <1>3. /\ w' = IF pc' > 5 THEN "watcher" ELSE "nil"
        /\ w' \in {"nil", "watcher"}
    BY <1>1, PlaceOf DEF Succeed, BuildOK, TypeOK
  <1>4. /\ Len(cleanups) \in Nat /\ cleanups \in Seq({"objs", "tp", "tpExit", "reader", "block"})
        /\ Len(cleanups) = IF pc <= 2 THEN 0 ELSE IF pc <= 6 THEN pc - 2
                           ELSE IF mode = "block" /\ pc > 10 THEN 5 ELSE 4
    BY <1>1 DEF BuildOK, TypeOK
  <1>5. /\ cleanups' \in Seq({"objs", "tp", "tpExit", "reader", "block"})
        /\ Len(cleanups') = IF pc' <= 2 THEN 0 ELSE IF pc' <= 6 THEN pc' - 2
                            ELSE IF mode = "block" /\ pc' > 10 THEN 5 ELSE 4
        /\ Len(cleanups') <= 5 /\ \A i \in 1..Len(cleanups') : cleanups'[i] = Pushed[i]
    <2>1. cleanups' = cleanups \o Cleanup(Plan[pc])
      BY DEF Succeed
    <2>2. CASE pc \in 2..5 \/ (mode = "block" /\ pc = 10)
      <3>1. Cleanup(Plan[pc]) = <<Pushed[Len(cleanups) + 1]>> /\ Len(cleanups) + 1 \in 1..5
        <4>1. CASE pc \in 2..5
          <5>1. Cleanup(Plan[pc]) = <<Pushed[pc - 1]>>
            BY <1>1, <4>1, CleanupIs
          <5>2. Len(cleanups) = pc - 2
            BY <1>4, <4>1
          <5> QED  BY <4>1, <5>1, <5>2
        <4>2. CASE mode = "block" /\ pc = 10
          <5>1. Cleanup(Plan[pc]) = <<Pushed[5]>>
            BY <1>1, <4>2, CleanupIs
          <5> QED  BY <1>4, <4>2, <5>1
        <4> QED  BY <2>2, <4>1, <4>2
      <3>2. Pushed[Len(cleanups) + 1] \in {"objs", "tp", "tpExit", "reader", "block"}
        BY <3>1 DEF Pushed
      <3> DEFINE L == Len(cleanups)
                 c == Pushed[L + 1]
                 N == {"objs", "tp", "tpExit", "reader", "block"}
      <3>3. L \in Nat /\ cleanups \in Seq(N) /\ L + 1 \in 1..5 /\ c \in N
            /\ cleanups' = Append(cleanups, c)
        BY <1>4, <2>1, <3>1, <3>2
      <3>4. /\ cleanups' \in Seq(N) /\ Len(cleanups') = L + 1
            /\ \A i \in 1..L : cleanups'[i] = cleanups[i]
            /\ cleanups'[L + 1] = c
        <4> HIDE DEF c, N
        <4> QED  BY ONLY <3>3
      <3>5. \A i \in 1..Len(cleanups') : cleanups'[i] = Pushed[i]
        <4>1. \A i \in 1..L : cleanups'[i] = Pushed[i]
          BY <3>4, Zenon DEF StackOK
        <4>2. \A i \in 1..(L + 1) : i \in 1..L \/ i = L + 1
          BY <3>3
        <4> QED  BY <3>4, <4>1, <4>2, Zenon
      <3>6. L + 1 = IF pc' <= 2 THEN 0 ELSE IF pc' <= 6 THEN pc' - 2
                    ELSE IF mode = "block" /\ pc' > 10 THEN 5 ELSE 4
        BY <1>1, <1>4, <2>2
      <3> QED  BY <3>3, <3>4, <3>5, <3>6
    <2>3. CASE ~(pc \in 2..5 \/ (mode = "block" /\ pc = 10))
      <3>1. Cleanup(Plan[pc]) = <<>>
        BY <1>1, <2>3, CleanupIs
      <3>2. cleanups' = cleanups
        BY <1>4, <2>1, <3>1
      <3>3. pc = 1 \/ pc >= 6
        BY <1>1, <2>3
      <3>4. mode # "block" => pc < 10
        BY <1>1
      <3>5. /\ Len(cleanups') <= 5 /\ \A i \in 1..Len(cleanups') : cleanups'[i] = Pushed[i]
            /\ cleanups' \in Seq({"objs", "tp", "tpExit", "reader", "block"})
        BY <1>4, <3>2 DEF StackOK
      <3>6. CASE pc = 1
        BY <1>1, <1>4, <3>2, <3>5, <3>6
      <3>7. CASE pc >= 6
        <4>1. mode = "block" /\ pc' > 10 <=> mode = "block" /\ pc > 10
          BY <1>1, <2>3, <3>4
        <4>2. Len(cleanups) = IF mode = "block" /\ pc > 10 THEN 5 ELSE 4
          BY <1>1, <1>4, <3>7
        <4> QED  BY <1>1, <3>2, <3>5, <3>7, <4>1, <4>2
      <3> QED  BY <3>3, <3>6, <3>7
    <2> QED  BY <2>2, <2>3
  <1>6. TypeOK'
    BY <1>1, <1>2, <1>3, <1>5, AcquiredIs DEF TypeOK
  <1>7. BuildOK' /\ StackOK'
    BY <1>1, <1>2, <1>3, <1>5 DEF BuildOK, StackOK, Acquired
  <1>8. WholeOrNothing'
    BY <1>1 DEF WholeOrNothing
  <1>9. DependenciesHeld'
    BY <1>1, <1>2, AcquiredIs, Steps DEF DependenciesHeld, Hook
  <1> QED  BY <1>6, <1>7, <1>8, <1>9

\* A step that fails and with it newWatcher: what its own function released
\* leaves just what the stack will.
LEMMA FailStep ==
    ASSUME LifecycleAssumption, IInv, FailWatcher \/ FailBlock \/ FailDnsBlock PROVE IInv'
  <1> USE DEF IInv
  <1>1. /\ mode \in {"audit", "block"} /\ mode' = mode /\ Plan' = Plan
        /\ UNCHANGED <<pc, cleanups>>
        /\ state = "building" /\ state' = "unwinding" /\ w' = "nil"
        /\ pc \in 1..Len(Plan) /\ Len(Plan) = (IF mode = "block" THEN 14 ELSE 9)
    <2>1. Building /\ \E kept : ReturnError(kept)
      BY DEF FailWatcher, FailBlock, FailDnsBlock
    <2> QED  BY <2>1, PlanIs DEF ReturnError, Building, TypeOK, LifecycleAssumption, Plan
  <1>2. held = Acquired(pc)
    BY <1>1 DEF BuildOK
  <1>3. Len(cleanups) = IF pc <= 2 THEN 0 ELSE IF pc <= 6 THEN pc - 2
                        ELSE IF mode = "block" /\ pc > 10 THEN 5 ELSE 4
    BY <1>1 DEF BuildOK
  <1>4. held' = OfStack(Len(cleanups))
    <2>1. CASE FailWatcher
      <3>1. Plan[pc] \in Base \cup {"memlock"} /\ held' = held
        BY <2>1, Steps DEF FailWatcher, ReturnError
      <3>2. pc \in 1..5
        BY <1>1, <3>1, PlanIs, PlaceOf DEF Base
      <3>3. pc = 1 \/ pc = 2 \/ pc = 3 \/ pc = 4 \/ pc = 5
        BY <3>2
      <3>4. /\ held \subseteq Resource /\ held \cap (Hook \cup Dns \cup {"blockObjs"}) = {}
            /\ "objs" \in held <=> pc > 2
            /\ "tp" \in held <=> pc > 3
            /\ "tpExit" \in held <=> pc > 4
            /\ "reader" \notin held
        BY <1>1, <1>2, <3>2, AcquiredIs DEF Hook, Dns
      <3>5. held \subseteq Base
        BY <3>4, Steps
      <3>6. CASE pc = 1 \/ pc = 2
        <4>1. Len(cleanups) = 0 /\ held = {}
          BY <1>3, <3>4, <3>5, <3>6 DEF Base
        <4> QED  BY <3>1, <4>1, StackIs
      <3>7. CASE pc = 3
        <4>1. Len(cleanups) = 1
          BY <1>3, <3>7
        <4>2. "objs" \in held /\ "tp" \notin held /\ "tpExit" \notin held /\ "reader" \notin held
          BY <3>4, <3>7
        <4>3. held = {"objs"}
          BY <3>5, <4>2 DEF Base
        <4> QED  BY <3>1, <4>1, <4>3, StackIs
      <3>8. CASE pc = 4
        <4>1. Len(cleanups) = 2
          BY <1>3, <3>8
        <4>2. "objs" \in held /\ "tp" \in held /\ "tpExit" \notin held /\ "reader" \notin held
          BY <3>4, <3>8
        <4>3. held = {"objs", "tp"}
          BY <3>5, <4>2 DEF Base
        <4> QED  BY <3>1, <4>1, <4>3, StackIs
      <3>9. CASE pc = 5
        <4>1. Len(cleanups) = 3
          BY <1>3, <3>9
        <4>2. "objs" \in held /\ "tp" \in held /\ "tpExit" \in held /\ "reader" \notin held
          BY <3>4, <3>9
        <4>3. held = {"objs", "tp", "tpExit"}
          BY <3>5, <4>2 DEF Base
        <4> QED  BY <3>1, <4>1, <4>3, StackIs
      <3> QED  BY <3>3, <3>6, <3>7, <3>8, <3>9
    <2>2. CASE FailBlock
      <3>1. Plan[pc] \in Hook \cup {"blockObjs"} /\ held' = held \ (Hook \cup {"blockObjs"})
        BY <2>2, Steps DEF FailBlock, ReturnError
      <3>2. mode = "block" /\ pc \in 6..10
        BY <1>1, <3>1, PlaceOf DEF Hook
      <3>3. Len(cleanups) = 4
        BY <1>3, <3>2
      <3> QED  BY <1>1, <1>2, <3>1, <3>2, <3>3, AcquiredIs, StackIs, Steps DEF Base, Hook, Dns
    <2>3. CASE FailDnsBlock
      <3>1. /\ Plan[pc] \in Dns \cup {"dnsFilter"} /\ held' = held \ (Dns \cup {"dnsFilter"})
            /\ mode = "block"
        BY <2>3, Steps DEF FailDnsBlock, ReturnError
      <3>2. pc \in 11..14
        BY <1>1, <3>1, PlanIs, PlaceOf DEF Dns
      <3>3. Len(cleanups) = 5
        BY <1>3, <3>1, <3>2
      <3> QED  BY <1>1, <1>2, <3>1, <3>2, <3>3, AcquiredIs, StackIs, Steps DEF Base, Hook, Dns
    <2> QED  BY <2>1, <2>2, <2>3
  <1>5. TypeOK'
    <2>1. held' \subseteq held
      BY DEF FailWatcher, FailBlock, FailDnsBlock, ReturnError
    <2> QED  BY <1>1, <2>1 DEF TypeOK
  <1>6. BuildOK' /\ StackOK' /\ WholeOrNothing'
    BY <1>1, <1>4 DEF BuildOK, StackOK, WholeOrNothing, OfStack
  <1>7. DependenciesHeld'
    BY <1>1, <1>3, <1>4, StackDependencies DEF StackOK
  <1> QED  BY <1>5, <1>6, <1>7

\* DNS capture that fails in audit mode is given up whole.
LEMMA GiveUpStep == ASSUME LifecycleAssumption, IInv, FailDnsAudit PROVE IInv'
  <1> USE DEF IInv
  <1>1. /\ mode = "audit" /\ mode' = mode /\ Plan' = Plan /\ Len(Plan) = 9
        /\ UNCHANGED <<cleanups, w, state>>
        /\ state = "building" /\ pc \in 1..9 /\ pc' = 10
        /\ held' = held \ Range(DnsSteps) /\ Plan[pc] \in Range(DnsSteps)
    BY PlanIs DEF FailDnsAudit, Building, TypeOK, Plan
  <1>2. pc \in 6..9
    BY <1>1, PlanIs, PlaceOf, Steps DEF Dns
  <1>3. held' = Base
    <2>1. held = Acquired(pc) /\ pc \in 1..(Len(Plan) + 1)
      BY <1>1 DEF BuildOK
    <2>2. held \subseteq Resource /\ Base \subseteq held /\ held \cap (Hook \cup {"blockObjs"}) = {}
      <3>1. pc > 2 /\ pc > 3 /\ pc > 4 /\ pc > 5 /\ mode # "block" /\ mode \in {"audit", "block"}
        BY <1>1, <1>2
      <3>2. Acquired(pc) \subseteq Resource /\ {"objs", "tp", "tpExit", "reader"} \subseteq Acquired(pc)
        BY <2>1, <3>1, AcquiredIs
      <3>3. /\ "blockObjs" \notin Acquired(pc)
            /\ "connect4" \notin Acquired(pc) /\ "connect6" \notin Acquired(pc)
            /\ "sendmsg4" \notin Acquired(pc) /\ "sendmsg6" \notin Acquired(pc)
        BY <2>1, <3>1, AcquiredIs
      <3> QED  BY <2>1, <3>2, <3>3 DEF Base, Hook
    <2>3. Resource \subseteq Base \cup Hook \cup {"blockObjs"} \cup Range(DnsSteps)
          /\ Base \cap Range(DnsSteps) = {}
      BY Steps DEF Base, Hook, Dns
    <2> QED  BY <1>1, <2>2, <2>3
  <1>4. TypeOK'
    BY <1>1, <1>3, Steps DEF TypeOK
  <1>5. BuildOK' /\ StackOK'
    <2>1. Len(cleanups) = 4 /\ w = "watcher"
      <3>1. pc > 2 /\ pc > 5 /\ pc <= 10 /\ (pc <= 6 => pc = 6) /\ mode # "block"
        BY <1>1, <1>2
      <3>2. /\ Len(cleanups) = IF pc <= 2 THEN 0 ELSE IF pc <= 6 THEN pc - 2
                               ELSE IF mode = "block" /\ pc > 10 THEN 5 ELSE 4
            /\ w = IF pc > 5 THEN "watcher" ELSE "nil"
        BY <1>1 DEF BuildOK
      <3> QED  BY <1>1, <3>1, <3>2
    <2> QED  BY <1>1, <1>3, <2>1 DEF BuildOK, StackOK
  <1>6. WholeOrNothing' /\ DependenciesHeld'
    BY <1>1, <1>3, Steps DEF WholeOrNothing, DependenciesHeld, Base, Hook
  <1> QED  BY <1>4, <1>5, <1>6

\* A cleanup releases the top of the stack.
LEMMA UnwindStep == ASSUME LifecycleAssumption, IInv, Unwind PROVE IInv'
  <1> USE DEF IInv
  <1>1. /\ UNCHANGED <<mode, pc, w, state>> /\ state = "unwinding" /\ Plan' = Plan
        /\ cleanups \in Seq({"objs", "tp", "tpExit", "reader", "block"}) /\ cleanups # <<>>
        /\ held = OfStack(Len(cleanups))
    BY DEF Unwind, TypeOK, StackOK, Plan
  <1>2. PICK n \in 0..4 : Len(cleanups) = n + 1 /\ cleanups[n + 1] = Pushed[n + 1]
    <2>0. Len(cleanups) \in Nat /\ Len(cleanups) # 0
      BY <1>1, EmptySeq, LenProperties
    <2>3. Len(cleanups) <= 5
      BY DEF StackOK
    <2>1. \A k \in Nat : k # 0 /\ k <= 5 => k \in 1..5 /\ k - 1 \in 0..4 /\ k = (k - 1) + 1
      OBVIOUS
    <2>2. /\ Len(cleanups) \in 1..5 /\ Len(cleanups) - 1 \in 0..4
          /\ Len(cleanups) = (Len(cleanups) - 1) + 1
      BY ONLY <2>0, <2>1, <2>3
    <2> QED  BY <2>2 DEF StackOK
  <1>3. /\ cleanups' \in Seq({"objs", "tp", "tpExit", "reader", "block"})
        /\ Len(cleanups') = n /\ \A i \in 1..n : cleanups'[i] = Pushed[i]
    <2>1. cleanups' = SubSeq(cleanups, 1, n)
      BY <1>2 DEF Unwind, Front
    <2>2. n + 1 \in Nat /\ 1 \in Int /\ n \in Int
      OBVIOUS
    <2>3. /\ SubSeq(cleanups, 1, n) \in Seq({"objs", "tp", "tpExit", "reader", "block"})
          /\ Len(SubSeq(cleanups, 1, n)) = n
          /\ \A i \in 1..n : SubSeq(cleanups, 1, n)[i] = cleanups[i]
      BY <1>1, <1>2, <2>2
    <2> QED  BY <1>2, <2>1, <2>3 DEF StackOK
  <1>4. Last(cleanups) = Pushed[n + 1]
    BY <1>2 DEF Last
  <1>5. held' = OfStack(n)
    <2>1. held' = OfStack(n + 1) \ Released(Pushed[n + 1])
      BY <1>1, <1>2, <1>4 DEF Unwind
    <2>2. n = 0 \/ n = 1 \/ n = 2 \/ n = 3 \/ n = 4
      OBVIOUS
    <2>3. /\ Released(Pushed[1]) = {"objs"} /\ Released(Pushed[2]) = {"tp"}
          /\ Released(Pushed[3]) = {"tpExit"} /\ Released(Pushed[4]) = {"reader"}
          /\ Released(Pushed[5]) = Hook \cup {"blockObjs"}
      BY Steps DEF Released, Pushed
    <2> QED  BY <2>1, <2>2, <2>3, StackIs DEF Base, Hook
  <1>6. TypeOK'
    BY <1>1, <1>3 DEF TypeOK, Unwind
  <1>7. BuildOK' /\ StackOK' /\ WholeOrNothing'
    BY <1>1, <1>3, <1>5 DEF BuildOK, StackOK, WholeOrNothing, OfStack
  <1>8. DependenciesHeld'
    BY <1>5, StackDependencies
  <1> QED  BY <1>6, <1>7, <1>8

\* The steps that only end a stage: the watcher is whole, the stack empty or
\* nothing is left open.
LEMMA StageStep ==
    ASSUME LifecycleAssumption, IInv, UnwindPanics \/ Unwound \/ Return \/ BeginClose \/ Closed
    PROVE  IInv'
  <1> USE DEF IInv
  <1>1. /\ mode \in {"audit", "block"} /\ UNCHANGED <<mode, pc, held, cleanups, w>> /\ Plan' = Plan
    BY DEF UnwindPanics, Unwound, Return, BeginClose, Closed, TypeOK, LifecycleAssumption, Plan
  <1>2. state' \notin {"building", "unwinding"} /\ TypeOK' /\ BuildOK' /\ StackOK' /\ DependenciesHeld'
    BY <1>1 DEF UnwindPanics, Unwound, Return, BeginClose, Closed, TypeOK, BuildOK, StackOK,
                DependenciesHeld
  <1>3. CASE UnwindPanics \/ BeginClose
    BY <1>2, <1>3 DEF UnwindPanics, BeginClose, WholeOrNothing
  <1>4. CASE Unwound
    <2> held = {}
      BY <1>4, StackIs DEF Unwound, StackOK
    <2> QED  BY <1>1, <1>2, <1>4 DEF Unwound, WholeOrNothing
  <1>5. CASE Closed
    <2> held = {}
      BY <1>5, Steps DEF Closed, TypeOK
    <2> QED  BY <1>1, <1>2, <1>5 DEF Closed, WholeOrNothing
  <1>6. CASE Return
    <2>1. state = "building" /\ pc = Len(Plan) + 1 /\ Len(Plan) = (IF mode = "block" THEN 14 ELSE 9)
      BY <1>1, <1>6, PlanIs DEF Return
    <2>2. /\ w = "watcher" /\ Base \subseteq held
          /\ mode = "block" => held = Resource
          /\ held \cap Dns \in {{}, Dns}
      <3>1. w = "watcher"
        BY <2>1 DEF BuildOK
      <3>2. CASE held = Base
        <4>1. mode = "audit" \/ held = Acquired(pc)
          BY <2>1 DEF BuildOK
        <4>2. pc \in 1..(Len(Plan) + 1)
          BY DEF TypeOK
        <4>3. mode # "block"
          BY <1>1, <2>1, <3>2, <4>1, <4>2, AcquiredIs DEF Base
        <4> QED  BY <3>1, <3>2, <4>3 DEF Base, Dns
      <3>3. CASE held = Acquired(pc)
        <4>1. pc \in 1..(Len(Plan) + 1)
          BY DEF TypeOK
        <4>2. held \subseteq Resource /\ Base \subseteq held /\ Dns \subseteq held
          <5>1. pc = IF mode = "block" THEN 15 ELSE 10
            BY <2>1
          <5>2. Acquired(pc) \subseteq Resource
                /\ {"objs", "tp", "tpExit", "reader"} \subseteq Acquired(pc)
            BY <1>1, <4>1, <5>1, AcquiredIs
          <5>3. {"dnsObjs", "dnsSocket", "dnsReader"} \subseteq Acquired(pc)
            BY <1>1, <4>1, <5>1, AcquiredIs
          <5> QED  BY <3>3, <5>2, <5>3 DEF Base, Dns
        <4>3. mode = "block" => Hook \cup {"blockObjs"} \subseteq held
          <5> SUFFICES ASSUME mode = "block" PROVE Hook \cup {"blockObjs"} \subseteq held
            OBVIOUS
          <5>1. pc = 15
            BY <2>1
          <5>2. /\ "blockObjs" \in Acquired(pc)
                /\ "connect4" \in Acquired(pc) /\ "connect6" \in Acquired(pc)
                /\ "sendmsg4" \in Acquired(pc) /\ "sendmsg6" \in Acquired(pc)
            BY <4>1, <5>1, AcquiredIs
          <5> QED  BY <3>3, <5>2 DEF Hook
        <4> QED  BY <3>1, <4>2, <4>3, Steps
      <3> QED  BY <2>1, <3>2, <3>3 DEF BuildOK
    <2>3. Range(DnsSteps) \cap held = held \cap Dns /\ Range(DnsSteps) \cap Resource = Dns
      BY Steps DEF TypeOK, Base, Hook, Dns
    <2> QED  BY <1>1, <1>2, <1>6, <2>2, <2>3 DEF Return, WholeOrNothing, Base
  <1> QED  BY <1>2, <1>3, <1>4, <1>5, <1>6

\* Close goes through the objects in an order in which none is closed before
\* what works on it.
LEMMA CloseStep == ASSUME LifecycleAssumption, IInv, CloseNext PROVE IInv'
  <1> USE DEF IInv
  <1>1. /\ UNCHANGED <<mode, pc, cleanups, w, state>> /\ state = "closing" /\ Plan' = Plan
    BY DEF CloseNext, Plan
  <1>2. PICK i \in 1..Len(CloseOrder) : Opens(i) /\ held' = held \ {CloseOrder[i]}
    BY DEF CloseNext
  <1>3. TypeOK' /\ BuildOK' /\ StackOK' /\ WholeOrNothing'
    BY <1>1, <1>2 DEF TypeOK, BuildOK, StackOK, WholeOrNothing
  <1>4. /\ Len(CloseOrder) = 12
        /\ CloseOrder[1] = "dnsReader" /\ CloseOrder[2] = "dnsSocket" /\ CloseOrder[3] = "dnsObjs"
        /\ CloseOrder[4] = "sendmsg6" /\ CloseOrder[5] = "sendmsg4" /\ CloseOrder[6] = "connect6"
        /\ CloseOrder[7] = "connect4" /\ CloseOrder[8] = "blockObjs" /\ CloseOrder[9] = "reader"
        /\ CloseOrder[10] = "tpExit" /\ CloseOrder[11] = "tp" /\ CloseOrder[12] = "objs"
    BY DEF CloseOrder
  <1>5. /\ CloseOrder[i] = "dnsObjs" => held \cap {"dnsReader", "dnsSocket"} = {}
        /\ CloseOrder[i] = "blockObjs" => held \cap (Hook \cup {"dnsReader"}) = {}
        /\ CloseOrder[i] = "objs" => held \cap {"tp", "tpExit", "reader"} = {}
    <2>1. \/ i = 1 \/ i = 2 \/ i = 3 \/ i = 4 \/ i = 5 \/ i = 6 \/ i = 7
          \/ i = 8 \/ i = 9 \/ i = 10 \/ i = 11 \/ i = 12
      BY <1>4
    <2>2. /\ CloseOrder[i] = "dnsObjs" => i = 3
          /\ CloseOrder[i] = "blockObjs" => i = 8
          /\ CloseOrder[i] = "objs" => i = 12
      BY <1>4, <2>1
    <2>3. \A j \in 1..(i - 1) : CloseOrder[j] \notin held
      BY <1>2 DEF Opens
    <2>4. i = 3 => CloseOrder[1] \notin held /\ CloseOrder[2] \notin held
      BY <2>3
    <2>5. i = 8 => \A j \in {1, 4, 5, 6, 7} : CloseOrder[j] \notin held
      BY <2>3
    <2>6. i = 12 => \A j \in {9, 10, 11} : CloseOrder[j] \notin held
      BY <2>3
    <2> QED  BY <1>4, <2>2, <2>4, <2>5, <2>6 DEF Hook
  <1>6. DependenciesHeld'
    BY <1>1, <1>2, <1>5, Steps DEF DependenciesHeld, Hook
  <1> QED  BY <1>3, <1>6

\* The invariant is inductive.
LEMMA StepInv == LifecycleAssumption /\ IInv /\ [Next]_vars => IInv'
  <1> SUFFICES ASSUME LifecycleAssumption, IInv, [Next]_vars PROVE IInv'
    OBVIOUS
  <1>1. CASE UNCHANGED vars
    <2>1. /\ mode' = mode /\ pc' = pc /\ held' = held /\ cleanups' = cleanups
          /\ w' = w /\ state' = state
      BY <1>1, Zenon DEF vars
    <2>2. Plan' = Plan
      BY <2>1, Zenon DEF Plan
    <2>3. TypeOK'
      BY <2>1, <2>2, Zenon DEF IInv, TypeOK
    <2>4. BuildOK'
      BY <2>1, <2>2, Zenon DEF IInv, BuildOK, Acquired
    <2>5. StackOK'
      BY <2>1, Zenon DEF IInv, StackOK
    <2>6. WholeOrNothing'
      BY <2>1, <2>2, Zenon DEF IInv, WholeOrNothing
    <2>7. DependenciesHeld'
      BY <2>1, <2>2, Zenon DEF IInv, DependenciesHeld
    <2> QED  BY <2>3, <2>4, <2>5, <2>6, <2>7 DEF IInv
  <1>2. CASE Next
    BY <1>2, SucceedStep, FailStep, GiveUpStep, UnwindStep, StageStep, CloseStep DEF Next, Build
  <1> QED  BY <1>1, <1>2

\* In audit mode nothing of block mode is ever there.
AuditOK == mode = "audit" => held \cap (Hook \cup {"blockObjs"}) = {}

\* The audit plan has no such step.
LEMMA AuditStep == LifecycleAssumption /\ IInv /\ AuditOK /\ [Next]_vars => AuditOK'
  <1> SUFFICES ASSUME LifecycleAssumption, IInv, AuditOK, [Next]_vars, mode = "audit"
               PROVE  held' \cap (Hook \cup {"blockObjs"}) = {}
    BY DEF AuditOK, Next, vars, Build, Succeed, FailWatcher, FailBlock, FailDnsBlock,
           FailDnsAudit, ReturnError, Unwind, UnwindPanics, Unwound, Return, BeginClose,
           CloseNext, Closed
  <1>1. CASE Succeed
    <2>1. pc \in 1..Len(Plan)
      BY <1>1 DEF Succeed, Building, IInv, TypeOK
    <2>2. Plan[pc] \notin Hook \cup {"blockObjs"}
      BY <2>1, PlaceOf DEF Hook
    <2> QED  BY <1>1, <2>2 DEF Succeed, AuditOK
  <1>2. CASE ~Succeed
    <2> held' \subseteq held
      BY <1>2 DEF Next, vars, Build, FailWatcher, FailBlock, FailDnsBlock, FailDnsAudit,
                  ReturnError, Unwind, UnwindPanics, Unwound, Return, BeginClose, CloseNext, Closed
    <2> QED  BY DEF AuditOK
  <1> QED  BY <1>1, <1>2

\* newWatcher and Close, whichever steps fail: what is returned is whole, an
\* error and Close leave nothing open, and at no moment is an object open
\* without what it works on.
THEOREM LifecycleCorrect ==
    ASSUME LifecycleAssumption PROVE Spec => [](TypeOK /\ WholeOrNothing /\ DependenciesHeld)
  <1>1. Init => IInv
    BY InitInv
  <1>2. IInv /\ [Next]_vars => IInv'
    BY StepInv
  <1>3. IInv => TypeOK /\ WholeOrNothing /\ DependenciesHeld
    BY DEF IInv
  <1> QED  BY <1>1, <1>2, <1>3, PTL DEF Spec

-----------------------------------------------------------------------------
(* How far the unwinding gets, and that Close always goes on.              *)

\* The stack has its last cleanup only when attachBlock has returned, so that
\* what fails with it there is DNS capture.
PanicOK ==
    /\ state = "unwinding" /\ Len(cleanups) = 5 => mode = "block" /\ pc \in 11..14
    /\ state = "panic" =>
           mode = "block" /\ pc \in 11..14 /\ held = Resource \ Range(DnsSteps)

\* Only the failure of a step starts to unwind, only the cleanup of
\* attachBlock panics.
LEMMA PanicStep == LifecycleAssumption /\ IInv /\ PanicOK /\ [Next]_vars => PanicOK'
  <1> SUFFICES ASSUME LifecycleAssumption, IInv, PanicOK, [Next]_vars PROVE PanicOK'
    OBVIOUS
  <1> USE DEF IInv, PanicOK
  <1>1. CASE FailWatcher \/ FailBlock \/ FailDnsBlock
    <2>1. /\ mode \in {"audit", "block"} /\ UNCHANGED <<mode, pc, cleanups>>
          /\ state = "building" /\ state' = "unwinding"
          /\ pc \in 1..Len(Plan) /\ Len(Plan) = (IF mode = "block" THEN 14 ELSE 9)
      <3>1. Building /\ \E kept : ReturnError(kept)
        BY <1>1 DEF FailWatcher, FailBlock, FailDnsBlock
      <3> QED  BY <3>1, PlanIs DEF ReturnError, Building, TypeOK, LifecycleAssumption
    <2>2. Len(cleanups) = 5 => mode = "block" /\ pc > 10
      BY <2>1 DEF BuildOK
    <2> QED  BY <2>1, <2>2
  <1>2. CASE UnwindPanics
    <2>1. /\ UNCHANGED <<mode, pc, held, cleanups>> /\ state = "unwinding"
          /\ cleanups # <<>> /\ Last(cleanups) = "block"
      BY <1>2 DEF UnwindPanics, ThroughNil
    <2>2. Len(cleanups) \in 1..5
      <3>1. Len(cleanups) \in Nat /\ Len(cleanups) # 0 /\ Len(cleanups) <= 5
        BY <2>1, EmptySeq, LenProperties DEF TypeOK, StackOK
      <3>2. \A k \in Nat : k # 0 /\ k <= 5 => k \in 1..5
        OBVIOUS
      <3> QED  BY ONLY <3>1, <3>2
    <2>3. Len(cleanups) = 5
      <3>1. Pushed[Len(cleanups)] = "block"
        BY <2>1, <2>2 DEF StackOK, Last
      <3>2. \A n \in 1..5 : Pushed[n] = "block" => n = 5
        BY DEF Pushed
      <3> QED  BY <2>2, <3>1, <3>2
    <2>4. held = Resource \ Range(DnsSteps)
      BY <2>1, <2>3, StackIs, Steps DEF StackOK, Base, Hook, Dns
    <2> QED  BY <1>2, <2>1, <2>3, <2>4 DEF UnwindPanics
  <1>3. CASE Unwind
    <2>1. /\ cleanups \in Seq({"objs", "tp", "tpExit", "reader", "block"})
          /\ cleanups # <<>> /\ Len(cleanups) <= 5
      BY <1>3 DEF Unwind, TypeOK, StackOK
    <2>2. PICK n \in 0..4 : Len(cleanups) = n + 1
      <3>1. Len(cleanups) \in Nat /\ Len(cleanups) # 0 /\ Len(cleanups) <= 5
        BY <2>1, EmptySeq, LenProperties
      <3>2. \A k \in Nat : k # 0 /\ k <= 5 => k - 1 \in 0..4 /\ k = (k - 1) + 1
        OBVIOUS
      <3> QED  BY ONLY <3>1, <3>2
    <2>3. Len(cleanups') = n
      <3>1. cleanups' = SubSeq(cleanups, 1, n)
        BY <1>3, <2>2 DEF Unwind, Front
      <3>2. n + 1 \in Nat /\ 1 \in Int /\ n \in Int
        OBVIOUS
      <3> QED  BY <2>1, <2>2, <3>1, <3>2
    <2>4. Len(cleanups') # 5
      BY <2>3
    <2> QED  BY <1>3, <2>4 DEF Unwind
  <1>4. CASE Succeed \/ FailDnsAudit \/ Unwound \/ Return \/ BeginClose \/ CloseNext \/ Closed
    BY <1>4 DEF Succeed, Building, FailDnsAudit, Unwound, Return, BeginClose, CloseNext, Closed
  <1>5. CASE UNCHANGED vars
    BY <1>5 DEF vars
  <1> QED  BY <1>1, <1>2, <1>3, <1>4, <1>5 DEF Next, Build

\* The last four steps of a block mode plan are those of newDNSWatcher.
LEMMA DnsStepsLast ==
    ASSUME mode = "block", pc \in 11..14 PROVE Plan[pc] \in Range(DnsSteps)
  <1>1. pc = 11 \/ pc = 12 \/ pc = 13 \/ pc = 14
    OBVIOUS
  <1> QED  BY <1>1, PlanIs, Steps DEF Dns

\* The cleanup stack of newWatcher does what its comment says whenever the step
\* that fails is not one of DNS capture in block mode: in that case alone it
\* panics, and leaves to the kernel the hooks and all that was acquired before.
THEOREM OnlyDnsPanics ==
    ASSUME LifecycleAssumption
    PROVE  Spec => [](state = "panic" =>
                          /\ mode = "block" /\ Plan[pc] \in Range(DnsSteps)
                          /\ held = Resource \ Range(DnsSteps))
  <1>1. Init => IInv /\ PanicOK
    BY InitInv DEF Init, PanicOK
  <1>2. IInv /\ PanicOK /\ [Next]_vars => (IInv /\ PanicOK)'
    BY StepInv, PanicStep
  <1>3. PanicOK => (state = "panic" => /\ mode = "block" /\ Plan[pc] \in Range(DnsSteps)
                                       /\ held = Resource \ Range(DnsSteps))
    BY DnsStepsLast DEF PanicOK
  <1> QED  BY <1>1, <1>2, <1>3, PTL DEF Spec

\* As long as something is open Close has a first object to close: its order
\* lists every object, and no missing one holds up the others.
LEMMA CloseGoesOn ==
    ASSUME TypeOK, held # {} PROVE \E i \in 1..Len(CloseOrder) : Opens(i)
  <1> DEFINE Open(i) == CloseOrder[i] \in held
  <1>1. Len(CloseOrder) = 12
    BY DEF CloseOrder
  <1>2. PICK r \in Resource : r \in held
    BY DEF TypeOK
  <1>3. PICK n \in 1..12 : Open(n)
    <2>1. Range(CloseOrder) = {CloseOrder[j] : j \in 1..12}
      BY <1>1 DEF Range, CloseOrder
    <2> QED  BY <1>2, <2>1, Steps
  <1>4. ASSUME NEW i \in 1..12, Open(i), \A j \in 1..(i - 1) : ~Open(j)
        PROVE  \E k \in 1..Len(CloseOrder) : Opens(k)
    BY <1>1, <1>4 DEF Opens
  <1>5. \E i \in 1..12 : Open(i) /\ \A j \in 1..(i - 1) : ~Open(j)
    <2> HIDE DEF Open
    <2>1. \/ Open(1) \/ Open(2) \/ Open(3) \/ Open(4) \/ Open(5) \/ Open(6)
          \/ Open(7) \/ Open(8) \/ Open(9) \/ Open(10) \/ Open(11) \/ Open(12)
      <3>1. \/ n = 1 \/ n = 2 \/ n = 3 \/ n = 4 \/ n = 5 \/ n = 6
            \/ n = 7 \/ n = 8 \/ n = 9 \/ n = 10 \/ n = 11 \/ n = 12
        OBVIOUS
      <3> QED  BY <1>3, <3>1, Zenon
    <2>2. CASE \A j \in 1..4 : ~Open(j)
      <3>1. CASE \A j \in 1..8 : ~Open(j)
        BY <2>1, <3>1
      <3>2. CASE \E j \in 5..8 : Open(j)
        BY <2>2, <3>2
      <3> QED  BY <2>2, <3>1, <3>2
    <2>3. CASE \E j \in 1..4 : Open(j)
      BY <2>3
    <2> QED  BY <2>2, <2>3
  <1> QED  BY <1>4, <1>5
=============================================================================
