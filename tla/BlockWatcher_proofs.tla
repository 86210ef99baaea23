------------------------ MODULE BlockWatcher_proofs -------------------------
(***************************************************************************)
(* Theorems about BlockWatcher, for every policy, every set of answers and *)
(* every capacity.                                                         *)
(***************************************************************************)
EXTENDS BlockWatcher, FiniteSetTheorems, TLAPS

-----------------------------------------------------------------------------
(* Lemmas about the operators. *)

\* A host prefix is a network of the address's family.
LEMMA HostPrefix == ASSUME NEW ip \in Addr PROVE {ip} \in Net
  BY DEF Addr, Net

\* A map update adds at most the key it was given.
LEMMA PutBounds ==
    ASSUME NEW map, NEW key, NEW cap
    PROVE  /\ Put(map, key, cap) \subseteq map \cup {key}
           /\ map \subseteq Put(map, key, cap)
  BY DEF Put

\* Offering a record to a ring buffer keeps what is in it.
LEMMA OfferType ==
    ASSUME NEW S, NEW ring \in Seq(S), NEW rec \in S, NEW cap
    PROVE  Offer(ring, rec, cap) \in Seq(S)
  BY DEF Offer

\* The family of an address names a trie and a resolver set.
LEMMA FamilyType ==
    /\ \A ip : FamilyOf(ip) \in Family
    /\ \A net : FamilyOfNet(net) \in Family
  BY DEF FamilyOf, FamilyOfNet, Family

\* A verdict is one of the six the report knows.
LEMMA VerdictType ==
    ASSUME NEW self \in BOOLEAN, NEW port, NEW ip, NEW d
    PROVE  VerdictForEvent(self, port, ip, d) \in Verdict
  BY DEF VerdictForEvent, VerdictFor, Verdict

-----------------------------------------------------------------------------
(* Type correctness. *)

\* An answer is a record with a source, a domain and addresses.
LEMMA AnswerType ==
    ASSUME NEW a \in Answers
    PROVE  /\ a.src \in Addr /\ a.domain \in Domain \cup {NoDomain}
           /\ a.ips \subseteq Addr
           /\ PairsOf(a) \subseteq (Domain \cup {NoDomain}) \X Addr
  <1>1. a \in [src : Addr, domain : Domain \cup {NoDomain}, ips : SUBSET Addr]
    BY BlockAssumption
  <1>2. /\ a.src \in Addr /\ a.domain \in Domain \cup {NoDomain}
        /\ a.ips \subseteq Addr
    BY <1>1
  <1> QED  BY <1>2 DEF PairsOf

\* The initial state is well typed.
LEMMA InitType == Init => TypeOK
  <1> SUFFICES ASSUME Init PROVE TypeOK
    OBVIOUS
  <1>1. phase \in Phase /\ TodoOK /\ results \subseteq Addr
    BY DEF Init, Phase, TodoOK
  <1>2. /\ stop \in {"no", "signal", "readError"} /\ hooks \subseteq Hook
        /\ allowed \in [Family -> SUBSET Net]
        /\ resolvers \in [Family -> SUBSET Addr]
        /\ allowAll \in BOOLEAN
    BY DEF Init
  <1>3. /\ dnsRing \in Seq(Answers) /\ dns \in {"off", "read", "apply"}
        /\ job \in [domain : Domain \cup {NoDomain}, allow : BOOLEAN,
                   ips : SUBSET Addr, grant : SUBSET Addr]
        /\ cache \in [Addr -> Domain \cup {NoDomain}]
    BY DEF Init, NoJob
  <1>4. /\ events \in Seq(Event \cup {Garbage})
        /\ line \in [verdict : Verdict, ip : Addr \cup {NoDomain}, port : Port,
                    admitted : BOOLEAN, ready : BOOLEAN]
    BY DEF Init, NoLine, Verdict, Port
  <1>5. /\ looked \subseteq Domain \X Addr
        /\ heard \subseteq (Domain \cup {NoDomain}) \X Addr
    BY DEF Init
  <1> QED  BY <1>1, <1>2, <1>3, <1>4, <1>5 DEF TypeOK

\* AllowIP keeps the tries well typed.
LEMMA AllowIPType ==
    ASSUME TypeOK, NEW ip \in Addr, AllowIP(ip)
    PROVE  allowed' \in [Family -> SUBSET Net]
  BY HostPrefix, PutBounds, FamilyType DEF AllowIP, TypeOK

\* So does AllowCIDR.
LEMMA AllowCIDRType ==
    ASSUME TypeOK, NEW net \in PolicyNets, AllowCIDR(net)
    PROVE  allowed' \in [Family -> SUBSET Net]
  BY PutBounds, FamilyType, PolicyAssumption DEF AllowCIDR, TypeOK

\* And a captured answer the DNS ring and the history.
LEMMA CaptureType ==
    ASSUME TypeOK, NEW a \in Answers, Capture(a)
    PROVE  /\ dnsRing' \in Seq(Answers)
           /\ heard' \subseteq (Domain \cup {NoDomain}) \X Addr
  <1>1. Append(dnsRing, a) \in Seq(Answers)
    BY DEF TypeOK
  <1> QED  BY <1>1, AnswerType DEF Capture, TypeOK

\* A connection leaves the event ring well typed.
LEMMA ConnectType ==
    ASSUME TypeOK, NEW ip \in Addr, NEW port \in Port, NEW self \in BOOLEAN,
           Connect(ip, port, self)
    PROVE  events' \in Seq(Event \cup {Garbage})
  <1> DEFINE e == [ip |-> ip, port |-> port, self |-> self,
                   admitted |-> Admits("connect", ip, port),
                   ready |-> phase = "serve"]
  <1>1. Admits("connect", ip, port) \in BOOLEAN
    BY DEF Admits, Check
  <1>2. e \in Event
    BY <1>1 DEF Event
  <1> QED  BY <1>2, OfferType DEF Connect, TypeOK

\* Every step keeps the state well typed.
LEMMA TypeStep == TypeOK /\ [Next]_vars => TypeOK'
  <1> SUFFICES ASSUME TypeOK, [Next]_vars PROVE TypeOK'
    OBVIOUS
  <1> USE DEF TypeOK, TodoOK, Phase, Enter, mainVars, kernelVars, dnsVars,
              history
  <1>1. CASE AttachHook
    <2>1. \A n \in 1..4 : AttachOrder[n] \in Hook
      BY DEF AttachOrder, Hook, Op, Family
    <2> QED  BY <1>1, <2>1 DEF AttachHook
  <1>2. CASE BeginResolvers
    BY <1>2 DEF BeginResolvers
  <1>3. ASSUME NEW ip \in Addr, SeedResolver(ip) PROVE TypeOK'
    <2>1. resolvers' \in [Family -> SUBSET Addr]
      BY <1>3, PutBounds, FamilyType DEF SeedResolver, AllowResolver
    <2> QED  BY <1>3, <2>1 DEF SeedResolver
  <1>4. CASE StartDNSWatcher
    BY <1>4 DEF StartDNSWatcher
  <1>5. CASE SetAllowAllDNS
    BY <1>5, PolicyAssumption DEF SetAllowAllDNS
  <1>6. ASSUME NEW ip \in Addr, SeedIP(ip) PROVE TypeOK'
    BY <1>6, AllowIPType DEF SeedIP
  <1>7. CASE BeginCIDRs
    BY <1>7 DEF BeginCIDRs
  <1>8. ASSUME NEW net \in PolicyNets, SeedCIDR(net) PROVE TypeOK'
    BY <1>8, AllowCIDRType DEF SeedCIDR
  <1>9. CASE BeginLookups
    BY <1>9 DEF BeginLookups
  <1>10. ASSUME NEW a \in Answers, LookupAnswers(a) PROVE TypeOK'
    <2>1. /\ dnsRing' \in Seq(Answers)
          /\ heard' \subseteq (Domain \cup {NoDomain}) \X Addr
      BY <1>10, CaptureType DEF LookupAnswers
    <2>2. a.domain \in Domain /\ a.ips \subseteq Addr
      BY <1>10, AnswerType, PolicyAssumption DEF LookupAnswers
    <2>3. PairsOf(a) \subseteq Domain \X Addr
      BY <2>2 DEF PairsOf
    <2> QED  BY <1>10, <2>1, <2>2, <2>3 DEF LookupAnswers
  <1>11. ASSUME NEW d \in ExactDomains, LookupFails(d) PROVE TypeOK'
    BY <1>11 DEF LookupFails
  <1>12. CASE BeginWrites
    BY <1>12 DEF BeginWrites
  <1>13. ASSUME NEW ip \in Addr, SeedResult(ip) PROVE TypeOK'
    BY <1>13, AllowIPType DEF SeedResult
  <1>14. CASE BeginServing
    BY <1>14 DEF BeginServing
  <1>15. CASE BeginClose
    BY <1>15 DEF BeginClose
  <1>16. CASE DetachHook
    BY <1>16 DEF DetachHook
  <1>17. CASE Exit
    BY <1>17 DEF Exit, Gone
  <1>18. CASE DnsRead
    <2>1. Head(dnsRing) \in Answers /\ Tail(dnsRing) \in Seq(Answers)
      BY <1>18 DEF DnsRead
    <2>2. /\ dns' \in {"off", "read", "apply"}
          /\ job' \in [domain : Domain \cup {NoDomain}, allow : BOOLEAN,
                      ips : SUBSET Addr, grant : SUBSET Addr]
      <3>1. CASE Head(dnsRing).domain = NoDomain \/ Head(dnsRing).ips = {}
        BY <1>18, <3>1 DEF DnsRead
      <3>2. CASE ~(Head(dnsRing).domain = NoDomain \/ Head(dnsRing).ips = {})
        <4>1. MayExtend(Head(dnsRing)) \in BOOLEAN
          BY DEF MayExtend, IsAllowedDomain, Trusted, IsTrustedSource
        <4> QED  BY <1>18, <2>1, <3>2, <4>1, AnswerType DEF DnsRead
      <3> QED  BY <3>1, <3>2
    <2> QED  BY <1>18, <2>1, <2>2 DEF DnsRead
  <1>19. ASSUME NEW ip \in Addr, CacheSet(ip) PROVE TypeOK'
    <2>1. /\ cache' \in [Addr -> Domain \cup {NoDomain}]
          /\ dns' \in {"off", "read", "apply"}
      BY <1>19 DEF CacheSet, Continue
    <2>2. job' \in [domain : Domain \cup {NoDomain}, allow : BOOLEAN,
                   ips : SUBSET Addr, grant : SUBSET Addr]
      BY <1>19 DEF CacheSet, Continue
    <2> QED  BY <1>19, <2>1, <2>2 DEF CacheSet
  <1>20. ASSUME NEW ip \in Addr, AllowResolved(ip) PROVE TypeOK'
    <2>1. allowed' \in [Family -> SUBSET Net]
      BY <1>20, AllowIPType DEF AllowResolved
    <2>2. job' \in [domain : Domain \cup {NoDomain}, allow : BOOLEAN,
                   ips : SUBSET Addr, grant : SUBSET Addr]
          /\ dns' \in {"off", "read", "apply"}
      BY <1>20 DEF AllowResolved, Continue
    <2> QED  BY <1>20, <2>1, <2>2 DEF AllowResolved
  <1>21. CASE ReadEvent
    <2>1. Head(events) \in Event \cup {Garbage}
          /\ Tail(events) \in Seq(Event \cup {Garbage})
      BY <1>21 DEF ReadEvent
    <2>2. ASSUME NEW e \in Event
          PROVE  LineFor(e) \in [verdict : Verdict, ip : Addr \cup {NoDomain},
                                port : Port, admitted : BOOLEAN,
                                ready : BOOLEAN]
      <3>1. e.self \in BOOLEAN /\ e.port \in Port /\ e.ip \in Addr
            /\ e.admitted \in BOOLEAN /\ e.ready \in BOOLEAN
        BY DEF Event
      <3> QED  BY <3>1, VerdictType DEF LineFor
    <2> QED  BY <1>21, <2>1, <2>2 DEF ReadEvent
  <1>22. CASE ReaderFails
    BY <1>22 DEF ReaderFails
  <1>23. ASSUME NEW t \in Targets, AppConnect(t[1], t[2]) \/ SelfConnect(t[1], t[2])
         PROVE  TypeOK'
    <2>1. t[1] \in Addr /\ t[2] \in Port
      BY BlockAssumption
    <2>2. events' \in Seq(Event \cup {Garbage})
      BY <1>23, <2>1, ConnectType DEF AppConnect, SelfConnect
    <2>3. UNCHANGED <<mainVars, kernelVars, dnsRing, dnsVars, cache, line, history>>
      BY <1>23, Zenon DEF AppConnect, SelfConnect
    <2> QED  BY <2>2, <2>3
  <1>24. CASE GarbageEvent
    BY <1>24, OfferType DEF GarbageEvent
  <1>25. ASSUME NEW a \in Answers, WireAnswer(a) PROVE TypeOK'
    BY <1>25, CaptureType DEF WireAnswer
  <1>26. CASE Signal
    BY <1>26 DEF Signal
  <1>27. CASE Kill
    BY <1>27 DEF Kill, Gone
  <1>28. CASE UNCHANGED vars
    BY <1>28 DEF vars
  <1> QED
    BY <1>1, <1>2, <1>3, <1>4, <1>5, <1>6, <1>7, <1>8, <1>9, <1>10, <1>11,
       <1>12, <1>13, <1>14, <1>15, <1>16, <1>17, <1>18, <1>19, <1>20, <1>21,
       <1>22, <1>23, <1>24, <1>25, <1>26, <1>27, <1>28
    DEF Next, MainStep, LookupStep, DnsStep, EnvStep

\* In every behaviour the agent's state and the kernel maps are well typed.
THEOREM TypeCorrect == Spec => []TypeOK
  BY InitType, TypeStep, PTL DEF Spec

-----------------------------------------------------------------------------
(* Default deny.  TrieJustified is not inductive: a trie write takes its   *)
(* address from the job of the DNS goroutine, the job from the ring        *)
(* buffer, and the seeding its addresses from the lookup results.  The     *)
(* inductive invariant follows the evidence along that way.                *)

\* What a captured answer from a trusted source says has been heard.
RingHeard ==
    \A i \in 1..Len(dnsRing) :
        Trusted(dnsRing[i]) => PairsOf(dnsRing[i]) \subseteq heard

\* An answer that extends the allowlist is about an allowed domain, and
\* everything it still has to permit has been heard.
JobHeard ==
    /\ job.allow => /\ IsAllowedDomain(job.domain)
                    /\ \A ip \in job.ips \cup job.grant : <<job.domain, ip>> \in heard
    /\ ~job.allow => job.grant = {}

\* Every lookup result was returned for an exact entry.
ResultsLooked ==
    \A ip \in results : \E d \in ExactDomains : <<d, ip>> \in looked

\* The other maps hold nothing but what the configuration says.
MapsFromPolicy ==
    /\ \A f \in Family : resolvers[f] \subseteq SystemResolvers
    /\ allowAll => AllowAllDNS

IInv == TypeOK /\ TrieJustified /\ RingHeard /\ JobHeard /\ ResultsLooked
        /\ MapsFromPolicy

\* The history only grows.
LEMMA HistoryGrows ==
    ASSUME [Next]_vars PROVE looked \subseteq looked' /\ heard \subseteq heard'
  BY DEF Next, MainStep, LookupStep, DnsStep, EnvStep, vars, history, Capture,
     AttachHook, BeginResolvers, SeedResolver, StartDNSWatcher, SetAllowAllDNS,
     SeedIP, BeginCIDRs, SeedCIDR, BeginLookups, LookupAnswers, LookupFails,
     BeginWrites, SeedResult, BeginServing, BeginClose, DetachHook, Exit, Gone,
     DnsRead, CacheSet, AllowResolved, ReadEvent, ReaderFails, AppConnect,
     SelfConnect, GarbageEvent, WireAnswer, Signal, Kill

\* More evidence never takes a justification away.
LEMMA VouchedGrows ==
    ASSUME [Next]_vars, NEW ip, Vouched(ip, looked \cup heard)
    PROVE  Vouched(ip, looked \cup heard)'
  BY HistoryGrows DEF Vouched

\* The tries stay justified when nothing is written ...
LEMMA JustifiedUnchanged ==
    ASSUME TrieJustified, [Next]_vars, UNCHANGED allowed
    PROVE  TrieJustified'
  BY VouchedGrows DEF TrieJustified

\* ... and when an address is written that the policy or an answer justifies.
LEMMA JustifiedAllowIP ==
    ASSUME TypeOK, TrieJustified, [Next]_vars, NEW ip \in Addr, AllowIP(ip),
           ip \in PolicyIPs \/ Vouched(ip, looked \cup heard)
    PROVE  TrieJustified'
  <1> SUFFICES ASSUME NEW f \in Family, NEW net \in allowed'[f]
               PROVE  \/ net \in PolicyNets
                      \/ \E h \in Addr :
                           /\ net = {h}
                           /\ h \in PolicyIPs \/ Vouched(h, looked \cup heard)'
    BY DEF TrieJustified
  <1>1. net \in allowed[f] \/ net = {ip}
    BY PutBounds, FamilyType DEF AllowIP, TypeOK
  <1>2. CASE net = {ip}
    BY <1>2, VouchedGrows
  <1>3. CASE net \in allowed[f]
    BY <1>3, VouchedGrows DEF TrieJustified
  <1> QED  BY <1>1, <1>2, <1>3

\* Capturing an answer records what it says when its source is trusted.
LEMMA CaptureHeard ==
    ASSUME TypeOK, RingHeard, [Next]_vars, NEW a \in Answers, Capture(a)
    PROVE  RingHeard'
  <1>1. CASE UNCHANGED <<dnsRing, heard>>
    BY <1>1 DEF RingHeard
  <1>2. CASE /\ dnsRing' = Append(dnsRing, a)
             /\ heard' = IF Trusted(a) THEN heard \cup PairsOf(a) ELSE heard
    <2> SUFFICES ASSUME NEW i \in 1..Len(dnsRing'), Trusted(dnsRing'[i])
                 PROVE  PairsOf(dnsRing'[i]) \subseteq heard'
      BY DEF RingHeard
    <2>1. dnsRing \in Seq(Answers)
      BY DEF TypeOK
    <2>2. CASE i \in 1..Len(dnsRing)
      <3>1. dnsRing'[i] = dnsRing[i]
        BY <1>2, <2>1, <2>2
      <3> QED  BY <2>2, <3>1, HistoryGrows DEF RingHeard
    <2>3. CASE i = Len(dnsRing) + 1
      <3>1. dnsRing'[i] = a
        BY <1>2, <2>1, <2>3
      <3> QED  BY <1>2, <3>1
    <2>4. i \in 1..Len(dnsRing) \/ i = Len(dnsRing) + 1
      BY <1>2, <2>1
    <2> QED  BY <2>2, <2>3, <2>4
  <1> QED  BY <1>1, <1>2 DEF Capture

\* Reading a record leaves the rest of the ring as it was.
LEMMA ReadHeard ==
    ASSUME TypeOK, RingHeard, [Next]_vars, DnsRead PROVE RingHeard'
  <1>1. /\ dnsRing \in Seq(Answers) /\ dnsRing # <<>>
        /\ dnsRing' = Tail(dnsRing)
    BY DEF TypeOK, DnsRead
  <1> SUFFICES ASSUME NEW i \in 1..Len(dnsRing'), Trusted(dnsRing'[i])
               PROVE  PairsOf(dnsRing'[i]) \subseteq heard'
    BY DEF RingHeard
  <1>2. dnsRing'[i] = dnsRing[i + 1] /\ i + 1 \in 1..Len(dnsRing)
    BY <1>1
  <1> QED  BY <1>2, HistoryGrows DEF RingHeard

\* A job starts with what its answer says, and the loop only takes away.
LEMMA JobHeardStep ==
    ASSUME TypeOK, RingHeard, JobHeard, [Next]_vars PROVE JobHeard'
  <1>1. CASE DnsRead
    <2>1. CASE job' = job
      BY <2>1, HistoryGrows DEF JobHeard
    <2>2. CASE job' # job
      <3> DEFINE a == Head(dnsRing)
      <3>1. /\ dnsRing \in Seq(Answers) /\ dnsRing # <<>>
            /\ job' = [domain |-> a.domain, ips |-> a.ips, grant |-> {},
                       allow |-> MayExtend(a)]
        BY <1>1, <2>2 DEF DnsRead, TypeOK, dnsVars
      <3>2. a = dnsRing[1] /\ 1 \in 1..Len(dnsRing)
        BY <3>1
      <3>3. Trusted(a) => \A ip \in a.ips : <<a.domain, ip>> \in heard'
        BY <3>2, HistoryGrows DEF RingHeard, PairsOf
      <3> QED  BY <3>1, <3>3 DEF JobHeard, MayExtend
    <2> QED  BY <2>1, <2>2
  <1>2. ASSUME NEW ip \in Addr, CacheSet(ip) PROVE JobHeard'
    <2>1. /\ ip \in job.ips /\ job.grant = {}
          /\ job' = [job EXCEPT !.ips = job.ips \ {ip},
                                !.grant = IF job.allow THEN {ip} ELSE {}]
      BY <1>2 DEF CacheSet, Continue
    <2>2. /\ job'.domain = job.domain /\ job'.allow = job.allow
          /\ job'.ips \cup job'.grant \subseteq job.ips
          /\ ~job.allow => job'.grant = {}
      BY <2>1 DEF TypeOK
    <2> QED  BY <2>2, HistoryGrows DEF JobHeard
  <1>3. ASSUME NEW ip \in Addr, AllowResolved(ip) PROVE JobHeard'
    <2>1. /\ job'.domain = job.domain /\ job'.allow = job.allow
          /\ job'.ips = job.ips /\ job'.grant = {}
      BY <1>3 DEF AllowResolved, Continue, TypeOK
    <2> QED  BY <2>1, HistoryGrows DEF JobHeard
  <1>4. CASE UNCHANGED job
    BY <1>4, HistoryGrows DEF JobHeard
  <1> QED
    BY <1>1, <1>2, <1>3, <1>4
    DEF Next, MainStep, LookupStep, DnsStep, EnvStep, vars, dnsVars,
     AttachHook, BeginResolvers, SeedResolver, StartDNSWatcher, SetAllowAllDNS,
     SeedIP, BeginCIDRs, SeedCIDR, BeginLookups, LookupAnswers, LookupFails,
     BeginWrites, SeedResult, BeginServing, BeginClose, DetachHook, Exit, Gone,
     ReadEvent, ReaderFails, AppConnect, SelfConnect, GarbageEvent, WireAnswer,
     Signal, Kill

\* The ring buffer changes only when an answer is captured or read.
LEMMA RingHeardStep ==
    ASSUME TypeOK, RingHeard, [Next]_vars PROVE RingHeard'
  <1>1. CASE DnsRead
    BY <1>1, ReadHeard
  <1>2. ASSUME NEW a \in Answers, Capture(a) PROVE RingHeard'
    BY <1>2, CaptureHeard
  <1>3. CASE UNCHANGED dnsRing
    BY <1>3, HistoryGrows DEF RingHeard
  <1> QED
    BY <1>1, <1>2, <1>3
    DEF Next, MainStep, LookupStep, DnsStep, EnvStep, vars,
     AttachHook, BeginResolvers, SeedResolver, StartDNSWatcher, SetAllowAllDNS,
     SeedIP, BeginCIDRs, SeedCIDR, BeginLookups, LookupAnswers, LookupFails,
     BeginWrites, SeedResult, BeginServing, BeginClose, DetachHook, Exit, Gone,
     CacheSet, AllowResolved, ReadEvent, ReaderFails, AppConnect, SelfConnect,
     GarbageEvent, WireAnswer, Signal, Kill

\* Only a lookup adds results, and it records the answer it got.
LEMMA ResultsLookedStep ==
    ASSUME TypeOK, ResultsLooked, [Next]_vars PROVE ResultsLooked'
  <1>1. ASSUME NEW a \in Answers, LookupAnswers(a) PROVE ResultsLooked'
    <2> SUFFICES ASSUME NEW ip \in results'
                 PROVE  \E d \in ExactDomains : <<d, ip>> \in looked'
      BY DEF ResultsLooked
    <2>1. CASE ip \in results
      BY <2>1, HistoryGrows DEF ResultsLooked
    <2>2. CASE ip \in a.ips
      <3>1. a.domain \in ExactDomains
        BY <1>1 DEF LookupAnswers, TypeOK, TodoOK
      <3> QED  BY <1>1, <2>2, <3>1 DEF LookupAnswers, PairsOf
    <2> QED  BY <1>1, <2>1, <2>2 DEF LookupAnswers
  <1>2. CASE UNCHANGED results
    BY <1>2, HistoryGrows DEF ResultsLooked
  <1> QED
    BY <1>1, <1>2
    DEF Next, MainStep, LookupStep, DnsStep, EnvStep, vars, mainVars, Enter,
     AttachHook, BeginResolvers, SeedResolver, StartDNSWatcher, SetAllowAllDNS,
     SeedIP, BeginCIDRs, SeedCIDR, BeginLookups, LookupFails,
     BeginWrites, SeedResult, BeginServing, BeginClose, DetachHook, Exit, Gone,
     DnsRead, CacheSet, AllowResolved, ReadEvent, ReaderFails, AppConnect,
     SelfConnect, GarbageEvent, WireAnswer, Signal, Kill

\* The resolver sets and the DNS option are written from the configuration.
LEMMA MapsFromPolicyStep ==
    ASSUME TypeOK, MapsFromPolicy, [Next]_vars PROVE MapsFromPolicy'
  <1>1. ASSUME NEW ip \in Addr, SeedResolver(ip) PROVE MapsFromPolicy'
    <2>1. ip \in SystemResolvers
      BY <1>1 DEF SeedResolver, TypeOK, TodoOK
    <2>2. ASSUME NEW f \in Family PROVE resolvers'[f] \subseteq resolvers[f] \cup {ip}
      BY <1>1, PutBounds, FamilyType DEF SeedResolver, AllowResolver, TypeOK
    <2> QED  BY <1>1, <2>1, <2>2 DEF MapsFromPolicy, SeedResolver
  <1>2. CASE SetAllowAllDNS
    BY <1>2 DEF MapsFromPolicy, SetAllowAllDNS
  <1>3. CASE UNCHANGED <<resolvers, allowAll>>
    BY <1>3 DEF MapsFromPolicy
  <1> QED
    BY <1>1, <1>2, <1>3
    DEF Next, MainStep, LookupStep, DnsStep, EnvStep, vars, kernelVars,
     AttachHook, BeginResolvers, StartDNSWatcher,
     SeedIP, BeginCIDRs, SeedCIDR, BeginLookups, LookupAnswers, LookupFails,
     BeginWrites, SeedResult, BeginServing, BeginClose, DetachHook, Exit, Gone,
     DnsRead, CacheSet, AllowResolved, ReadEvent, ReaderFails, AppConnect,
     SelfConnect, GarbageEvent, WireAnswer, Signal, Kill

\* Each of the four writers of the tries has its justification.
LEMMA TrieJustifiedStep ==
    ASSUME IInv, [Next]_vars PROVE TrieJustified'
  <1> USE DEF IInv
  <1>1. ASSUME NEW ip \in Addr, SeedIP(ip) PROVE TrieJustified'
    BY <1>1, JustifiedAllowIP DEF SeedIP, TypeOK, TodoOK
  <1>2. ASSUME NEW net \in PolicyNets, SeedCIDR(net) PROVE TrieJustified'
    <2>1. ASSUME NEW f \in Family
          PROVE  allowed'[f] \subseteq allowed[f] \cup {net}
      BY <1>2, PutBounds, FamilyType DEF SeedCIDR, AllowCIDR, TypeOK
    <2> QED  BY <2>1, VouchedGrows DEF TrieJustified
  <1>3. ASSUME NEW ip \in Addr, SeedResult(ip) PROVE TrieJustified'
    <2>1. PICK d \in ExactDomains : <<d, ip>> \in looked
      BY <1>3 DEF SeedResult, TypeOK, TodoOK, ResultsLooked
    <2>2. Vouched(ip, looked \cup heard)
      BY <2>1, PolicyAssumption DEF Vouched, IsAllowedDomain
    <2> QED  BY <1>3, <2>2, JustifiedAllowIP DEF SeedResult
  <1>4. ASSUME NEW ip \in Addr, AllowResolved(ip) PROVE TrieJustified'
    <2>1. job.allow
      BY <1>4 DEF AllowResolved, JobHeard
    <2>2. IsAllowedDomain(job.domain) /\ <<job.domain, ip>> \in heard
      BY <1>4, <2>1 DEF AllowResolved, JobHeard
    <2>3. Vouched(ip, looked \cup heard)
      BY <2>2, PolicyAssumption DEF Vouched, IsAllowedDomain
    <2> QED  BY <1>4, <2>3, JustifiedAllowIP DEF AllowResolved
  <1>5. CASE UNCHANGED allowed
    BY <1>5, JustifiedUnchanged
  <1> QED
    BY <1>1, <1>2, <1>3, <1>4, <1>5
    DEF Next, MainStep, LookupStep, DnsStep, EnvStep, vars, kernelVars,
     AttachHook, BeginResolvers, SeedResolver, StartDNSWatcher, SetAllowAllDNS,
     BeginCIDRs, BeginLookups, LookupAnswers, LookupFails,
     BeginWrites, BeginServing, BeginClose, DetachHook, Exit, Gone,
     DnsRead, CacheSet, ReadEvent, ReaderFails, AppConnect,
     SelfConnect, GarbageEvent, WireAnswer, Signal, Kill

\* The invariant holds initially ...
LEMMA InitInv == Init => IInv
  <1> SUFFICES ASSUME Init PROVE IInv
    OBVIOUS
  <1>1. TypeOK
    BY InitType
  <1>2. TrieJustified /\ RingHeard /\ ResultsLooked /\ MapsFromPolicy
    BY DEF Init, TrieJustified, RingHeard, ResultsLooked, MapsFromPolicy
  <1>3. JobHeard
    BY DEF Init, NoJob, JobHeard
  <1> QED  BY <1>1, <1>2, <1>3 DEF IInv

\* ... and every step preserves it.
LEMMA StepInv == IInv /\ [Next]_vars => IInv'
  BY TypeStep, TrieJustifiedStep, RingHeardStep, JobHeardStep,
     ResultsLookedStep, MapsFromPolicyStep
  DEF IInv

\* So it holds in every reachable state.
LEMMA Inductive == Spec => []IInv
  BY InitInv, StepInv, PTL DEF Spec

\* Whatever is in a trie, the policy lists it or a trusted answer gave it for
\* an allowed domain: live observation cannot be made to permit more.
THEOREM TriesJustified == Spec => []TrieJustified
  <1>1. IInv => TrieJustified
    BY DEF IInv
  <1> QED  BY <1>1, Inductive, PTL

\* Default deny, at every interleaving: while the four hooks are attached no
\* destination is admitted without a reason in the policy.
THEOREM DefaultDeny == Spec => []EnforcementSound
  <1>1. IInv => EnforcementSound
    <2> SUFFICES ASSUME IInv, hooks = Hook,
                        NEW op \in Op, NEW ip \in Addr, NEW port \in Port,
                        Admits(op, ip, port)
                 PROVE  \/ ip \in Loopback \/ Listed(ip)
                        \/ Vouched(ip, looked \cup heard)
                        \/ port = "dns" /\ (AllowAllDNS \/ ip \in SystemResolvers)
      BY DEF EnforcementSound
    <2> DEFINE f == FamilyOf(ip)
    <2>1. f \in Family /\ <<op, f>> \in hooks
      BY FamilyType DEF Hook
    <2>2. Check(ip, port, allowed[f], resolvers[f], allowAll)
      BY <2>1 DEF Admits
    <2>3. CASE port = "dns" /\ (allowAll \/ ip \in resolvers[f])
      BY <2>1, <2>3 DEF IInv, MapsFromPolicy
    <2>4. ASSUME NEW net \in allowed[f], ip \in net
          PROVE  Listed(ip) \/ Vouched(ip, looked \cup heard)
      <3>1. \/ net \in PolicyNets
            \/ \E h \in Addr :
                 net = {h} /\ (h \in PolicyIPs \/ Vouched(h, looked \cup heard))
        BY <2>1 DEF IInv, TrieJustified
      <3>2. CASE net \in PolicyNets
        BY <2>4, <3>2 DEF Listed
      <3>3. ASSUME NEW h \in Addr, net = {h},
                   h \in PolicyIPs \/ Vouched(h, looked \cup heard)
            PROVE  Listed(ip) \/ Vouched(ip, looked \cup heard)
        <4>1. h = ip
          BY <2>4, <3>3
        <4> QED  BY <3>3, <4>1 DEF Listed
      <3> QED  BY <3>1, <3>2, <3>3
    <2> QED  BY <2>2, <2>3, <2>4 DEF Check
  <1> QED  BY <1>1, Inductive, PTL

-----------------------------------------------------------------------------
(* The cache is written before the trie. *)

\* A job that is being applied has a name, and an address waiting to be
\* permitted has been cached.
JobNamed ==
    /\ dns = "apply" => job.domain # NoDomain
    /\ \A ip \in job.grant : cache[ip] # NoDomain

\* A name in the cache is only ever replaced by another.
LEMMA CacheStep ==
    ASSUME TypeOK, JobNamed, [Next]_vars
    PROVE  \A ip \in Addr : cache[ip] # NoDomain => cache'[ip] # NoDomain
  <1>1. ASSUME NEW ip \in Addr, CacheSet(ip)
        PROVE  \A h \in Addr : cache[h] # NoDomain => cache'[h] # NoDomain
    BY <1>1 DEF CacheSet, JobNamed, TypeOK
  <1>2. CASE UNCHANGED cache
    BY <1>2
  <1> QED
    BY <1>1, <1>2
    DEF Next, MainStep, LookupStep, DnsStep, EnvStep, vars,
     AttachHook, BeginResolvers, SeedResolver, StartDNSWatcher, SetAllowAllDNS,
     SeedIP, BeginCIDRs, SeedCIDR, BeginLookups, LookupAnswers, LookupFails,
     BeginWrites, SeedResult, BeginServing, BeginClose, DetachHook, Exit, Gone,
     DnsRead, AllowResolved, ReadEvent, ReaderFails, AppConnect, SelfConnect,
     GarbageEvent, WireAnswer, Signal, Kill

\* The address a job is about to permit was cached in the step before.
LEMMA JobNamedStep ==
    ASSUME TypeOK, JobNamed, [Next]_vars PROVE JobNamed'
  <1>1. CASE DnsRead
    <2>1. dns' = "apply" => job'.domain # NoDomain
      BY <1>1 DEF DnsRead, dnsVars, JobNamed
    <2>2. job'.grant \subseteq job.grant
      BY <1>1 DEF DnsRead, dnsVars
    <2> QED  BY <1>1, <2>1, <2>2 DEF DnsRead, JobNamed
  <1>2. ASSUME NEW ip \in Addr, CacheSet(ip) PROVE JobNamed'
    <2>1. /\ dns = "apply" /\ job'.domain = job.domain
          /\ job'.grant \subseteq {ip} /\ cache'[ip] = job.domain
      BY <1>2 DEF CacheSet, Continue, TypeOK
    <2> QED  BY <2>1 DEF JobNamed
  <1>3. ASSUME NEW ip \in Addr, AllowResolved(ip) PROVE JobNamed'
    <2>1. /\ dns = "apply" /\ job'.domain = job.domain /\ job'.grant = {}
      BY <1>3 DEF AllowResolved, Continue, TypeOK
    <2> QED  BY <2>1 DEF JobNamed
  <1>4. CASE UNCHANGED <<job, cache>> /\ (dns' = dns \/ dns' # "apply")
    BY <1>4 DEF JobNamed
  <1> QED
    BY <1>1, <1>2, <1>3, <1>4
    DEF Next, MainStep, LookupStep, DnsStep, EnvStep, vars, dnsVars,
     AttachHook, BeginResolvers, SeedResolver, StartDNSWatcher, SetAllowAllDNS,
     SeedIP, BeginCIDRs, SeedCIDR, BeginLookups, LookupAnswers, LookupFails,
     BeginWrites, SeedResult, BeginServing, BeginClose, DetachHook, Exit, Gone,
     ReadEvent, ReaderFails, AppConnect, SelfConnect, GarbageEvent, WireAnswer,
     Signal, Kill

\* Why an address may be in a trie and how its connections are named.
Named(ip) == \/ ip \in PolicyIPs \/ {ip} \in PolicyNets \/ Vouched(ip, looked)
             \/ cache[ip] # NoDomain

\* A reason for an entry is never lost.
LEMMA NamedStays ==
    ASSUME TypeOK, JobNamed, [Next]_vars, NEW ip \in Addr, Named(ip)
    PROVE  Named(ip)'
  <1>1. Vouched(ip, looked) => Vouched(ip, looked)'
    BY HistoryGrows DEF Vouched
  <1> QED  BY <1>1, CacheStep DEF Named

\* Permitting a named address keeps every entry named.
LEMMA NamedAllowIP ==
    ASSUME TypeOK, JobNamed, LiveEntriesNamed, [Next]_vars,
           NEW ip \in Addr, AllowIP(ip), Named(ip)
    PROVE  LiveEntriesNamed'
  <1> SUFFICES ASSUME NEW h \in Addr, {h} \in allowed'[FamilyOf(h)]
               PROVE  Named(h)'
    BY DEF LiveEntriesNamed, Named
  <1> DEFINE f == FamilyOf(h)
  <1>1. f \in Family
    BY FamilyType
  <1>2. allowed'[f] \subseteq allowed[f] \cup {{ip}}
    BY <1>1, PutBounds, FamilyType DEF AllowIP, TypeOK
  <1>3. {h} \in allowed[f] \/ {h} = {ip}
    BY <1>2
  <1>4. Named(h)
    BY <1>3 DEF LiveEntriesNamed, Named
  <1> QED  BY <1>4, NamedStays

\* Each of the four writers of the tries writes addresses that are named.
LEMMA NamedStep ==
    ASSUME IInv, JobNamed, LiveEntriesNamed, [Next]_vars
    PROVE  LiveEntriesNamed'
  <1> USE DEF IInv
  <1>1. ASSUME NEW ip \in Addr, SeedIP(ip) PROVE LiveEntriesNamed'
    <2>1. AllowIP(ip) /\ ip \in PolicyIPs
      BY <1>1 DEF SeedIP, TypeOK, TodoOK
    <2> QED  BY <2>1, NamedAllowIP DEF Named
  <1>2. ASSUME NEW net \in PolicyNets, SeedCIDR(net) PROVE LiveEntriesNamed'
    <2> SUFFICES ASSUME NEW h \in Addr, {h} \in allowed'[FamilyOf(h)]
                 PROVE  Named(h)'
      BY DEF LiveEntriesNamed, Named
    <2>1. {h} \in allowed[FamilyOf(h)] \/ {h} = net
      BY <1>2, PutBounds, FamilyType DEF SeedCIDR, AllowCIDR, TypeOK
    <2>2. Named(h)
      BY <2>1 DEF LiveEntriesNamed, Named
    <2> QED  BY <2>2, NamedStays
  <1>3. ASSUME NEW ip \in Addr, SeedResult(ip) PROVE LiveEntriesNamed'
    <2>1. PICK d \in ExactDomains : <<d, ip>> \in looked
      BY <1>3 DEF SeedResult, TypeOK, TodoOK, ResultsLooked
    <2>2. Named(ip)
      BY <2>1, PolicyAssumption DEF Named, Vouched, IsAllowedDomain
    <2> QED  BY <1>3, <2>2, NamedAllowIP DEF SeedResult
  <1>4. ASSUME NEW ip \in Addr, AllowResolved(ip) PROVE LiveEntriesNamed'
    <2>1. AllowIP(ip) /\ cache[ip] # NoDomain
      BY <1>4 DEF AllowResolved, JobNamed
    <2> QED  BY <2>1, NamedAllowIP DEF Named
  <1>5. CASE UNCHANGED allowed
    <2> SUFFICES ASSUME NEW h \in Addr, {h} \in allowed[FamilyOf(h)]
                 PROVE  Named(h)'
      BY <1>5 DEF LiveEntriesNamed, Named
    <2> QED  BY NamedStays DEF LiveEntriesNamed, Named
  <1> QED
    BY <1>1, <1>2, <1>3, <1>4, <1>5
    DEF Next, MainStep, LookupStep, DnsStep, EnvStep, vars, kernelVars,
     AttachHook, BeginResolvers, SeedResolver, StartDNSWatcher, SetAllowAllDNS,
     BeginCIDRs, BeginLookups, LookupAnswers, LookupFails,
     BeginWrites, BeginServing, BeginClose, DetachHook, Exit, Gone,
     DnsRead, CacheSet, ReadEvent, ReaderFails, AppConnect,
     SelfConnect, GarbageEvent, WireAnswer, Signal, Kill

\* An address that only live observation permits is in the cache by the time
\* it is permitted: cache.set precedes allow in dnsWatcher.run, and nothing
\* any other goroutine does comes between with the opposite order.
THEOREM PermittedAreNamed == Spec => []LiveEntriesNamed
  <1>1. Init => JobNamed /\ LiveEntriesNamed
    BY DEF Init, JobNamed, NoJob, LiveEntriesNamed, FamilyOf, Family
  <1>2. IInv /\ JobNamed /\ LiveEntriesNamed /\ [Next]_vars
            => (JobNamed /\ LiveEntriesNamed)'
    BY JobNamedStep, NamedStep DEF IInv
  <1> QED  BY <1>1, <1>2, Inductive, PTL DEF Spec

-----------------------------------------------------------------------------
(* Enforcement does not end by itself. *)

\* Where the hooks are in each phase, and why the last phases are reached.
HooksByPhase ==
    /\ phase \notin {"attach", "close", "closed"} => hooks = Hook
    /\ phase \in {"close", "closed"} => stop # "no"
    /\ stop = "readError" => ReaderMayFail

\* Only a signal or a failed reader leads to the phases that detach.
LEMMA HooksStep == HooksByPhase /\ [Next]_vars => HooksByPhase'
  BY DEF HooksByPhase, Next, MainStep, LookupStep, DnsStep, EnvStep, vars,
     mainVars, kernelVars, Enter,
     AttachHook, BeginResolvers, SeedResolver, StartDNSWatcher, SetAllowAllDNS,
     SeedIP, BeginCIDRs, SeedCIDR, BeginLookups, LookupAnswers, LookupFails,
     BeginWrites, SeedResult, BeginServing, BeginClose, DetachHook, Exit, Gone,
     DnsRead, CacheSet, AllowResolved, ReadEvent, ReaderFails, AppConnect,
     SelfConnect, GarbageEvent, WireAnswer, Signal, Kill

\* From the end of attachBlock to a signal all four hooks are attached: no
\* record, answer or failed lookup takes enforcement down.
THEOREM EnforcementStays == Spec => []EnforcedUntilStop
  <1>1. Init => HooksByPhase
    BY DEF Init, HooksByPhase
  <1>2. TypeOK /\ HooksByPhase => EnforcedUntilStop
    BY DEF TypeOK, HooksByPhase, EnforcedUntilStop
  <1> QED  BY <1>1, <1>2, HooksStep, TypeCorrect, PTL DEF Spec

-----------------------------------------------------------------------------
(* The agent implements the guard, step by step.                           *)

\* The DNS goroutine is started when the hooks are attached.
DnsAfterHooks == phase = "attach" => dns = "off"

\* In the phases between, enforcement is on.
LEMMA GuardOn ==
    ASSUME HooksByPhase, phase \notin {"attach", "close", "closed"}
    PROVE  GuardMode = "on"
  BY DEF HooksByPhase, GuardMode

\* What an address is granted for is what the guard calls grantable.
LEMMA GrantableIs ==
    ASSUME NEW ip \in Addr, ip \in PolicyIPs \/ Vouched(ip, looked \cup heard)
    PROVE  Guard!Grantable({ip})
  <1>1. ip \in Guard!Addr
    BY DEF Addr, Guard!Addr
  <1> QED
    BY <1>1 DEF Guard!Grantable, Guard!Belongs, Vouched, IsAllowedDomain, Guard!IsAllowedDomain

\* A trie write is a grant, or nothing when the trie refuses it.
LEMMA WriteIsGrant ==
    ASSUME TypeOK, NEW f \in Family, NEW net \in PolicyNets \cup {{ip} : ip \in Addr},
           allowed' = [allowed EXCEPT ![f] = Put(@, net, TrieCap)],
           UNCHANGED <<hooks, phase, history>>, GuardMode # "off", Guard!Grantable(net)
    PROVE  [Guard!Next]_(Guard!guardVars)
  <1>1. UNCHANGED <<GuardMode, looked \cup heard>>
    BY DEF GuardMode, history
  <1>2. CASE allowed' = allowed
    BY <1>1, <1>2 DEF Guard!guardVars
  <1>3. CASE allowed' # allowed
    <2>1. allowed'[f] = allowed[f] \cup {net} /\ \A g \in Family \ {f} : allowed'[g] = allowed[g]
      BY <1>3 DEF Put, TypeOK
    <2>2. allowed'["v4"] \cup allowed'["v6"] = (allowed["v4"] \cup allowed["v6"]) \cup {net}
      BY <2>1 DEF Family
    <2>3. Guard!Grant(net)
      BY <1>1, <2>2 DEF Guard!Grant
    <2> QED  BY <2>3 DEF Guard!Next, Guard!Addr, Addr
  <1> QED  BY <1>2, <1>3

\* The four writers of the tries.
LEMMA GrantStep ==
    ASSUME IInv, HooksByPhase, DnsAfterHooks, NEW ip \in Addr,
           SeedIP(ip) \/ SeedResult(ip) \/ AllowResolved(ip)
    PROVE  [Guard!Next]_(Guard!guardVars)
  <1> USE DEF IInv
  <1>1. AllowIP(ip) /\ UNCHANGED <<hooks, phase, history>>
    BY DEF SeedIP, SeedResult, AllowResolved, mainVars
  <1>2. GuardMode # "off"
    BY GuardOn DEF SeedIP, SeedResult, AllowResolved, DnsAfterHooks, GuardMode
  <1>3. ip \in PolicyIPs \/ Vouched(ip, looked \cup heard)
    <2>1. CASE SeedIP(ip)
      BY <2>1 DEF SeedIP, TypeOK, TodoOK
    <2>2. CASE SeedResult(ip)
      <3>1. PICK d \in ExactDomains : <<d, ip>> \in looked
        BY <2>2 DEF SeedResult, TypeOK, TodoOK, ResultsLooked
      <3> QED  BY <3>1, PolicyAssumption DEF Vouched, IsAllowedDomain
    <2>3. CASE AllowResolved(ip)
      <3>1. IsAllowedDomain(job.domain) /\ <<job.domain, ip>> \in heard
        BY <2>3 DEF AllowResolved, JobHeard
      <3> QED  BY <3>1, PolicyAssumption DEF Vouched, IsAllowedDomain
    <2> QED  BY <2>1, <2>2, <2>3
  <1> QED  BY <1>1, <1>2, <1>3, GrantableIs, WriteIsGrant, FamilyType DEF AllowIP

\* A range of the policy is granted as it stands.
LEMMA GrantNetStep ==
    ASSUME IInv, HooksByPhase, NEW net \in PolicyNets, SeedCIDR(net)
    PROVE  [Guard!Next]_(Guard!guardVars)
  <1>1. GuardMode # "off" /\ Guard!Grantable(net)
    BY GuardOn DEF SeedCIDR, Guard!Grantable
  <1>2. UNCHANGED <<hooks, phase, history>>
    BY DEF SeedCIDR
  <1>3. CASE allowed' = allowed
    BY <1>2, <1>3 DEF Guard!guardVars, GuardMode, history
  <1>4. CASE allowed' # allowed
    <2>1. allowed' = [allowed EXCEPT ![FamilyOfNet(net)] = Put(@, net, TrieCap)]
      BY <1>4 DEF SeedCIDR, AllowCIDR
    <2> QED  BY <1>1, <1>2, <2>1, WriteIsGrant, FamilyType DEF IInv
  <1> QED  BY <1>3, <1>4

\* An answer that is trusted, or that a lookup got, is evidence.
LEMMA LearnStep ==
    ASSUME TypeOK, NEW a \in Answers, LookupAnswers(a) \/ WireAnswer(a)
    PROVE  [Guard!Next]_(Guard!guardVars)
  <1>1. UNCHANGED <<hooks, phase, allowed>>
    BY DEF LookupAnswers, WireAnswer, mainVars, kernelVars
  <1>2. UNCHANGED <<GuardMode, allowed["v4"] \cup allowed["v6"]>>
    BY <1>1 DEF GuardMode
  <1>3. \/ (looked \cup heard)' = looked \cup heard
        \/ (looked \cup heard)' = (looked \cup heard) \cup ({a.domain} \X a.ips)
    BY DEF LookupAnswers, WireAnswer, Capture, PairsOf
  <1>4. CASE (looked \cup heard)' = looked \cup heard
    BY <1>2, <1>4 DEF Guard!guardVars
  <1>5. CASE (looked \cup heard)' = (looked \cup heard) \cup ({a.domain} \X a.ips)
    <2>1. Guard!Learn
      BY <1>2, <1>5, AnswerType DEF Guard!Learn, Guard!Addr, Addr
    <2> QED  BY <2>1 DEF Guard!Next
  <1> QED  BY <1>3, <1>4, <1>5

\* What is attached and detached is a hook, and there is at least one.
LEMMA HookIs == Hook # {} /\ \A n \in 1..4 : AttachOrder[n] \in Hook
  <1>1. <<"connect", "v4">> \in Hook
    BY DEF Hook, Op, Family
  <1>2. ASSUME NEW n \in 1..4 PROVE AttachOrder[n] \in Hook
    <2>1. n = 1 \/ n = 2 \/ n = 3 \/ n = 4
      OBVIOUS
    <2> QED  BY <2>1 DEF AttachOrder, Hook, Op, Family
  <1> QED  BY <1>1, <1>2

\* Attaching the last hook switches the guard on; the first hook to go, and
\* the end of the process, end it.
LEMMA ModeStep ==
    ASSUME TypeOK, HooksByPhase, AttachHook \/ BeginResolvers \/ BeginClose \/ DetachHook \/ Exit \/ Kill
    PROVE  [Guard!Next]_(Guard!guardVars)
  <1>1. UNCHANGED <<allowed["v4"] \cup allowed["v6"], looked \cup heard>>
    BY DEF AttachHook, BeginResolvers, BeginClose, DetachHook, Exit, Kill, Gone, kernelVars, history
  <1>2. \/ GuardMode' = GuardMode
        \/ GuardMode = "off" /\ GuardMode' = "on"
        \/ GuardMode # "ended" /\ GuardMode' = "ended"
    <2>1. CASE AttachHook
      <3>1. PICK n \in 1..4 : hooks' = hooks \cup {AttachOrder[n]}
        BY <2>1 DEF AttachHook
      <3>2. hooks = Hook => hooks' = Hook
        BY <3>1, HookIs
      <3> QED  BY <2>1, <3>2 DEF AttachHook, GuardMode, mainVars
    <2>2. CASE BeginResolvers \/ BeginClose
      BY <2>2 DEF BeginResolvers, BeginClose, GuardMode, HooksByPhase, Enter, kernelVars
    <2>3. CASE DetachHook
      <3>1. hooks' # Hook /\ phase = "close" /\ phase' = "close"
        BY <2>3, HookIs DEF DetachHook, mainVars
      <3> QED  BY <3>1 DEF GuardMode
    <2>4. CASE Exit \/ Kill
      <3>1. hooks' # Hook
        BY <2>4, HookIs DEF Exit, Kill, Gone
      <3> QED  BY <2>4, <3>1 DEF Exit, Kill, Gone, GuardMode
    <2> QED  BY <2>1, <2>2, <2>3, <2>4
  <1> QED  BY <1>1, <1>2 DEF Guard!guardVars, Guard!Next, Guard!SwitchOn, Guard!End

\* Whatever the goroutines do and in whichever order, what an observer of the
\* policy, the evidence and the grants sees is the guard: nothing is granted
\* that is not justified, no grant is taken back, and enforcement does not come
\* back once it has ended.
THEOREM GuardSafe == Spec => Guard!Safety
  <1>1. Init => Guard!Init
    BY HookIs DEF Init, Guard!Init, GuardMode, Family
  <1>2. Init => HooksByPhase /\ DnsAfterHooks
    BY DEF Init, HooksByPhase, DnsAfterHooks
  <1>3. DnsAfterHooks /\ [Next]_vars => DnsAfterHooks'
    BY DEF DnsAfterHooks, Next, MainStep, LookupStep, DnsStep, EnvStep, vars,
     mainVars, dnsVars, Enter,
     AttachHook, BeginResolvers, SeedResolver, StartDNSWatcher, SetAllowAllDNS,
     SeedIP, BeginCIDRs, SeedCIDR, BeginLookups, LookupAnswers, LookupFails,
     BeginWrites, SeedResult, BeginServing, BeginClose, DetachHook, Exit, Gone,
     DnsRead, CacheSet, AllowResolved, ReadEvent, ReaderFails, AppConnect,
     SelfConnect, GarbageEvent, WireAnswer, Signal, Kill
  <1>4. ASSUME IInv, HooksByPhase, DnsAfterHooks, [Next]_vars
        PROVE  [Guard!Next]_(Guard!guardVars)
    <2>1. CASE /\ UNCHANGED <<hooks, allowed, history>>
               /\ \/ phase' = phase
                  \/ {phase, phase'} \cap {"attach", "close", "closed"} = {}
      BY <1>4, <2>1 DEF Guard!guardVars, GuardMode, HooksByPhase, history
    <2>2. ASSUME NEW ip \in Addr, SeedIP(ip) \/ SeedResult(ip) \/ AllowResolved(ip)
          PROVE  [Guard!Next]_(Guard!guardVars)
      BY <1>4, <2>2, GrantStep
    <2>3. ASSUME NEW net \in PolicyNets, SeedCIDR(net) PROVE [Guard!Next]_(Guard!guardVars)
      BY <1>4, <2>3, GrantNetStep
    <2>4. ASSUME NEW a \in Answers, LookupAnswers(a) \/ WireAnswer(a)
          PROVE  [Guard!Next]_(Guard!guardVars)
      BY <1>4, <2>4, LearnStep DEF IInv
    <2>5. CASE AttachHook \/ BeginResolvers \/ BeginClose \/ DetachHook \/ Exit \/ Kill
      BY <1>4, <2>5, ModeStep DEF IInv
    <2> QED
      BY <1>4, <2>1, <2>2, <2>3, <2>4, <2>5
      DEF Next, MainStep, LookupStep, DnsStep, EnvStep, vars, mainVars, kernelVars, Enter,
     SeedResolver, StartDNSWatcher, SetAllowAllDNS, BeginCIDRs, BeginLookups, LookupFails,
     BeginWrites, BeginServing, DnsRead, CacheSet, ReadEvent, ReaderFails, AppConnect,
     SelfConnect, GarbageEvent, Signal
  <1> QED  BY <1>1, <1>2, <1>3, <1>4, HooksStep, Inductive, PTL DEF Spec, Guard!Safety

-----------------------------------------------------------------------------
(* Seeding is complete when readiness is announced.  The invariant says of *)
(* every loop of the startup sequence that what it has passed is in its    *)
(* map or was refused by a full one; a map that was full stays full.       *)

\* The phases after each loop, as long as nothing has ended enforcement.
AfterResolvers == {"config", "ips", "cidrs", "lookup", "write", "serve"}
AfterConfig    == AfterResolvers \ {"config"}
AfterIPs       == AfterConfig \ {"ips"}
AfterCIDRs     == AfterIPs \ {"cidrs"}

\* Whether the loop of a phase has passed an item.
Passed(p, after, item) == phase \in after \/ (phase = p /\ item \notin todo)

MapsFinite == \A f \in Family : IsFiniteSet(allowed[f]) /\ IsFiniteSet(resolvers[f])

ResolverIn(ip) == Present(ip, resolvers[FamilyOf(ip)], ResolverCap)
HostIn(ip)     == Present({ip}, allowed[FamilyOf(ip)], TrieCap)
NetIn(net)     == Present(net, allowed[FamilyOfNet(net)], TrieCap)

Seeded ==
    /\ MapsFinite
    /\ \A pair \in looked : pair[2] \in results
    /\ \A ip \in SystemResolvers \ Loopback :
           Passed("resolvers", AfterResolvers, ip) => ResolverIn(ip)
    /\ allowAll => AllowAllDNS
    /\ \A ip \in PolicyIPs : Passed("ips", AfterIPs, ip) => HostIn(ip)
    /\ \A net \in PolicyNets \ MappedNets : Passed("cidrs", AfterCIDRs, net) => NetIn(net)
    /\ \A ip \in results : Passed("write", {"serve"}, ip) => HostIn(ip)

\* What is put into a map is present, and what was present stays so.
LEMMA PutPresent ==
    ASSUME NEW map, IsFiniteSet(map), NEW key, NEW cap \in Nat
    PROVE  /\ IsFiniteSet(Put(map, key, cap))
           /\ Present(key, Put(map, key, cap), cap)
           /\ \A k : Present(k, map, cap) => Present(k, Put(map, key, cap), cap)
  <1>1. Cardinality(map) \in Nat
    BY FS_CardinalityType
  <1>2. CASE key \in map \/ Cardinality(map) < cap
    <2>1. Put(map, key, cap) = map \cup {key} /\ IsFiniteSet(map \cup {key})
      BY <1>2, FS_AddElement DEF Put
    <2>2. Cardinality(map \cup {key}) \in Nat /\ Cardinality(map) <= Cardinality(map \cup {key})
      <3>1. \/ Cardinality(map \cup {key}) = Cardinality(map)
            \/ Cardinality(map \cup {key}) = Cardinality(map) + 1
        BY FS_AddElement
      <3> QED  BY <1>1, <3>1
    <2> QED  BY <1>1, <2>1, <2>2 DEF Present
  <1>3. CASE ~(key \in map \/ Cardinality(map) < cap)
    BY <1>1, <1>3 DEF Put, Present
  <1> QED  BY <1>2, <1>3

\* A step puts nothing or one key into the tries, and the same of the
\* resolver sets.
LEMMA MapsStep ==
    ASSUME TypeOK, [Next]_vars
    PROVE  \A f \in Family :
             /\ allowed'[f] = allowed[f] \/ \E k : allowed'[f] = Put(allowed[f], k, TrieCap)
             /\ resolvers'[f] = resolvers[f]
                    \/ \E k : resolvers'[f] = Put(resolvers[f], k, ResolverCap)
  <1>1. ASSUME NEW ip \in Addr, AllowIP(ip), NEW f \in Family
        PROVE  allowed'[f] = allowed[f] \/ \E k : allowed'[f] = Put(allowed[f], k, TrieCap)
    BY <1>1 DEF AllowIP, TypeOK
  <1>2. ASSUME NEW net \in PolicyNets, AllowCIDR(net), NEW f \in Family
        PROVE  allowed'[f] = allowed[f] \/ \E k : allowed'[f] = Put(allowed[f], k, TrieCap)
    BY <1>2 DEF AllowCIDR, TypeOK
  <1>3. ASSUME NEW ip \in Addr, AllowResolver(ip), NEW f \in Family
        PROVE  resolvers'[f] = resolvers[f] \/ \E k : resolvers'[f] = Put(resolvers[f], k, ResolverCap)
    BY <1>3 DEF AllowResolver, TypeOK
  <1>4. \/ UNCHANGED allowed
        \/ \E ip \in Addr : AllowIP(ip)
        \/ \E net \in PolicyNets : AllowCIDR(net)
    BY DEF Next, MainStep, LookupStep, DnsStep, EnvStep, vars, kernelVars,
     AttachHook, BeginResolvers, SeedResolver, StartDNSWatcher, SetAllowAllDNS,
     SeedIP, BeginCIDRs, SeedCIDR, BeginLookups, LookupAnswers, LookupFails,
     BeginWrites, SeedResult, BeginServing, BeginClose, DetachHook, Exit, Gone,
     DnsRead, CacheSet, AllowResolved, ReadEvent, ReaderFails, AppConnect,
     SelfConnect, GarbageEvent, WireAnswer, Signal, Kill
  <1>5. UNCHANGED resolvers \/ \E ip \in Addr : AllowResolver(ip)
    BY DEF Next, MainStep, LookupStep, DnsStep, EnvStep, vars, kernelVars,
     AttachHook, BeginResolvers, SeedResolver, StartDNSWatcher, SetAllowAllDNS,
     SeedIP, BeginCIDRs, SeedCIDR, BeginLookups, LookupAnswers, LookupFails,
     BeginWrites, SeedResult, BeginServing, BeginClose, DetachHook, Exit, Gone,
     DnsRead, CacheSet, AllowResolved, ReadEvent, ReaderFails, AppConnect,
     SelfConnect, GarbageEvent, WireAnswer, Signal, Kill
  <1> QED  BY <1>1, <1>2, <1>3, <1>4, <1>5

\* So nothing that is present is lost.
LEMMA PresentStays ==
    ASSUME TypeOK, MapsFinite, [Next]_vars
    PROVE  /\ MapsFinite'
           /\ \A ip \in Addr : ResolverIn(ip) => ResolverIn(ip)'
           /\ \A ip \in Addr : HostIn(ip) => HostIn(ip)'
           /\ \A net \in PolicyNets : NetIn(net) => NetIn(net)'
  <1>1. TrieCap \in Nat /\ ResolverCap \in Nat
    BY BlockAssumption
  <1>2. ASSUME NEW f \in Family
        PROVE  /\ IsFiniteSet(allowed'[f]) /\ IsFiniteSet(resolvers'[f])
               /\ \A k : Present(k, allowed[f], TrieCap) => Present(k, allowed'[f], TrieCap)
               /\ \A k : Present(k, resolvers[f], ResolverCap) => Present(k, resolvers'[f], ResolverCap)
    <2>1. IsFiniteSet(allowed[f]) /\ IsFiniteSet(resolvers[f])
      BY DEF MapsFinite
    <2>2. /\ IsFiniteSet(allowed'[f])
          /\ \A k : Present(k, allowed[f], TrieCap) => Present(k, allowed'[f], TrieCap)
      BY <1>1, <2>1, MapsStep, PutPresent
    <2>3. /\ IsFiniteSet(resolvers'[f])
          /\ \A k : Present(k, resolvers[f], ResolverCap) => Present(k, resolvers'[f], ResolverCap)
      BY <1>1, <2>1, MapsStep, PutPresent
    <2> QED  BY <2>2, <2>3
  <1> QED  BY <1>2, FamilyType DEF MapsFinite, ResolverIn, HostIn, NetIn

\* What a step of a seeding loop has passed is present.
LEMMA WriteSeeds ==
    ASSUME TypeOK, MapsFinite
    PROVE  /\ \A ip \in Addr : AllowIP(ip) => HostIn(ip)'
           /\ \A net \in PolicyNets \ MappedNets : AllowCIDR(net) => NetIn(net)'
           /\ \A ip \in Addr : AllowResolver(ip) => ResolverIn(ip)'
  <1>1. TrieCap \in Nat /\ ResolverCap \in Nat
    BY BlockAssumption
  <1>2. ASSUME NEW ip \in Addr, AllowIP(ip) PROVE HostIn(ip)'
    BY <1>1, <1>2, FamilyType, PutPresent DEF AllowIP, HostIn, TypeOK, MapsFinite
  <1>3. ASSUME NEW net \in PolicyNets \ MappedNets, AllowCIDR(net) PROVE NetIn(net)'
    BY <1>1, <1>3, FamilyType, PutPresent DEF AllowCIDR, NetIn, TypeOK, MapsFinite
  <1>4. ASSUME NEW ip \in Addr, AllowResolver(ip) PROVE ResolverIn(ip)'
    BY <1>1, <1>4, FamilyType, PutPresent DEF AllowResolver, ResolverIn, TypeOK, MapsFinite
  <1> QED  BY <1>2, <1>3, <1>4

\* Every loop of the startup sequence passes all of its items.
LEMMA SeededStep == ASSUME TypeOK, Seeded, [Next]_vars PROVE Seeded'
  <1> USE DEF Seeded, Passed, AfterResolvers, AfterConfig, AfterIPs, AfterCIDRs
  <1>1. /\ MapsFinite'
        /\ \A ip \in Addr : (ResolverIn(ip) => ResolverIn(ip)') /\ (HostIn(ip) => HostIn(ip)')
        /\ \A net \in PolicyNets : NetIn(net) => NetIn(net)'
    BY PresentStays
  <1>2. SystemResolvers \subseteq Addr /\ PolicyIPs \subseteq Addr /\ results \subseteq Addr
    BY AddressAssumption, PolicyAssumption DEF TypeOK
  <1>3. ASSUME NEW ip \in Addr, SeedResolver(ip) PROVE Seeded'
    <2>1. ResolverIn(ip)' /\ phase = "resolvers" /\ todo' = todo \ {ip}
          /\ UNCHANGED <<phase, results, looked, allowAll>>
      BY <1>3, WriteSeeds DEF SeedResolver, history
    <2> QED  BY <1>1, <1>2, <2>1
  <1>4. ASSUME NEW ip \in Addr, SeedIP(ip) PROVE Seeded'
    <2>1. HostIn(ip)' /\ phase = "ips" /\ todo' = todo \ {ip}
          /\ UNCHANGED <<phase, results, looked, allowAll>>
      BY <1>4, WriteSeeds DEF SeedIP, history
    <2> QED  BY <1>1, <1>2, <2>1
  <1>5. ASSUME NEW net \in PolicyNets, SeedCIDR(net) PROVE Seeded'
    <2>1. /\ net \notin MappedNets => NetIn(net)'
          /\ phase = "cidrs" /\ todo' = todo \ {net} /\ UNCHANGED <<phase, results, looked, allowAll>>
      BY <1>5, WriteSeeds DEF SeedCIDR, history
    <2> QED  BY <1>1, <1>2, <2>1
  <1>6. ASSUME NEW ip \in Addr, SeedResult(ip) PROVE Seeded'
    <2>1. HostIn(ip)' /\ phase = "write" /\ todo' = todo \ {ip}
          /\ UNCHANGED <<phase, results, looked, allowAll>>
      BY <1>6, WriteSeeds DEF SeedResult, history
    <2> QED  BY <1>1, <1>2, <2>1
  <1>7. ASSUME NEW a \in Answers, LookupAnswers(a) PROVE Seeded'
    <2>1. /\ phase = "lookup" /\ results' = results \cup a.ips /\ looked' = looked \cup PairsOf(a)
          /\ UNCHANGED <<phase, allowAll>>
      BY <1>7 DEF LookupAnswers, kernelVars
    <2>2. \A pair \in looked' : pair[2] \in results'
      BY <2>1 DEF PairsOf
    <2> QED  BY <1>1, <1>2, <2>1, <2>2
  <1>8. CASE BeginResolvers \/ StartDNSWatcher \/ BeginCIDRs \/ BeginLookups \/ BeginWrites
             \/ BeginServing \/ BeginClose
    BY <1>1, <1>2, <1>8 DEF BeginResolvers, StartDNSWatcher, BeginCIDRs, BeginLookups, BeginWrites,
       BeginServing, BeginClose, Enter, kernelVars, history
  <1>9. CASE SetAllowAllDNS
    BY <1>1, <1>2, <1>9 DEF SetAllowAllDNS, Enter, history
  <1>10. CASE Exit \/ Kill
    BY <1>1, <1>2, <1>10 DEF Exit, Kill, Gone, history
  <1>11. ASSUME NEW d \in ExactDomains, LookupFails(d) PROVE Seeded'
    BY <1>1, <1>2, <1>11 DEF LookupFails, history, kernelVars
  <1>12. CASE UNCHANGED <<phase, todo, results, looked, allowAll>>
    BY <1>1, <1>2, <1>12
  <1> QED
    BY <1>3, <1>4, <1>5, <1>6, <1>7, <1>8, <1>9, <1>10, <1>11, <1>12
    DEF Next, MainStep, LookupStep, DnsStep, EnvStep, vars, mainVars, kernelVars, history,
     AttachHook, DetachHook, DnsRead, CacheSet, AllowResolved, ReadEvent, ReaderFails,
     AppConnect, SelfConnect, GarbageEvent, WireAnswer, Signal

\* Nothing is seeded before the loops begin.
LEMMA SeededInit == Init => Seeded
  BY FS_EmptySet DEF Init, Seeded, MapsFinite, Passed, AfterResolvers, AfterConfig, AfterIPs, AfterCIDRs

\* It holds in every state.
LEMMA AlwaysSeeded == Spec => []Seeded
  <1> QED  BY SeededInit, SeededStep, TypeCorrect, PTL DEF Spec

\* When run announces readiness every resolver, address, range and looked-up
\* address is in the kernel, unless its map is full: no loop skips an item and
\* none is undone by what the DNS goroutine writes meanwhile.  Port 53 is open
\* to every destination only if the policy sets allow_all_dns.
THEOREM SeedingComplete == Spec => []SeededAtReadiness
  <1>1. Seeded => SeededAtReadiness
    BY DEF Seeded, SeededAtReadiness, Passed, AfterResolvers, AfterConfig, AfterIPs, AfterCIDRs,
           ResolverIn, HostIn, NetIn
  <1> QED  BY <1>1, AlwaysSeeded, PTL

-----------------------------------------------------------------------------
(* What is reported of a connection and what the kernel did with it.  The  *)
(* two are compared only when the line is printed, so the invariant keeps  *)
(* the reason for the kernel's decision with the event in the ring buffer. *)

\* Exempt in the report, whatever the policy says.
Exempt(ip, port) == ip \in Loopback \/ (port = "dns" /\ DnsExempt(ip))

\* The reasons to admit a connection while enforcement is on.
Reason(ip, port) == Exempt(ip, port) \/ Listed(ip) \/ Vouched(ip, looked \cup heard)

EventsExplained ==
    \A i \in 1..Len(events) :
        LET e == events[i] IN e.ready /\ e.admitted => Reason(e.ip, e.port)

\* Labels that are neither exempt nor allowed.
LEMMA DenyIs ==
    ASSUME NEW self, NEW port, NEW ip, NEW d,
           VerdictForEvent(self, port, ip, d) \in Deny
    PROVE  ~Exempt(ip, port) /\ ~Listed(ip)
  <1>1. ~self
    BY DEF VerdictForEvent, Deny
  <1>2. VerdictFor(port, ip, d) \in Deny
    BY <1>1 DEF VerdictForEvent
  <1>3. ~(port = "dns" /\ DnsExempt(ip)) /\ ip \notin Loopback
    BY <1>2 DEF VerdictFor, Deny
  <1>4. ~Allow(d, ip)
    BY <1>2, <1>3 DEF VerdictFor, Deny
  <1> QED  BY <1>3, <1>4 DEF Exempt, Allow

\* The exempt labels are of exempt connections.
LEMMA SkipIs ==
    ASSUME NEW self, NEW port, NEW ip, NEW d,
           VerdictForEvent(self, port, ip, d) \in {"SKIP(dns)", "SKIP(loopback)"}
    PROVE  Exempt(ip, port)
  <1>1. ~self
    BY DEF VerdictForEvent
  <1>2. VerdictFor(port, ip, d) \in {"SKIP(dns)", "SKIP(loopback)"}
    BY <1>1 DEF VerdictForEvent
  <1> QED  BY <1>2 DEF VerdictFor, Exempt

\* While an agent serves, what a process may connect to has a reason, and
\* an event without one is refused.
LEMMA AdmitsReason ==
    ASSUME IInv, HooksByPhase, phase = "serve", NEW ip \in Addr, NEW port,
           Admits("connect", ip, port)
    PROVE  Reason(ip, port)
  <1> DEFINE f == FamilyOf(ip)
  <1>1. f \in Family /\ <<"connect", f>> \in hooks
    BY FamilyType DEF HooksByPhase, Hook, Op
  <1>2. Check(ip, port, allowed[f], resolvers[f], allowAll)
    BY <1>1 DEF Admits
  <1>3. CASE port = "dns" /\ (allowAll \/ ip \in resolvers[f])
    BY <1>1, <1>3 DEF IInv, MapsFromPolicy, Reason, Exempt, DnsExempt
  <1>4. ASSUME NEW net \in allowed[f], ip \in net PROVE Reason(ip, port)
    <2>1. \/ net \in PolicyNets
          \/ \E h \in Addr : net = {h} /\ (h \in PolicyIPs \/ Vouched(h, looked \cup heard))
      BY <1>1 DEF IInv, TrieJustified
    <2> QED  BY <1>4, <2>1 DEF Reason, Listed
  <1> QED  BY <1>2, <1>3, <1>4 DEF Check, Reason, Exempt

\* An event that is offered joins the end of the ring buffer, if it joins.
LEMMA Offered ==
    ASSUME NEW S, NEW ring \in Seq(S), NEW rec \in S, NEW cap, NEW i \in 1..Len(Offer(ring, rec, cap))
    PROVE  \/ i \in 1..Len(ring) /\ Offer(ring, rec, cap)[i] = ring[i]
           \/ Offer(ring, rec, cap)[i] = rec
  <1>1. CASE Len(ring) < cap
    <2>1. Offer(ring, rec, cap) = Append(ring, rec)
      BY <1>1 DEF Offer
    <2>2. i \in 1..(Len(ring) + 1) /\ Len(ring) \in Nat
      BY <2>1
    <2> QED  BY <2>1, <2>2
  <1>2. CASE ~(Len(ring) < cap)
    BY <1>2 DEF Offer
  <1> QED  BY <1>1, <1>2

\* How the ring buffer of events changes: by a connection, by a record that
\* does not parse, by a read.
LEMMA EventsStep ==
    ASSUME [Next]_vars
    PROVE  \/ UNCHANGED events
           \/ events' = Offer(events, Garbage, EventCap)
           \/ \E t \in Targets, self \in BOOLEAN : Connect(t[1], t[2], self)
           \/ ReadEvent
  BY DEF Next, MainStep, LookupStep, DnsStep, EnvStep, vars,
     AttachHook, BeginResolvers, SeedResolver, StartDNSWatcher, SetAllowAllDNS,
     SeedIP, BeginCIDRs, SeedCIDR, BeginLookups, LookupAnswers, LookupFails,
     BeginWrites, SeedResult, BeginServing, BeginClose, DetachHook, Exit, Gone,
     DnsRead, CacheSet, AllowResolved, ReaderFails, AppConnect,
     SelfConnect, GarbageEvent, WireAnswer, Signal, Kill

\* Only the reader prints.
LEMMA LineStep ==
    ASSUME [Next]_vars
    PROVE  UNCHANGED line \/ (ReadEvent /\ Head(events) # Garbage /\ line' = LineFor(Head(events)))
  BY DEF Next, MainStep, LookupStep, DnsStep, EnvStep, vars,
     AttachHook, BeginResolvers, SeedResolver, StartDNSWatcher, SetAllowAllDNS,
     SeedIP, BeginCIDRs, SeedCIDR, BeginLookups, LookupAnswers, LookupFails,
     BeginWrites, SeedResult, BeginServing, BeginClose, DetachHook, Exit, Gone,
     DnsRead, CacheSet, AllowResolved, ReadEvent, ReaderFails, AppConnect,
     SelfConnect, GarbageEvent, WireAnswer, Signal, Kill

\* A reason is not lost: the evidence only grows.
LEMMA ReasonStays ==
    ASSUME [Next]_vars, NEW ip, NEW port, Reason(ip, port) PROVE Reason(ip, port)'
  BY VouchedGrows DEF Reason, Exempt, Listed, DnsExempt

\* What an event says that a connection adds.
LEMMA ConnectEvent ==
    ASSUME TypeOK, NEW t \in Targets, NEW self \in BOOLEAN, Connect(t[1], t[2], self),
           NEW i \in 1..Len(events'), NEW e, e = events'[i]
    PROVE  \/ i \in 1..Len(events) /\ e = events[i]
           \/ /\ e.ip = t[1] /\ e.port = t[2] /\ e.ready \in BOOLEAN /\ e.admitted \in BOOLEAN
              /\ e.admitted <=> Admits("connect", t[1], t[2])
              /\ e.ready <=> phase = "serve"
  <1> DEFINE a == Admits("connect", t[1], t[2])
             r == phase = "serve"
             new == [ip |-> t[1], port |-> t[2], self |-> self, admitted |-> a, ready |-> r]
  <1>1. events' = Offer(events, new, EventCap)
    BY DEF Connect
  <1>2. a \in BOOLEAN /\ r \in BOOLEAN
    BY DEF Admits, Check
  <1>3. t[1] \in Addr /\ t[2] \in Port
    BY BlockAssumption
  <1>4. events \in Seq(Event \cup {Garbage})
    BY DEF TypeOK
  <1> HIDE DEF a, r
  <1>5. new \in Event \cup {Garbage}
    BY <1>2, <1>3 DEF Event
  <1>6. /\ new.ip = t[1] /\ new.port = t[2] /\ new.admitted = a /\ new.ready = r
    OBVIOUS
  <1> DEFINE S == Event \cup {Garbage}
  <1> HIDE DEF new, S
  <1>7. i \in 1..Len(Offer(events, new, EventCap)) /\ e = Offer(events, new, EventCap)[i]
    BY <1>1
  <1>8. (i \in 1..Len(events) /\ e = events[i]) \/ e = new
    <2>1. events \in Seq(S) /\ new \in S
      BY <1>4, <1>5 DEF S
    <2> QED  BY ONLY <2>1, <1>7, Offered
  <1> QED  BY <1>2, <1>6, <1>8 DEF a, r

\* Reading takes the oldest event.
LEMMA ReadRest ==
    ASSUME TypeOK, ReadEvent
    PROVE  /\ 1 \in 1..Len(events) /\ Head(events) = events[1]
           /\ \A i \in 1..Len(events') : i + 1 \in 1..Len(events) /\ events'[i] = events[i + 1]
  <1>1. events \in Seq(Event \cup {Garbage}) /\ events # <<>> /\ events' = Tail(events)
    BY DEF TypeOK, ReadEvent
  <1> QED  BY <1>1

\* Whoever connects and whatever is read, an admitted event keeps its reason.
LEMMA ExplainedStep ==
    ASSUME IInv, HooksByPhase, EventsExplained, [Next]_vars PROVE EventsExplained'
  <1> SUFFICES ASSUME NEW i \in 1..Len(events'), NEW e, e = events'[i], e.ready, e.admitted
               PROVE  Reason(e.ip, e.port)'
    BY DEF EventsExplained
  <1>1. ASSUME NEW j \in 1..Len(events), events'[i] = events[j]
        PROVE  Reason(e.ip, e.port)'
    BY <1>1, ReasonStays DEF EventsExplained
  <1>2. CASE events' = Offer(events, Garbage, EventCap)
    <2>1. ~Garbage.ready
      BY DEF Garbage
    <2>2. events \in Seq(Event \cup {Garbage})
      BY DEF IInv, TypeOK
    <2>3. (i \in 1..Len(events) /\ events'[i] = events[i]) \/ events'[i] = Garbage
      <3>1. /\ i \in 1..Len(Offer(events, Garbage, EventCap))
            /\ events'[i] = Offer(events, Garbage, EventCap)[i]
        BY <1>2
      <3> DEFINE S == Event \cup {Garbage}
      <3>2. Garbage \in S /\ events \in Seq(S)
        BY <2>2
      <3> HIDE DEF S
      <3> QED  BY ONLY <3>1, <3>2, Offered
    <2> QED  BY <1>1, <2>1, <2>3
  <1>3. ASSUME NEW t \in Targets, NEW self \in BOOLEAN, Connect(t[1], t[2], self)
        PROVE  Reason(e.ip, e.port)'
    <2>1. t[1] \in Addr
      BY BlockAssumption
    <2>2. CASE /\ e.ip = t[1] /\ e.port = t[2]
               /\ e.admitted <=> Admits("connect", t[1], t[2])
               /\ e.ready <=> phase = "serve"
      <3>1. Reason(t[1], t[2])
        BY <2>1, <2>2, AdmitsReason
      <3> QED  BY <2>2, <3>1, ReasonStays
    <2> QED  BY <1>1, <1>3, <2>2, ConnectEvent DEF IInv
  <1>4. CASE ReadEvent
    BY <1>1, <1>4, ReadRest DEF IInv
  <1> QED  BY <1>1, <1>2, <1>3, <1>4, EventsStep

\* A connection made after readiness that the kernel let through and the
\* report calls a violation is one that a trusted answer explains: the label
\* comes from a cache that has missed or overwritten the name since.
THEOREM DenialsExplained == Spec => []DenyExplained
  <1>1. Init => EventsExplained /\ DenyExplained
    BY DEF Init, EventsExplained, DenyExplained, NoLine
  <1>2. IInv /\ HooksByPhase /\ EventsExplained /\ [Next]_vars => EventsExplained'
    BY ExplainedStep
  <1>3. ASSUME IInv, EventsExplained, DenyExplained, [Next]_vars PROVE DenyExplained'
    <2>1. CASE UNCHANGED line
      BY <1>3, <2>1, VouchedGrows DEF DenyExplained
    <2>2. CASE ReadEvent /\ Head(events) # Garbage /\ line' = LineFor(Head(events))
      <3> DEFINE e == Head(events)
      <3>1. e.ready /\ e.admitted => Reason(e.ip, e.port)
        BY <1>3, <2>2, ReadRest DEF EventsExplained, IInv
      <3>2. /\ line'.verdict = VerdictForEvent(e.self, e.port, e.ip, cache[e.ip])
            /\ line'.ip = e.ip /\ line'.ready = e.ready /\ line'.admitted = e.admitted
        BY <2>2 DEF LineFor
      <3>3. line'.verdict \in Deny => ~Exempt(e.ip, e.port) /\ ~Listed(e.ip)
        BY <3>2, DenyIs
      <3>4. line'.ready /\ line'.verdict \in Deny /\ line'.admitted =>
                Vouched(e.ip, looked \cup heard)
        BY <3>1, <3>2, <3>3 DEF Reason
      <3> QED  BY <1>3, <3>2, <3>4, VouchedGrows DEF DenyExplained
    <2> QED  BY <1>3, <2>1, <2>2, LineStep
  <1>4. Init => HooksByPhase
    BY DEF Init, HooksByPhase
  <1> QED  BY <1>1, <1>2, <1>3, <1>4, HooksStep, Inductive, PTL DEF Spec

-----------------------------------------------------------------------------
(* The exemptions of the report, when the resolver sets have room for the  *)
(* nameservers: block.c gives each family 16 entries.                      *)

\* The nameservers that are written to the resolver set of a family.
ResolversOf(f) == {ip \in SystemResolvers \ Loopback : FamilyOf(ip) = f}

ResolversFit ==
    \A f \in Family : IsFiniteSet(ResolversOf(f)) /\ Cardinality(ResolversOf(f)) <= ResolverCap

\* Nothing else is written there.
OnlyResolvers ==
    /\ \A f \in Family : resolvers[f] \subseteq ResolversOf(f)
    /\ phase = "resolvers" => todo \subseteq SystemResolvers \ Loopback

Serving == {"serve", "close", "closed"}

EventsExempt ==
    \A i \in 1..Len(events) :
        LET e == events[i] IN
        e.ready => /\ phase \in Serving
                   /\ OptionApplied /\ Exempt(e.ip, e.port) => e.admitted

LineExempt == SkipMeansAdmitted /\ (line.ready => phase \in Serving)

\* The loop that fills the resolver sets leaves the loopback stubs out.
LEMMA OnlyResolversStep ==
    ASSUME TypeOK, OnlyResolvers, [Next]_vars PROVE OnlyResolvers'
  <1>1. ASSUME NEW ip \in Addr, SeedResolver(ip) PROVE OnlyResolvers'
    <2>1. ip \in ResolversOf(FamilyOf(ip)) /\ todo' \subseteq todo
      BY <1>1 DEF SeedResolver, OnlyResolvers, ResolversOf
    <2>2. ASSUME NEW f \in Family PROVE resolvers'[f] \subseteq ResolversOf(f)
      <3>1. CASE f = FamilyOf(ip)
        <4>1. resolvers'[f] \subseteq resolvers[f] \cup {ip}
          BY <1>1, <3>1, PutBounds DEF SeedResolver, AllowResolver, TypeOK
        <4> QED  BY <2>1, <3>1, <4>1 DEF OnlyResolvers
      <3>2. CASE f # FamilyOf(ip)
        BY <1>1, <3>2 DEF SeedResolver, AllowResolver, TypeOK, OnlyResolvers
      <3> QED  BY <3>1, <3>2
    <2> QED  BY <1>1, <2>1, <2>2 DEF OnlyResolvers, SeedResolver
  <1>2. CASE UNCHANGED resolvers /\ (UNCHANGED <<phase, todo>> \/ phase' # "resolvers")
    BY <1>2 DEF OnlyResolvers, ResolversOf
  <1>3. CASE BeginResolvers
    BY <1>3 DEF BeginResolvers, Enter, OnlyResolvers, ResolversOf, kernelVars
  <1>4. UNCHANGED resolvers \/ \E ip \in Addr : SeedResolver(ip)
    BY DEF Next, MainStep, LookupStep, DnsStep, EnvStep, vars, kernelVars,
     AttachHook, BeginResolvers, StartDNSWatcher, SetAllowAllDNS,
     SeedIP, BeginCIDRs, SeedCIDR, BeginLookups, LookupAnswers, LookupFails,
     BeginWrites, SeedResult, BeginServing, BeginClose, DetachHook, Exit, Gone,
     DnsRead, CacheSet, AllowResolved, ReadEvent, ReaderFails, AppConnect,
     SelfConnect, GarbageEvent, WireAnswer, Signal, Kill
  <1>5. \/ BeginResolvers \/ phase' # "resolvers" \/ UNCHANGED <<phase, todo>>
        \/ \E ip \in Addr : SeedResolver(ip)
    BY DEF Next, MainStep, LookupStep, DnsStep, EnvStep, vars, mainVars, Enter,
     AttachHook, StartDNSWatcher, SetAllowAllDNS,
     SeedIP, BeginCIDRs, SeedCIDR, BeginLookups, LookupAnswers, LookupFails,
     BeginWrites, SeedResult, BeginServing, BeginClose, DetachHook, Exit, Gone,
     DnsRead, CacheSet, AllowResolved, ReadEvent, ReaderFails, AppConnect,
     SelfConnect, GarbageEvent, WireAnswer, Signal, Kill
  <1> QED  BY <1>1, <1>2, <1>3, <1>4, <1>5

\* The option is written once, before any event is made after readiness.
LEMMA ServingStays ==
    ASSUME phase \in Serving, [Next]_vars PROVE phase' \in Serving /\ UNCHANGED allowAll
  BY DEF Serving, Next, MainStep, LookupStep, DnsStep, EnvStep, vars, mainVars, kernelVars, Enter,
     AttachHook, BeginResolvers, SeedResolver, StartDNSWatcher, SetAllowAllDNS,
     SeedIP, BeginCIDRs, SeedCIDR, BeginLookups, LookupAnswers, LookupFails,
     BeginWrites, SeedResult, BeginServing, BeginClose, DetachHook, Exit, Gone,
     DnsRead, CacheSet, AllowResolved, ReadEvent, ReaderFails, AppConnect,
     SelfConnect, GarbageEvent, WireAnswer, Signal, Kill

\* While an agent serves the kernel admits what the report exempts.
LEMMA ExemptAdmits ==
    ASSUME TypeOK, Seeded, OnlyResolvers, ResolversFit, OptionApplied, phase = "serve",
           NEW ip \in Addr, NEW port, Exempt(ip, port)
    PROVE  Admits("connect", ip, port)
  <1> DEFINE f == FamilyOf(ip)
  <1>1. f \in Family /\ ResolverCap \in Nat
    BY FamilyType, BlockAssumption
  <1>2. CASE ip \in Loopback
    BY <1>2 DEF Admits, Check
  <1>3. CASE port = "dns" /\ AllowAllDNS
    <2>1. allowAll
      BY <1>3 DEF OptionApplied
    <2> QED  BY <1>3, <2>1 DEF Admits, Check
  <1>4. CASE port = "dns" /\ ip \in SystemResolvers \ Loopback
    <2>1. ip \in resolvers[f] \/ Cardinality(resolvers[f]) >= ResolverCap
      BY <1>4 DEF Seeded, Passed, AfterResolvers, ResolverIn, Present
    <2>2. /\ IsFiniteSet(ResolversOf(f)) /\ Cardinality(ResolversOf(f)) <= ResolverCap
          /\ resolvers[f] \subseteq ResolversOf(f) /\ ip \in ResolversOf(f)
      BY <1>1, <1>4 DEF ResolversFit, OnlyResolvers, ResolversOf
    <2>3. /\ Cardinality(resolvers[f]) \in Nat /\ Cardinality(ResolversOf(f)) \in Nat
          /\ Cardinality(resolvers[f]) <= Cardinality(ResolversOf(f))
          /\ Cardinality(resolvers[f]) = Cardinality(ResolversOf(f)) => resolvers[f] = ResolversOf(f)
      <3>1. IsFiniteSet(resolvers[f])
        BY <2>2, FS_Subset
      <3> QED  BY <2>2, <3>1, FS_Subset, FS_CardinalityType
    <2>4. ip \in resolvers[f]
      BY <1>1, <2>1, <2>2, <2>3
    <2> QED  BY <1>4, <2>4 DEF Admits, Check
  <1> QED  BY <1>2, <1>3, <1>4 DEF Exempt, DnsExempt

\* An exempt event made after readiness was let through, and stays so recorded.
LEMMA EventsExemptStep ==
    ASSUME TypeOK, Seeded, OnlyResolvers, ResolversFit, EventsExempt, [Next]_vars
    PROVE  EventsExempt'
  <1> DEFINE Kept(e) == phase' \in Serving /\ (OptionApplied' /\ Exempt(e.ip, e.port) => e.admitted)
  <1> SUFFICES ASSUME NEW i \in 1..Len(events'), NEW e, e = events'[i], e.ready
               PROVE  Kept(e)
    BY DEF EventsExempt, Exempt, DnsExempt
  <1>1. ASSUME NEW j \in 1..Len(events), e = events[j] PROVE Kept(e)
    BY <1>1, ServingStays DEF EventsExempt, OptionApplied
  <1>2. CASE events' = Offer(events, Garbage, EventCap)
    <2>1. ~Garbage.ready
      BY DEF Garbage
    <2> DEFINE S == Event \cup {Garbage}
    <2>2. /\ i \in 1..Len(Offer(events, Garbage, EventCap))
          /\ e = Offer(events, Garbage, EventCap)[i]
      BY <1>2
    <2>3. Garbage \in S /\ events \in Seq(S)
      BY DEF TypeOK
    <2> HIDE DEF S
    <2>4. (i \in 1..Len(events) /\ e = events[i]) \/ e = Garbage
      BY ONLY <2>2, <2>3, Offered
    <2> QED  BY <1>1, <2>1, <2>4
  <1>3. ASSUME NEW t \in Targets, NEW self \in BOOLEAN, Connect(t[1], t[2], self)
        PROVE  Kept(e)
    <2>1. t[1] \in Addr
      BY BlockAssumption
    <2>2. CASE /\ e.ip = t[1] /\ e.port = t[2]
               /\ e.admitted <=> Admits("connect", t[1], t[2])
               /\ e.ready <=> phase = "serve"
      <3>1. phase \in Serving
        BY <2>2 DEF Serving
      <3>2. phase' \in Serving /\ OptionApplied' = OptionApplied
        BY <3>1, ServingStays DEF OptionApplied
      <3> QED  BY <2>1, <2>2, <3>2, ExemptAdmits
    <2> QED  BY <1>1, <1>3, <2>2, ConnectEvent
  <1>4. CASE ReadEvent
    BY <1>1, <1>4, ReadRest
  <1> QED  BY <1>1, <1>2, <1>3, <1>4, EventsStep

\* As long as the resolver sets can hold the nameservers and the write of
\* allow_all_dns did not fail, the exemptions of the report do not exceed
\* those of check_ipv4 and check_ipv6: a connection made after readiness and
\* reported as SKIP(dns) or SKIP(loopback) was let through.  Without the
\* hypothesis a nameserver that AllowResolver could not write would be
\* refused and reported as exempt.
THEOREM SkipsAdmitted == ASSUME ResolversFit PROVE Spec => []SkipMeansAdmitted
  <1>1. Init => EventsExempt /\ OnlyResolvers /\ LineExempt
    BY DEF Init, EventsExempt, OnlyResolvers, LineExempt, SkipMeansAdmitted, NoLine
  <1>2. ASSUME TypeOK, Seeded, OnlyResolvers, EventsExempt, [Next]_vars
        PROVE  OnlyResolvers' /\ EventsExempt'
    BY <1>2, OnlyResolversStep, EventsExemptStep
  <1>3. ASSUME TypeOK, EventsExempt, LineExempt, [Next]_vars PROVE LineExempt'
    <2>1. CASE UNCHANGED line
      BY <1>3, <2>1, ServingStays DEF LineExempt, SkipMeansAdmitted, OptionApplied
    <2>2. CASE ReadEvent /\ Head(events) # Garbage /\ line' = LineFor(Head(events))
      <3> DEFINE e == Head(events)
      <3>1. e.ready => /\ phase \in Serving
                       /\ OptionApplied /\ Exempt(e.ip, e.port) => e.admitted
        BY <1>3, <2>2, ReadRest DEF EventsExempt
      <3>2. /\ line'.verdict = VerdictForEvent(e.self, e.port, e.ip, cache[e.ip])
            /\ line'.ready = e.ready /\ line'.admitted = e.admitted
        BY <2>2 DEF LineFor
      <3>3. line'.verdict \in {"SKIP(dns)", "SKIP(loopback)"} => Exempt(e.ip, e.port)
        BY <3>2, SkipIs
      <3>4. e.ready => phase' \in Serving /\ OptionApplied' = OptionApplied
        BY <1>3, <3>1, ServingStays DEF OptionApplied
      <3> QED  BY <3>1, <3>2, <3>3, <3>4 DEF LineExempt, SkipMeansAdmitted
    <2> QED  BY <1>3, <2>1, <2>2, LineStep
  <1>4. LineExempt => SkipMeansAdmitted
    BY DEF LineExempt
  <1> QED  BY <1>1, <1>2, <1>3, <1>4, AlwaysSeeded, TypeCorrect, PTL DEF Spec

-----------------------------------------------------------------------------
(* Nothing that was heard is lost.  AnswerApplied, the liveness property,  *)
(* follows from this invariant and from the DNS goroutine being scheduled: *)
(* a pair that is not in its trie yet is in the ring or in hand.           *)

\* A captured record that says so waits to be read.
Queued(d, ip) ==
    \E i \in 1..Len(dnsRing) :
        Trusted(dnsRing[i]) /\ dnsRing[i].domain = d /\ ip \in dnsRing[i].ips

\* The DNS goroutine is applying one.
InHand(d, ip) ==
    dns = "apply" /\ job.allow /\ job.domain = d /\ ip \in job.ips \cup job.grant

\* The DNS goroutine runs from the start of capture to the end of the agent.
DnsByPhase ==
    /\ phase \in {"attach", "resolvers"} => dns = "off"
    /\ phase \notin {"attach", "resolvers", "closed"} => dns # "off"

\* One address at a time is between the cache and the trie.
GrantIsOne == \A x, y \in job.grant : x = y

\* What a trusted answer said of an allowed domain is in its trie, which may
\* be full, or the goroutine that will write it there has it before it.
NoneLost ==
    \A d \in Domain, ip \in Addr :
        IsAllowedDomain(d) /\ <<d, ip>> \in heard =>
            \/ stop # "no"
            \/ Present({ip}, allowed[FamilyOf(ip)], TrieCap)
            \/ Queued(d, ip) \/ InHand(d, ip)

\* The goroutine starts once and ends with the process.
LEMMA DnsPhaseStep == DnsByPhase /\ [Next]_vars => DnsByPhase'
  BY DEF DnsByPhase, Next, MainStep, LookupStep, DnsStep, EnvStep, vars,
     mainVars, dnsVars, Enter, Continue,
     AttachHook, BeginResolvers, SeedResolver, StartDNSWatcher, SetAllowAllDNS,
     SeedIP, BeginCIDRs, SeedCIDR, BeginLookups, LookupAnswers, LookupFails,
     BeginWrites, SeedResult, BeginServing, BeginClose, DetachHook, Exit, Gone,
     DnsRead, CacheSet, AllowResolved, ReadEvent, ReaderFails, AppConnect,
     SelfConnect, GarbageEvent, WireAnswer, Signal, Kill

\* A run that is told to stop is not told to go on.
LEMMA StopStays == ASSUME [Next]_vars, stop # "no" PROVE stop' # "no"
  BY DEF Next, MainStep, LookupStep, DnsStep, EnvStep, vars, mainVars, Enter,
     AttachHook, BeginResolvers, SeedResolver, StartDNSWatcher, SetAllowAllDNS,
     SeedIP, BeginCIDRs, SeedCIDR, BeginLookups, LookupAnswers, LookupFails,
     BeginWrites, SeedResult, BeginServing, BeginClose, DetachHook, Exit, Gone,
     DnsRead, CacheSet, AllowResolved, ReadEvent, ReaderFails, AppConnect,
     SelfConnect, GarbageEvent, WireAnswer, Signal, Kill

\* Only the DNS goroutine touches its job, and only the two ends of the ring
\* change; whoever ends the process was told to stop.
LEMMA DnsStepIs ==
    ASSUME [Next]_vars, DnsByPhase, HooksByPhase
    PROVE  \/ stop' # "no"
           \/ DnsRead
           \/ \E x \in Addr : CacheSet(x) /\ UNCHANGED <<dnsRing, heard>>
           \/ \E x \in Addr : AllowResolved(x) /\ UNCHANGED <<dnsRing, heard>>
           \/ /\ UNCHANGED job /\ (dns' = dns \/ dns = "off")
              /\ UNCHANGED <<dnsRing, heard>> \/ \E a \in Answers : Capture(a)
  BY DEF DnsByPhase, HooksByPhase, Next, MainStep, LookupStep, DnsStep, EnvStep, vars,
     mainVars, dnsVars, history, Enter,
     AttachHook, BeginResolvers, SeedResolver, StartDNSWatcher, SetAllowAllDNS,
     SeedIP, BeginCIDRs, SeedCIDR, BeginLookups, LookupAnswers, LookupFails,
     BeginWrites, SeedResult, BeginServing, BeginClose, DetachHook, Exit, Gone,
     CacheSet, AllowResolved, ReadEvent, ReaderFails, AppConnect,
     SelfConnect, GarbageEvent, WireAnswer, Signal, Kill

\* A captured record joins the others behind them.
LEMMA CaptureQueues ==
    ASSUME TypeOK, NEW a \in Answers, Capture(a), NEW d, NEW ip
    PROVE  /\ Queued(d, ip) => Queued(d, ip)'
           /\ <<d, ip>> \in heard' => <<d, ip>> \in heard \/ Queued(d, ip)'
  <1>1. dnsRing \in Seq(Answers)
    BY DEF TypeOK
  <1>2. CASE UNCHANGED <<dnsRing, heard>>
    BY <1>2 DEF Queued
  <1>3. CASE /\ dnsRing' = Append(dnsRing, a)
             /\ heard' = IF Trusted(a) THEN heard \cup PairsOf(a) ELSE heard
    <2>1. /\ Len(dnsRing') = Len(dnsRing) + 1 /\ Len(dnsRing) \in Nat
          /\ dnsRing'[Len(dnsRing) + 1] = a
          /\ \A i \in 1..Len(dnsRing) : dnsRing'[i] = dnsRing[i]
      BY <1>1, <1>3
    <2>2. Queued(d, ip) => Queued(d, ip)'
      <3> SUFFICES ASSUME NEW i \in 1..Len(dnsRing),
                          Trusted(dnsRing[i]), dnsRing[i].domain = d, ip \in dnsRing[i].ips
                   PROVE  Queued(d, ip)'
        BY DEF Queued
      <3>1. i \in 1..Len(dnsRing') /\ dnsRing'[i] = dnsRing[i]
        BY <2>1
      <3> QED  BY <3>1 DEF Queued
    <2>3. ASSUME <<d, ip>> \in heard', <<d, ip>> \notin heard PROVE Queued(d, ip)'
      <3>1. Trusted(a) /\ <<d, ip>> \in PairsOf(a)
        BY <1>3, <2>3
      <3>2. a.domain = d /\ ip \in a.ips
        BY <3>1 DEF PairsOf
      <3>3. Len(dnsRing) + 1 \in 1..Len(dnsRing')
        BY <2>1
      <3> QED  BY <2>1, <3>1, <3>2, <3>3 DEF Queued
    <2> QED  BY <2>2, <2>3
  <1> QED  BY <1>2, <1>3 DEF Capture

\* The record that is read is in hand, and the others stay in the ring.
LEMMA ReadTakes ==
    ASSUME TypeOK, DnsRead, NEW d \in Domain, NEW ip, IsAllowedDomain(d), Queued(d, ip)
    PROVE  Queued(d, ip)' \/ InHand(d, ip)'
  <1>1. /\ dnsRing \in Seq(Answers) /\ dnsRing # <<>> /\ dnsRing' = Tail(dnsRing)
    BY DEF TypeOK, DnsRead
  <1>2. PICK i \in 1..Len(dnsRing) :
            Trusted(dnsRing[i]) /\ dnsRing[i].domain = d /\ ip \in dnsRing[i].ips
    BY DEF Queued
  <1>3. CASE i = 1
    <2> DEFINE a == Head(dnsRing)
    <2>1. a = dnsRing[1]
      BY <1>1
    <2>2. Trusted(a) /\ a.domain = d /\ ip \in a.ips
      BY <1>2, <1>3, <2>1
    <2>3. a.domain # NoDomain /\ a.ips # {} /\ MayExtend(a)
      BY <2>2, PolicyAssumption DEF MayExtend
    <2>4. /\ dns' = "apply"
          /\ job' = [domain |-> a.domain, ips |-> a.ips, grant |-> {}, allow |-> MayExtend(a)]
      BY <2>3 DEF DnsRead
    <2>5. job'.domain = d /\ job'.ips = a.ips /\ job'.allow
      BY <2>2, <2>3, <2>4
    <2> QED  BY <2>2, <2>4, <2>5 DEF InHand
  <1>4. CASE i # 1
    <2>1. i - 1 \in 1..Len(dnsRing') /\ dnsRing'[i - 1] = dnsRing[i]
      BY <1>1, <1>4
    <2> QED  BY <1>2, <2>1 DEF Queued
  <1> QED  BY <1>3, <1>4

\* What is in hand stays there until its turn, and then it is written.
LEMMA HandKeeps ==
    ASSUME TypeOK, MapsFinite, GrantIsOne, NEW d, NEW ip \in Addr, InHand(d, ip),
           NEW x \in Addr, CacheSet(x) \/ AllowResolved(x)
    PROVE  InHand(d, ip)' \/ HostIn(ip)'
  <1>1. CASE CacheSet(x)
    <2>1. /\ x \in job.ips /\ job.grant = {} /\ dns' = "apply"
          /\ job' = [job EXCEPT !.ips = job.ips \ {x}, !.grant = {x}]
      BY <1>1 DEF CacheSet, Continue, InHand
    <2>2. /\ job'.domain = job.domain /\ job'.allow = job.allow
          /\ job'.ips = job.ips \ {x} /\ job'.grant = {x}
      BY <2>1 DEF TypeOK
    <2> QED  BY <2>1, <2>2 DEF InHand
  <1>2. CASE AllowResolved(x)
    <2>1. /\ x \in job.grant /\ AllowIP(x)
          /\ job' = [job EXCEPT !.ips = job.ips, !.grant = {}]
          /\ dns' = IF job.ips = {} THEN "read" ELSE "apply"
      BY <1>2 DEF AllowResolved, Continue
    <2>2. /\ job'.domain = job.domain /\ job'.allow = job.allow /\ job'.ips = job.ips
      BY <2>1 DEF TypeOK
    <2>3. CASE ip = x
      BY <2>1, <2>3, WriteSeeds
    <2>4. CASE ip # x
      <3>1. ip \in job.ips
        BY <2>1, <2>4 DEF InHand, GrantIsOne
      <3> QED  BY <2>1, <2>2, <3>1 DEF InHand
    <2> QED  BY <2>3, <2>4
  <1> QED  BY <1>1, <1>2

\* The address of a step of the loop is the only one it permits.
LEMMA GrantOneStep == ASSUME TypeOK, GrantIsOne, [Next]_vars PROVE GrantIsOne'
  <1>1. CASE DnsRead
    BY <1>1 DEF DnsRead, GrantIsOne, dnsVars
  <1>2. ASSUME NEW x \in Addr, CacheSet(x) PROVE GrantIsOne'
    <2>1. job'.grant \in {{}, {x}}
      BY <1>2 DEF CacheSet, Continue, TypeOK
    <2> QED  BY <2>1 DEF GrantIsOne
  <1>3. ASSUME NEW x \in Addr, AllowResolved(x) PROVE GrantIsOne'
    <2>1. job'.grant = {}
      BY <1>3 DEF AllowResolved, Continue, TypeOK
    <2> QED  BY <2>1 DEF GrantIsOne
  <1>4. CASE UNCHANGED job
    BY <1>4 DEF GrantIsOne
  <1> QED
    BY <1>1, <1>2, <1>3, <1>4
    DEF Next, MainStep, LookupStep, DnsStep, EnvStep, vars, dnsVars,
     AttachHook, BeginResolvers, SeedResolver, StartDNSWatcher, SetAllowAllDNS,
     SeedIP, BeginCIDRs, SeedCIDR, BeginLookups, LookupAnswers, LookupFails,
     BeginWrites, SeedResult, BeginServing, BeginClose, DetachHook, Exit, Gone,
     ReadEvent, ReaderFails, AppConnect, SelfConnect, GarbageEvent, WireAnswer,
     Signal, Kill

\* So a step loses nothing that was heard.
LEMMA NoneLostStep ==
    ASSUME TypeOK, MapsFinite, HooksByPhase, DnsByPhase, GrantIsOne, NoneLost, [Next]_vars
    PROVE  NoneLost'
  <1> SUFFICES ASSUME NEW d \in Domain, NEW ip \in Addr,
                      IsAllowedDomain(d), <<d, ip>> \in heard', stop' = "no"
               PROVE  HostIn(ip)' \/ Queued(d, ip)' \/ InHand(d, ip)'
    BY DEF NoneLost, HostIn
  <1>1. HostIn(ip) => HostIn(ip)'
    BY PresentStays
  <1>2. ASSUME <<d, ip>> \in heard PROVE HostIn(ip) \/ Queued(d, ip) \/ InHand(d, ip)
    BY <1>2, StopStays DEF NoneLost, HostIn
  <1>3. CASE DnsRead
    <2>1. <<d, ip>> \in heard /\ ~InHand(d, ip)
      BY <1>3 DEF DnsRead, InHand, history
    <2> QED  BY <1>1, <1>2, <1>3, <2>1, ReadTakes
  <1>4. ASSUME NEW x \in Addr, CacheSet(x) \/ AllowResolved(x), UNCHANGED <<dnsRing, heard>>
        PROVE  HostIn(ip)' \/ Queued(d, ip)' \/ InHand(d, ip)'
    <2>1. Queued(d, ip) => Queued(d, ip)'
      BY <1>4 DEF Queued
    <2> QED  BY <1>1, <1>2, <1>4, <2>1, HandKeeps
  <1>5. ASSUME UNCHANGED job, dns' = dns \/ dns = "off",
               UNCHANGED <<dnsRing, heard>> \/ \E a \in Answers : Capture(a)
        PROVE  HostIn(ip)' \/ Queued(d, ip)' \/ InHand(d, ip)'
    <2>1. InHand(d, ip) => InHand(d, ip)'
      BY <1>5 DEF InHand
    <2>2. (Queued(d, ip) => Queued(d, ip)') /\ (<<d, ip>> \in heard \/ Queued(d, ip)')
      BY <1>5, CaptureQueues DEF Queued
    <2> QED  BY <1>1, <1>2, <2>1, <2>2
  <1> QED  BY <1>3, <1>4, <1>5, DnsStepIs

\* From the moment the socket filter captures a trusted answer for an allowed
\* domain, each of its addresses is in the ring, in the hands of the DNS
\* goroutine, which is running, or in its trie, unless that is full or the
\* agent was told to stop: neither a write by another goroutine nor a dropped
\* record, an overwritten job or a permit that failed ever loses one.
THEOREM NothingHeardIsLost == Spec => [](NoneLost /\ DnsByPhase)
  <1>1. Init => NoneLost /\ GrantIsOne /\ DnsByPhase /\ HooksByPhase
    BY DEF Init, NoneLost, GrantIsOne, NoJob, DnsByPhase, HooksByPhase
  <1>2. ASSUME Seeded PROVE MapsFinite
    BY <1>2 DEF Seeded
  <1>3. TypeOK /\ Seeded /\ GrantIsOne /\ NoneLost /\ DnsByPhase /\ HooksByPhase /\ [Next]_vars
            => (NoneLost /\ GrantIsOne /\ DnsByPhase /\ HooksByPhase)'
    BY <1>2, NoneLostStep, GrantOneStep, DnsPhaseStep, HooksStep
  <1> QED  BY <1>1, <1>3, AlwaysSeeded, TypeCorrect, PTL DEF Spec

-----------------------------------------------------------------------------
(* What startup makes of the policy: the converse of default deny.         *)

\* What the policy lists or a lookup returned, while its trie has room, and a
\* query to a nameserver while its resolver set has.  A range in the
\* IPv4-mapped form is what CIDRPermitted is about.
ToAdmit(ip, port) ==
    \/ /\ Cardinality(allowed[FamilyOf(ip)]) < TrieCap
       /\ \/ ip \in PolicyIPs
          \/ \E pair \in looked : pair[2] = ip
          \/ \E net \in PolicyNets \ MappedNets : ip \in net
    \/ /\ Cardinality(resolvers[FamilyOf(ip)]) < ResolverCap
       /\ ip \in SystemResolvers /\ port = "dns"

\* Once readiness is announced that is admitted, by every hook.
PermittedAdmitted ==
    phase = "serve" =>
        \A op \in Op, ip \in Addr, port \in Port :
            ToAdmit(ip, port) => Admits(op, ip, port)

\* A range is in the trie of the family of its addresses.
LEMMA NetFamily ==
    ASSUME NEW net \in Net, NEW ip \in net PROVE FamilyOfNet(net) = FamilyOf(ip)
  BY AddressAssumption DEF Net, FamilyOfNet, FamilyOf

\* Below its capacity a map holds what is present in it.
LEMMA PresentIsIn ==
    ASSUME NEW map, NEW key, NEW cap \in Nat, IsFiniteSet(map),
           Present(key, map, cap), Cardinality(map) < cap
    PROVE  key \in map
  <1>1. Cardinality(map) \in Nat
    BY FS_CardinalityType
  <1> QED  BY <1>1 DEF Present

\* A policy that fits is enforced as written: after the readiness line the
\* kernel admits every address, range and looked-up address of the allowlist
\* and the queries to the nameservers, so the job is not broken by a loop of
\* seedAllowlist that skipped an entry or wrote it to the wrong trie.
THEOREM PolicyTakesEffect == Spec => []PermittedAdmitted
  <1>1. ASSUME TypeOK, Seeded PROVE PermittedAdmitted
    <2> SUFFICES ASSUME phase = "serve", NEW op \in Op, NEW ip \in Addr, NEW port \in Port,
                        ToAdmit(ip, port)
                 PROVE  Admits(op, ip, port)
      BY DEF PermittedAdmitted
    <2> DEFINE f == FamilyOf(ip)
    <2>1. IsFiniteSet(allowed[f]) /\ IsFiniteSet(resolvers[f])
      BY <1>1, FamilyType DEF Seeded, MapsFinite
    <2>2. TrieCap \in Nat /\ ResolverCap \in Nat
      BY BlockAssumption
    <2>3. SeededAtReadiness
      BY <1>1 DEF Seeded, SeededAtReadiness, Passed, AfterResolvers, AfterConfig, AfterIPs,
                  AfterCIDRs, ResolverIn, HostIn, NetIn
    <2>4. SUFFICES \/ ip \in Loopback
                   \/ port = "dns" /\ ip \in resolvers[f]
                   \/ \E net \in allowed[f] : ip \in net
      BY DEF Admits, Check
    <2>5. ASSUME Cardinality(allowed[f]) < TrieCap,
                 ip \in PolicyIPs \/ \E pair \in looked : pair[2] = ip
          PROVE  \E net \in allowed[f] : ip \in net
      <3>1. Present({ip}, allowed[f], TrieCap)
        BY <2>3, <2>5 DEF SeededAtReadiness
      <3>2. {ip} \in allowed[f]
        BY <2>1, <2>2, <2>5, <3>1, PresentIsIn
      <3> QED  BY <3>2
    <2>6. ASSUME Cardinality(allowed[f]) < TrieCap,
                 NEW net \in PolicyNets \ MappedNets, ip \in net
          PROVE  \E n \in allowed[f] : ip \in n
      <3>1. FamilyOfNet(net) = f
        BY <2>6, NetFamily, PolicyAssumption
      <3>2. Present(net, allowed[f], TrieCap)
        BY <2>3, <3>1 DEF SeededAtReadiness
      <3>3. net \in allowed[f]
        BY <2>1, <2>2, <2>6, <3>2, PresentIsIn
      <3> QED  BY <2>6, <3>3
    <2>7. ASSUME Cardinality(resolvers[f]) < ResolverCap, ip \in SystemResolvers \ Loopback
          PROVE  ip \in resolvers[f]
      <3>1. Present(ip, resolvers[f], ResolverCap)
        BY <2>3, <2>7 DEF SeededAtReadiness
      <3> QED  BY <2>1, <2>2, <2>7, <3>1, PresentIsIn
    <2> QED  BY <2>5, <2>6, <2>7 DEF ToAdmit
  <1> QED  BY <1>1, AlwaysSeeded, TypeCorrect, PTL

-----------------------------------------------------------------------------
(* Startup and shutdown never go back and never get stuck in between.      *)
(* StartupCompletes and StopDetaches follow from these two facts and from  *)
(* the main goroutine and the lookups being scheduled.                     *)

\* A link that attachBlock or Close handles next, in their order.
HooksInOrder ==
    /\ phase \in {"attach", "close"} => \E n \in 0..4 : hooks = First(n)
    /\ phase = "closed" => hooks = {} /\ dns = "off"

\* The phases in the order of run; the process may go from any to the last.
PhaseOrder ==
    {<<"attach", "resolvers">>, <<"resolvers", "config">>, <<"config", "ips">>,
     <<"ips", "cidrs">>, <<"cidrs", "lookup">>, <<"lookup", "write">>,
     <<"write", "serve">>, <<"serve", "close">>} \cup (Phase \X {"closed"})

\* A step leaves the phase and takes items off its loop, or adds the next
\* hook while attaching, or takes one away while closing, or is one phase on;
\* after a stop no hook comes back.
OneWay ==
    /\ <<phase, phase'>> \in PhaseOrder \/ (phase' = phase /\ todo' \subseteq todo)
    /\ hooks \subseteq hooks' \/ phase = "close" \/ phase' = "closed"
    /\ stop # "no" => stop' # "no" /\ hooks' \subseteq hooks

\* Before the reader runs nothing tells the agent to stop, and what does
\* leaves the attach phase behind.
StopLate == phase = "attach" => stop = "no"

\* A stop comes with or after the serve phase.
LEMMA StopLateStep == StopLate /\ [Next]_vars => StopLate'
  BY DEF StopLate, Next, MainStep, LookupStep, DnsStep, EnvStep, vars, mainVars, Enter,
     AttachHook, BeginResolvers, SeedResolver, StartDNSWatcher, SetAllowAllDNS,
     SeedIP, BeginCIDRs, SeedCIDR, BeginLookups, LookupAnswers, LookupFails,
     BeginWrites, SeedResult, BeginServing, BeginClose, DetachHook, Exit, Gone,
     DnsRead, CacheSet, AllowResolved, ReadEvent, ReaderFails, AppConnect,
     SelfConnect, GarbageEvent, WireAnswer, Signal, Kill

\* First(n) lists n different hooks, and four are all of them.
LEMMA InOrder ==
    /\ First(0) = {} /\ First(4) = Hook
    /\ \A n \in 1..4 : /\ First(n) = First(n - 1) \cup {AttachOrder[n]}
                       /\ First(n) \ {AttachOrder[n]} = First(n - 1)
  <1>1. /\ AttachOrder[1] = <<"connect", "v4">> /\ AttachOrder[2] = <<"connect", "v6">>
        /\ AttachOrder[3] = <<"sendmsg", "v4">> /\ AttachOrder[4] = <<"sendmsg", "v6">>
    BY DEF AttachOrder
  <1>2. First(0) = {}
    BY DEF First
  <1>3. ASSUME NEW n \in 1..4 PROVE First(n) = First(n - 1) \cup {AttachOrder[n]}
    <2>1. 1..n = (1..(n - 1)) \cup {n}
      OBVIOUS
    <2> QED  BY <2>1 DEF First
  <1> DEFINE A1 == AttachOrder[1]  A2 == AttachOrder[2]  A3 == AttachOrder[3]  A4 == AttachOrder[4]
  <1>4. 1 - 1 = 0 /\ 2 - 1 = 1 /\ 3 - 1 = 2 /\ 4 - 1 = 3 /\ {1, 2, 3, 4} \subseteq 1..4
    OBVIOUS
  <1>5. First(1) = {A1} /\ First(2) = {A1, A2} /\ First(3) = {A1, A2, A3} /\ First(4) = {A1, A2, A3, A4}
    <2>1. First(1) = {A1}
      BY <1>2, <1>3, <1>4
    <2>2. First(2) = {A1, A2}
      BY <2>1, <1>3, <1>4
    <2>3. First(3) = {A1, A2, A3}
      BY <2>2, <1>3, <1>4
    <2> QED  BY <2>1, <2>2, <2>3, <1>3, <1>4
  <1>6. First(4) = Hook
    BY <1>1, <1>5 DEF Hook, Op, Family
  <1>7. ASSUME NEW n \in 1..4
        PROVE  First(n) \ {AttachOrder[n]} = First(n - 1)
    <2>1. n = 1 \/ n = 2 \/ n = 3 \/ n = 4
      OBVIOUS
    <2>3. CASE n = 1  BY <1>1, <1>2, <1>4, <1>5, <2>3
    <2>4. CASE n = 2  BY <1>1, <1>2, <1>4, <1>5, <2>4
    <2>5. CASE n = 3  BY <1>1, <1>2, <1>4, <1>5, <2>5
    <2>6. CASE n = 4  BY <1>1, <1>2, <1>4, <1>5, <2>6
    <2> QED  BY <2>1, <2>3, <2>4, <2>5, <2>6
  <1> QED  BY <1>2, <1>3, <1>6, <1>7

\* A step attaches or detaches the one hook whose turn it is.
LEMMA InOrderStep ==
    ASSUME TypeOK, HooksByPhase, DnsByPhase, HooksInOrder, [Next]_vars PROVE HooksInOrder'
  <1>1. CASE AttachHook
    <2>1. PICK n \in 1..4 : hooks = First(n - 1) /\ hooks' = hooks \cup {AttachOrder[n]}
      BY <1>1 DEF AttachHook
    <2>2. hooks' = First(n) /\ n \in 0..4
      BY <2>1, InOrder
    <2> QED  BY <1>1, <2>2 DEF AttachHook, HooksInOrder, mainVars
  <1>2. CASE DetachHook
    <2>1. PICK n \in 1..4 : hooks = First(n) /\ hooks' = hooks \ {AttachOrder[n]}
      BY <1>2 DEF DetachHook
    <2>2. hooks' = First(n - 1) /\ n - 1 \in 0..4
      BY <2>1, InOrder
    <2> QED  BY <1>2, <2>2 DEF DetachHook, HooksInOrder, mainVars
  <1>3. CASE BeginClose
    <2>1. hooks' = First(4) /\ phase' = "close"
      BY <1>3, InOrder DEF BeginClose, Enter, HooksByPhase, kernelVars
    <2> QED  BY <2>1 DEF HooksInOrder
  <1>4. CASE Exit \/ Kill
    BY <1>4 DEF Exit, Kill, Gone, HooksInOrder
  <1>5. CASE /\ UNCHANGED hooks
             /\ phase' = phase \/ phase' \notin {"attach", "close", "closed"}
             /\ phase = "closed" => dns' = dns
    BY <1>5 DEF HooksInOrder
  <1> QED
    BY <1>1, <1>2, <1>3, <1>4, <1>5
    DEF HooksInOrder, Next, MainStep, LookupStep, DnsStep, EnvStep, vars, mainVars, kernelVars, dnsVars,
     Enter, BeginResolvers, SeedResolver, StartDNSWatcher, SetAllowAllDNS,
     SeedIP, BeginCIDRs, SeedCIDR, BeginLookups, LookupAnswers, LookupFails,
     BeginWrites, SeedResult, BeginServing, DnsRead, CacheSet, AllowResolved,
     ReadEvent, ReaderFails, AppConnect, SelfConnect, GarbageEvent, WireAnswer, Signal

\* Close finds the links the way attachBlock left them: while it runs the
\* hooks are a beginning of that order, so it has a next one to detach until
\* there is none, and when the process is gone so are they and the goroutine.
THEOREM CloseFindsItsLinks == Spec => []HooksInOrder
  <1>1. Init => HooksInOrder /\ HooksByPhase /\ DnsByPhase
    <2> SUFFICES ASSUME Init PROVE HooksInOrder /\ HooksByPhase /\ DnsByPhase
      OBVIOUS
    <2>1. hooks = First(0) /\ 0 \in 0..4
      BY InOrder DEF Init
    <2> QED  BY <2>1 DEF Init, HooksInOrder, HooksByPhase, DnsByPhase
  <1> QED  BY <1>1, InOrderStep, HooksStep, DnsPhaseStep, TypeCorrect, PTL DEF Spec

\* run never goes back: each step keeps to the phase and its loop or goes one
\* phase on, whatever the other goroutines do, and a stop is final, after
\* which no hook is attached again.
THEOREM RunGoesOneWay == Spec => [][OneWay]_vars
  <1>1. Init => StopLate
    BY DEF Init, StopLate
  <1>2. ASSUME TypeOK, StopLate, [Next]_vars PROVE [OneWay]_vars
    <2> SUFFICES ASSUME vars' # vars PROVE OneWay
      OBVIOUS
    <2>1. phase \in Phase
      BY <1>2 DEF TypeOK
    <2>2. /\ <<phase, phase'>> \in PhaseOrder \/ (phase' = phase /\ todo' \subseteq todo)
          /\ hooks \subseteq hooks' \/ phase = "close" \/ phase' = "closed"
      BY <1>2, <2>1 DEF PhaseOrder, Next, MainStep, LookupStep, DnsStep, EnvStep, vars, mainVars,
       kernelVars, Enter,
       AttachHook, BeginResolvers, SeedResolver, StartDNSWatcher, SetAllowAllDNS,
       SeedIP, BeginCIDRs, SeedCIDR, BeginLookups, LookupAnswers, LookupFails,
       BeginWrites, SeedResult, BeginServing, BeginClose, DetachHook, Exit, Gone,
       DnsRead, CacheSet, AllowResolved, ReadEvent, ReaderFails, AppConnect,
       SelfConnect, GarbageEvent, WireAnswer, Signal, Kill
    <2>3. hooks' \subseteq hooks \/ AttachHook
      BY <1>2 DEF Next, MainStep, LookupStep, DnsStep, EnvStep, vars, kernelVars,
       BeginResolvers, SeedResolver, StartDNSWatcher, SetAllowAllDNS,
       SeedIP, BeginCIDRs, SeedCIDR, BeginLookups, LookupAnswers, LookupFails,
       BeginWrites, SeedResult, BeginServing, BeginClose, DetachHook, Exit, Gone,
       DnsRead, CacheSet, AllowResolved, ReadEvent, ReaderFails, AppConnect,
       SelfConnect, GarbageEvent, WireAnswer, Signal, Kill
    <2>4. stop # "no" => stop' # "no" /\ hooks' \subseteq hooks
      BY <1>2, <2>3, StopStays DEF StopLate, AttachHook
    <2> QED  BY <2>2, <2>4 DEF OneWay
  <1> QED  BY <1>1, <1>2, StopLateStep, TypeCorrect, PTL DEF Spec
=============================================================================
