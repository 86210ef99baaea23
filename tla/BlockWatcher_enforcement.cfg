SPECIFICATION Spec
CONSTANTS
    lo = lo
    ns = ns
    web = web
    lan = lan
    web6 = web6
    good = good
    sub = sub
    other = other
    NoDomain = NoDomain
    V4 <- V4Small
    V6 <- V6Small
    Loopback = {lo}
    Domain = {good, other}
    ExactDomains = {good}
    WildcardDomains = {}
    PolicyIPs = {web6}
    PolicyNets <- LanNet
    MappedNets = {}
    SystemResolvers = {ns, lo}
    AllowAllDNS = FALSE
    Targets <- TargetsFew
    Answers <- AnswersMixed
    TrieCap = 3
    ResolverCap = 2
    EventCap = 1
    DnsCap = 2
    ReaderMayFail = FALSE
INVARIANTS
    TypeOK
    TrieJustified
    EnforcementSound
    LiveEntriesNamed
    SeededAtReadiness
    EnforcedUntilStop
