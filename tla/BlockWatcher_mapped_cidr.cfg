SPECIFICATION Spec
CONSTANTS
    lo = lo
    ns = ns
    web = web
    lan = lan
    web6 = web6
    good = good
    sub = sub
    other = other
    NoDomain = NoDomain
    V4 <- V4Small
    V6 <- V6Small
    Loopback = {lo}
    Domain = {good, other}
    ExactDomains = {good}
    WildcardDomains = {}
    PolicyIPs = {}
    PolicyNets <- LanNet
    MappedNets <- LanNet
    SystemResolvers = {ns, lo}
    AllowAllDNS = FALSE
    Targets <- NoTargets
    Answers <- AnswersFew
    TrieCap = 3
    ResolverCap = 2
    EventCap = 1
    DnsCap = 1
    ReaderMayFail = TRUE
INVARIANTS
    CIDRPermitted
