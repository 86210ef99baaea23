SPECIFICATION Spec
CONSTANTS
    lo = lo
    ns = ns
    web = web
    lan = lan
    web6 = web6
    good = good
    sub = sub
    other = other
    NoDomain = NoDomain
    V4 <- V4Small
    V6 <- V6Small
    Loopback = {lo}
    Domain = {good, sub, other}
    ExactDomains = {good, sub}
    WildcardDomains = {sub}
    PolicyIPs = {}
    PolicyNets <- LanNet
    MappedNets = {}
    SystemResolvers = {ns}
    AllowAllDNS = TRUE
    Targets <- NoTargets
    Answers <- AnswersDual
    TrieCap = 2
    ResolverCap = 2
    EventCap = 1
    DnsCap = 1
    ReaderMayFail = FALSE
PROPERTIES
    ImplementsGuard
    StartupCompletes
    AnswerApplied
