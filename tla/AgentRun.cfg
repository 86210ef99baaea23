CONSTANTS
  Files <- FilesSmall
  Flags = {"", "audit", "block", "other"}
  ResolvConfs <- ConfsSmall
  NoFile = NoFile
  NoEngine = NoEngine
  MayFail = {"memlock", "objs", "tp", "tpExit", "reader", "blockObjs", "connect4", "connect6", "sendmsg4", "sendmsg6", "dnsObjs", "dnsSocket", "dnsFilter", "dnsReader"}
  Domains <- DomainsSmall
  MaxConcurrentLookups = 2
  Lower <- LowerSmall
  Nameserver = {"127.0.0.53", "10.0.0.2", "10.0.0.3"}
  LoopbackServer = {"127.0.0.53"}

SPECIFICATION Spec

INVARIANTS
  TypeOK
  EnforcesAsAsked
  NoSilentEntry
  WholeOrNothing
  DependenciesHeld
  BoundedInFlight
  ResultsComplete

PROPERTIES
  RunSettles
  ImplementsLife

CHECK_DEADLOCK FALSE
