SPECIFICATION Spec
CONSTANTS
    None = None
    Junk = Junk
    Array = Array
    Lost = Lost
    Domain <- MCDomain
    Network = {1, 2, 3}
    Type <- MCType
    Id = {"id"}
    Name = {"things", "events", "full", "none", "net", "sensors", "fixed"}
    DnsRegistry = {dns_daemon, dns_system}
    DohRegistry = {doh_daemon}
    BadRegistry = {bad}
    System = System
    MaxDepth = 2
    World <- MCWorld
    Asked <- MCAsked
    Depths = {"registry", "document", "referent"}
    ByDns = dns_daemon
    ByDoh = doh_daemon
    BySystem = dns_system
INVARIANTS
    TypeOK
    RegistryIsInherited
    TamperedNeverDrives
    FailuresAreReported
    DohHasDns
    AnswerIsPublished
    PublishedReferentsAreServed
PROPERTIES
    ResolutionEnds
    
CHECK_DEADLOCK FALSE
