SPECIFICATION Spec
CONSTANTS
    local = local
    remote = remote
    plain = plain
    Addrs <- MCAddrs
    SslOf <- MCSslOf
    LocationOf <- MCLocationOf
    SelfLocation = "dc1"
    LoadFactors = {5, 7}
    Client <- MCClient
    Failures <- MCLoudFailures
    MaxChanges = 3
INVARIANTS
    TypeOK
    RegistryReflectsDiscovery
PROPERTIES
    RegistrySpec
    FailureKeepsTheSet
