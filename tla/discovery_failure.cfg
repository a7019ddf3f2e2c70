SPECIFICATION Spec
CONSTANTS
    local = local
    remote = remote
    plain = plain
    Addrs <- MCAddrs
    SslOf <- MCSslOf
    LocationOf <- MCLocationOf
    SelfLocation = "dc1"
    LoadFactors = {5, 7}
    Client <- MCClient
    Failures <- MCFailures
    MaxChanges = 3
PROPERTY
    FailureKeepsTheSet
