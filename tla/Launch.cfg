SPECIFICATION Spec
CONSTANTS
    Keys = {"mainnet.domain", "mainnet.ttl", "testnet.domain", "metrics.endpoint_addr",
            "rate_limit.burst_size", "colour"}
    SectionOf <- MCSectionOf
    ZoneSections = {"mainnet", "testnet"}
    Always = {"rate_limit"}
    Domain <- MCDomain
    Unknown = {"colour"}
    Default <- MCDefault
    Values = {1, 2}
    Malformed = Malformed
    Unset = Unset
    Broken = Broken
    MaxSet = 3
INVARIANTS TypeOK Precedence PrintedReproduces StartupGaugesExported
