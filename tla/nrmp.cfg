SPECIFICATION NrmpSpec
CONSTANTS
    Kinds = {HostRequest}
    HostRequest = HostRequest
    Zeros = 0
    Ids = {1, 2}
    Payloads = {0, 1}
    SendMax = 3
    RecvMax = 2
    Crc <- MCCrc
    BadCrc = 1
    MaxSent = 2
    MaxDamaged = 1
INVARIANTS NoFalseMismatch
PROPERTIES ImplementsLink
