\* Four blocks, at addresses that may overlap, and as many descriptors.
CONSTANTS
    Host = {any, lo}
    AnyHost = any
    Port = {p1, p2, p3}
    MaxBlocks = 4
    MaxFd = 4
    SizeMax = 15
SPECIFICATION FairSpec
INVARIANTS
    Aligned
    NoSocketLeak
    ServesOrExits
    AddressesDisjoint
PROPERTY StartupEnds
