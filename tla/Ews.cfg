CONSTANTS
    Conns = {c1, c2, c3}
    None = None
SPECIFICATION FairSpec
INVARIANTS
    TypeOK
    OneOperation
    ManagedIsServed
    OpenIsManaged
PROPERTIES
    StopReturns
    OneReply
    PeerIsServed
    StopIsReached
