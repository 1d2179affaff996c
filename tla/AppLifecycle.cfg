CONSTANT MusicDirs = 3
SPECIFICATION FairSpec
INVARIANTS
    TypeOK
    ServerOutlivesItsThread
    OrderlyOnceScanning
PROPERTIES
    SignalEnds
CHECK_DEADLOCK FALSE
