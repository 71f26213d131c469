SPECIFICATION EngineSpec
INVARIANT StopFindsMasterOff
PROPERTY HuntFollowsMaster
PROPERTY ShutdownCompletes
CHECK_DEADLOCK FALSE
