SPECIFICATION FairSpec
CONSTANTS
    Backends = {"LibUsb", "WinUsb", "PosixSerial", "PosixTcp", "WinSockTcp", "PosixUdp", "WinSockUdp"}
    Minima = {1, 2}
    Rooms = {2, 3}
    MaxSent = 3
    MaxCalls = 4
INVARIANTS
    TransportIsSound
PROPERTIES
    CallsReturn
CHECK_DEADLOCK FALSE
