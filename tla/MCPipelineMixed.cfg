SPECIFICATION Spec
CONSTANTS
    Versions <- MCVersions
    Pool <- RegisteredProtocols
    None = None
    ServerProtocol = 944
    Handled <- HandledPackets
    Cancelled <- CancelledPackets
    Addresses = {a1, a2}
    ClientVersions = {1001, 898, 999}
    EarlyPackets = {"NETWORK_SETTINGS"}
    ClientboundPackets = {"START_GAME"}
    ServerboundPackets = {"SERVERBOUND_DIAGNOSTICS"}
    MixedReuse = TRUE
    get_path <- MCGetPath
    Blocked = {1001, 999}
    a1 = a1
    a2 = a2
INVARIANTS
    KnowsClient
    GateHolds
PROPERTY AllOrNothing
