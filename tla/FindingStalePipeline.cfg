SPECIFICATION Spec
CONSTANTS
    Versions <- MCVersions
    Pool <- RegisteredProtocols
    None = None
    ServerProtocol = 944
    Handled <- HandledPackets
    Cancelled <- CancelledPackets
    Addresses = {a1}
    ClientVersions = {944, 975, 898, 999}
    EarlyPackets = {"NETWORK_SETTINGS"}
    ClientboundPackets = {"START_GAME"}
    ServerboundPackets = {}
    MixedReuse = TRUE
    get_path <- MCGetPath
    Blocked = {975, 999}
    a1 = a1
INVARIANT PipelineAgrees
