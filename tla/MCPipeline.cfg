SPECIFICATION Spec
CONSTANTS
    Versions <- MCVersions
    Pool <- RegisteredProtocols
    None = None
    ServerProtocol = 944
    Handled <- HandledPackets
    Cancelled <- CancelledPackets
    Addresses = {a1, a2}
    ClientVersions = {944, 975, 1001, 898, 999}
    EarlyPackets = {"NETWORK_SETTINGS"}
    ClientboundPackets = {"START_GAME", "LOCATOR_BAR"}
    ServerboundPackets = {"SERVERBOUND_DIAGNOSTICS", "INVENTORY_TRANSACTION"}
    MixedReuse = FALSE
    get_path <- MCGetPath
    Blocked = {975}
    a1 = a1
    a2 = a2
INVARIANTS
    TypeOK
    PipelineAgrees
    InitOnce
PROPERTY Translates
