SPECIFICATION Spec
CONSTANTS
    Versions <- RegisteredVersions
    Steps <- RegisteredSteps
    Named <- SoundEventNames
    Keys <- MCKeys
    HEARTBEAT <- HEARTBEAT_SOUND_EVENT
    Items <- MCItems
    Undefined <- MCUndefined
    EventCount <- MCEventCount
    KnownKeys <- MCKnownKeys
    Instruments <- MCInstruments
    Trumpets <- MCTrumpets
    HasTrumpets <- MCHasTrumpets
    Spelled <- MCSpelled
INVARIANTS
    TypeOK
    SoundKeepsMeaning
    ActorDataKept
    EventArrives
    InstrumentKept
