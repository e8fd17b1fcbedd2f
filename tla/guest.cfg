SPECIFICATION MSpec
INVARIANTS
    ClockKept
    
    MapRight
    RadioKept
    CardKept
    MailKept
    OtgKept
    
    ListsRight
    PlanesKept
PROPERTIES
    Implements
    LinkKept
    RootHubTells
    SoundKept
