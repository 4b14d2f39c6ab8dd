SPECIFICATION FairSpec
CONSTANTS
    collector = collector
    dashboard = dashboard
    choice = choice
    other = other
    Procs <- MCProcs
    Dashboard <- dashboard
    Default = Default
    Legacy = Legacy
    Choices <- MCChoices
    Missing = Missing
    Empty = Empty
    NoTable = NoTable
    NoView = NoView
    NoOne = NoOne
    Found <- FreshOrShipped
    LegacyEntries <- MCLegacyEntries
    LogLimit = 2
    MaxEntry = 4
    MaxSaves = 2
    MaxKills = 2
INVARIANTS
    TypeOK
    SettingsKept
    SwitchKept
    EntriesKept
PROPERTIES
    ImplementsSettings
    SettingsApplied
