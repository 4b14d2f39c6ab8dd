SPECIFICATION Spec
CONSTANTS
    collector = collector
    dashboard = dashboard
    choice = choice
    other = other
    Procs <- MCProcs
    Dashboard <- dashboard
    Default = Default
    Legacy = Legacy
    Choices <- MCChoices
    Missing = Missing
    Empty = Empty
    NoTable = NoTable
    NoView = NoView
    NoOne = NoOne
    Found <- Shipped
    LegacyEntries <- MCLegacyEntries
    LogLimit = 2
    MaxEntry = 4
    MaxSaves = 0
    MaxKills = 0
INVARIANTS
    SettingsMigrated
