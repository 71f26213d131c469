SPECIFICATION ReloadSpec
CONSTANTS
    Values = {"a", "b"}
    DefaultValue = "a"
    Debounce = 2
    MaxEvents = 3
INVARIANT CalmEditStays
PROPERTY CalmEditArrives
