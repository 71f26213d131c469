SPECIFICATION MCSpec
CONSTANTS
    Group <- DayGroups
    Sought = {1}
    Addresses = {1, 2}
    Beings <- ColourBeings
    Levels = {10, 20}
    Capacity = 2
    MaxBirths = 2
    AuthLength = 2
    GameBytes <- SentByGame
    ServerBytes <- SentByServer
    Room = 2
    Offers = {0, 2}
    Proxy = TRUE
    Clicks = {1, 2}
    MaxClicks <- ClicksByOffer
    MaxStarts <- StartsByOffer
    MaxCloses = 1
    Extras <- StageFeatures
    Wishes <- AllWishes
    Pages <- PagesSet
    MaxFaults = 1
\* The window, stage 2 and the proxy end with their game.
CHECK_DEADLOCK FALSE
INVARIANT ClientComesBack
INVARIANT LaunchIsSound
PROPERTY ProcessesEnd
PROPERTY TogglesSettle
