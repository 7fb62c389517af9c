\* Two pages come and go, two publishers, channels that run full.
CONSTANTS
    Pages = {g1, g2}
    Publishers = {p1, p2}
    Capacity = 2
    MaxEvents = 3
SPECIFICATION FairSpec
INVARIANTS
    OpenChannelsOnly
    NothingMissed
    NothingTwice
PROPERTIES
    PublishEnds
    PagesComeAndGo
\* pages have gone and all events of the instance are published
CHECK_DEADLOCK FALSE
