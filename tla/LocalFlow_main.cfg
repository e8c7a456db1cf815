\* Two dispatchers on three issues, two drains, one web client beside the TUI,
\* channels of one element.
CONSTANTS
    Recipients <- const_Recipients
    Drainers = {"p1", "p2"}
    MaxSends = 2
    MaxFaults = 1
    Dispatchers = {"d1", "d2"}
    Cards = {1, 2, 3}
    Parent <- const_Parent
    Blocker <- const_Blocker
    IssueTeam <- const_IssueTeam
    Team <- const_Team
    UntilEmpty = TRUE
    Buffer = 1
    MaxFails = 1
    MaxHands = 1
    Hands <- const_Hands
    MaxBreaks = 1
    Viewers = {"v1"}
    OrchCap = 1
    WebCap = 1
    SubCap = 1
    MaxChanges = 2
    ChanCap = 1
    MaxTeamEvents = 4
    MaxPolls = 2
SPECIFICATION FairFlow

    
PROPERTIES
    
    WorkEnds
CHECK_DEADLOCK FALSE
