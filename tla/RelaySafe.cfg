CONSTANTS
    Cap = 2
    MaxBody = 3
    FieldLists <- SampleFieldLists
SPECIFICATION FairRelaySpec
INVARIANTS RelayInv DecisionAnnounced OnlyEndToEnd NoSecondPass
PROPERTIES ForwardsFaithfully RelayEnds
