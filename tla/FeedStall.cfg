CONSTANTS
    c1 = c1
    Clients = {c1}
    Approver = Approver
    Nobody = Nobody
    Hub = Hub
    Lifetimes <- MCLifetimes
    Second = 4
    MaxDuration = 15
    MaxMessages = 2
    MaxDrops = 0
    Steady = {"shared"}
    MaxCopies = 2
SPECIFICATION FairSpec
PROPERTIES UnregisterCloses
