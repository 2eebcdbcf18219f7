SPECIFICATION AccountsSpec
CONSTANTS
    ann = ann
    bob = bob
    number = number
    other = other
    Challenges = {k1, k2}
    Phones = {number, other}
    Chats = {ann, bob}
    Owns <- ContactsShared
    None = None
    MaxAttempts = 2
    MaxCodes = 2
    MaxUpdates = 2
    MaxEpoch = 1
    CodeFaults = {"send", "crash"}
INVARIANTS
    AccountsTypeOK
    OneOpenChallenge
    DeliveredCodeWasSent
    GuessBound
    SpentOnce
    LoginsAreCurrent
PROPERTIES
    IdentityStable
SYMMETRY ChallengeSymmetry
CONSTRAINTS OneNumber CardsOfAsked SmallTraffic
CHECK_DEADLOCK FALSE
