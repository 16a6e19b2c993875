SPECIFICATION Spec
CONSTANTS
    s1 = s1
    s2 = s2
    s3 = s3
    alice = alice
    bob = bob
    Session = {s1, s2, s3}
    Nobody = Nobody
    MaxLimit = 2
    Login <- TwoLogins
    LoginOf <- FirstIsAlice
    Root <- OneLogin
    PrivateUmask <- OneLogin
    ProtectedRegular = FALSE
INVARIANTS
    TypeOK
    LimitRespected
    HoldMatchesMarker
    NeverQueuesBelowAHolder
PROPERTIES
    EveryQueuedSessionLeaves
    FreeSlotIsTaken
