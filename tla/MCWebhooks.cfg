CONSTANTS
    Procs = {p1, p2}
    m1 = m1
    m2 = m2
    copy1 = copy1
    copy2 = copy2
    soft = soft
    hard = hard
    Messages = {m1, m2}
    Addresses = {"a", "A"}
    Recipient <- MCRecipient
    Lower <- MCLower
    Ids = {"i1", "i2"}
    Posts = {copy1, copy2, soft, hard}
    MaxPosts = 2
    EventOf <- MCEventOf
    Nobody = Nobody
    Nowhere = Nowhere
SPECIFICATION FairSpec
INVARIANTS
    OneHandlerPerEvent
    DuplicateHasReason
    EffectsHaveEvents
    SentMeansOvertaken
PROPERTIES
    EveryEventEnds
