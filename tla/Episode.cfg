CONSTANTS
    MaxTurns = 3
    Drafts = {u}
    Uncited = {u}
    MaxStrays = 1
    Empty = Empty
    None = None
    BounceOn = TRUE
    SalvageOn = TRUE
SPECIFICATION Spec
CHECK_DEADLOCK FALSE
INVARIANT TypeOK
INVARIANT SubmittedAsOffered
INVARIANT FreshSubmission
INVARIANT NoLostSubmission
INVARIANT OnePromptAtTail
PROPERTY EpisodeCloses
PROPERTY KeepsPromises
