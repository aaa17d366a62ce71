CONSTANTS
    Base = 2
    DiscW = 1
    KeyW = 2
    U32W = 2
    U64W = 3
    RequestTag <- MCRequestTag
    FulfilTag <- MCFulfilTag
    Records <- MCRecords
    Proof <- MCProof
    PublicKey <- MCPublicKey
SPECIFICATION Spec
INVARIANT PendingMatchesLayout
INVARIANT ParseRoundTrip
INVARIANT FulfilRoundTrip
\* Every account's pipeline ends: rejected, thrown or encoded.
CHECK_DEADLOCK FALSE
