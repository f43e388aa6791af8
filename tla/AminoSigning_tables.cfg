SPECIFICATION Spec
CONSTANTS
    Unit = 100
    One = 100
    Wrap = 4096
    Converters <- DefaultTypes
    Inner <- ProposalTypes
    Foundation <- FoundationWithoutSubmitProposal
    Parts <- AnyParts
    Registered <- FinschiaRegistryTypes
    Wrappable <- FoundationTypes
    Messages <- EveryMessage
    MaxMsgs = 2
INVARIANT TypeOK
INVARIANT MadeProposalsAreNotLost
INVARIANT RebuiltAsRequested
INVARIANT LostOnlyForKnownReasons
CHECK_DEADLOCK FALSE
