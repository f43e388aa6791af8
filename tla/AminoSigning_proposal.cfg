SPECIFICATION Spec
CONSTANTS
    Unit = 100
    One = 100
    Wrap = 4096
    Converters <- DefaultTypes
    Inner <- ProposalTypes
    Foundation <- FoundationWithoutSubmitProposal
    Parts <- AnyParts
    Registered <- FinschiaRegistryTypes
    Wrappable <- FoundationTypes
    Messages <- EveryMessage
    MaxMsgs = 1
INVARIANT ProposalsSurviveSigning
CHECK_DEADLOCK FALSE
