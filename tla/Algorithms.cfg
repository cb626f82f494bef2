\* Trees of up to five entries under three scopes, one change of the tree; every
\* answer of one auditor and of two; every text of up to five symbols; every
\* excerpt of up to three tokens in every trace of up to six; messages of two
\* detail blocks.
CONSTANTS
    Names <- SomeNames
    SimpleFold <- CaseFold
    FullFold <- ExpandFold
    Trees <- SomeTrees
    Scopes <- SomeScopes
    Requests <- SomeRequests
    MaxLinks = 3
    MaxSwaps = 1
    MaxLength = 5
    Limit = 5
    Tokens <- SomeTokens
    Damage <- SomeDamage
    Letters <- SomeLetters
    MaxTrace = 6
    MaxExcerpt = 3
    MaxDetails = 2
SPECIFICATION AlgorithmsSpec
INVARIANTS
    EffectInScope
    FailsClosed
    PromptIsSound
    GroundingIsExact
    LabelsAreEarned
CHECK_DEADLOCK FALSE
