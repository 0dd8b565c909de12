SPECIFICATION Preparing
CONSTANTS
    None = None
    Atoms <- AllAtoms
    Width = 8
    Categories = {"token", "kubernetes", "password"}
    Conversations <- AllConversations
    RuleFiles <- Files
    Fallbacks <- Later
INVARIANTS TypeOK OrderedAndDisjoint LosersOverlapWinners CountsAreReplacements LeftoversAreRemainders SecretDataIsReplaced TagIsEarned
