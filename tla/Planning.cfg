CONSTANTS
    Universe <- MCUniverse
    OwnersOf <- MCOwnersOf
    DirectionOf <- MCDirectionOf
    RuleSets <- MCRuleSets
    Defaults <- MCDefaults
    Mode = "auto-expose"
    Strict = FALSE
    Allow <- MCAllow
    Deny <- MCDeny
    Declared <- MCDeclared
    Segments = {"r", "a", "b"}
    MaxPattern = 2
    Styles = {"nested", "flat"}
    Grace = 1
SPECIFICATION Spec
INVARIANT LeavesByPrecedence
INVARIANT NarrowerIsNotLower
INVARIANT ResourcesApart
