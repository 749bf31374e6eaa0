CONSTANTS
    Universe <- MCUniverse
    OwnersOf <- MCOwnersOf
    DirectionOf <- MCDirectionOf
    RuleSets <- MCRuleSets
    Defaults <- MCDefaults
    Mode = "auto-expose"
    Strict = FALSE
    Allow <- MCAllow
    Deny <- MCDeny
    Declared <- MCDeclared
    Segments = {"r", "a", "b"}
    MaxPattern = 2
    Styles = {"nested"}
    Grace = 2
SPECIFICATION Spec
INVARIANT ActiveKeepsResources
