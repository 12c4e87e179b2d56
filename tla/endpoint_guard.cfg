SPECIFICATION Spec
CONSTANTS
    Providers = {"gmail", "outlook"}
    ConfigKeys = {"gmail", "outlook", "fastmail"}
    Urls <- MCUrls
    MaxOverrides = 2
    Answers <- MCAnswers
    Garbage = Garbage
    IpLiteral = IpLiteral
    None = None
CHECK_DEADLOCK FALSE
INVARIANTS
    SecretsStayHome
    PublicUnlessMoved
PROPERTIES
    NoLateRefusal
