SPECIFICATION CompilerSpec
CONSTANTS Modules = {"string", "list"}
INVARIANTS
    MatchesAreRight
    CallsFit
    BlocksAreTheBody
    DerivedImplsAgree
CHECK_DEADLOCK FALSE
