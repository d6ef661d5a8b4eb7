SPECIFICATION LanguageSpec
INVARIANTS
    WrittenIsRead
    TypesAreFound
CHECK_DEADLOCK FALSE
