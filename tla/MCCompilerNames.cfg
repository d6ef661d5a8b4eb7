SPECIFICATION CompilerSpec
CONSTANTS Modules = {}
INVARIANT PatternNamesAreFresh
CHECK_DEADLOCK FALSE
