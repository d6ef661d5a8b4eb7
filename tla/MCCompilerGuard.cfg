SPECIFICATION CompilerSpec
CONSTANTS Modules = {}
INVARIANT GuardFallsThrough
CHECK_DEADLOCK FALSE
