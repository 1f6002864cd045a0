SPECIFICATION PassSpec
CONSTANT KirFunctions = {f1, f2}
INVARIANT CheckedProfilesBuild
CHECK_DEADLOCK FALSE
