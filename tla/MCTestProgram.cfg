SPECIFICATION Spec
CONSTANT T = 3
INVARIANT PrintsTheExpected
