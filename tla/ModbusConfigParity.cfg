SPECIFICATION Spec
CONSTANT Refused = Refused
INVARIANT ParityIsKept
