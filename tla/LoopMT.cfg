SPECIFICATION Spec
INVARIANTS TypeOK OnlyKnownRaces
PROPERTY BufferIsReleased
