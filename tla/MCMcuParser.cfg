SPECIFICATION Spec
CONSTANTS
    Alphabet <- MCAlphabet
    Payloads <- MCPayloads
    BuffSize = 3
    MaxBytes = 8
INVARIANTS
    ParsedAreFrames
    RoundTrip
CHECK_DEADLOCK FALSE
