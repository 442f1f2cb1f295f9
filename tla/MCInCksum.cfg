CONSTANTS
    Base = 3
    BufLen = 8
SPECIFICATION Spec
INVARIANTS SameAsReference IntactPasses DamageDetected
