SPECIFICATION Spec
CONSTANTS
    Alphabet <- MCAlphabet
    Flips    <- MCFlips
    MaxData  = 4
CHECK_DEADLOCK FALSE
INVARIANTS TypeOK MatchesPolynomial ChangeDetected
