CONSTANTS
    PolybiusAlphabet <- MCPolybius
    FmAlphabet <- MCFm
    MorseTable <- MCMorse
    Invocations <- MCInvocations
    Texts <- MCTexts
    Tails <- MCTails
SPECIFICATION Spec
CHECK_DEADLOCK FALSE
INVARIANTS
    TypeOK
    TableIsAlphabet
    PolybiusRoundTrip
    MorseRoundTrip
