\* Every pair of five bit values, in groups of two bits.
CONSTANTS
    GroupBits = 2
    WordBits = 5
    Inputs <- AllPairs
SPECIFICATION Spec
INVARIANTS
    TypeOK
    RoundTrip
    DecodesInOrder
    FitsBuffer
    StaysInBuffer
PROPERTIES
    Terminates
