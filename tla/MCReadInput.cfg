\* Every split of two lines into reads, with a buffer shorter than most.
CONSTANTS
    Texts <- MixedTexts
    ReadLength = 4
    MinimumLengthMessage = 1
SPECIFICATION Spec
INVARIANTS
    TypeOK
    PiecesInOrder
    NothingSkipped
    WholeUnlessCut
