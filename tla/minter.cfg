\* A mask of 6 strings, extended to 12, dealt out to two counters of which the
\* second has fewer.  Two requests, and two identifiers that the minter does not
\* know of.  The bound on the mask ends the run.
CONSTANTS
    AlphaCount = 2
    DigitCount = 3
    PrimeFactor = 2
    AddCount = 1
    FirstMask <- ShortMask
    MaxLength = 3
    Requests = {r1, r2}
    Nothing = Nothing
    MaxExisting = 1
    MaxUnknown = 2
SYMMETRY AnyRequest
SPECIFICATION MintingSpec
INVARIANTS
    RowOK
    NeverStuck
    EveryStringMinted
    BehindCostsOneEach
PROPERTY MintedOnce
CHECK_DEADLOCK FALSE
