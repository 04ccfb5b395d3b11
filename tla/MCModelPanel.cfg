CONSTANTS
    cli = cli
    Callers = {page, cli}
    Page = page
    Embeddings = {e}
    Models = {m1}
    Keys = {k1}
    NoKey = NoKey
    Bridge = Bridge
    Keep = Keep
    Clear = Clear
    None = None
    MaxEpoch = 3
SPECIFICATION Spec
CONSTRAINT Bounds
INVARIANTS SecretsOpen CountedProbeFits
PROPERTIES LoneStartSettles LoneSelectionIsAllOrNothing
