CONSTANTS
    j1 = j1
    j2 = j2
    Jobs <- MCJobs
    Agents = {a}
    Activations = {A}
    NoActivation = None
    Lease = 2
    Retention = 3
    MaxBody = 2
    Quota = 3
    ResponseRetention = 2
SPECIFICATION TransferSpec
SYMMETRY JobSymmetry
INVARIANTS
    DeliveredBodyIsWhole
    ChunksAreAccounted
