CONSTANTS
    j1 = j1
    j2 = j2
    Jobs <- MCJobs
    Agents = {a1}
    Activations = {A, B}
    NoActivation = None
    Lease = 2
    Retention = 3
SPECIFICATION Spec
SYMMETRY JobSymmetry
INVARIANTS
    StateTellsStarted
    OwnershipIsFenced
PROPERTIES
    NeverRepeated
    OutcomesAreFinal
