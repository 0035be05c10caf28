CONSTANTS
    Jobs = {j1}
    Agents = {a}
    Self = a
    Executors = {e1}
    Reporters = {c}
    NoJob = NoJob
    Channel = "regular"
    Activations <- MCActivations
    NoActivation = 0
    Lease = 2
    Retention = 1
    ReceiptLimit = 1
    MaxFaults = 1
SPECIFICATION FairSpec
PROPERTIES
    CancellationSettles
    ReceiptsDrain
    EveryOperationSettles
