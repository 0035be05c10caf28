CONSTANTS
    Jobs = {j1, j2}
    Agents = {a}
    Self = a
    Executors = {e1}
    Reporters = {}
    NoJob = NoJob
    Channel = "regular"
    Activations <- MCActivations
    NoActivation = 0
    Lease = 1
    Retention = 1
    ReceiptLimit = 1
    MaxFaults = 1
SPECIFICATION DeliverySpec
INVARIANTS
    ExecutionHasReceipt
    OutcomesAreTrue
PROPERTIES
    ImplementsContract
