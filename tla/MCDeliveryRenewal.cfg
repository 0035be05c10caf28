CONSTANTS
    Jobs = {j1}
    Agents = {a}
    Self = a
    Executors = {e1}
    Reporters = {c}
    NoJob = NoJob
    Channel = "regular"
    Activations <- MCActivations
    NoActivation = 0
    Lease = 1
    Retention = 2
    ReceiptLimit = 1
    MaxFaults = 2
SPECIFICATION DeliverySpec
INVARIANTS
    RenewalSurvivesLostContact
