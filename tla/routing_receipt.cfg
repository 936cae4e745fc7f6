SPECIFICATION RoutingSpec
CONSTANTS
    MaxCases = 4
    MaxBatches = 2
    MaxOffice = 0
    MaxThrows = 0
INVARIANT ReceiptAcknowledged
CHECK_DEADLOCK FALSE
