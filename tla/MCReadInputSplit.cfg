\* Two metrics that arrive in reads of any length.
CONSTANTS
    Texts <- OneText
    ReadLength = 8
    MinimumLengthMessage = 1
SPECIFICATION Spec
INVARIANTS
    EveryMetricDelivered
