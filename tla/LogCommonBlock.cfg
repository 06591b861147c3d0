\* One send_log_events call over every custom-attribute list of up to three
\* pairs, a cap of two, every label list of up to two labels and every
\* lower-case exclusion list.  The call
\* returns, so the final state has no successor.
CONSTANTS
    AttrNames <- MCAttrNames
    AttrValues <- MCAttrValues
    BadValues <- MCBadValues
    LabelTypes <- MCLabelTypes
    LabelValues <- MCLabelValues
    Lowercase <- MCLowercase
    ExcludeEntries <- MCExcludeEntries
    MaxAttrs = 2
    MaxPairs = 3
    MaxLabels = 2
SPECIFICATION Spec
INVARIANTS
    TypeOK
    LogPayloadMatchesSpec
CHECK_DEADLOCK FALSE
