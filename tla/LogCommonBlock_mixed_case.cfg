\* The exclusion list may hold an entry in upper case: the code lower-cases
\* only the label type, so such an entry excludes nothing.
CONSTANTS
    AttrNames <- MCAttrNames
    AttrValues <- MCAttrValues
    BadValues <- MCBadValues
    LabelTypes <- MCLabelTypes
    LabelValues <- MCLabelValues
    Lowercase <- MCLowercase
    ExcludeEntries <- MCLabelTypes
    MaxAttrs = 2
    MaxPairs = 3
    MaxLabels = 2
SPECIFICATION Spec
INVARIANTS
    LogPayloadMatchesSpec
CHECK_DEADLOCK FALSE
