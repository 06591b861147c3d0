------------------------- MODULE MCLogCommonBlock -------------------------
(***************************************************************************)
(* Instantiates LogCommonBlock for TLC.  One attribute name collides with  *)
(* a tag key, and two label types differ only in letter case.  The        *)
(* exclusion entries are lower-case, or (second cfg) in either case.       *)
(***************************************************************************)
EXTENDS LogCommonBlock

MCAttrNames == {"a", "b", "tags.env"}
MCAttrValues == {"v1", "bad"}
MCBadValues == {"bad"}
MCLabelTypes == {"env", "Env"}
MCLabelValues == {"x", "y"}
MCLowercase == [t \in MCLabelTypes |-> "env"]
\* An exclusion list given in lower case.
MCExcludeEntries == {"env"}

=============================================================================
