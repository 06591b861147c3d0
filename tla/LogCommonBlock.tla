--------------------------- MODULE LogCommonBlock ---------------------------
(***************************************************************************)
(* One call of Session.send_log_events (data_collector.py lines 195-205)   *)
(* and the Session.get_log_events_common_block it calls (lines 148-193),   *)
(* step by step: the loop over the configured custom attributes with its   *)
(* cap, the label tags with their exclusion list, and the blanket except   *)
(* that turns any fault into an empty block.  The result is compared with  *)
(* a declarative statement of spec section 4.4.                            *)
(*                                                                         *)
(* process_user_attribute (outside this module) is abstracted to a         *)
(* predicate: it rejects the values in BadValues and keeps the name as the *)
(* key.  The exclusion list holds entries of ExcludeEntries as the        *)
(* configuration gives them: the code lower-cases only the label type.     *)
(***************************************************************************)
EXTENDS Naturals, Sequences, FiniteSets

CONSTANTS
    AttrNames,    \* names of configured custom attributes
    AttrValues,   \* values of configured custom attributes
    BadValues,    \* values process_user_attribute rejects
    LabelTypes,   \* label types, in any letter case
    LabelValues,  \* label values
    Lowercase,    \* Lowercase[t]: the label type t in lower case (str.lower)
    ExcludeEntries, \* entries the configured exclusion list may hold
    MaxAttrs,     \* MAX_NUM_USER_ATTRIBUTES
    MaxPairs,     \* longest custom-attribute list considered
    MaxLabels     \* longest label list considered

ASSUME LogCommonBlockAssumption ==
    /\ BadValues \subseteq AttrValues
    /\ Lowercase \in [LabelTypes -> LabelTypes]
    /\ ExcludeEntries \subseteq LabelTypes
    /\ MaxAttrs \in Nat \ {0}
    /\ MaxPairs \in Nat
    /\ MaxLabels \in Nat

VARIABLES
    attrs,     \* application_logging.forwarding.custom_attributes: <<name, value>> pairs
    labels,    \* configuration.labels: [type, value] records
    fwd,       \* application_logging.forwarding.labels.enabled
    exclude,   \* application_logging.forwarding.labels.exclude
    phase,     \* where the call is
    i,         \* index of the next custom attribute
    j,         \* index of the next label
    custom,    \* the local dict custom_attributes
    common,    \* the local dict common
    block,     \* what get_log_events_common_block returned (NoBlock before)
    faulted,   \* history: an exception was caught
    sent       \* payload[0] as sent, its "logs" left out

vars == <<attrs, labels, fwd, exclude, phase, i, j, custom, common, block,
          faulted, sent>>

NoBlock == "none"

SeqsUpTo(S, n) == UNION {[1..k -> S] : k \in 0..n}

(***************************************************************************)
(* Python dicts: the empty dict, d[k] = v, and d.update(e).                *)
(***************************************************************************)
EmptyDict == [k \in {} |-> NoBlock]
Put(d, k, v) == [x \in DOMAIN d \cup {k} |-> IF x = k THEN v ELSE d[x]]
Update(d, e) == [x \in DOMAIN d \cup DOMAIN e |-> IF x \in DOMAIN e THEN e[x] ELSE d[x]]

\* payload[0] without a "common" key, and with {"attributes": b} under it.
NoCommon == EmptyDict
CommonOf(b) == [common |-> [attributes |-> b]]

\* process_user_attribute(name, value) returns a key.
Accepts(p) == p[2] \notin BadValues

\* f"tags.{label['label_type']}"
TagKey(t) == "tags." \o t

\* Mutant of Tagged: the label type compared without lower-casing it.
TaggedCaseSensitive(l) == exclude = {} \/ l.type \notin exclude

\* The label is tagged: no exclusion list, or its type in lower case is not in it.
Tagged(l) == exclude = {} \/ Lowercase[l.type] \notin exclude

-----------------------------------------------------------------------------
Init ==
    /\ attrs \in SeqsUpTo(AttrNames \X AttrValues, MaxPairs)
    /\ labels \in SeqsUpTo([type : LabelTypes, value : LabelValues], MaxLabels)
    /\ fwd \in BOOLEAN
    /\ exclude \in SUBSET ExcludeEntries
    /\ phase = "custom"
    /\ i = 1
    /\ j = 1
    /\ custom = EmptyDict
    /\ common = EmptyDict
    /\ block = NoBlock
    /\ faulted = FALSE
    /\ sent = NoCommon

\* Mutant of CustomAttribute: the cap compared with > instead of >=.
CustomAttributeCapOffByOne ==
    /\ phase = "custom"
    /\ i <= Len(attrs)
    /\ Cardinality(DOMAIN custom) <= MaxAttrs
    /\ custom' = IF Accepts(attrs[i]) THEN Put(custom, attrs[i][1], attrs[i][2])
                 ELSE custom
    /\ i' = i + 1
    /\ UNCHANGED <<attrs, labels, fwd, exclude, phase, j, common, block,
                   faulted, sent>>

\* Mutant of CustomAttribute: the index advanced past the next pair.
CustomAttributeSkip ==
    /\ phase = "custom"
    /\ i <= Len(attrs)
    /\ Cardinality(DOMAIN custom) < MaxAttrs
    /\ custom' = IF Accepts(attrs[i]) THEN Put(custom, attrs[i][1], attrs[i][2])
                 ELSE custom
    /\ i' = i + 2
    /\ UNCHANGED <<attrs, labels, fwd, exclude, phase, j, common, block,
                   faulted, sent>>

(***************************************************************************)
(* One iteration of the custom-attribute loop below the cap (lines         *)
(* 157-169): the pair is processed and, if accepted, stored.               *)
(***************************************************************************)
CustomAttribute ==
    /\ phase = "custom"
    /\ i <= Len(attrs)
    /\ Cardinality(DOMAIN custom) < MaxAttrs
    /\ custom' = IF Accepts(attrs[i]) THEN Put(custom, attrs[i][1], attrs[i][2])
                 ELSE custom
    /\ i' = i + 1
    /\ UNCHANGED <<attrs, labels, fwd, exclude, phase, j, common, block,
                   faulted, sent>>

(***************************************************************************)
(* The loop ends, at the end of the list or by the break at the cap        *)
(* (lines 158-164), and common.update(custom_attributes) (line 171).       *)
(***************************************************************************)
EndCustom ==
    /\ phase = "custom"
    /\ i > Len(attrs) \/ Cardinality(DOMAIN custom) >= MaxAttrs
    /\ common' = Update(common, custom)
    /\ phase' = "labels"
    /\ UNCHANGED <<attrs, labels, fwd, exclude, i, j, custom, block,
                   faulted, sent>>

(***************************************************************************)
(* No labels, or label forwarding disabled: return common (lines 174-176). *)
(***************************************************************************)
NoLabels ==
    /\ phase = "labels"
    /\ labels = << >> \/ ~fwd
    /\ block' = common
    /\ phase' = "send"
    /\ UNCHANGED <<attrs, labels, fwd, exclude, i, j, custom, common,
                   faulted, sent>>

(***************************************************************************)
(* Label forwarding on: the tag comprehension begins (lines 177-187).      *)
(***************************************************************************)
StartTags ==
    /\ phase = "labels"
    /\ labels # << >>
    /\ fwd
    /\ phase' = "tags"
    /\ UNCHANGED <<attrs, labels, fwd, exclude, i, j, custom, common, block,
                   faulted, sent>>

(***************************************************************************)
(* One label of the comprehension: tagged unless excluded (lines 178,      *)
(* 181-186).                                                               *)
(***************************************************************************)
TagLabel ==
    /\ phase = "tags"
    /\ j <= Len(labels)
    /\ common' = IF Tagged(labels[j])
                 THEN Put(common, TagKey(labels[j].type), labels[j].value)
                 ELSE common
    /\ j' = j + 1
    /\ UNCHANGED <<attrs, labels, fwd, exclude, phase, i, custom, block,
                   faulted, sent>>

(***************************************************************************)
(* The else branch returns common (lines 192-193).                         *)
(***************************************************************************)
EndTags ==
    /\ phase = "tags"
    /\ j > Len(labels)
    /\ block' = common
    /\ phase' = "send"
    /\ UNCHANGED <<attrs, labels, fwd, exclude, i, j, custom, common,
                   faulted, sent>>

(***************************************************************************)
(* Any exception inside the try is logged and {} returned (lines 189-191). *)
(***************************************************************************)
Fault ==
    /\ phase \in {"custom", "labels", "tags"}
    /\ block' = EmptyDict
    /\ faulted' = TRUE
    /\ phase' = "send"
    /\ UNCHANGED <<attrs, labels, fwd, exclude, i, j, custom, common, sent>>

(***************************************************************************)
(* send_log_events attaches the block only when it is not empty and sends  *)
(* the payload (lines 198-205).                                            *)
(***************************************************************************)
SendLogEvents ==
    /\ phase = "send"
    /\ sent' = IF DOMAIN block # {} THEN CommonOf(block) ELSE NoCommon
    /\ phase' = "done"
    /\ UNCHANGED <<attrs, labels, fwd, exclude, i, j, custom, common, block,
                   faulted>>

Next ==
    \/ CustomAttribute
    \/ EndCustom
    \/ NoLabels
    \/ StartTags
    \/ TagLabel
    \/ EndTags
    \/ Fault
    \/ SendLogEvents

Spec == Init /\ [][Next]_vars

-----------------------------------------------------------------------------
(***************************************************************************)
(* Spec section 4.4, stated without the loop.  The custom attributes kept  *)
(* are the accepted ones before the first position at which MaxAttrs       *)
(* distinct keys have already been accepted; a key takes the value of its  *)
(* last kept pair.  Tags are added for every label not excluded, a later   *)
(* label of the same type winning, over the custom attributes.             *)
(***************************************************************************)
AcceptedBefore(n) == {x \in 1..Len(attrs) : x < n /\ Accepts(attrs[x])}
KeysBefore(n) == {attrs[x][1] : x \in AcceptedBefore(n)}
CapReachedAt(n) == Cardinality(KeysBefore(n)) >= MaxAttrs
Cut ==
    IF \E n \in 1..Len(attrs) : CapReachedAt(n)
    THEN CHOOSE n \in 1..Len(attrs) : CapReachedAt(n) /\ \A m \in 1..(n - 1) : ~CapReachedAt(m)
    ELSE Len(attrs) + 1
Kept == AcceptedBefore(Cut)
LastOf(S) == CHOOSE x \in S : \A y \in S : y <= x
SpecCustom ==
    [k \in {attrs[x][1] : x \in Kept} |->
        attrs[LastOf({x \in Kept : attrs[x][1] = k})][2]]
\* Spec 4.4 step 5: a label is skipped when its type appears in the
\* exclusion list, compared case-insensitively.
SpecExcluded(l) == \E e \in exclude : Lowercase[e] = Lowercase[l.type]
TaggedLabels == {y \in 1..Len(labels) : ~SpecExcluded(labels[y])}
SpecTags ==
    [k \in {TagKey(labels[y].type) : y \in TaggedLabels} |->
        labels[LastOf({y \in TaggedLabels : TagKey(labels[y].type) = k})].value]
SpecBlock ==
    IF labels = << >> \/ ~fwd THEN SpecCustom ELSE Update(SpecCustom, SpecTags)

TypeOK ==
    /\ attrs \in SeqsUpTo(AttrNames \X AttrValues, MaxPairs)
    /\ labels \in SeqsUpTo([type : LabelTypes, value : LabelValues], MaxLabels)
    /\ fwd \in BOOLEAN
    /\ exclude \subseteq ExcludeEntries
    /\ phase \in {"custom", "labels", "tags", "send", "done"}
    /\ i \in 1..(Len(attrs) + 1)
    /\ j \in 1..(Len(labels) + 1)
    /\ faulted \in BOOLEAN

(***************************************************************************)
(* The log payload carries the common block spec 4.4 describes: the first  *)
(* MAX_NUM_USER_ATTRIBUTES accepted custom attributes and the tags of the  *)
(* labels not excluded (case-insensitively), and no common block at all    *)
(* when that is empty or when building it failed.  The reference decides   *)
(* exclusion on its own (SpecExcluded), not with the code's Tagged.        *)
(***************************************************************************)
LogPayloadMatchesSpec ==
    phase = "done" =>
        sent = IF faulted \/ DOMAIN SpecBlock = {} THEN NoCommon ELSE CommonOf(SpecBlock)

=============================================================================
