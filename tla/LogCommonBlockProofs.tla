------------------------ MODULE LogCommonBlockProofs ------------------------
(***************************************************************************)
(* Proofs about one send_log_events call, for every attribute and label    *)
(* list and every cap.                                                     *)
(***************************************************************************)
EXTENDS LogCommonBlock, FiniteSetTheorems, TLAPS

USE LogCommonBlockAssumption

\* The call starts typed: the inputs are lists within their bounds, and
\* both loop indexes are at their first position.
LEMMA TypeInit == Init => TypeOK
<1> SUFFICES ASSUME Init PROVE TypeOK
  OBVIOUS
<1>1. PICK k \in 0..MaxPairs : attrs \in [1..k -> AttrNames \X AttrValues]
  BY DEF Init, SeqsUpTo
<1>2. PICK n \in 0..MaxLabels : labels \in [1..n -> [type : LabelTypes, value : LabelValues]]
  BY DEF Init, SeqsUpTo
<1>3. Len(attrs) = k /\ Len(labels) = n
  BY <1>1, <1>2
<1>4. exclude \subseteq LabelTypes
  BY DEF Init
<1>5. i \in 1..(Len(attrs) + 1) /\ j \in 1..(Len(labels) + 1)
  BY <1>3 DEF Init
<1>6. QED
  BY <1>4, <1>5 DEF Init, TypeOK

\* No step of the call writes the inputs, and each index moves by one
\* within its list.
LEMMA TypeNext == TypeOK /\ [Next]_vars => TypeOK'
<1> SUFFICES ASSUME TypeOK, [Next]_vars PROVE TypeOK'
  OBVIOUS
<1>1. UNCHANGED <<attrs, labels, fwd, exclude>>
  BY DEF Next, vars, CustomAttribute, EndCustom, NoLabels, StartTags, TagLabel,
         EndTags, Fault, SendLogEvents
<1>2. phase' \in {"custom", "labels", "tags", "send", "done"}
  BY DEF Next, vars, CustomAttribute, EndCustom, NoLabels, StartTags, TagLabel,
         EndTags, Fault, SendLogEvents, TypeOK
<1>3. faulted' \in BOOLEAN
  BY DEF Next, vars, CustomAttribute, EndCustom, NoLabels, StartTags, TagLabel,
         EndTags, Fault, SendLogEvents, TypeOK
<1>4. i' \in 1..(Len(attrs) + 1)
  BY DEF Next, vars, CustomAttribute, EndCustom, NoLabels, StartTags, TagLabel,
         EndTags, Fault, SendLogEvents, TypeOK
<1>5. j' \in 1..(Len(labels) + 1)
  BY DEF Next, vars, CustomAttribute, EndCustom, NoLabels, StartTags, TagLabel,
         EndTags, Fault, SendLogEvents, TypeOK
<1>6. QED
  BY <1>1, <1>2, <1>3, <1>4, <1>5 DEF TypeOK

\* The loop indexes stay within their lists (or one past the end) whatever
\* the inputs; the lists and flags themselves are never written.
THEOREM LogTypeCorrect == Spec => []TypeOK
BY TypeInit, TypeNext, PTL DEF Spec

-----------------------------------------------------------------------------
(***************************************************************************)
(* The loop invariant of get_log_events_common_block.  Before position n   *)
(* of the custom-attribute list, the pairs accepted and the dict they      *)
(* build; before position n of the label list, the labels tagged and the   *)
(* tags they build.  The spec's dicts are these at the cut and at the end  *)
(* of the labels.                                                          *)
(***************************************************************************)
PartialCustom(n) ==
    [k \in KeysBefore(n) |->
        attrs[LastOf({x \in AcceptedBefore(n) : attrs[x][1] = k})][2]]
TaggedBefore(n) == {y \in 1..Len(labels) : y < n /\ Tagged(labels[y])}
PartialTags(n) ==
    [k \in {TagKey(labels[y].type) : y \in TaggedBefore(n)} |->
        labels[LastOf({y \in TaggedBefore(n) : TagKey(labels[y].type) = k})].value]

\* In the custom-attribute loop: custom_attributes is the dict of the pairs
\* accepted so far, the cap was not reached before i, and common is empty.
CustomLoopInv ==
    phase = "custom" =>
        /\ custom = PartialCustom(i)
        /\ \A m \in 1..(i - 1) : ~CapReachedAt(m)
        /\ common = EmptyDict
        /\ j = 1

\* After the loop, common holds the custom attributes of the spec.
LabelsInv == phase = "labels" => common = SpecCustom /\ j = 1

\* In the tag comprehension, common holds them updated with the tags so far.
TagsInv ==
    phase = "tags" =>
        /\ common = Update(SpecCustom, PartialTags(j))
        /\ labels # << >>
        /\ fwd

\* No exception has been caught while the block is being built.
NotFaultedInv == phase \in {"custom", "labels", "tags"} => ~faulted

\* The block returned is the spec's, or {} after an exception.
SendInv == phase = "send" => block = IF faulted THEN EmptyDict ELSE SpecBlock

LogInv ==
    /\ TypeOK
    /\ CustomLoopInv
    /\ LabelsInv
    /\ TagsInv
    /\ NotFaultedInv
    /\ SendInv
    /\ LogPayloadMatchesSpec

(***************************************************************************)
(* Lemmas on the dict operators and on LastOf.                             *)
(***************************************************************************)

\* The last of a set of positions all before n, with n added, is n.
LEMMA LastOfAppended ==
    \A S \in SUBSET Nat, n \in Nat :
        (\A x \in S : x < n) => LastOf(S \cup {n}) = n
<1> SUFFICES ASSUME NEW S \in SUBSET Nat, NEW n \in Nat, \A x \in S : x < n
             PROVE  LastOf(S \cup {n}) = n
  OBVIOUS
<1>1. \A y \in S \cup {n} : y <= n
  OBVIOUS
<1>2. \A x \in S \cup {n} : (\A y \in S \cup {n} : y <= x) => x = n
  OBVIOUS
<1>3. QED
  BY <1>1, <1>2 DEF LastOf

\* d.update(e) after e[k] = v is d.update(e) followed by [k] = v.
LEMMA UpdatePut ==
    ASSUME NEW d, NEW e, NEW k, NEW v
    PROVE  Update(d, Put(e, k, v)) = Put(Update(d, e), k, v)
BY DEF Update, Put

\* {}.update(e) is e.
LEMMA UpdateEmptyDict ==
    ASSUME NEW e, e = [x \in DOMAIN e |-> e[x]]
    PROVE  Update(EmptyDict, e) = e
BY DEF Update, EmptyDict

\* d.update({}) is d.
LEMMA UpdateWithEmpty ==
    ASSUME NEW d, d = [x \in DOMAIN d |-> d[x]], NEW e, DOMAIN e = {}
    PROVE  Update(d, e) = d
BY DEF Update

\* The configured lists are sequences no longer than their bounds.
LEMMA SeqsUpToIsSeq ==
    ASSUME NEW S, NEW n \in Nat, NEW s \in SeqsUpTo(S, n)
    PROVE  s \in Seq(S) /\ Len(s) \in 0..n
<1>1. PICK k \in 0..n : s \in [1..k -> S]
  BY DEF SeqsUpTo
<1>2. QED
  BY <1>1

\* The keys accepted before any position are finitely many, so the cap
\* compares a natural number.
LEMMA KeysBeforeFinite ==
    ASSUME Len(attrs) \in Nat, NEW n
    PROVE  /\ IsFiniteSet(KeysBefore(n))
           /\ Cardinality(KeysBefore(n)) \in Nat
<1>1. IsFiniteSet(AcceptedBefore(n))
  <2>1. IsFiniteSet(1..Len(attrs))
    BY FS_Interval
  <2>2. QED
    BY <2>1, FS_Subset DEF AcceptedBefore
<1> DEFINE f == [x \in AcceptedBefore(n) |-> attrs[x][1]]
<1>2. f \in Surjection(AcceptedBefore(n), KeysBefore(n))
  BY DEF Surjection, KeysBefore
<1>3. IsFiniteSet(KeysBefore(n))
  BY <1>1, <1>2, FS_Surjection
<1>4. QED
  BY <1>3, FS_CardinalityType

\* The loop stops at the cut: at the end of the list, or at the first
\* position at which the cap has been reached.
LEMMA CutAt ==
    ASSUME Len(attrs) \in Nat, NEW n \in 1..(Len(attrs) + 1),
           \A m \in 1..(n - 1) : ~CapReachedAt(m),
           n = Len(attrs) + 1 \/ CapReachedAt(n)
    PROVE  Cut = n
<1>1. CASE \E c \in 1..Len(attrs) : CapReachedAt(c)
  <2>1. n \in 1..Len(attrs) /\ CapReachedAt(n)
    BY <1>1
  <2>2. \A c \in 1..Len(attrs) :
           CapReachedAt(c) /\ (\A m \in 1..(c - 1) : ~CapReachedAt(m)) => c = n
    BY <2>1
  <2>3. QED
    BY <1>1, <2>1, <2>2 DEF Cut
<1>2. CASE ~\E c \in 1..Len(attrs) : CapReachedAt(c)
  BY <1>2 DEF Cut
<1>3. QED
  BY <1>1, <1>2

\* One iteration of the custom-attribute loop extends the partial dict by
\* the pair at n when process_user_attribute accepts it.
LEMMA PartialCustomStep ==
    ASSUME Len(attrs) \in Nat, NEW n \in 1..Len(attrs)
    PROVE  PartialCustom(n + 1) =
             IF Accepts(attrs[n]) THEN Put(PartialCustom(n), attrs[n][1], attrs[n][2])
             ELSE PartialCustom(n)
<1> DEFINE A == AcceptedBefore(n)
           k0 == attrs[n][1]
<1>1. A \subseteq Nat /\ \A x \in A : x < n
  BY DEF AcceptedBefore
<1>2. CASE ~Accepts(attrs[n])
  <2>1. AcceptedBefore(n + 1) = A
    BY <1>2 DEF AcceptedBefore
  <2>2. QED
    BY <1>2, <2>1 DEF PartialCustom, KeysBefore
<1>3. CASE Accepts(attrs[n])
  <2>1. AcceptedBefore(n + 1) = A \cup {n}
    BY <1>3 DEF AcceptedBefore
  <2>2. KeysBefore(n + 1) = KeysBefore(n) \cup {k0}
    BY <2>1 DEF KeysBefore
  <2>3. LastOf({x \in A \cup {n} : attrs[x][1] = k0}) = n
    <3>1. {x \in A \cup {n} : attrs[x][1] = k0} = {x \in A : attrs[x][1] = k0} \cup {n}
      OBVIOUS
    <3>2. LastOf({x \in A : attrs[x][1] = k0} \cup {n}) = n
      <4>1. /\ n \in Nat
            /\ {x \in A : attrs[x][1] = k0} \in SUBSET Nat
            /\ \A x \in {x \in A : attrs[x][1] = k0} : x < n
        BY <1>1
      <4>2. QED
        BY <4>1, LastOfAppended DEF A, k0
    <3>3. QED
      BY <3>1, <3>2
  <2>4. ASSUME NEW k, k # k0
        PROVE  {x \in A \cup {n} : attrs[x][1] = k} = {x \in A : attrs[x][1] = k}
    BY <2>4 DEF k0
  <2>5. QED
    BY <1>3, <2>1, <2>2, <2>3, <2>4 DEF PartialCustom, Put
<1>4. QED
  BY <1>2, <1>3

\* One label of the tag comprehension extends the partial tags by the tag
\* of the label at n when it is not excluded.
LEMMA PartialTagsStep ==
    ASSUME Len(labels) \in Nat, NEW n \in 1..Len(labels)
    PROVE  PartialTags(n + 1) =
             IF Tagged(labels[n]) THEN Put(PartialTags(n), TagKey(labels[n].type), labels[n].value)
             ELSE PartialTags(n)
<1> DEFINE T == TaggedBefore(n)
           k0 == TagKey(labels[n].type)
<1>1. T \subseteq Nat /\ \A y \in T : y < n
  BY DEF TaggedBefore, TaggedLabels
<1>2. CASE ~Tagged(labels[n])
  <2>1. TaggedBefore(n + 1) = T
    BY <1>2 DEF TaggedBefore, TaggedLabels
  <2>2. QED
    BY <1>2, <2>1 DEF PartialTags
<1>3. CASE Tagged(labels[n])
  <2>1. TaggedBefore(n + 1) = T \cup {n}
    BY <1>3 DEF TaggedBefore, TaggedLabels
  <2>2. {TagKey(labels[y].type) : y \in T \cup {n}} =
          {TagKey(labels[y].type) : y \in T} \cup {k0}
    OBVIOUS
  <2>3. LastOf({y \in T \cup {n} : TagKey(labels[y].type) = k0}) = n
    <3>1. {y \in T \cup {n} : TagKey(labels[y].type) = k0} =
            {y \in T : TagKey(labels[y].type) = k0} \cup {n}
      OBVIOUS
    <3>2. LastOf({y \in T : TagKey(labels[y].type) = k0} \cup {n}) = n
      <4>1. /\ n \in Nat
            /\ {y \in T : TagKey(labels[y].type) = k0} \in SUBSET Nat
            /\ \A y \in {y \in T : TagKey(labels[y].type) = k0} : y < n
        BY <1>1
      <4>2. QED
        BY <4>1, LastOfAppended DEF T, k0
    <3>3. QED
      BY <3>1, <3>2
  <2>4. ASSUME NEW k, k # k0
        PROVE  {y \in T \cup {n} : TagKey(labels[y].type) = k} =
                 {y \in T : TagKey(labels[y].type) = k}
    BY <2>4 DEF k0
  <2>5. QED
    BY <1>3, <2>1, <2>2, <2>3, <2>4 DEF PartialTags, Put
<1>4. QED
  BY <1>2, <1>3

\* The configuration holds every exclusion entry in lower case.
ExcludeLowerCase == \A e \in ExcludeEntries : Lowercase[e] = e

\* With lower-case exclusion entries, the code's test (the label type
\* lower-cased, looked up in the list) skips exactly the labels spec 4.4
\* skips (the type equal to an entry up to letter case).
LEMMA TaggedAgrees ==
    ASSUME ExcludeLowerCase, TypeOK
    PROVE  TaggedBefore(Len(labels) + 1) = TaggedLabels
<1>1. PICK n \in 0..MaxLabels : labels \in [1..n -> [type : LabelTypes, value : LabelValues]]
  BY DEF TypeOK, SeqsUpTo
<1>2. ASSUME NEW y \in 1..Len(labels)
      PROVE  Tagged(labels[y]) <=> ~SpecExcluded(labels[y])
  <2>0. labels[y] \in [type : LabelTypes, value : LabelValues]
    BY <1>1
  <2>1. labels[y].type \in LabelTypes
    BY <2>0
  <2>2. \A e \in exclude : Lowercase[e] = e
    BY DEF TypeOK, ExcludeLowerCase
  <2>3. QED
    BY <2>1, <2>2 DEF Tagged, SpecExcluded
<1>3. QED
  BY <1>1, <1>2 DEF TaggedBefore, TaggedLabels

\* No step writes the configuration, so the spec's dicts, computed from it,
\* are the same before and after every step.
LEMMA ReferenceFixed ==
    ASSUME [Next]_vars
    PROVE  /\ \A n : PartialCustom(n)' = PartialCustom(n)
           /\ \A n : PartialTags(n)' = PartialTags(n)
           /\ \A n : CapReachedAt(n)' <=> CapReachedAt(n)
           /\ SpecCustom' = SpecCustom
           /\ SpecTags' = SpecTags
           /\ SpecBlock' = SpecBlock
<1>1. UNCHANGED <<attrs, labels, fwd, exclude>>
  BY DEF Next, vars, CustomAttribute, EndCustom, NoLabels, StartTags, TagLabel,
         EndTags, Fault, SendLogEvents
<1>2. \A n : AcceptedBefore(n)' = AcceptedBefore(n)
  BY <1>1 DEF AcceptedBefore, Accepts
<1>3. \A n : TaggedBefore(n)' = TaggedBefore(n)
  BY <1>1 DEF TaggedBefore, Tagged
<1>4. \A n : PartialCustom(n)' = PartialCustom(n)
  BY <1>1, <1>2 DEF PartialCustom, KeysBefore
<1>5. \A n : PartialTags(n)' = PartialTags(n)
  BY <1>1, <1>3 DEF PartialTags
<1>6. \A n : CapReachedAt(n)' <=> CapReachedAt(n)
  BY <1>1, <1>2 DEF CapReachedAt, KeysBefore
<1>7. SpecCustom' = SpecCustom
  <2>1. Cut' = Cut
    BY <1>1 DEF Cut, CapReachedAt, KeysBefore, AcceptedBefore, Accepts
  <2>2. QED
    BY <1>1, <1>2, <2>1 DEF SpecCustom, Kept
<1>8. SpecTags' = SpecTags
  BY <1>1 DEF SpecTags, TaggedLabels, SpecExcluded
<1>9. QED
  BY <1>1, <1>4, <1>5, <1>6, <1>7, <1>8 DEF SpecBlock

\* The call starts with nothing accepted, nothing tagged and no fault.
LEMMA LogInvInit == Init => LogInv
<1> SUFFICES ASSUME Init PROVE LogInv
  OBVIOUS
<1>1. TypeOK
  BY TypeInit
<1>2. AcceptedBefore(1) = {}
  BY DEF AcceptedBefore
<1>3. custom = PartialCustom(1)
  BY <1>2 DEF Init, PartialCustom, KeysBefore, EmptyDict
<1>4. QED
  BY <1>1, <1>3 DEF Init, LogInv, CustomLoopInv, LabelsInv, TagsInv,
                    NotFaultedInv, SendInv, LogPayloadMatchesSpec

\* Every step of the call keeps the loop invariant.
LEMMA LogInvNext == ExcludeLowerCase => (LogInv /\ [Next]_vars => LogInv')
<1> SUFFICES ASSUME ExcludeLowerCase, LogInv, [Next]_vars PROVE LogInv'
  OBVIOUS
<1>1. TypeOK /\ TypeOK'
  BY TypeNext DEF LogInv
<1>2. Len(attrs) \in Nat /\ Len(labels) \in Nat
  BY <1>1, SeqsUpToIsSeq DEF TypeOK
<1>3. /\ \A n : PartialCustom(n)' = PartialCustom(n)
      /\ \A n : PartialTags(n)' = PartialTags(n)
      /\ \A n : CapReachedAt(n)' <=> CapReachedAt(n)
      /\ SpecCustom' = SpecCustom
      /\ SpecTags' = SpecTags
      /\ SpecBlock' = SpecBlock
  BY ReferenceFixed
<1>4. CASE CustomAttribute
  <2>1. i \in 1..Len(attrs) /\ i' = i + 1
    BY <1>1, <1>4 DEF CustomAttribute, TypeOK
  <2>2. custom' = PartialCustom(i + 1)
    BY <1>2, <1>4, <2>1, PartialCustomStep DEF CustomAttribute, LogInv, CustomLoopInv
  <2>3. ~CapReachedAt(i)
    <3>1. DOMAIN custom = KeysBefore(i)
      BY <1>4 DEF CustomAttribute, LogInv, CustomLoopInv, PartialCustom
    <3>2. Cardinality(KeysBefore(i)) \in Nat
      BY <1>2, KeysBeforeFinite
    <3>3. QED
      BY <1>4, <3>1, <3>2 DEF CustomAttribute, CapReachedAt
  <2>4. \A m \in 1..i : ~CapReachedAt(m)
    BY <1>2, <1>4, <2>1, <2>3 DEF CustomAttribute, LogInv, CustomLoopInv
  <2>5. CustomLoopInv'
    BY <1>3, <1>4, <2>1, <2>2, <2>4 DEF CustomAttribute, LogInv, CustomLoopInv
  <2>6. QED
    BY <1>1, <1>4, <2>5 DEF CustomAttribute, LogInv, LabelsInv, TagsInv,
                            NotFaultedInv, SendInv, LogPayloadMatchesSpec
<1>5. CASE EndCustom
  <2>1. Cut = i
    <3>1. i \in 1..(Len(attrs) + 1)
      BY <1>1 DEF TypeOK
    <3>2. i = Len(attrs) + 1 \/ CapReachedAt(i)
      BY <1>5, <3>1 DEF EndCustom, LogInv, CustomLoopInv, PartialCustom, CapReachedAt
    <3>3. QED
      BY <1>2, <1>5, <3>1, <3>2, CutAt DEF EndCustom, LogInv, CustomLoopInv
  <2>2. SpecCustom = PartialCustom(i)
    BY <2>1 DEF SpecCustom, Kept, PartialCustom, KeysBefore
  <2>3. common' = PartialCustom(i)
    <3>1. custom = [x \in DOMAIN custom |-> custom[x]]
      BY <1>5 DEF EndCustom, LogInv, CustomLoopInv, PartialCustom
    <3>2. QED
      BY <1>5, <3>1, UpdateEmptyDict DEF EndCustom, LogInv, CustomLoopInv
  <2>4. QED
    BY <1>1, <1>3, <1>5, <2>2, <2>3 DEF EndCustom, LogInv, CustomLoopInv, LabelsInv,
       TagsInv, NotFaultedInv, SendInv, LogPayloadMatchesSpec
<1>6. CASE NoLabels
  <2>1. block' = SpecBlock
    BY <1>6 DEF NoLabels, LogInv, LabelsInv, SpecBlock
  <2>2. QED
    BY <1>1, <1>3, <1>6, <2>1 DEF NoLabels, LogInv, CustomLoopInv, LabelsInv,
       TagsInv, NotFaultedInv, SendInv, LogPayloadMatchesSpec
<1>7. CASE StartTags
  <2>1. DOMAIN PartialTags(1) = {}
    BY DEF PartialTags, TaggedBefore, TaggedLabels
  <2>2. SpecCustom = [x \in DOMAIN SpecCustom |-> SpecCustom[x]]
    BY DEF SpecCustom
  <2>3. common' = Update(SpecCustom, PartialTags(1))
    BY <1>7, <2>1, <2>2, UpdateWithEmpty DEF StartTags, LogInv, LabelsInv
  <2>4. QED
    BY <1>1, <1>3, <1>7, <2>3 DEF StartTags, LogInv, CustomLoopInv, LabelsInv,
       TagsInv, NotFaultedInv, SendInv, LogPayloadMatchesSpec
<1>8. CASE TagLabel
  <2>1. j \in 1..Len(labels) /\ j' = j + 1
    BY <1>1, <1>8 DEF TagLabel, TypeOK
  <2>2. common' = Update(SpecCustom, PartialTags(j + 1))
    BY <1>2, <1>8, <2>1, PartialTagsStep, UpdatePut DEF TagLabel, LogInv, TagsInv
  <2>3. QED
    BY <1>1, <1>3, <1>8, <2>1, <2>2 DEF TagLabel, LogInv, CustomLoopInv, LabelsInv,
       TagsInv, NotFaultedInv, SendInv, LogPayloadMatchesSpec
<1>9. CASE EndTags
  <2>1. j = Len(labels) + 1
    BY <1>1, <1>9 DEF EndTags, TypeOK
  <2>2. PartialTags(j) = SpecTags
    <3>1. TaggedBefore(j) = TaggedLabels
      BY <1>1, <2>1, TaggedAgrees
    <3>2. QED
      BY <3>1 DEF PartialTags, SpecTags
  <2>3. block' = SpecBlock
    BY <1>9, <2>2 DEF EndTags, LogInv, TagsInv, SpecBlock
  <2>4. QED
    BY <1>1, <1>3, <1>9, <2>3 DEF EndTags, LogInv, CustomLoopInv, LabelsInv,
       TagsInv, NotFaultedInv, SendInv, LogPayloadMatchesSpec
<1>10. CASE Fault
  BY <1>1, <1>10 DEF Fault, LogInv, CustomLoopInv, LabelsInv, TagsInv,
     NotFaultedInv, SendInv, LogPayloadMatchesSpec, EmptyDict
<1>11. CASE SendLogEvents
  <2>1. CASE faulted
    BY <1>1, <1>3, <1>11, <2>1 DEF SendLogEvents, LogInv, CustomLoopInv, LabelsInv,
       TagsInv, NotFaultedInv, SendInv, LogPayloadMatchesSpec, EmptyDict
  <2>2. CASE ~faulted
    BY <1>1, <1>3, <1>11, <2>2 DEF SendLogEvents, LogInv, CustomLoopInv, LabelsInv,
       TagsInv, NotFaultedInv, SendInv, LogPayloadMatchesSpec
  <2>3. QED
    BY <2>1, <2>2
<1>12. CASE UNCHANGED vars
  BY <1>1, <1>3, <1>12 DEF vars, LogInv, CustomLoopInv, LabelsInv, TagsInv,
     NotFaultedInv, SendInv, LogPayloadMatchesSpec
<1>13. QED
  BY <1>4, <1>5, <1>6, <1>7, <1>8, <1>9, <1>10, <1>11, <1>12 DEF Next

(***************************************************************************)
(* send_log_events sends the common block of spec section 4.4, for every   *)
(* custom-attribute and label list, every exclusion list and every cap     *)
(* MAX_NUM_USER_ATTRIBUTES >= 1, and whether or not building it fails,     *)
(* provided the configuration gives the exclusion entries in lower case:  *)
(* the code lower-cases the label type only (line 184).                   *)
(***************************************************************************)
THEOREM LogPayloadCorrect == ExcludeLowerCase => (Spec => []LogPayloadMatchesSpec)
<1> SUFFICES ASSUME ExcludeLowerCase PROVE Spec => []LogPayloadMatchesSpec
  OBVIOUS
<1>1. LogInv /\ [Next]_vars => LogInv'
  BY LogInvNext
<1>2. Spec => []LogInv
  BY <1>1, LogInvInit, PTL DEF Spec
<1>3. QED
  BY <1>2, PTL DEF LogInv

=============================================================================
