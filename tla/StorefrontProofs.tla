--------------------------- MODULE StorefrontProofs ---------------------------
(***************************************************************************)
(* Proofs about the storefront's pages, for any number of sections,        *)
(* plugins, services, providers, days and appointments, and any number of  *)
(* loads under way: what "Saved" means, and what was offered for what is   *)
(* reserved; and that the pages keep to their states, the page builder's   *)
(* sections to their ids.                                                  *)
(***************************************************************************)
EXTENDS Storefront, CartProofs, FiniteSetTheorems, SequenceTheorems, WellFoundedInduction, TLAPS

\* A set of naturals that is not empty has a least one.
LEMMA Smallest ==
  ASSUME NEW S \in SUBSET Nat, S # {}
  PROVE  \E x \in S : \A y \in S : x <= y
<1> DEFINE R == OpToRel(<, Nat)
<1>1. IsWellFoundedOn(R, Nat)
  BY NatLessThanWellFounded, Zenon
<1>2. PICK x \in S : \A y \in S : ~(<<y, x>> \in R)
  <2> HIDE DEF R
  <2> QED BY <1>1, WFMin
<1>3. \A y \in S : ~(y < x)
  BY <1>2 DEF OpToRel
<1> QED
  BY <1>3

\* How many of a set of positions come no later than one.
Rank(S, i) == Cardinality({j \in S : j <= i})

LEMMA RankIsNumber ==
  ASSUME NEW n \in Nat, NEW S \in SUBSET (1 .. n), NEW i \in Nat
  PROVE  /\ IsFiniteSet(S) /\ IsFiniteSet({j \in S : j <= i})
         /\ Cardinality(S) \in 0 .. n /\ Rank(S, i) \in 0 .. Cardinality(S)
<1>1. IsFiniteSet(1 .. n) /\ Cardinality(1 .. n) = n
  BY FS_Interval
<1>2. IsFiniteSet(S) /\ Cardinality(S) \in Nat /\ Cardinality(S) <= n
  BY <1>1, FS_Subset, FS_CardinalityType
<1>3. {j \in S : j <= i} \in SUBSET S
  OBVIOUS
<1>4. IsFiniteSet({j \in S : j <= i}) /\ Cardinality({j \in S : j <= i}) \in Nat /\ Cardinality({j \in S : j <= i}) <= Cardinality(S)
  BY <1>2, <1>3, FS_Subset, FS_CardinalityType
<1> QED
  BY <1>2, <1>4 DEF Rank

\* The rank of the next position is greater by one if it is one of them.
LEMMA RankSteps ==
  ASSUME NEW n \in Nat, NEW S \in SUBSET (1 .. n), NEW i \in Nat
  PROVE  Rank(S, i + 1) = IF i + 1 \in S THEN Rank(S, i) + 1 ELSE Rank(S, i)
<1> DEFINE T == {j \in S : j <= i}
<1>1. IsFiniteSet(T)
  BY RankIsNumber
<1>2. \A j \in S : j <= i + 1 <=> j <= i \/ j = i + 1
  OBVIOUS
<1>4. i + 1 \in S => {j \in S : j <= i + 1} = T \cup {i + 1}
  BY <1>2, Zenon
<1>5. i + 1 \notin S => {j \in S : j <= i + 1} = T
  BY <1>2, Zenon
<1>3. i + 1 \notin T
  OBVIOUS
<1> QED
  BY <1>1, <1>3, <1>4, <1>5, FS_AddElement DEF Rank

\* There is a position of every rank.
LEMMA NthExists ==
  ASSUME NEW n \in Nat, NEW S \in SUBSET (1 .. n), NEW k \in 1 .. Cardinality(S)
  PROVE  Nth(S, k) \in S /\ Rank(S, Nth(S, k)) = k
<1> DEFINE late == {i \in Nat : Rank(S, i) >= k}
<1>0. ASSUME NEW i \in Nat PROVE Rank(S, i) \in Nat
  <2>1. Cardinality(S) \in 0 .. n /\ Rank(S, i) \in 0 .. Cardinality(S)
    BY RankIsNumber
  <2> QED
    BY <2>1
<1>1. n \in late
  <2>1. \A j \in S : j <= n
    OBVIOUS
  <2>2. {j \in S : j <= n} = S
    BY <2>1, Zenon
  <2> QED
    BY <2>2, RankIsNumber DEF Rank
<1>2. PICK i \in late : \A y \in late : i <= y
  BY <1>1, Smallest
<1>3. i # 0
  <2>1. \A j \in S : ~(j <= 0)
    OBVIOUS
  <2>2. {j \in S : j <= 0} = {}
    BY <2>1, Zenon
  <2> QED
    BY <2>2, FS_EmptySet DEF Rank
<1>4. i - 1 \in Nat /\ i - 1 \notin late
  BY <1>2, <1>3
<1>5. Rank(S, i - 1) < k
  BY <1>0, <1>4
<1>6. Rank(S, (i - 1) + 1) = IF (i - 1) + 1 \in S THEN Rank(S, i - 1) + 1 ELSE Rank(S, i - 1)
  BY <1>4, RankSteps
<1>7. (i - 1) + 1 = i
  OBVIOUS
<1>8. i \in S /\ Rank(S, i) = k
  BY <1>0, <1>2, <1>4, <1>5, <1>6, <1>7
<1> QED
  BY <1>8 DEF Nth, Rank

\* Two of them do not have the same rank.
LEMMA RankTells ==
  ASSUME NEW n \in Nat, NEW S \in SUBSET (1 .. n), NEW i \in S, NEW j \in S, Rank(S, i) = Rank(S, j)
  PROVE  i = j
<1>1. SUFFICES ASSUME NEW a \in S, NEW b \in S, a < b PROVE Rank(S, a) # Rank(S, b)
  OBVIOUS
<1> DEFINE A == {x \in S : x <= a}
           B == {x \in S : x <= b}
<1>2. a \in Nat /\ b \in Nat
  OBVIOUS
<1>3. IsFiniteSet(B)
  BY <1>2, RankIsNumber
<1>4. ~(b <= a) /\ b <= b /\ \A x \in S : x <= a => x <= b
  BY <1>1
<1>5. A \in SUBSET B /\ b \in B /\ b \notin A
  BY <1>4, Zenon
<1> QED
  BY <1>3, <1>5, FS_Subset DEF Rank

\* So that each of them is found by its rank.
LEMMA NthOfRank ==
  ASSUME NEW n \in Nat, NEW S \in SUBSET (1 .. n), NEW i \in S
  PROVE  Rank(S, i) \in 1 .. Cardinality(S) /\ Nth(S, Rank(S, i)) = i
<1>0. i \in Nat
  OBVIOUS
<1>1. /\ Rank(S, i) \in 0 .. Cardinality(S) /\ IsFiniteSet({j \in S : j <= i})
      /\ Cardinality(S) \in 0 .. n
  BY <1>0, RankIsNumber, Zenon
<1>2. Rank(S, i) # 0
  BY <1>1, FS_EmptySet DEF Rank
<1>3. Rank(S, i) \in 1 .. Cardinality(S)
  BY <1>1, <1>2
<1> QED
  BY <1>3, NthExists, RankTells
-----------------------------------------------------------------------------
\* Filtering keeps the sections with another id, all of them, and none twice.
Distinct(built) == \A i, j \in DOMAIN built : built[i].id = built[j].id => i = j

LEMMA WithoutKeeps ==
  ASSUME sections \in Seq(Section), NEW id
  PROVE  /\ Without(id) \in Seq(Section) /\ Len(Without(id)) <= Len(sections)
         /\ id \in Ids => Len(Without(id)) < Len(sections)
         /\ \A k \in DOMAIN Without(id) :
              \E i \in DOMAIN sections : Without(id)[k] = sections[i] /\ sections[i].id # id
         /\ \A i \in DOMAIN sections :
              sections[i].id # id => \E k \in DOMAIN Without(id) : Without(id)[k] = sections[i]
         /\ Distinct(sections) => Distinct(Without(id))
<1> DEFINE kept == {i \in DOMAIN sections : sections[i].id # id}
           n == Len(sections)
           m == Cardinality(kept)
<1>1. n \in Nat /\ DOMAIN sections = 1 .. n /\ kept \in SUBSET (1 .. n)
  OBVIOUS
<1>2. IsFiniteSet(1 .. n) /\ Cardinality(1 .. n) = n
  BY <1>1, FS_Interval
<1>3. IsFiniteSet(kept) /\ m \in Nat /\ m <= n /\ (m = n => kept = 1 .. n)
  BY <1>1, <1>2, FS_Subset, FS_CardinalityType
<1>4. Without(id) = [k \in 1 .. m |-> sections[Nth(kept, k)]]
  BY DEF Without
<1>5. id \in Ids => kept # 1 .. n
  BY <1>1 DEF Ids
<1> HIDE DEF kept
<1>6. ASSUME NEW k \in 1 .. m PROVE Nth(kept, k) \in kept /\ Rank(kept, Nth(kept, k)) = k
  BY <1>1, <1>6, NthExists
<1>7. ASSUME NEW i \in kept PROVE Rank(kept, i) \in 1 .. m /\ Nth(kept, Rank(kept, i)) = i
  BY <1>1, <1>7, NthOfRank
<1>8. \A i \in kept : i \in DOMAIN sections /\ sections[i].id # id /\ sections[i] \in Section
  BY DEF kept
<1> HIDE DEF m
<1>9. Without(id) \in [1 .. m -> Section]
  BY <1>4, <1>6, <1>8
<1>10. Without(id) \in Seq(Section) /\ Len(Without(id)) = m /\ DOMAIN Without(id) = 1 .. m
  BY <1>3, <1>9
<1>11. ASSUME NEW k \in 1 .. m PROVE \E i \in DOMAIN sections : Without(id)[k] = sections[i] /\ sections[i].id # id
  BY <1>4, <1>6, <1>8, <1>11
<1>12. ASSUME NEW i \in DOMAIN sections, sections[i].id # id PROVE \E k \in 1 .. m : Without(id)[k] = sections[i]
  <2>1. i \in kept
    BY <1>12 DEF kept
  <2> QED
    BY <1>4, <1>7, <2>1
<1>13. ASSUME Distinct(sections), NEW j \in 1 .. m, NEW k \in 1 .. m, Without(id)[j].id = Without(id)[k].id PROVE j = k
  <2>1. Nth(kept, j) \in kept /\ Nth(kept, k) \in kept
    BY <1>6
  <2>2. sections[Nth(kept, j)].id = sections[Nth(kept, k)].id
    BY <1>4, <1>13
  <2>3. Nth(kept, j) = Nth(kept, k)
    BY <1>8, <1>13, <2>1, <2>2 DEF Distinct
  <2> QED
    BY <1>6, <2>3
<1>14. Distinct(sections) => Distinct(Without(id))
  BY <1>10, <1>13 DEF Distinct
<1>15. id \in Ids => m # n
  BY <1>3, <1>5, Zenon
<1>16. id \in Ids => m < n
  <2>1. n \in Nat /\ m \in Nat /\ m <= n
    BY <1>1, <1>3
  <2> HIDE DEF n
  <2> QED
    BY <1>15, <2>1
<1> QED
  BY <1>1, <1>3, <1>10, <1>11, <1>12, <1>14, <1>16

\* What splice makes of a sequence.
LEMMA Inserting ==
  ASSUME NEW S, NEW s \in Seq(S), NEW i \in DOMAIN s, NEW e \in S
  PROVE  /\ InsertAt(s, i, e) \in Seq(S) /\ Len(InsertAt(s, i, e)) = Len(s) + 1
         /\ \A k \in 1 .. Len(s) + 1 :
              InsertAt(s, i, e)[k] = IF k < i THEN s[k] ELSE IF k = i THEN e ELSE s[k - 1]
<1>1. i \in 1 .. Len(s) /\ Len(s) \in Nat
  OBVIOUS
<1>2. SubSeq(s, 1, i - 1) \in Seq(S) /\ Len(SubSeq(s, 1, i - 1)) = i - 1 /\ \A k \in 1 .. i - 1 : SubSeq(s, 1, i - 1)[k] = s[k]
  BY <1>1
<1>3. SubSeq(s, i, Len(s)) \in Seq(S) /\ Len(SubSeq(s, i, Len(s))) = Len(s) - i + 1
      /\ \A k \in 1 .. Len(s) - i + 1 : SubSeq(s, i, Len(s))[k] = s[i + k - 1]
  BY <1>1
<1> DEFINE a == SubSeq(s, 1, i - 1)
           b == SubSeq(s, i, Len(s))
<1>4. InsertAt(s, i, e) = (a \o <<e>>) \o b
  BY DEF InsertAt
<1> HIDE DEF a, b
<1>5. <<e>> \in Seq(S) /\ Len(<<e>>) = 1 /\ <<e>>[1] = e
  OBVIOUS
<1>6. a \in Seq(S) /\ Len(a) = i - 1 /\ \A k \in 1 .. i - 1 : a[k] = s[k]
  BY <1>2 DEF a
<1> DEFINE ae == a \o <<e>>
           all == ae \o b
<1>7. /\ ae \in Seq(S) /\ Len(ae) = Len(a) + Len(<<e>>)
      /\ \A k \in 1 .. Len(a) + Len(<<e>>) : ae[k] = IF k <= Len(a) THEN a[k] ELSE <<e>>[k - Len(a)]
  BY <1>5, <1>6, ConcatProperties, Zenon
<1>8. b \in Seq(S) /\ Len(b) = Len(s) - i + 1 /\ \A k \in 1 .. Len(s) - i + 1 : b[k] = s[i + k - 1]
  BY <1>3 DEF b
<1> HIDE DEF ae
<1>a. ae \in Seq(S) /\ b \in Seq(S)
  BY <1>7, <1>8
<1>9. /\ all \in Seq(S) /\ Len(all) = Len(ae) + Len(b)
      /\ \A k \in 1 .. Len(ae) + Len(b) : all[k] = IF k <= Len(ae) THEN ae[k] ELSE b[k - Len(ae)]
  BY <1>a, ConcatProperties, Zenon
<1> HIDE DEF all
<1>10. Len(ae) = (i - 1) + 1 /\ Len(all) = Len(ae) + (Len(s) - i + 1)
  BY <1>5, <1>6, <1>7, <1>8, <1>9, Zenon
<1>b. all = InsertAt(s, i, e)
  BY <1>4, Zenon DEF ae, all
<1>c. Len(ae) = i
  BY <1>1, <1>10
<1>d. Len(all) = i + (Len(s) - i + 1)
  BY <1>10, <1>c, Zenon
<1>11. Len(ae) = i /\ Len(all) = Len(s) + 1 /\ all = InsertAt(s, i, e)
  BY <1>1, <1>b, <1>c, <1>d
<1>12. ASSUME NEW k \in 1 .. i PROVE ae[k] = IF k < i THEN s[k] ELSE e
  <2>1. CASE k < i
    BY <1>1, <1>5, <1>6, <1>7, <2>1
  <2>2. CASE k = i
    <3>1. ~(k <= Len(a)) /\ k - Len(a) = 1 /\ k \in 1 .. Len(a) + Len(<<e>>)
      BY <1>1, <1>5, <1>6, <2>2
    <3> QED
      BY <1>5, <1>7, <2>2, <3>1
  <2> QED
    BY <1>1, <2>1, <2>2
<1>13. ASSUME NEW k \in 1 .. Len(s) + 1
       PROVE  all[k] = IF k < i THEN s[k] ELSE IF k = i THEN e ELSE s[k - 1]
  <2>1. k \in 1 .. Len(ae) + Len(b)
    BY <1>1, <1>8, <1>11
  <2>2. CASE k <= i
    BY <1>1, <1>9, <1>11, <1>12, <2>1, <2>2
  <2>3. CASE k > i
    <3>1. k - i \in 1 .. Len(s) - i + 1 /\ i + (k - i) - 1 = k - 1
      BY <1>1, <2>3
    <3>2. all[k] = b[k - Len(ae)]
      BY <1>1, <1>9, <1>11, <2>1, <2>3
    <3>3. b[k - i] = s[i + (k - i) - 1]
      BY <1>8, <3>1, Zenon
    <3>4. all[k] = s[k - 1]
      BY <1>11, <3>1, <3>2, <3>3, Zenon
    <3> QED
      BY <1>1, <2>3, <3>4
  <2> QED
    BY <1>1, <2>2, <2>3
<1> QED
  BY <1>9, <1>11, <1>13

\* What findIndex looks for is there if anything is.
LEMMA FirstIndex ==
  ASSUME NEW S, NEW s \in Seq(S), NEW id, \E i \in DOMAIN s : s[i].id = id
  PROVE  \E i \in DOMAIN s : s[i].id = id /\ \A j \in 1 .. i - 1 : s[j].id # id
<1> DEFINE T == {i \in DOMAIN s : s[i].id = id}
<1>1. T \in SUBSET Nat /\ T # {}
  OBVIOUS
<1>2. PICK i \in T : \A j \in T : i <= j
  BY <1>1, Smallest
<1>3. \A j \in 1 .. i - 1 : j \in DOMAIN s /\ ~(i <= j)
  BY <1>2
<1> QED
  BY <1>2, <1>3
-----------------------------------------------------------------------------
\* The page builder: while a save is under way the note of success is gone, and what was
\* sent is what the page shows unless it was edited; what was written is what was sent.
SavingShape ==
  \E phase, sent, plugins, errors :
    saving = [phase |-> phase, sections |-> sent, plugins |-> plugins, errors |-> errors]
ConfigShape == \E written, plugins : config = [sections |-> written, plugins |-> plugins]
SaveFollows ==
  saving # NotSaving =>
    /\ saveSuccess = FALSE
    /\ ~editedSince => saving.sections = toConfigSections(sections)
    /\ saving.phase = "written" => config.sections = saving.sections
BuilderInv == SavingShape /\ ConfigShape /\ SaveFollows /\ SavedMeansSaved /\ PluginsCoverSections
-----------------------------------------------------------------------------
LEMMA BuilderStart == BuilderInit => BuilderInv
<1> SUFFICES ASSUME BuilderInit PROVE BuilderInv
  OBVIOUS
<1>1. SavingShape /\ ConfigShape
  BY DEF BuilderInit, SavingShape, ConfigShape, NotSaving
<1>2. SaveFollows /\ SavedMeansSaved
  BY DEF BuilderInit, SaveFollows, SavedMeansSaved
<1>3. PluginsCoverSections
  BY DEF BuilderInit, PluginsCoverSections, Required
<1> QED
  BY <1>1, <1>2, <1>3 DEF BuilderInv

LEMMA BuilderStep ==
  ASSUME BuilderInv, [BuilderNext]_builderVars
  PROVE  BuilderInv'
<1> USE DEF BuilderInv
<1>1. ASSUME NEW edited, Edited(edited) PROVE BuilderInv'
  <2>1. saveSuccess' = FALSE /\ editedSince' = (editedSince \/ saving # NotSaving) /\ UNCHANGED outcome
    BY <1>1 DEF Edited
  <2>2. UNCHANGED <<saving, config>>
    BY <2>1 DEF outcome
  <2>3. SaveFollows' /\ SavedMeansSaved'
    BY <2>1, <2>2 DEF SaveFollows, SavedMeansSaved
  <2> QED
    BY <2>2, <2>3 DEF SavingShape, ConfigShape, PluginsCoverSections, Required
<1>2. ASSUME \/ \E b \in Blocks : addBlock(b)
             \/ \E id \in Ids : removeBlock(id) \/ updateFieldValue(id) \/ moveBlock(id, -1) \/ moveBlock(id, 1)
             \/ \E id, target \in Ids : reorderByDrag(id, target)
             \/ \E id \in Ids, b \in Blocks, newId \in 1 .. idCounter : replaceSectionProps(id, b, newId)
      PROVE  \E edited : Edited(edited)
  BY <1>2 DEF addBlock, removeBlock, updateFieldValue, moveBlock, reorderByDrag, replaceSectionProps
<1>3. CASE handleSave
  <2>1. /\ saving' = [phase |-> "sent", sections |-> toConfigSections(sections), plugins |-> {}, errors |-> {}]
        /\ saveSuccess' = FALSE /\ editedSince' = FALSE /\ UNCHANGED <<sections, config>>
    BY <1>3 DEF handleSave, NotSaving, editor
  <2>2. SavingShape' /\ ConfigShape' /\ PluginsCoverSections'
    BY <2>1 DEF SavingShape, ConfigShape, PluginsCoverSections, Required
  <2>3. saving'.sections = toConfigSections(sections)' /\ saving'.phase # "written"
    BY <2>1 DEF toConfigSections
  <2> QED
    BY <2>1, <2>2, <2>3 DEF SaveFollows, SavedMeansSaved
<1>4. ASSUME NEW phase, phase # "written", NEW plugins, NEW errors, saving # NotSaving,
             saving' = [phase |-> phase, sections |-> saving.sections, plugins |-> plugins, errors |-> errors],
             UNCHANGED <<sections, saveSuccess, config, editedSince>>
      PROVE  BuilderInv'
  <2>1. saving'.sections = saving.sections /\ saving'.phase # "written" /\ SavingShape'
    BY <1>4 DEF SavingShape
  <2>2. SaveFollows' /\ SavedMeansSaved'
    BY <1>4, <2>1 DEF SaveFollows, SavedMeansSaved, toConfigSections
  <2> QED
    BY <1>4, <2>1, <2>2 DEF ConfigShape, PluginsCoverSections, Required
<1>5. CASE Validate
  <2>1. saving # NotSaving /\ UNCHANGED <<sections, saveSuccess, config, editedSince>>
    BY <1>5 DEF Validate, NotSaving, editor
  <2>2. PICK sent, plugins, errors : saving = [phase |-> "sent", sections |-> sent, plugins |-> plugins, errors |-> errors]
    BY <1>5 DEF Validate, SavingShape
  <2>3. \/ saving' = [phase |-> "refused", sections |-> sent, plugins |-> plugins,
                      errors |-> validateAllSections(saving.sections)]
        \/ saving' = [phase |-> "read", sections |-> sent, plugins |-> config.plugins, errors |-> errors]
    BY <1>5, <2>2 DEF Validate
  <2>4. saving.sections = sent
    BY <2>2
  <2> QED
    BY <1>4, <2>1, <2>3, <2>4
<1>6. CASE WriteConfig
  <2>1. PICK sent, plugins, errors : saving = [phase |-> "read", sections |-> sent, plugins |-> plugins, errors |-> errors]
    BY <1>6 DEF WriteConfig, SavingShape
  <2>2. saving' = [phase |-> "written", sections |-> sent, plugins |-> plugins, errors |-> errors]
    BY <1>6, <2>1 DEF WriteConfig
  <2>3. /\ config' = [sections |-> saving.sections, plugins |-> mergePlugins(saving.plugins, saving.sections)]
        /\ UNCHANGED <<sections, saveSuccess, editedSince>>
    BY <1>6 DEF WriteConfig, editor
  <2>4. saving # NotSaving /\ saving.sections = sent /\ saving'.sections = sent /\ config'.sections = sent
    BY <2>1, <2>2, <2>3 DEF NotSaving
  <2>5. SavingShape' /\ ConfigShape'
    BY <2>2, <2>3 DEF SavingShape, ConfigShape
  <2>6. PluginsCoverSections'
    BY <2>3 DEF PluginsCoverSections, Required, mergePlugins
  <2>7. SaveFollows' /\ SavedMeansSaved'
    BY <2>3, <2>4 DEF SaveFollows, SavedMeansSaved, toConfigSections
  <2> QED
    BY <2>5, <2>6, <2>7
<1>7. CASE SaveAnswered
  <2>1. /\ saving' = NotSaving /\ saving # NotSaving /\ saveSuccess' = (saving.phase = "written")
        /\ UNCHANGED <<sections, config, editedSince>>
    BY <1>7 DEF SaveAnswered, NotSaving, editor
  <2>2. SavedMeansSaved'
    BY <2>1 DEF SaveFollows, SavedMeansSaved, toConfigSections
  <2> QED
    BY <2>1, <2>2 DEF SavingShape, NotSaving, ConfigShape, SaveFollows, PluginsCoverSections, Required
<1>8. CASE SaveFails \/ loadBuilderData
  <2>1. saveSuccess' = FALSE /\ saving' = NotSaving /\ config' = config
    BY <1>8 DEF SaveFails, loadBuilderData
  <2> QED
    BY <2>1 DEF SavingShape, NotSaving, ConfigShape, SaveFollows, SavedMeansSaved, PluginsCoverSections, Required
<1>9. ASSUME NEW p, EditByHand(p) PROVE BuilderInv'
  <2>1. UNCHANGED <<sections, saveSuccess, saving, editedSince>> /\ p \notin Required(config.sections)
    BY <1>9 DEF EditByHand, editor
  <2>2. PICK written, plugins : config = [sections |-> written, plugins |-> plugins]
    BY DEF ConfigShape
  <2>3. config' = [sections |-> written, plugins |-> IF p \in plugins THEN plugins \ {p} ELSE plugins \cup {p}]
    BY <1>9, <2>2 DEF EditByHand
  <2>4. ConfigShape' /\ config'.sections = config.sections
    BY <2>2, <2>3 DEF ConfigShape
  <2>5. PluginsCoverSections'
    BY <2>1, <2>2, <2>3 DEF PluginsCoverSections, Required
  <2> QED
    BY <2>1, <2>4, <2>5 DEF SavingShape, SaveFollows, SavedMeansSaved, toConfigSections
<1>10. CASE UNCHANGED builderVars
  <2>1. UNCHANGED <<sections, saveSuccess, saving, config, editedSince>>
    BY <1>10 DEF builderVars, editor
  <2>2. SavingShape' /\ ConfigShape' /\ PluginsCoverSections'
    BY <2>1 DEF SavingShape, ConfigShape, PluginsCoverSections, Required
  <2>3. SaveFollows' /\ SavedMeansSaved'
    BY <2>1 DEF SaveFollows, SavedMeansSaved, toConfigSections
  <2> QED
    BY <2>2, <2>3
<1> HIDE DEF BuilderInv
<1>11. ASSUME BuilderNext
       PROVE  \/ \E edited : Edited(edited)
              \/ handleSave \/ Validate \/ WriteConfig \/ SaveAnswered \/ SaveFails \/ loadBuilderData
              \/ \E p \in Plugins : EditByHand(p)
  BY <1>2, <1>11, Zenon DEF BuilderNext
<1> QED
  BY <1>1, <1>3, <1>5, <1>6, <1>7, <1>8, <1>9, <1>10, <1>11, Zenon
-----------------------------------------------------------------------------
\* The types of the page builder need those of what is being saved.
SavingTyped ==
  /\ saving.sections \in Seq(Content) /\ Len(saving.sections) <= MaxSections
  /\ saving.plugins \subseteq Plugins
BuilderTypes == BuilderTypeOK /\ SavingTyped /\ Len(config.sections) <= MaxSections

LEMMA ContentTyped ==
  ASSUME NEW built \in Seq(Section)
  PROVE  toConfigSections(built) \in Seq(Content) /\ Len(toConfigSections(built)) = Len(built)
<1> DEFINE written == [i \in DOMAIN built |-> [block |-> built[i].block, complete |-> built[i].complete]]
<1>1. \A i \in DOMAIN built : built[i] \in Section
  OBVIOUS
<1>2. \A i \in DOMAIN built : written[i] \in Content
  BY <1>1 DEF Section, Content
<1>3. DOMAIN built = 1 .. Len(built) /\ Len(built) \in Nat /\ DOMAIN written = DOMAIN built
  OBVIOUS
<1>4. toConfigSections(built) = written
  BY DEF toConfigSections
<1>5. written = [i \in 1 .. Len(built) |-> written[i]]
  BY <1>3
<1> HIDE DEF written
<1> QED
  BY <1>2, <1>3, <1>4, <1>5

LEMMA RequiredTyped == ASSUME NEW built \in Seq(Content) PROVE Required(built) \subseteq Plugins
<1>1. \A i \in DOMAIN built : built[i].block \in Blocks
  <2>1. \A i \in DOMAIN built : built[i] \in Content
    OBVIOUS
  <2> QED
    BY <2>1 DEF Content
<1>2. \A b \in Blocks : RequiredPlugin[b] \in SUBSET Plugins
  BY BuilderAssumption
<1>3. \A i \in DOMAIN built : \A p \in RequiredPlugin[built[i].block] : p \in Plugins
  BY <1>1, <1>2
<1> QED
  BY <1>3, Zenon DEF Required

LEMMA FirstWithId ==
  ASSUME NEW id \in Ids, sections \in Seq(Section)
  PROVE  IndexOf(id) \in DOMAIN sections /\ sections[IndexOf(id)].id = id
<1>1. \E i \in DOMAIN sections : sections[i].id = id
  BY Zenon DEF Ids
<1>2. \E i \in DOMAIN sections : sections[i].id = id /\ \A j \in 1 .. i - 1 : sections[j].id # id
  BY <1>1, FirstIndex, Zenon
<1> QED
  BY <1>2, Zenon DEF IndexOf

\* An edit leaves the types in order when its page has them.
LEMMA EditTypes ==
  ASSUME BuilderTypes, NEW built \in Seq(Section), Edited(built), PluginsCoverSections',
         Len(built) <= MaxSections, idCounter' \in 0 .. MaxIds, retyped' \in BOOLEAN,
         \A i \in DOMAIN built : built[i].id <= idCounter',
         retyped' \/ Distinct(built)
  PROVE  BuilderTypes'
<1>1. sections' = built /\ UNCHANGED <<broken, saving, config>> /\ saveSuccess' \in BOOLEAN
  BY DEF Edited, outcome
<1>2. editedSince' \in BOOLEAN
  BY DEF Edited, BuilderTypes, BuilderTypeOK
<1>3. IdsDistinct'
  BY <1>1 DEF IdsDistinct, Distinct
<1>4. SavingTyped' /\ (Len(config.sections) <= MaxSections)'
  BY <1>1 DEF BuilderTypes, SavingTyped
<1>5. BuilderTypeOK'
  BY <1>1, <1>2, <1>3 DEF BuilderTypes, BuilderTypeOK
<1> QED
  BY <1>4, <1>5 DEF BuilderTypes

\* So does one that keeps the places, and the sections or at least their ids.
LEMMA EditInPlace ==
  ASSUME BuilderTypes, NEW built \in Seq(Section), Edited(built), PluginsCoverSections',
         UNCHANGED <<idCounter, retyped>>, Len(built) = Len(sections),
         \A i \in DOMAIN built : \E j \in DOMAIN sections : built[i].id = sections[j].id,
         Distinct(sections) => Distinct(built)
  PROVE  BuilderTypes'
<1>1. \A i \in DOMAIN built : built[i].id <= idCounter
  BY DEF BuilderTypes, BuilderTypeOK
<1>2. retyped \/ Distinct(sections)
  BY DEF BuilderTypes, BuilderTypeOK, IdsDistinct, Distinct
<1> QED
  BY <1>1, <1>2, EditTypes DEF BuilderTypes, BuilderTypeOK

LEMMA AddTypes == ASSUME BuilderTypes, PluginsCoverSections', NEW b \in Blocks, addBlock(b) PROVE BuilderTypes'
<1>0. /\ sections \in Seq(Section) /\ idCounter \in 0 .. MaxIds /\ MaxIds \in Nat /\ retyped \in BOOLEAN
      /\ \A i \in DOMAIN sections : sections[i].id <= idCounter
  BY BuilderAssumption DEF BuilderTypes, BuilderTypeOK
<1>1. PICK c \in Complete(b) : Edited(Append(sections, [id |-> idCounter + 1, block |-> b, complete |-> c]))
  BY DEF addBlock
<1> DEFINE new == [id |-> idCounter + 1, block |-> b, complete |-> c]
           built == Append(sections, new)
<1>2. Len(sections) < MaxSections /\ idCounter < MaxIds /\ idCounter' = idCounter + 1 /\ retyped' = retyped
  BY DEF addBlock
<1>3. c \in BOOLEAN
  BY DEF Complete
<1>4. new \in Section /\ new.id = idCounter + 1
  BY <1>0, <1>2, <1>3 DEF Section
<1> HIDE DEF new
<1>5. built \in Seq(Section) /\ Len(built) = Len(sections) + 1 /\ built[Len(sections) + 1] = new
      /\ \A i \in 1 .. Len(sections) : built[i] = sections[i]
  BY <1>0, <1>4, AppendProperties
<1> HIDE DEF built
<1>6. ASSUME NEW i \in DOMAIN built
      PROVE  /\ built[i].id <= idCounter + 1
             /\ i # Len(sections) + 1 => i \in DOMAIN sections /\ built[i] = sections[i]
  <2>1. Len(sections) \in Nat /\ i \in 1 .. Len(sections) + 1 /\ DOMAIN sections = 1 .. Len(sections)
    BY <1>0, <1>5
  <2>2. CASE i = Len(sections) + 1
    BY <1>0, <1>4, <1>5, <2>2
  <2>3. CASE i # Len(sections) + 1
    <3>1. i \in DOMAIN sections /\ built[i] = sections[i]
      BY <1>5, <2>1, <2>3
    <3>2. sections[i] \in Section /\ sections[i].id <= idCounter
      BY <1>0, <3>1
    <3>3. sections[i].id \in 1 .. MaxIds
      BY <3>2 DEF Section
    <3> QED
      BY <1>0, <3>1, <3>2, <3>3
  <2> QED
    BY <2>2, <2>3
<1>7. retyped \/ Distinct(sections)
  BY DEF BuilderTypes, BuilderTypeOK, IdsDistinct, Distinct
<1>8. ASSUME Distinct(sections) PROVE Distinct(built)
  <2>1. ASSUME NEW i \in DOMAIN built, NEW j \in DOMAIN built, built[i].id = built[j].id PROVE i = j
    <3>1. CASE i = Len(sections) + 1 /\ j # Len(sections) + 1
      <4>1. built[j].id <= idCounter /\ built[i].id = idCounter + 1
        BY <1>0, <1>4, <1>5, <1>6, <3>1
      <4> QED
        BY <1>0, <2>1, <4>1
    <3>2. CASE i # Len(sections) + 1 /\ j = Len(sections) + 1
      <4>1. built[i].id <= idCounter /\ built[j].id = idCounter + 1
        BY <1>0, <1>4, <1>5, <1>6, <3>2
      <4> QED
        BY <1>0, <2>1, <4>1
    <3>3. CASE i # Len(sections) + 1 /\ j # Len(sections) + 1
      BY <1>6, <1>8, <2>1, <3>3 DEF Distinct
    <3> QED
      BY <3>1, <3>2, <3>3
  <2> QED
    BY <2>1 DEF Distinct
<1> HIDE DEF built
<1>9. Edited(built) /\ Len(built) <= MaxSections /\ idCounter' \in 0 .. MaxIds
  <2>1. Edited(built)
    BY <1>1 DEF built, new
  <2>2. Len(sections) \in Nat /\ Len(built) <= MaxSections /\ idCounter' \in 0 .. MaxIds
    BY <1>0, <1>2, <1>5, BuilderAssumption
  <2> QED
    BY <2>1, <2>2
<1> QED
  BY <1>0, <1>2, <1>5, <1>6, <1>7, <1>8, <1>9, EditTypes

LEMMA RemoveTypes == ASSUME BuilderTypes, PluginsCoverSections', NEW id \in Ids, removeBlock(id) PROVE BuilderTypes'
<1>0. /\ sections \in Seq(Section) /\ idCounter \in 0 .. MaxIds /\ retyped \in BOOLEAN /\ Len(sections) <= MaxSections
      /\ \A i \in DOMAIN sections : sections[i].id <= idCounter
  BY DEF BuilderTypes, BuilderTypeOK
<1>1. Edited(Without(id)) /\ UNCHANGED <<idCounter, retyped>>
  BY DEF removeBlock
<1>2. /\ Without(id) \in Seq(Section) /\ Len(Without(id)) <= Len(sections)
      /\ \A k \in DOMAIN Without(id) : \E i \in DOMAIN sections : Without(id)[k] = sections[i] /\ sections[i].id # id
      /\ Distinct(sections) => Distinct(Without(id))
  BY <1>0, WithoutKeeps
<1>3. retyped \/ Distinct(sections)
  BY DEF BuilderTypes, BuilderTypeOK, IdsDistinct, Distinct
<1>4. \A k \in DOMAIN Without(id) : Without(id)[k].id <= idCounter
  BY <1>0, <1>2
<1>5. Len(Without(id)) <= MaxSections
  BY <1>0, <1>2, BuilderAssumption
<1> QED
  BY <1>0, <1>1, <1>2, <1>3, <1>4, <1>5, EditTypes

LEMMA MoveTypes ==
  ASSUME BuilderTypes, PluginsCoverSections', NEW id \in Ids, NEW direction \in {-1, 1}, moveBlock(id, direction)
  PROVE  BuilderTypes'
<1>0. sections \in Seq(Section)
  BY DEF BuilderTypes, BuilderTypeOK
<1> DEFINE i == IndexOf(id)
           j == i + direction
           built == [sections EXCEPT ![i] = sections[j], ![j] = sections[i]]
<1>1. j \in DOMAIN sections /\ Edited(built) /\ UNCHANGED <<idCounter, retyped>>
  BY DEF moveBlock
<1>2. i \in DOMAIN sections
  BY <1>0, FirstWithId
<1> HIDE DEF i
<1>3. i # j
  BY <1>0, <1>2
<1> HIDE DEF j
<1>4. built \in Seq(Section) /\ Len(built) = Len(sections) /\ DOMAIN built = DOMAIN sections
  BY <1>0, <1>1, <1>2
<1>5. \A k \in DOMAIN sections : built[k] = IF k = j THEN sections[i] ELSE IF k = i THEN sections[j] ELSE sections[k]
  BY <1>0, <1>1, <1>2, <1>3
<1> HIDE DEF built
<1>6. \A k \in DOMAIN built : \E l \in DOMAIN sections : built[k].id = sections[l].id
  BY <1>1, <1>2, <1>4, <1>5
<1>7. ASSUME Distinct(sections), NEW k \in DOMAIN built, NEW l \in DOMAIN built, built[k].id = built[l].id PROVE k = l
  BY <1>1, <1>2, <1>3, <1>4, <1>5, <1>7, Zenon DEF Distinct
<1>8. Distinct(sections) => Distinct(built)
  BY <1>7 DEF Distinct
<1> QED
  BY <1>1, <1>4, <1>6, <1>8, EditInPlace

LEMMA DragTypes ==
  ASSUME BuilderTypes, PluginsCoverSections', NEW dragged \in Ids, NEW target \in Ids, reorderByDrag(dragged, target)
  PROVE  BuilderTypes'
<1>0. /\ sections \in Seq(Section) /\ idCounter \in 0 .. MaxIds /\ retyped \in BOOLEAN /\ Len(sections) <= MaxSections
      /\ \A i \in DOMAIN sections : sections[i].id <= idCounter
  BY DEF BuilderTypes, BuilderTypeOK
<1> DEFINE rest == Without(dragged)
           before == CHOOSE i \in DOMAIN rest : rest[i].id = target /\ \A j \in 1 .. i - 1 : rest[j].id # target
           new == sections[IndexOf(dragged)]
           built == InsertAt(rest, before, new)
<1>1. dragged # target /\ Edited(built) /\ UNCHANGED <<idCounter, retyped>>
  BY DEF reorderByDrag
<1>2. /\ rest \in Seq(Section) /\ Len(rest) < Len(sections)
      /\ \A k \in DOMAIN rest : \E i \in DOMAIN sections : rest[k] = sections[i] /\ sections[i].id # dragged
      /\ \A i \in DOMAIN sections : sections[i].id # dragged => \E k \in DOMAIN rest : rest[k] = sections[i]
      /\ Distinct(sections) => Distinct(rest)
  BY <1>0, WithoutKeeps
<1>3. IndexOf(dragged) \in DOMAIN sections /\ new.id = dragged
  BY <1>0, FirstWithId
<1>4. new \in Section /\ new.id <= idCounter
  BY <1>0, <1>3
<1> HIDE DEF new, rest
<1>5. \E k \in DOMAIN rest : rest[k].id = target
  BY <1>1, <1>2 DEF Ids
<1>6. \E k \in DOMAIN rest : rest[k].id = target /\ \A j \in 1 .. k - 1 : rest[j].id # target
  BY <1>2, <1>5, FirstIndex
<1>7. before \in DOMAIN rest
  BY <1>6
<1> HIDE DEF before
<1>8. /\ built \in Seq(Section) /\ Len(built) = Len(rest) + 1
      /\ \A k \in 1 .. Len(rest) + 1 : built[k] = IF k < before THEN rest[k] ELSE IF k = before THEN new ELSE rest[k - 1]
  BY <1>2, <1>4, <1>7, Inserting
<1> HIDE DEF built
<1>9. Len(rest) \in Nat /\ Len(sections) \in Nat /\ DOMAIN rest = 1 .. Len(rest) /\ DOMAIN built = 1 .. Len(rest) + 1
      /\ before \in 1 .. Len(rest)
  BY <1>0, <1>2, <1>7, <1>8
<1>10. Len(built) <= MaxSections
  BY <1>0, <1>2, <1>8, <1>9, BuilderAssumption
\* Where a section other than the dragged one was before.
<1> DEFINE from(k) == IF k < before THEN k ELSE k - 1
<1>11. ASSUME NEW k \in DOMAIN built, k # before PROVE from(k) \in DOMAIN rest /\ built[k] = rest[from(k)]
  BY <1>8, <1>9, <1>11
<1>12. built[before] = new
  BY <1>8, <1>9
<1>13. ASSUME NEW k \in DOMAIN built, NEW l \in DOMAIN built, k # before, l # before, from(k) = from(l) PROVE k = l
  BY <1>9, <1>13
<1> HIDE DEF from
<1>14. ASSUME NEW k \in DOMAIN rest PROVE rest[k].id <= idCounter /\ rest[k].id # dragged
  BY <1>0, <1>2, <1>14
<1>15. \A k \in DOMAIN built : built[k].id <= idCounter
  BY <1>4, <1>11, <1>12, <1>14
<1>16. ASSUME Distinct(sections), NEW k \in DOMAIN built, NEW l \in DOMAIN built, built[k].id = built[l].id PROVE k = l
  <2>1. CASE k # before /\ l # before
    BY <1>2, <1>11, <1>13, <1>16, <2>1 DEF Distinct
  <2>2. CASE k = before \/ l = before
    BY <1>3, <1>11, <1>12, <1>14, <1>16, <2>2
  <2> QED
    BY <2>1, <2>2
<1>17. retyped \/ Distinct(built)
  BY <1>16 DEF BuilderTypes, BuilderTypeOK, IdsDistinct, Distinct
<1> QED
  BY <1>0, <1>1, <1>8, <1>10, <1>15, <1>17, EditTypes

LEMMA FieldTypes == ASSUME BuilderTypes, PluginsCoverSections', NEW id, updateFieldValue(id) PROVE BuilderTypes'
<1>0. sections \in Seq(Section)
  BY DEF BuilderTypes, BuilderTypeOK
<1>1. PICK c \in BOOLEAN : Edited([i \in DOMAIN sections |->
        IF sections[i].id = id THEN [sections[i] EXCEPT !.complete = c] ELSE sections[i]])
  BY DEF updateFieldValue
<1> DEFINE built == [i \in DOMAIN sections |->
             IF sections[i].id = id THEN [sections[i] EXCEPT !.complete = c] ELSE sections[i]]
<1>2. ASSUME NEW i \in DOMAIN sections PROVE built[i] \in Section /\ built[i].id = sections[i].id
  <2>1. sections[i] \in Section
    BY <1>0
  <2>2. [sections[i] EXCEPT !.complete = c] \in Section /\ [sections[i] EXCEPT !.complete = c].id = sections[i].id
    BY <2>1 DEF Section
  <2> QED
    BY <2>1, <2>2
<1>3. built \in Seq(Section) /\ Len(built) = Len(sections) /\ DOMAIN built = DOMAIN sections
  BY <1>0, <1>2
<1>4. Edited(built) /\ UNCHANGED <<idCounter, retyped>>
  BY <1>1 DEF updateFieldValue
<1> HIDE DEF built
<1>5. Distinct(sections) => Distinct(built)
  BY <1>2, <1>3 DEF Distinct
<1> QED
  BY <1>2, <1>3, <1>4, <1>5, EditInPlace

LEMMA JsonTypes ==
  ASSUME BuilderTypes, PluginsCoverSections', NEW id, NEW b \in Blocks, NEW newId \in 1 .. idCounter,
         replaceSectionProps(id, b, newId)
  PROVE  BuilderTypes'
<1>0. /\ sections \in Seq(Section) /\ idCounter \in 0 .. MaxIds /\ retyped \in BOOLEAN /\ Len(sections) <= MaxSections
      /\ \A i \in DOMAIN sections : sections[i].id <= idCounter
      /\ MaxIds \in Nat
  BY BuilderAssumption DEF BuilderTypes, BuilderTypeOK
<1>1. PICK c \in Complete(b) : Edited([i \in DOMAIN sections |->
        IF sections[i].id = id THEN [id |-> newId, block |-> b, complete |-> c] ELSE sections[i]])
  BY DEF replaceSectionProps
<1> DEFINE new == [id |-> newId, block |-> b, complete |-> c]
           built == [i \in DOMAIN sections |-> IF sections[i].id = id THEN new ELSE sections[i]]
<1>2. new \in Section /\ new.id = newId /\ newId <= idCounter
  <2>1. c \in BOOLEAN
    BY DEF Complete
  <2>2. newId \in 1 .. MaxIds /\ newId <= idCounter
    BY <1>0
  <2> QED
    BY <2>1, <2>2 DEF Section
<1>3. idCounter' = idCounter /\ retyped' = (retyped \/ newId # id) /\ Edited(built)
  BY <1>1 DEF replaceSectionProps
<1> HIDE DEF new
<1>4. built \in Seq(Section) /\ Len(built) = Len(sections) /\ DOMAIN built = DOMAIN sections
  BY <1>0, <1>2
<1>5. \A i \in DOMAIN sections : built[i] = IF sections[i].id = id THEN new ELSE sections[i]
  BY DEF built
<1> HIDE DEF built
<1>6. \A i \in DOMAIN built : built[i].id <= idCounter
  BY <1>0, <1>2, <1>4, <1>5
<1>7. ASSUME ~retyped' PROVE Distinct(built)
  <2>1. ~retyped /\ newId = id
    BY <1>0, <1>3, <1>7
  <2>2. \A i \in DOMAIN sections : built[i].id = sections[i].id
    BY <1>2, <1>5, <2>1
  <2> QED
    BY <1>4, <2>1, <2>2 DEF Distinct, BuilderTypes, BuilderTypeOK, IdsDistinct
<1>8. retyped' \in BOOLEAN
  BY <1>0, <1>3
<1> QED
  BY <1>0, <1>3, <1>4, <1>6, <1>7, <1>8, EditTypes
\* A step that leaves the editor and the file alone: the save's phase and what it holds.
LEMMA SaveTypes ==
  ASSUME BuilderTypes, PluginsCoverSections', UNCHANGED editor, SavingTyped',
         config' \in Config, Len(config'.sections) <= MaxSections,
         broken' \in BOOLEAN, saveSuccess' \in BOOLEAN, editedSince' \in BOOLEAN,
         saving'.phase \in {"no", "sent", "read", "written", "refused"}
  PROVE  BuilderTypes'
<1>1. UNCHANGED <<sections, idCounter, retyped>>
  BY DEF editor
<1>2. BuilderTypeOK'
  BY <1>1 DEF BuilderTypes, BuilderTypeOK, IdsDistinct
<1> QED
  BY <1>2 DEF BuilderTypes

LEMMA NotSavingTyped ==
  /\ NotSaving.sections \in Seq(Content) /\ Len(NotSaving.sections) <= MaxSections
  /\ NotSaving.plugins \subseteq Plugins /\ NotSaving.phase = "no"
BY BuilderAssumption DEF NotSaving

LEMMA BuilderTypesStart == BuilderInit => BuilderTypes
<1> SUFFICES ASSUME BuilderInit PROVE BuilderTypes
  OBVIOUS
<1>1. PluginsCoverSections
  BY BuilderStart DEF BuilderInv
<1>2. BuilderTypeOK /\ Len(config.sections) <= MaxSections
  <2>1. MaxSections \in Nat /\ MaxIds \in Nat
    BY BuilderAssumption
  <2>2. sections \in Seq(Section) /\ Len(sections) = 0 /\ DOMAIN sections = {} /\ idCounter = 0
    BY DEF BuilderInit
  <2>3. config \in Config /\ Len(config.sections) = 0
    BY DEF BuilderInit, Config
  <2>4. IdsDistinct
    BY <2>2 DEF IdsDistinct
  <2>5. broken = FALSE /\ saveSuccess = FALSE /\ editedSince = FALSE /\ retyped = FALSE /\ saving.phase = "no"
    BY NotSavingTyped DEF BuilderInit
  <2>6. Len(sections) <= MaxSections /\ idCounter \in 0 .. MaxIds /\ Len(config.sections) <= MaxSections
    BY <2>1, <2>2, <2>3
  <2>7. \A i \in DOMAIN sections : sections[i].id <= idCounter
    BY <2>2
  <2> QED
    BY <1>1, <2>2, <2>3, <2>4, <2>5, <2>6, <2>7 DEF BuilderTypeOK
<1> QED
  BY <1>2, NotSavingTyped DEF BuilderInit, BuilderTypes, SavingTyped

LEMMA BuilderTypesStep ==
  ASSUME BuilderInv, BuilderTypes, [BuilderNext]_builderVars
  PROVE  BuilderTypes'
<1>0. PluginsCoverSections'
  BY BuilderStep DEF BuilderInv
<1>a. /\ broken \in BOOLEAN /\ saveSuccess \in BOOLEAN /\ editedSince \in BOOLEAN
      /\ saving.phase \in {"no", "sent", "read", "written", "refused"}
      /\ config \in Config /\ Len(config.sections) <= MaxSections /\ SavingTyped
      /\ sections \in Seq(Section) /\ Len(sections) <= MaxSections
  BY DEF BuilderTypes, BuilderTypeOK
<1>b. PICK phase, sent, plugins, errors :
        saving = [phase |-> phase, sections |-> sent, plugins |-> plugins, errors |-> errors]
  BY DEF BuilderInv, SavingShape
<1>c. sent \in Seq(Content) /\ Len(sent) <= MaxSections /\ plugins \subseteq Plugins
  BY <1>a, <1>b DEF SavingTyped
<1>d. config.sections \in Seq(Content) /\ config.plugins \subseteq Plugins
  BY <1>a DEF Config
<1>1. ASSUME NEW b \in Blocks, addBlock(b) PROVE BuilderTypes'
  BY <1>0, <1>1, AddTypes
<1>2. ASSUME NEW id \in Ids, removeBlock(id) \/ updateFieldValue(id) \/ moveBlock(id, -1) \/ moveBlock(id, 1)
      PROVE  BuilderTypes'
  BY <1>0, <1>2, RemoveTypes, FieldTypes, MoveTypes
<1>3. ASSUME NEW id \in Ids, NEW target \in Ids, reorderByDrag(id, target) PROVE BuilderTypes'
  BY <1>0, <1>3, DragTypes
<1>4. ASSUME NEW id \in Ids, NEW b \in Blocks, NEW newId \in 1 .. idCounter, replaceSectionProps(id, b, newId)
      PROVE  BuilderTypes'
  BY <1>0, <1>4, JsonTypes
<1>5. CASE handleSave
  <2>1. saving' = [phase |-> "sent", sections |-> toConfigSections(sections), plugins |-> {}, errors |-> {}]
    BY <1>5 DEF handleSave, NotSaving
  <2>2. SavingTyped' /\ saving'.phase = "sent"
    BY <1>a, <2>1, ContentTyped DEF SavingTyped
  <2>3. UNCHANGED <<broken, editor, config>> /\ saveSuccess' = FALSE /\ editedSince' = FALSE
    BY <1>5 DEF handleSave
  <2> QED
    BY <1>0, <1>a, <2>2, <2>3, SaveTypes
<1>6. CASE Validate
  <2>1. UNCHANGED <<broken, editor, saveSuccess, config, editedSince>>
    BY <1>6 DEF Validate
  <2>2. \/ saving' = [phase |-> "refused", sections |-> sent, plugins |-> plugins,
                      errors |-> validateAllSections(saving.sections)]
        \/ saving' = [phase |-> "read", sections |-> sent, plugins |-> config.plugins, errors |-> errors]
    BY <1>6, <1>b DEF Validate
  <2>3. SavingTyped' /\ saving'.phase \in {"refused", "read"}
    BY <1>c, <1>d, <2>2 DEF SavingTyped
  <2> QED
    BY <1>0, <1>a, <2>1, <2>3, SaveTypes
<1>7. CASE WriteConfig
  <2>1. UNCHANGED <<broken, editor, saveSuccess, editedSince>>
    BY <1>7 DEF WriteConfig
  <2>2. saving' = [phase |-> "written", sections |-> sent, plugins |-> plugins, errors |-> errors]
    BY <1>7, <1>b DEF WriteConfig
  <2>3. config' = [sections |-> sent, plugins |-> plugins \cup Required(sent)]
    BY <1>7, <1>b DEF WriteConfig, mergePlugins
  <2>4. SavingTyped' /\ saving'.phase = "written"
    BY <1>c, <2>2 DEF SavingTyped
  <2>5. config' \in Config /\ Len(config'.sections) <= MaxSections
    BY <1>c, <2>3, RequiredTyped DEF Config
  <2> QED
    BY <1>0, <1>a, <2>1, <2>4, <2>5, SaveTypes
<1>8. CASE SaveAnswered \/ SaveFails
  <2>1. saving' = NotSaving /\ UNCHANGED <<editor, config, editedSince>>
    BY <1>8 DEF SaveAnswered, SaveFails
  <2>2. broken' \in BOOLEAN /\ saveSuccess' \in BOOLEAN
    BY <1>8, <1>a DEF SaveAnswered, SaveFails
  <2>3. SavingTyped' /\ saving'.phase = "no"
    BY <2>1, NotSavingTyped DEF SavingTyped
  <2> QED
    BY <1>0, <1>a, <2>1, <2>2, <2>3, SaveTypes
<1>9. CASE loadBuilderData
  <2> DEFINE n == Len(config.sections)
             built == [i \in DOMAIN config.sections |->
                       [id |-> i, block |-> config.sections[i].block, complete |-> config.sections[i].complete]]
  <2>1. /\ sections' = built /\ idCounter' = n /\ UNCHANGED <<saving, config>>
        /\ broken' = FALSE /\ saveSuccess' = FALSE /\ editedSince' = FALSE /\ retyped' = FALSE
    BY <1>9 DEF loadBuilderData
  <2>2. n \in Nat /\ n <= MaxSections /\ n <= MaxIds /\ DOMAIN config.sections = 1 .. n
    BY <1>a, <1>d, BuilderAssumption
  <2>3. ASSUME NEW i \in 1 .. n PROVE built[i] \in Section /\ built[i].id = i
    <3>1. config.sections[i] \in Content /\ i \in 1 .. MaxIds
      BY <1>d, <2>2, BuilderAssumption
    <3> QED
      BY <2>2, <3>1 DEF Content, Section
  <2>4. built \in Seq(Section) /\ Len(built) = n /\ DOMAIN built = 1 .. n
    <3>1. DOMAIN built = 1 .. n /\ built = [i \in 1 .. n |-> built[i]]
      BY <2>2
    <3> HIDE DEF built, n
    <3>2. built \in [1 .. n -> Section]
      BY <2>3, <3>1
    <3>3. built \in Seq(Section)
      BY <2>2, <3>2
    <3> QED
      BY <2>2, <3>1, <3>3
  <2>5. \A i \in 1 .. n : built[i].id <= n
    BY <2>2, <2>3
  <2> HIDE DEF built, n
  <2>6. IdsDistinct'
    BY <2>1, <2>3, <2>4 DEF IdsDistinct
  <2>7. SavingTyped' /\ (Len(config.sections) <= MaxSections)'
    BY <1>a, <2>1 DEF SavingTyped
  <2>8. sections' \in Seq(Section) /\ Len(sections') <= MaxSections /\ idCounter' \in 0 .. MaxIds
    BY <2>1, <2>2, <2>4, BuilderAssumption
  <2>9. \A i \in DOMAIN sections' : sections'[i].id <= idCounter'
    BY <2>1, <2>4, <2>5
  <2>10. saving'.phase = saving.phase /\ config' = config
    BY <2>1
  <2>11. BuilderTypeOK'
    BY <1>0, <1>a, <2>1, <2>6, <2>8, <2>9, <2>10 DEF BuilderTypeOK
  <2> QED
    BY <2>7, <2>11 DEF BuilderTypes
<1>10. ASSUME NEW p \in Plugins, EditByHand(p) PROVE BuilderTypes'
  <2>1. UNCHANGED <<broken, editor, saveSuccess, saving, editedSince>>
    BY <1>10 DEF EditByHand
  <2>2. config' = [config EXCEPT !.plugins = IF p \in @ THEN @ \ {p} ELSE @ \cup {p}]
    BY <1>10 DEF EditByHand
  <2>3. config' \in Config /\ config'.sections = config.sections
    BY <1>a, <2>2 DEF Config
  <2>4. SavingTyped'
    BY <1>a, <2>1 DEF SavingTyped
  <2> QED
    BY <1>0, <1>a, <2>1, <2>3, <2>4, SaveTypes
<1>11. CASE UNCHANGED builderVars
  <2>1. UNCHANGED <<broken, editor, saveSuccess, saving, config, editedSince>>
    BY <1>11 DEF builderVars, editor
  <2>2. SavingTyped'
    BY <1>a, <2>1 DEF SavingTyped
  <2> QED
    BY <1>0, <1>a, <2>1, <2>2, SaveTypes
<1> QED
  BY <1>1, <1>2, <1>3, <1>4, <1>5, <1>6, <1>7, <1>8, <1>9, <1>10, <1>11, Zenon DEF BuilderNext
-----------------------------------------------------------------------------
\* A list that is on display is about what was asked for last, or late.
Lists(S) == [about : S \cup {Nothing}, busy : BOOLEAN, failed : BOOLEAN, asks : Seq(S),
             last : S \cup {Nothing}, late : BOOLEAN]
Fits(l) == Visible(l) => l.late \/ l.about = l.last

\* Taking a question out of those under way leaves a queue of the others.
LEMMA Removing ==
  ASSUME NEW S, NEW s \in Seq(S), NEW i \in DOMAIN s
  PROVE  RemoveAt(s, i) \in Seq(S) /\ Len(RemoveAt(s, i)) = Len(s) - 1
<1>1. Len(s) \in Nat /\ i \in 1 .. Len(s)
  OBVIOUS
<1>2. SubSeq(s, 1, i - 1) \in Seq(S) /\ Len(SubSeq(s, 1, i - 1)) = i - 1
      /\ SubSeq(s, i + 1, Len(s)) \in Seq(S) /\ Len(SubSeq(s, i + 1, Len(s))) = Len(s) - i
  BY <1>1
<1> DEFINE a == SubSeq(s, 1, i - 1)
           b == SubSeq(s, i + 1, Len(s))
<1>3. a \in Seq(S) /\ b \in Seq(S)
  BY <1>2
<1>4. RemoveAt(s, i) = a \o b
  BY DEF RemoveAt
<1>a. Len(a) = i - 1 /\ Len(b) = Len(s) - i
  BY <1>2, Zenon DEF a, b
<1> HIDE DEF a, b
<1>5. a \o b \in Seq(S) /\ Len(a \o b) = Len(a) + Len(b)
  BY <1>3, ConcatProperties, Zenon
<1>6. Len(a) + Len(b) = Len(s) - 1
  BY <1>1, <1>a
<1> QED
  BY <1>4, <1>5, <1>6

LEMMA ListNew == ASSUME NEW S PROVE NewList \in Lists(S) /\ ~Visible(NewList)
BY DEF NewList, Lists, Visible, Nothing

LEMMA ListCleared ==
  ASSUME NEW S, NEW l \in Lists(S)
  PROVE  Cleared(l) \in Lists(S) /\ ~Visible(Cleared(l)) /\ Cleared(l).asks = l.asks /\ Cleared(l).last = l.last
BY DEF Cleared, Lists, Visible

LEMMA ListAsked ==
  ASSUME NEW S, NEW l \in Lists(S), NEW ask \in S
  PROVE  /\ Asked(l, ask) \in Lists(S) /\ ~Visible(Asked(l, ask)) /\ Asked(l, ask).last = ask
         /\ Reasked(l, ask) \in Lists(S) /\ ~Visible(Reasked(l, ask)) /\ Reasked(l, ask).last = l.last
         /\ Reasked(l, ask).asks = Asked(l, ask).asks
<1>1. Append(l.asks, ask) \in Seq(S)
  BY DEF Lists
<1>2. Asked(l, ask) \in Lists(S) /\ ~Visible(Asked(l, ask)) /\ Asked(l, ask).last = ask
  BY <1>1 DEF Asked, Lists, Visible
<1>3. l.last \in S \cup {Nothing}
  BY DEF Lists
<1>4. Reasked(l, ask) \in Lists(S) /\ Reasked(l, ask).last = l.last /\ Reasked(l, ask).asks = Asked(l, ask).asks
      /\ Reasked(l, ask).busy = Asked(l, ask).busy
  BY <1>2, <1>3 DEF Reasked, Lists
<1>5. ~Visible(Reasked(l, ask))
  BY <1>4 DEF Asked, Lists, Visible
<1> QED
  BY <1>2, <1>4, <1>5

\* Whatever comes of a question, the list on display is about what was asked for last, or late.
LEMMA ListAnswered ==
  ASSUME NEW S, NEW l \in Lists(S), NEW i \in DOMAIN l.asks,
         NEW answered \in {Answered(l, i), AnsweredEmpty(l, i), Unanswered(l, i), Unanswered(Cleared(l), i)}
  PROVE  answered \in Lists(S) /\ Fits(answered) /\ answered.last = l.last
<1>0. l.asks \in Seq(S)
  BY DEF Lists
<1>1. RemoveAt(l.asks, i) \in Seq(S) /\ l.asks[i] \in S
  BY <1>0, Removing
<1>2. CASE answered = Answered(l, i)
  <2>1. PICK late \in BOOLEAN : late = (l.asks[i] # l.last)
    OBVIOUS
  <2>2. answered = [l EXCEPT !.about = l.asks[i], !.late = late, !.busy = FALSE, !.asks = RemoveAt(l.asks, i)]
    BY <1>2, <2>1 DEF Answered
  <2>3. answered \in Lists(S)
    BY <1>1, <2>2 DEF Lists
  <2>4. answered.about = l.asks[i] /\ answered.late = late /\ answered.last = l.last
    BY <2>2 DEF Lists
  <2> QED
    BY <2>1, <2>3, <2>4 DEF Fits
<1>3. CASE answered = AnsweredEmpty(l, i)
  <2>1. answered \in Lists(S) /\ answered.about = Nothing /\ answered.last = l.last
    BY <1>1, <1>3 DEF AnsweredEmpty, Cleared, Lists
  <2> QED
    BY <2>1 DEF Fits, Visible
<1>4. CASE answered \in {Unanswered(l, i), Unanswered(Cleared(l), i)}
  <2>1. answered \in Lists(S) /\ answered.failed = TRUE /\ answered.last = l.last
    BY <1>1, <1>4 DEF Unanswered, Cleared, Lists
  <2> QED
    BY <2>1 DEF Fits, Visible
<1> QED
  BY <1>2, <1>3, <1>4
-----------------------------------------------------------------------------
\* The booking page: what was asked for last is about the choice, and what is chosen fits
\* it, but for the choices made in a list that came late.
SlotAsks == [service : Services \cup {Nothing}, provider : Providers, day : Days]
ChoiceTyped == service \in Services \cup {Nothing} /\ provider \in Providers \cup {Nothing} /\ day \in Days
ListsFit == providers \in Lists(Services) /\ slots \in Lists(SlotAsks) /\ Fits(providers) /\ Fits(slots)
AskedLast ==
  /\ service # Nothing => providers.last = service
  /\ Nothing \notin {service, provider} => slots.last = Chosen
ProviderFits == Nothing \notin {service, provider} => offeredFor = service \/ "provider" \in blind
SlotFits == Nothing \notin {service, provider, slot} => slot = Chosen \/ "slot" \in blind
BookingShape ==
  booking # NotBooking =>
    \E phase : \E about \in SlotAsks : booking = [phase |-> phase, about |-> about, asOffered |-> TRUE]
BookInv == ChoiceTyped /\ ListsFit /\ AskedLast /\ ProviderFits /\ SlotFits /\ BookingShape /\ BookedAsOffered

LEMMA BookStart == BookInit => BookInv
<1> SUFFICES ASSUME BookInit PROVE BookInv
  OBVIOUS
<1>1. ChoiceTyped
  BY BookAssumption DEF BookInit, ChoiceTyped, Today
<1>2. ListsFit
  BY ListNew DEF BookInit, ListsFit, Fits
<1>3. AskedLast /\ ProviderFits /\ SlotFits /\ BookingShape
  BY DEF BookInit, AskedLast, ProviderFits, SlotFits, BookingShape
<1>4. BookedAsOffered
  BY DEF BookInit, BookedAsOffered
<1> QED
  BY <1>1, <1>2, <1>3, <1>4 DEF BookInv

LEMMA BookStep ==
  ASSUME BookInv, [BookNext]_bookVars
  PROVE  BookInv'
<1> USE DEF BookInv
<1> DEFINE ChoicesFit == ChoiceTyped /\ ProviderFits /\ SlotFits
           Lasts == providers'.last = providers.last /\ slots'.last = slots.last
\* Steps that leave the choices alone, and the booking.
<1>a. ASSUME UNCHANGED <<service, provider, day, slot, offeredFor, blind>>
      PROVE  ChoicesFit' /\ (Lasts => AskedLast')
  BY <1>a DEF ChoiceTyped, ProviderFits, SlotFits, Chosen, AskedLast
<1>b. ASSUME UNCHANGED <<booking, misled>> PROVE BookingShape' /\ BookedAsOffered'
  BY <1>b DEF BookingShape, BookedAsOffered
<1>c. ASSUME UNCHANGED <<chosen, booking, misled>>, ListsFit', Lasts \/ AskedLast' PROVE BookInv'
  <2>1. UNCHANGED <<service, provider, day, slot, offeredFor, blind>>
    BY <1>c DEF chosen
  <2> QED
    BY <1>a, <1>b, <1>c, <2>1
<1>d. ASSUME UNCHANGED <<providers, slots>> PROVE ListsFit' /\ Lasts
  BY <1>d DEF ListsFit, Fits
<1> HIDE DEF ChoicesFit
<1>1. CASE UNCHANGED bookVars
  <2>1. UNCHANGED <<chosen, providers, slots, booking, misled>>
    BY <1>1 DEF bookVars, lists
  <2> QED
    BY <1>c, <1>d, <2>1
<1>3. CASE reloadServices \/ \E i \in DOMAIN services.asks : ServicesLoaded(i)
  <2>1. UNCHANGED <<chosen, providers, slots, booking, misled>>
    BY <1>3 DEF reloadServices, ServicesLoaded
  <2> QED
    BY <1>c, <1>d, <2>1
<1>4. CASE reloadProviders
  <2>1. UNCHANGED <<chosen, slots, booking, misled>> /\ providers' = Asked(providers, service) /\ service \in Services
    BY <1>4 DEF reloadProviders, ChoiceTyped
  <2>2. providers' \in Lists(Services) /\ ~Visible(providers') /\ providers'.last = service
    BY <2>1, ListAsked DEF ListsFit
  <2>3. ListsFit'
    BY <2>1, <2>2 DEF ListsFit, Fits
  <2>4. AskedLast'
    BY <2>1, <2>2 DEF AskedLast, Chosen, chosen
  <2> QED
    BY <1>c, <2>1, <2>3, <2>4
<1>5. CASE reloadSlots
  <2>1. UNCHANGED <<chosen, providers, booking, misled>> /\ slots' = Asked(slots, Chosen) /\ Chosen \in SlotAsks
    BY <1>5 DEF reloadSlots, ChoiceTyped, Chosen, SlotsOf, SlotAsks
  <2>2. slots' \in Lists(SlotAsks) /\ ~Visible(slots') /\ slots'.last = Chosen
    BY <2>1, ListAsked DEF ListsFit
  <2>3. ListsFit'
    BY <2>1, <2>2 DEF ListsFit, Fits
  <2>4. AskedLast'
    BY <2>1, <2>2 DEF AskedLast, Chosen, chosen
  <2> QED
    BY <1>c, <2>1, <2>3, <2>4
<1>6. ASSUME NEW i \in DOMAIN providers.asks, ProvidersLoaded(i) PROVE BookInv'
  <2>1. UNCHANGED <<chosen, slots, booking, misled>> /\ providers \in Lists(Services)
    BY <1>6 DEF ProvidersLoaded, ListsFit
  <2>2. providers' \in {Answered(providers, i), AnsweredEmpty(providers, i), Unanswered(providers, i)}
    BY <1>6 DEF ProvidersLoaded
  <2>3. providers' \in Lists(Services) /\ Fits(providers') /\ providers'.last = providers.last
    BY <2>1, <2>2, ListAnswered
  <2>4. ListsFit'
    BY <2>1, <2>3 DEF ListsFit, Fits
  <2> QED
    BY <1>c, <2>1, <2>3, <2>4
<1>7. ASSUME NEW i \in DOMAIN slots.asks, SlotsLoaded(i) PROVE BookInv'
  <2>1. UNCHANGED <<chosen, providers, booking, misled>> /\ slots \in Lists(SlotAsks)
    BY <1>7 DEF SlotsLoaded, ListsFit
  <2>2. slots' \in {Answered(slots, i), AnsweredEmpty(slots, i), Unanswered(Cleared(slots), i)}
    BY <1>7 DEF SlotsLoaded
  <2>3. slots' \in Lists(SlotAsks) /\ Fits(slots') /\ slots'.last = slots.last
    BY <2>1, <2>2, ListAnswered
  <2>4. ListsFit'
    BY <2>1, <2>3 DEF ListsFit, Fits
  <2> QED
    BY <1>c, <2>1, <2>3, <2>4
\* Choices.
<1>8. ASSUME NEW s \in Services, selectService(s) PROVE BookInv'
  <2>1. /\ service' = s /\ provider' = Nothing /\ slot' = Nothing
        /\ slots' = Cleared(slots) /\ providers' = Asked(Cleared(providers), s)
        /\ UNCHANGED <<day, booking, misled>>
    BY <1>8 DEF selectService
  <2>2. /\ slots' \in Lists(SlotAsks) /\ ~Visible(slots')
        /\ providers' \in Lists(Services) /\ ~Visible(providers') /\ providers'.last = s
    BY <2>1, ListCleared, ListAsked DEF ListsFit
  <2>3. ListsFit'
    BY <2>2 DEF ListsFit, Fits
  <2>4. ChoiceTyped' /\ AskedLast' /\ ProviderFits' /\ SlotFits'
    BY <2>1, <2>2 DEF ChoiceTyped, AskedLast, ProviderFits, SlotFits
  <2> QED
    BY <1>b, <2>1, <2>3, <2>4
<1>9. ASSUME NEW p \in Providers, selectProvider(p) PROVE BookInv'
  <2>1. /\ provider' = p /\ slot' = Nothing /\ Visible(providers)
        /\ slots' = Asked(Cleared(slots), SlotsOf(service, p, day))
        /\ offeredFor' = providers.about
        /\ blind' = IF providers.late THEN {"provider"} ELSE {}
        /\ UNCHANGED <<service, day, providers, booking, misled>>
    BY <1>9 DEF selectProvider
  <2>2. SlotsOf(service, p, day) \in SlotAsks
    BY DEF SlotsOf, SlotAsks, ChoiceTyped
  <2>3. slots' \in Lists(SlotAsks) /\ ~Visible(slots') /\ slots'.last = SlotsOf(service, p, day)
    BY <2>1, <2>2, ListCleared, ListAsked DEF ListsFit
  <2>4. ListsFit'
    BY <2>1, <2>3 DEF ListsFit, Fits
  <2>5. ProviderFits'
    BY <2>1 DEF ProviderFits, ListsFit, Fits, AskedLast
  <2>6. ChoiceTyped' /\ SlotFits'
    BY <2>1 DEF ChoiceTyped, SlotFits
  <2>7. AskedLast'
    BY <2>1, <2>3 DEF AskedLast, Chosen
  <2> QED
    BY <1>b, <2>1, <2>4, <2>5, <2>6, <2>7
<1>10. CASE selectSlot
  <2>1. /\ slot' = slots.about /\ Visible(slots)
        /\ blind' = (blind \ {"slot"}) \cup (IF slots.late THEN {"slot"} ELSE {})
        /\ UNCHANGED <<service, provider, day, offeredFor, providers, slots, booking, misled>>
    BY <1>10 DEF selectSlot, lists
  <2>2. SlotFits'
    BY <2>1 DEF SlotFits, ListsFit, Fits, AskedLast, Chosen
  <2>3. ProviderFits' /\ ChoiceTyped' /\ AskedLast'
    BY <2>1 DEF ProviderFits, ChoiceTyped, AskedLast, Chosen
  <2> QED
    BY <1>b, <1>d, <2>1, <2>2, <2>3
<1>11. ASSUME NEW d \in Days, changeDate(d) PROVE BookInv'
  <2>1. /\ day' = d /\ slot' = Nothing
        /\ slots' = IF provider # Nothing THEN Asked(slots, SlotsOf(service, provider, d)) ELSE slots
        /\ UNCHANGED <<service, provider, offeredFor, blind, providers, booking, misled>>
    BY <1>11 DEF changeDate
  <2>2. ASSUME provider # Nothing
        PROVE  slots' \in Lists(SlotAsks) /\ ~Visible(slots') /\ slots'.last = SlotsOf(service, provider, d)
    <3>1. SlotsOf(service, provider, d) \in SlotAsks
      BY <2>2 DEF SlotsOf, SlotAsks, ChoiceTyped
    <3> QED
      BY <2>1, <2>2, <3>1, ListAsked DEF ListsFit
  <2>3. ListsFit'
    BY <2>1, <2>2 DEF ListsFit, Fits
  <2>4. AskedLast'
    BY <2>1, <2>2 DEF AskedLast, Chosen
  <2>5. ChoiceTyped' /\ ProviderFits' /\ SlotFits'
    BY <2>1 DEF ChoiceTyped, ProviderFits, SlotFits
  <2> QED
    BY <1>b, <2>1, <2>3, <2>4, <2>5
<1>12. ASSUME NEW target, goBackTo(target) PROVE BookInv'
  <2>1. UNCHANGED <<service, provider, day, slot, offeredFor, blind, providers, slots, booking, misled>>
    BY <1>12 DEF goBackTo, lists
  <2> QED
    BY <1>a, <1>b, <1>d, <2>1 DEF ChoicesFit
<1>13. CASE resetBooking
  <2>1. /\ service' = Nothing /\ provider' = Nothing /\ slot' = Nothing /\ day' = Today
        /\ slots' = Cleared(slots) /\ providers' = Cleared(providers)
        /\ UNCHANGED <<booking, misled>>
    BY <1>13 DEF resetBooking
  <2>2. slots' \in Lists(SlotAsks) /\ ~Visible(slots') /\ providers' \in Lists(Services) /\ ~Visible(providers')
    BY <2>1, ListCleared DEF ListsFit
  <2>3. ListsFit'
    BY <2>2 DEF ListsFit, Fits
  <2>4. ChoiceTyped'
    BY <2>1, BookAssumption DEF ChoiceTyped, Today
  <2>5. AskedLast' /\ ProviderFits' /\ SlotFits'
    BY <2>1 DEF AskedLast, ProviderFits, SlotFits
  <2> QED
    BY <1>b, <2>1, <2>3, <2>4, <2>5
\* The booking.
<1>14. CASE handleBook
  <2>1. /\ Nothing \notin {service, provider, slot}
        /\ booking' = [phase |-> "sent", about |-> Chosen, asOffered |-> AsOffered]
        /\ UNCHANGED <<chosen, providers, slots, misled>>
    BY <1>14 DEF handleBook, lists
  <2>2. AsOffered = TRUE
    BY <2>1 DEF AsOffered, ProviderFits, SlotFits
  <2>3. Chosen \in SlotAsks
    BY <2>1 DEF Chosen, SlotsOf, SlotAsks, ChoiceTyped
  <2>4. booking' = [phase |-> "sent", about |-> Chosen, asOffered |-> TRUE]
    BY <2>1, <2>2
  <2>5. BookingShape' /\ BookedAsOffered'
    BY <2>1, <2>3, <2>4 DEF BookingShape, BookedAsOffered
  <2>6. UNCHANGED <<service, provider, day, slot, offeredFor, blind>>
    BY <2>1 DEF chosen
  <2> QED
    BY <1>a, <1>d, <2>1, <2>5, <2>6 DEF ChoicesFit
<1>15. CASE BookServed
  <2>1. PICK about \in SlotAsks : booking = [phase |-> "sent", about |-> about, asOffered |-> TRUE]
    BY <1>15 DEF BookServed, BookingShape
  <2>2. booking.asOffered = TRUE
    BY <2>1
  <2>3. misled' = (misled \/ ~booking.asOffered) \/ misled' = misled
    BY <1>15 DEF BookServed
  <2>4. BookedAsOffered'
    BY <2>2, <2>3 DEF BookedAsOffered
  <2>5. booking' \in {[booking EXCEPT !.phase = "made"], [booking EXCEPT !.phase = "taken"],
                      [booking EXCEPT !.phase = "refused"]}
    BY <1>15 DEF BookServed
  <2>6. BookingShape'
    BY <2>1, <2>5 DEF BookingShape
  <2>7. UNCHANGED <<service, provider, day, slot, offeredFor, blind, providers, slots>>
    BY <1>15 DEF BookServed, chosen, lists
  <2> QED
    BY <1>a, <1>d, <2>4, <2>6, <2>7 DEF ChoicesFit
<1>16. CASE BookAnswered
  <2>1. booking' = NotBooking /\ UNCHANGED <<service, provider, day, offeredFor, blind, providers, misled>>
    BY <1>16 DEF BookAnswered
  <2>2. \/ slot' = Nothing /\ slots' = Reasked(slots, booking.about)
        \/ UNCHANGED <<slot, slots>>
    BY <1>16 DEF BookAnswered
  <2>3. booking.about \in SlotAsks
    BY <1>16 DEF BookAnswered, BookingShape
  <2> DEFINE again == Reasked(slots, booking.about)
  <2>4. again \in Lists(SlotAsks) /\ ~Visible(again) /\ again.last = slots.last
    BY <2>3, ListAsked DEF ListsFit
  <2> HIDE DEF again
  <2>5. ListsFit' /\ Lasts
    BY <2>1, <2>2, <2>4 DEF ListsFit, Fits, again
  <2>6. SlotFits' /\ ChoiceTyped' /\ ProviderFits'
    BY <2>1, <2>2 DEF SlotFits, Chosen, ChoiceTyped, ProviderFits
  <2>7. AskedLast'
    BY <2>1, <2>5 DEF AskedLast, Chosen
  <2>8. BookingShape' /\ BookedAsOffered'
    BY <2>1 DEF BookingShape, BookedAsOffered
  <2> QED
    BY <2>5, <2>6, <2>7, <2>8
<1>17. CASE BookLost
  <2>1. booking' = NotBooking
        /\ UNCHANGED <<service, provider, day, slot, offeredFor, blind, providers, slots, misled>>
    BY <1>17 DEF BookLost, chosen, lists
  <2>2. BookingShape' /\ BookedAsOffered'
    BY <2>1 DEF BookingShape, BookedAsOffered
  <2> QED
    BY <1>a, <1>d, <2>1, <2>2 DEF ChoicesFit
<1> QED
  BY <1>1, <1>3, <1>4, <1>5, <1>6, <1>7, <1>8, <1>9, <1>10, <1>11, <1>12, <1>13, <1>14, <1>15, <1>16, <1>17 DEF BookNext
-----------------------------------------------------------------------------
\* What becomes of a list in a step: it is kept or cleared, asked for, where there is room
\* for it, or answered.
Goes(l, m, S, room) ==
  \/ m \in {l, Cleared(l)}
  \/ Len(l.asks) < room /\ \E ask \in S : m \in {Asked(l, ask), Asked(Cleared(l), ask), Reasked(l, ask)}
  \/ \E i \in DOMAIN l.asks :
       m \in {Answered(l, i), AnsweredEmpty(l, i), Unanswered(l, i), Unanswered(Cleared(l), i)}

LEMMA GoesTyped ==
  ASSUME NEW S, NEW l \in Lists(S), NEW m, NEW room \in Nat, Len(l.asks) <= room, Goes(l, m, S, room)
  PROVE  m \in Lists(S) /\ Len(m.asks) <= room
<1>0. l.asks \in Seq(S) /\ Len(l.asks) \in Nat
  BY DEF Lists
<1>1. Cleared(l) \in Lists(S) /\ Cleared(l).asks = l.asks
  BY ListCleared
<1>2. ASSUME NEW k \in {l, Cleared(l)}, NEW ask \in S, m \in {Asked(k, ask), Reasked(k, ask)}, Len(l.asks) < room
      PROVE  m \in Lists(S) /\ Len(m.asks) <= room
  <2>1. k \in Lists(S) /\ k.asks = l.asks
    BY <1>1
  <2>2. m \in Lists(S) /\ m.asks = Asked(k, ask).asks
    BY <1>2, <2>1, ListAsked
  <2>3. m.asks = Append(l.asks, ask)
    BY <2>1, <2>2 DEF Asked, Lists
  <2> QED
    BY <1>0, <1>2, <2>2, <2>3
<1>3. ASSUME NEW i \in DOMAIN l.asks,
             m \in {Answered(l, i), AnsweredEmpty(l, i), Unanswered(l, i), Unanswered(Cleared(l), i)}
      PROVE  m \in Lists(S) /\ Len(m.asks) <= room
  <2>1. m \in Lists(S)
    BY <1>3, ListAnswered
  <2>2. m.asks = RemoveAt(l.asks, i)
    BY <1>3 DEF Answered, AnsweredEmpty, Unanswered, Cleared, Lists
  <2> QED
    BY <1>0, <2>1, <2>2, Removing
<1> QED
  BY <1>1, <1>2, <1>3 DEF Goes

\* The rest of the booking page's types.
BookTypes ==
  /\ step \in {"service", "provider", "slot", "details"}
  /\ {confirmed, misled} \subseteq BOOLEAN /\ choices \in 0 .. MaxChoices /\ blind \subseteq {"provider", "slot"}
  /\ services \in Lists({All}) /\ Len(services.asks) <= MaxAsks
  /\ Len(providers.asks) <= MaxAsks /\ Len(slots.asks) <= MaxAsks

LEMMA BookTypesStart == BookInit => BookTypes
<1> SUFFICES ASSUME BookInit PROVE BookTypes
  OBVIOUS
<1>1. NewList \in Lists({All}) /\ NewList.asks = << >>
  BY ListNew DEF NewList
<1>2. Asked(NewList, All) \in Lists({All})
  BY <1>1, ListAsked
<1>3. Asked(NewList, All).asks = <<All>>
  BY <1>1 DEF Asked, NewList
<1>4. MaxAsks \in Nat /\ 0 < MaxAsks /\ MaxChoices \in Nat
  BY BookAssumption
<1>5. Len(services.asks) = 1 /\ Len(providers.asks) = 0 /\ Len(slots.asks) = 0
  BY <1>1, <1>3 DEF BookInit
<1>6. Len(services.asks) <= MaxAsks /\ Len(providers.asks) <= MaxAsks /\ Len(slots.asks) <= MaxAsks
  BY <1>4, <1>5
<1>7. choices \in 0 .. MaxChoices
  BY <1>4 DEF BookInit
<1>8. step = "service" /\ confirmed = FALSE /\ misled = FALSE /\ blind = {} /\ services \in Lists({All})
  BY <1>2 DEF BookInit
<1> QED
  BY <1>6, <1>7, <1>8 DEF BookTypes

\* What the steps of the booking page do to its lists.
LEMMA BookLists ==
  ASSUME BookInv, [BookNext]_bookVars
  PROVE  /\ Goes(services, services', {All}, MaxAsks)
         /\ Goes(providers, providers', Services, MaxAsks)
         /\ Goes(slots, slots', SlotAsks, MaxAsks)
<1> DEFINE One == Goes(services, services', {All}, MaxAsks)
           Two == Goes(providers, providers', Services, MaxAsks)
           Three == Goes(slots, slots', SlotAsks, MaxAsks)
<1>0. service \in Services \cup {Nothing} /\ provider \in Providers \cup {Nothing} /\ day \in Days
  BY DEF BookInv, ChoiceTyped
<1>a. /\ services' = services => One
      /\ providers' \in {providers, Cleared(providers)} => Two
      /\ slots' \in {slots, Cleared(slots)} => Three
  BY DEF Goes
<1>b. ASSUME NEW s \in Services, Free(providers), providers' \in {Asked(providers, s), Asked(Cleared(providers), s)}
      PROVE  Two
  BY <1>b DEF Goes, Free
<1>c. ASSUME NEW ask \in SlotAsks, Free(slots), slots' \in {Asked(slots, ask), Asked(Cleared(slots), ask), Reasked(slots, ask)}
      PROVE  Three
  BY <1>c DEF Goes, Free
<1> HIDE DEF One, Two, Three
<1>1. CASE reloadServices
  <2>1. One
    BY <1>1 DEF reloadServices, One, Goes, Free
  <2> QED
    BY <1>1, <1>a, <2>1 DEF reloadServices, One, Two, Three
<1>2. CASE reloadProviders
  BY <1>0, <1>2, <1>a, <1>b DEF reloadProviders, One, Two, Three
<1>3. CASE reloadSlots
  <2>1. Chosen \in SlotAsks
    BY <1>0, <1>3 DEF reloadSlots, Chosen, SlotsOf, SlotAsks
  <2> QED
    BY <1>3, <1>a, <1>c, <2>1 DEF reloadSlots, One, Two, Three
<1>4. ASSUME NEW s \in Services, selectService(s) PROVE One /\ Two /\ Three
  BY <1>4, <1>a, <1>b DEF selectService
<1>5. ASSUME NEW p \in Providers, selectProvider(p) PROVE One /\ Two /\ Three
  <2>1. SlotsOf(service, p, day) \in SlotAsks
    BY <1>0 DEF SlotsOf, SlotAsks
  <2> QED
    BY <1>5, <1>a, <1>c, <2>1 DEF selectProvider
<1>6. ASSUME NEW d \in Days, changeDate(d) PROVE One /\ Two /\ Three
  <2>1. CASE provider = Nothing
    BY <1>6, <1>a, <2>1 DEF changeDate
  <2>2. CASE provider # Nothing
    <3>1. SlotsOf(service, provider, d) \in SlotAsks
      BY <1>0, <2>2 DEF SlotsOf, SlotAsks
    <3> QED
      BY <1>6, <1>a, <1>c, <2>2, <3>1 DEF changeDate
  <2> QED
    BY <2>1, <2>2
<1>7. CASE BookAnswered
  <2>1. booking.about \in SlotAsks
    BY <1>7 DEF BookAnswered, BookInv, BookingShape
  <2>2. UNCHANGED <<services, providers>>
    BY <1>7 DEF BookAnswered
  <2>3. slots' = slots \/ (Free(slots) /\ slots' = Reasked(slots, booking.about))
    BY <1>7 DEF BookAnswered
  <2> QED
    BY <1>a, <1>c, <2>1, <2>2, <2>3 DEF One, Two, Three
<1>8. ASSUME NEW i \in DOMAIN services.asks, ServicesLoaded(i) PROVE One /\ Two /\ Three
  <2>1. One
    BY <1>8 DEF ServicesLoaded, One, Goes
  <2> QED
    BY <1>8, <1>a, <2>1 DEF ServicesLoaded
<1>9. ASSUME NEW i \in DOMAIN providers.asks, ProvidersLoaded(i) PROVE One /\ Two /\ Three
  <2>1. Two
    BY <1>9 DEF ProvidersLoaded, Two, Goes
  <2> QED
    BY <1>9, <1>a, <2>1 DEF ProvidersLoaded
<1>10. ASSUME NEW i \in DOMAIN slots.asks, SlotsLoaded(i) PROVE One /\ Two /\ Three
  <2>1. Three
    BY <1>10 DEF SlotsLoaded, Three, Goes
  <2> QED
    BY <1>10, <1>a, <2>1 DEF SlotsLoaded
<1>11. CASE resetBooking
  BY <1>11, <1>a DEF resetBooking, One, Two, Three
<1>12. CASE \/ selectSlot \/ handleBook \/ BookServed \/ BookLost \/ UNCHANGED bookVars
            \/ \E i \in 1 .. 3 : goBackTo(Steps[i])
  <2>1. UNCHANGED lists
    BY <1>12 DEF selectSlot, handleBook, BookServed, BookLost, goBackTo, bookVars
  <2> QED
    BY <1>a, <2>1 DEF lists, One, Two, Three
<1> QED
  BY <1>1, <1>2, <1>3, <1>4, <1>5, <1>6, <1>7, <1>8, <1>9, <1>10, <1>11, <1>12 DEF BookNext, One, Two, Three

LEMMA BookTypesStep ==
  ASSUME BookInv, BookTypes, [BookNext]_bookVars
  PROVE  BookTypes'
<1>1. /\ services' \in Lists({All}) /\ Len(services'.asks) <= MaxAsks
      /\ Len(providers'.asks) <= MaxAsks /\ Len(slots'.asks) <= MaxAsks
  BY BookLists, GoesTyped, BookAssumption DEF BookTypes, BookInv, ListsFit
<1>2. step' \in {"service", "provider", "slot", "details"}
  <2>1. ASSUME NEW i \in 1 .. 3 PROVE Steps[i] \in {"service", "provider", "slot"}
    BY DEF Steps
  <2> QED
    BY <2>1 DEF BookTypes, BookNext, bookVars, chosen, reloadServices, reloadProviders, reloadSlots, selectService, selectProvider,
      selectSlot, changeDate, goBackTo, handleBook, BookServed, BookAnswered, BookLost, resetBooking,
      ServicesLoaded, ProvidersLoaded, SlotsLoaded
<1>3. {confirmed', misled'} \subseteq BOOLEAN
  BY DEF BookTypes, BookNext, bookVars, chosen, reloadServices, reloadProviders, reloadSlots, selectService, selectProvider,
      selectSlot, changeDate, goBackTo, handleBook, BookServed, BookAnswered, BookLost, resetBooking,
      ServicesLoaded, ProvidersLoaded, SlotsLoaded
<1>4. choices' \in 0 .. MaxChoices
  <2>1. choices' = choices \/ Choice
    BY DEF BookNext, bookVars, chosen, reloadServices, reloadProviders, reloadSlots, selectService, selectProvider,
      selectSlot, changeDate, goBackTo, handleBook, BookServed, BookAnswered, BookLost, resetBooking,
      ServicesLoaded, ProvidersLoaded, SlotsLoaded
  <2> QED
    BY <2>1, BookAssumption DEF BookTypes, Choice
<1>5. blind' \subseteq {"provider", "slot"}
  BY DEF BookTypes, BookNext, bookVars, chosen, reloadServices, reloadProviders, reloadSlots, selectService, selectProvider,
      selectSlot, changeDate, goBackTo, handleBook, BookServed, BookAnswered, BookLost, resetBooking,
      ServicesLoaded, ProvidersLoaded, SlotsLoaded
<1> QED
  BY <1>1, <1>2, <1>3, <1>4, <1>5 DEF BookTypes

LEMMA BookTyped == BookInv /\ BookTypes => BookTypeOK
<1> SUFFICES ASSUME BookInv, BookTypes PROVE BookTypeOK
  OBVIOUS
<1>1. ASSUME NEW i \in 1 .. 3
      PROVE  Len(lists[i].asks) <= MaxAsks /\ {lists[i].busy, lists[i].failed, lists[i].late} \subseteq BOOLEAN
  BY DEF BookTypes, BookInv, ListsFit, Lists, lists
<1> QED
  BY <1>1 DEF BookTypes, BookInv, ChoiceTyped, BookTypeOK
-----------------------------------------------------------------------------
\* The page of one's appointments: in a panel with its own details, what was asked for last
\* is about the panel, and the times on display are, but for those that came late.
MoveAsks == [appt : Appts \cup {Nothing}, day : MoveDays, opens : BOOLEAN]
PanelTyped ==
  /\ rescheduleDetail \in Appts \cup {Nothing} /\ rescheduleDate \in MoveDays
  /\ details \in Seq(Appts) /\ rescheduleSlots \in Lists(MoveAsks)
ForPanel(ask) == ask.appt = rescheduleId /\ ask.day = rescheduleDate
TimesFit == Fits(rescheduleSlots)
PanelAsked ==
  rescheduleDetail = rescheduleId /\ rescheduleSlots.last # Nothing /\ rescheduleId # Nothing =>
    ForPanel(rescheduleSlots.last)
MovePicked ==
  \E phase, a : \E detail \in Appts \cup {Nothing}, d \in MoveDays :
    moving = [phase |-> phase, appt |-> a, detail |-> detail, day |-> d, asOffered |-> TRUE]
PageInv == PanelTyped /\ TimesFit /\ PanelAsked /\ MovePicked /\ MovedAsOffered

LEMMA TomorrowIsADay == Tomorrow \in MoveDays
BY AppointmentsAssumption DEF Tomorrow

LEMMA PageStart == ApptInit => PageInv
<1> SUFFICES ASSUME ApptInit PROVE PageInv
  OBVIOUS
<1>1. PanelTyped /\ TimesFit
  BY ListNew, TomorrowIsADay DEF ApptInit, PanelTyped, TimesFit, Fits
<1>a. PanelAsked
  BY DEF ApptInit, PanelAsked
<1>2. MovePicked
  BY TomorrowIsADay DEF ApptInit, MovePicked, NotMoving
<1>3. MovedAsOffered
  BY DEF ApptInit, MovedAsOffered
<1> QED
  BY <1>1, <1>a, <1>2, <1>3 DEF PageInv

LEMMA PageStep ==
  ASSUME PageInv, [ApptNext]_apptVars
  PROVE  PageInv'
<1> USE DEF PageInv
\* Steps that leave the panel alone, or the move.
<1>1. ASSUME UNCHANGED panel PROVE PanelTyped' /\ TimesFit' /\ PanelAsked'
  BY <1>1 DEF panel, PanelTyped, TimesFit, PanelAsked, ForPanel
<1>2. ASSUME UNCHANGED <<moving, moved>> PROVE MovePicked' /\ MovedAsOffered'
  BY <1>2 DEF MovePicked, MovedAsOffered
<1>3. ASSUME UNCHANGED moved, moving' = moving \/ moving' = NotMoving PROVE MovePicked' /\ MovedAsOffered'
  BY <1>3, TomorrowIsADay DEF MovePicked, MovedAsOffered, NotMoving
\* New questions, and answers.
<1>4. ASSUME NEW ask \in MoveAsks, rescheduleSlots' = Asked(rescheduleSlots, ask)
      PROVE  rescheduleSlots' \in Lists(MoveAsks) /\ rescheduleSlots'.last = ask /\ TimesFit'
  <2>1. rescheduleSlots' \in Lists(MoveAsks) /\ ~Visible(rescheduleSlots') /\ rescheduleSlots'.last = ask
    BY <1>4, ListAsked DEF PanelTyped
  <2> QED
    BY <2>1 DEF TimesFit, Fits, Visible
<1>5. ASSUME rescheduleSlots' = Cleared(rescheduleSlots), rescheduleId' = Nothing
      PROVE  rescheduleSlots' \in Lists(MoveAsks) /\ TimesFit' /\ PanelAsked'
  <2>1. rescheduleSlots' \in Lists(MoveAsks) /\ ~Visible(rescheduleSlots')
    BY <1>5, ListCleared DEF PanelTyped
  <2> QED
    BY <1>5, <2>1 DEF TimesFit, Fits, Visible, PanelAsked
<1>6. CASE \/ reloadAppointments \/ closeCancel \/ confirmCancel \/ CancelServed \/ CancelFails
           \/ \E a \in Appts : openCancel(a) \/ ClosedByShop(a)
           \/ UNCHANGED apptVars
  <2>1. UNCHANGED <<panel, moving, moved>>
    BY <1>6 DEF reloadAppointments, closeCancel, confirmCancel, CancelServed, CancelFails,
       openCancel, ClosedByShop, apptVars
  <2> QED
    BY <1>1, <1>2, <2>1
<1>7. ASSUME NEW l, AppointmentsLoaded(l) PROVE PageInv'
  <2>1. UNCHANGED <<panel, moved>> /\ (moving' = moving \/ moving' = NotMoving)
    BY <1>7 DEF AppointmentsLoaded
  <2> QED
    BY <1>1, <1>3, <2>1
<1>8. ASSUME NEW a \in Appts, openReschedule(a) PROVE PageInv'
  <2>1. /\ rescheduleDetail' = Nothing /\ rescheduleDate' = Tomorrow /\ details' = Append(details, a)
        /\ rescheduleSlots' = [Cleared(rescheduleSlots) EXCEPT !.failed = FALSE, !.last = Nothing]
        /\ UNCHANGED <<moving, moved>>
    BY <1>8 DEF openReschedule
  <2>2. details' \in Seq(Appts)
    BY <2>1 DEF PanelTyped
  <2>3. rescheduleSlots' \in Lists(MoveAsks) /\ rescheduleSlots'.about = Nothing /\ rescheduleSlots'.last = Nothing
    BY <2>1 DEF PanelTyped, Cleared, Lists
  <2>4. PanelTyped'
    BY <2>1, <2>2, <2>3, TomorrowIsADay DEF PanelTyped
  <2>5. TimesFit' /\ PanelAsked'
    BY <2>3 DEF TimesFit, Fits, Visible, PanelAsked
  <2> QED
    BY <1>2, <2>1, <2>4, <2>5
<1>9. ASSUME NEW i \in DOMAIN details, DetailLoaded(i) PROVE PageInv'
  <2> DEFINE ask == [For(details[i], Tomorrow) EXCEPT !.opens = TRUE]
  <2>1. /\ details' = RemoveAt(details, i) /\ rescheduleDetail' = details[i]
        /\ rescheduleSlots' = IF details[i] = rescheduleId /\ rescheduleDate = Tomorrow THEN Asked(rescheduleSlots, ask)
                              ELSE [Asked(rescheduleSlots, ask) EXCEPT !.last = Nothing]
        /\ UNCHANGED <<rescheduleId, rescheduleDate, moving, moved>>
    BY <1>9 DEF DetailLoaded
  <2>2. details[i] \in Appts /\ details' \in Seq(Appts)
    BY <2>1, Removing DEF PanelTyped
  <2>3. ask \in MoveAsks /\ ask.appt = details[i] /\ ask.day = Tomorrow
    BY <2>2, TomorrowIsADay DEF For, MoveAsks
  <2> HIDE DEF ask
  <2>4. Asked(rescheduleSlots, ask) \in Lists(MoveAsks) /\ ~Visible(Asked(rescheduleSlots, ask))
        /\ Asked(rescheduleSlots, ask).last = ask
    BY <2>3, ListAsked DEF PanelTyped
  <2>5. CASE details[i] = rescheduleId /\ rescheduleDate = Tomorrow
    <3>1. rescheduleSlots' = Asked(rescheduleSlots, ask)
      BY <2>1, <2>5
    <3>2. PanelTyped'
      BY <2>1, <2>2, <2>4, <3>1 DEF PanelTyped
    <3>3. TimesFit'
      BY <2>4, <3>1 DEF TimesFit, Fits, Visible
    <3>4. PanelAsked'
      BY <2>1, <2>3, <2>4, <2>5, <3>1 DEF PanelAsked, ForPanel
    <3> QED
      BY <1>2, <2>1, <3>2, <3>3, <3>4
  <2>6. CASE ~(details[i] = rescheduleId /\ rescheduleDate = Tomorrow)
    <3>1. rescheduleSlots' = [Asked(rescheduleSlots, ask) EXCEPT !.last = Nothing]
      BY <2>1, <2>6
    <3>2. /\ rescheduleSlots' \in Lists(MoveAsks) /\ rescheduleSlots'.last = Nothing
          /\ rescheduleSlots'.busy = Asked(rescheduleSlots, ask).busy
      BY <2>4, <3>1 DEF Lists
    <3>3. Asked(rescheduleSlots, ask).busy = TRUE
      BY DEF Asked, PanelTyped, Lists
    <3>4. PanelTyped'
      BY <2>1, <2>2, <3>2 DEF PanelTyped
    <3>5. TimesFit'
      BY <3>2, <3>3 DEF TimesFit, Fits, Visible
    <3>6. PanelAsked'
      BY <3>2 DEF PanelAsked
    <3> QED
      BY <1>2, <2>1, <3>4, <3>5, <3>6
  <2> QED
    BY <2>5, <2>6
<1>10. ASSUME NEW i \in DOMAIN details, DetailFails(i) PROVE PageInv'
  <2>1. /\ details' = RemoveAt(details, i)
        /\ UNCHANGED <<rescheduleId, rescheduleDetail, rescheduleDate, rescheduleSlots, moving, moved>>
    BY <1>10 DEF DetailFails
  <2>2. details' \in Seq(Appts)
    BY <2>1, Removing DEF PanelTyped
  <2> QED
    BY <1>2, <2>1, <2>2 DEF PanelTyped, TimesFit, PanelAsked, ForPanel
<1>11. ASSUME NEW i \in DOMAIN rescheduleSlots.asks, RescheduleSlotsLoaded(i) PROVE PageInv'
  <2>1. rescheduleSlots' \in {Answered(rescheduleSlots, i), AnsweredEmpty(rescheduleSlots, i),
                              Unanswered(Cleared(rescheduleSlots), i)}
    BY <1>11 DEF RescheduleSlotsLoaded
  <2>2. UNCHANGED <<rescheduleId, rescheduleDetail, rescheduleDate, details, moving, moved>>
    BY <1>11 DEF RescheduleSlotsLoaded
  <2>3. rescheduleSlots' \in Lists(MoveAsks) /\ Fits(rescheduleSlots') /\ rescheduleSlots'.last = rescheduleSlots.last
    BY <2>1, ListAnswered DEF PanelTyped
  <2>4. TimesFit' /\ PanelTyped'
    BY <2>2, <2>3 DEF TimesFit, Fits, Visible, PanelTyped
  <2>5. PanelAsked'
    BY <2>2, <2>3 DEF PanelAsked, ForPanel
  <2> QED
    BY <1>2, <2>2, <2>4, <2>5
<1>12. CASE closeReschedule
  <2>1. /\ rescheduleDetail' = Nothing /\ rescheduleSlots' = Cleared(rescheduleSlots) /\ rescheduleId' = Nothing
        /\ UNCHANGED <<rescheduleDate, details, moving, moved>>
    BY <1>12 DEF closeReschedule, Closed
  <2> QED
    BY <1>2, <1>5, <2>1 DEF PanelTyped
<1>13. ASSUME NEW d \in MoveDays, changeRescheduleDate(d) \/ (reloadRescheduleSlots /\ d = rescheduleDate)
       PROVE  PageInv'
  <2>1. /\ rescheduleDate' = d /\ rescheduleSlots' = Asked(rescheduleSlots, For(rescheduleDetail, d))
        /\ UNCHANGED <<rescheduleId, rescheduleDetail, details, moving, moved>>
    BY <1>13 DEF changeRescheduleDate, reloadRescheduleSlots, Reask
  <2>2. For(rescheduleDetail, d) \in MoveAsks
        /\ For(rescheduleDetail, d).appt = rescheduleDetail /\ For(rescheduleDetail, d).day = d
    BY DEF For, MoveAsks, PanelTyped
  <2>3. PanelAsked'
    BY <1>4, <2>1, <2>2 DEF PanelAsked, ForPanel
  <2> QED
    BY <1>2, <1>4, <2>1, <2>2, <2>3 DEF PanelTyped
<1>14. CASE pickRescheduleSlot
  <2> DEFINE about == rescheduleSlots.about
             fits == rescheduleSlots.late \/ rescheduleDetail # rescheduleId
                     \/ (about.appt = rescheduleId /\ about.day = rescheduleDate)
  <2>1. /\ Visible(rescheduleSlots) /\ rescheduleId # Nothing
        /\ moving' = [phase |-> "sent", appt |-> rescheduleId, detail |-> rescheduleDetail, day |-> rescheduleDate,
                      asOffered |-> fits]
        /\ UNCHANGED <<panel, moved>>
    BY <1>14 DEF pickRescheduleSlot, PanelShown
  <2>2. fits = TRUE
    <3> SUFFICES ASSUME ~rescheduleSlots.late, rescheduleDetail = rescheduleId
                 PROVE  about.appt = rescheduleId /\ about.day = rescheduleDate
      OBVIOUS
    <3>1. about = rescheduleSlots.last /\ about # Nothing
      BY <2>1 DEF TimesFit, Fits, Visible
    <3> QED
      BY <2>1, <3>1 DEF PanelAsked, ForPanel
  <2> HIDE DEF fits
  <2>3. moving' = [phase |-> "sent", appt |-> rescheduleId, detail |-> rescheduleDetail, day |-> rescheduleDate,
                   asOffered |-> TRUE]
    BY <2>1, <2>2
  <2>4. MovePicked' /\ MovedAsOffered'
    BY <2>1, <2>3 DEF MovePicked, MovedAsOffered, PanelTyped
  <2> QED
    BY <1>1, <2>1, <2>4
<1>15. CASE MoveServed
  <2>1. PICK phase, a : \E detail \in Appts \cup {Nothing}, d \in MoveDays :
          moving = [phase |-> phase, appt |-> a, detail |-> detail, day |-> d, asOffered |-> TRUE]
    BY DEF MovePicked
  <2>2. moving.asOffered = TRUE
    BY <2>1
  <2>3. moved' = (moved \/ ~moving.asOffered) \/ moved' = moved
    BY <1>15 DEF MoveServed
  <2>4. MovedAsOffered'
    BY <2>2, <2>3 DEF MovedAsOffered
  <2>5. moving' \in {[moving EXCEPT !.phase = "made"], [moving EXCEPT !.phase = "taken"],
                     [moving EXCEPT !.phase = "refused"]}
    BY <1>15 DEF MoveServed
  <2>6. MovePicked'
    BY <2>1, <2>5 DEF MovePicked
  <2>7. UNCHANGED panel
    BY <1>15 DEF MoveServed
  <2> QED
    BY <1>1, <2>4, <2>6, <2>7
<1>16. CASE MoveMade
  <2>1. /\ rescheduleDetail' = Nothing /\ rescheduleSlots' = Cleared(rescheduleSlots) /\ rescheduleId' = Nothing
        /\ moving' = [NotMoving EXCEPT !.phase = "reloading"]
        /\ UNCHANGED <<rescheduleDate, details, moved>>
    BY <1>16 DEF MoveMade, Closed
  <2>2. MovePicked' /\ MovedAsOffered'
    BY <2>1, TomorrowIsADay DEF MovePicked, MovedAsOffered, NotMoving
  <2> QED
    BY <1>5, <2>1, <2>2 DEF PanelTyped
<1>17. CASE MoveTaken
  <2>1. /\ rescheduleSlots' = Reasked(rescheduleSlots, For(moving.detail, moving.day))
        /\ moving' = NotMoving
        /\ UNCHANGED <<rescheduleId, rescheduleDetail, rescheduleDate, details, moved>>
    BY <1>17 DEF MoveTaken
  <2>2. For(moving.detail, moving.day) \in MoveAsks
    BY DEF For, MoveAsks, MovePicked
  <2>3. rescheduleSlots' \in Lists(MoveAsks) /\ ~Visible(rescheduleSlots') /\ rescheduleSlots'.last = rescheduleSlots.last
    BY <2>1, <2>2, ListAsked DEF PanelTyped
  <2>4. PanelTyped' /\ TimesFit' /\ PanelAsked'
    BY <2>1, <2>3 DEF PanelTyped, TimesFit, Fits, Visible, PanelAsked, ForPanel
  <2> QED
    BY <1>3, <2>1, <2>4
<1>18. CASE MoveFails
  <2>1. moving' = NotMoving /\ UNCHANGED <<panel, moved>>
    BY <1>18 DEF MoveFails
  <2> QED
    BY <1>1, <1>3, <2>1
<1>19. rescheduleDate \in MoveDays
  BY DEF PanelTyped
<1> QED
  BY <1>6, <1>7, <1>8, <1>9, <1>10, <1>11, <1>12, <1>13, <1>14, <1>15, <1>16, <1>17, <1>18, <1>19 DEF ApptNext
-----------------------------------------------------------------------------
\* The rest of the types of the appointments' page: the list of appointments and its loads,
\* the panel, the phase of the move that the loads go with, the dialog, the counts.
ListTyped ==
  /\ listed \subseteq Appts /\ alive \subseteq Appts /\ loads \subseteq {"page", "move", "cancel"}
  /\ {loading, loadError} \subseteq BOOLEAN
PanelBounds ==
  /\ rescheduleId \in Appts \cup {Nothing} /\ {detailLoading, detailError} \subseteq BOOLEAN
  /\ Len(details) + Len(rescheduleSlots.asks) <= MaxPanels
MovePhases ==
  /\ moving.phase \in {"no", "sent", "made", "taken", "refused", "reloading"}
  /\ (moving.phase = "reloading") <=> ("move" \in loads)
DialogTyped == {cancelId, cancelling} \subseteq Appts \cup {Nothing}
MovesCounted == moves \in 0 .. MaxMoves /\ moved \in BOOLEAN
PageTypes == ListTyped /\ PanelBounds /\ MovePhases /\ DialogTyped /\ MovesCounted

LEMMA PageTypesStart == ApptInit => PageTypes
<1> SUFFICES ASSUME ApptInit PROVE PageTypes
  OBVIOUS
<1>1. ListTyped /\ DialogTyped
  BY DEF ApptInit, ListTyped, DialogTyped
<1>2. MovePhases
  BY DEF ApptInit, MovePhases, NotMoving
<1>3. details = << >> /\ rescheduleSlots.asks = << >>
  BY DEF ApptInit, NewList
<1>4. MaxPanels \in Nat /\ MaxMoves \in Nat
  BY AppointmentsAssumption
<1>5. Len(details) + Len(rescheduleSlots.asks) <= MaxPanels
  BY <1>3, <1>4
<1>6. PanelBounds
  BY <1>5 DEF ApptInit, PanelBounds
<1>7. moves \in 0 .. MaxMoves
  BY <1>4 DEF ApptInit
<1>8. MovesCounted
  BY <1>7 DEF ApptInit, MovesCounted
<1> QED
  BY <1>1, <1>2, <1>6, <1>8 DEF PageTypes

\* The list and its loads, and the phase of the move.
LEMMA PageLists ==
  ASSUME PageInv, PageTypes, [ApptNext]_apptVars
  PROVE  ListTyped' /\ MovePhases'
<1> USE DEF PageTypes
<1>a. ASSUME UNCHANGED <<alive, list, moving>> PROVE ListTyped' /\ MovePhases'
  BY <1>a DEF list, ListTyped, MovePhases
<1>b. ASSUME UNCHANGED <<alive, list>>, moving.phase # "reloading",
             moving'.phase \in {"no", "sent", "made", "taken", "refused"}
      PROVE  ListTyped' /\ MovePhases'
  BY <1>b DEF list, ListTyped, MovePhases
<1>c. NotMoving.phase = "no"
  BY DEF NotMoving
<1>1. CASE reloadAppointments
  BY <1>1 DEF reloadAppointments, ListTyped, MovePhases
<1>2. ASSUME NEW l \in loads, AppointmentsLoaded(l) PROVE ListTyped' /\ MovePhases'
  <2>1. ListTyped'
    BY <1>2 DEF AppointmentsLoaded, ListTyped
  <2>2. CASE l = "move"
    <3>1. moving'.phase = "no" /\ "move" \notin loads'
      BY <1>2, <1>c, <2>2 DEF AppointmentsLoaded
    <3> QED
      BY <2>1, <3>1 DEF MovePhases
  <2>3. CASE l # "move"
    <3>1. moving' = moving /\ ("move" \in loads' <=> "move" \in loads)
      BY <1>2, <2>3 DEF AppointmentsLoaded
    <3>2. MovePhases
      OBVIOUS
    <3> QED
      BY <2>1, <3>1, <3>2 DEF MovePhases
  <2> QED
    BY <2>1, <2>2, <2>3
<1>3. CASE \/ \E a \in Appts : openReschedule(a) \/ openCancel(a)
           \/ \E i \in DOMAIN details : DetailLoaded(i) \/ DetailFails(i)
           \/ \E i \in DOMAIN rescheduleSlots.asks : RescheduleSlotsLoaded(i)
           \/ \E d \in MoveDays : changeRescheduleDate(d)
           \/ closeReschedule \/ reloadRescheduleSlots \/ closeCancel \/ confirmCancel \/ UNCHANGED apptVars
  <2>1. UNCHANGED <<alive, list, moving>>
    BY <1>3 DEF openReschedule, openCancel, DetailLoaded, DetailFails, RescheduleSlotsLoaded,
       changeRescheduleDate, closeReschedule, reloadRescheduleSlots, closeCancel, confirmCancel, apptVars
  <2> QED
    BY <1>a, <2>1
<1>4. ASSUME NEW a \in Appts, ClosedByShop(a) PROVE ListTyped' /\ MovePhases'
  BY <1>4 DEF ClosedByShop, list, ListTyped, MovePhases
<1>5. CASE pickRescheduleSlot
  <2>1. moving.phase = "no" /\ moving'.phase = "sent" /\ UNCHANGED <<alive, list>>
    BY <1>5, <1>c DEF pickRescheduleSlot
  <2> QED
    BY <1>b, <2>1
<1>6. CASE MoveServed
  <2>1. moving.phase = "sent" /\ UNCHANGED <<alive, list>>
    BY <1>6 DEF MoveServed
  <2>2. moving' \in {[moving EXCEPT !.phase = "made"], [moving EXCEPT !.phase = "taken"],
                     [moving EXCEPT !.phase = "refused"]}
    BY <1>6 DEF MoveServed
  <2>3. PICK phase, b : \E detail \in Appts \cup {Nothing}, d \in MoveDays :
          moving = [phase |-> phase, appt |-> b, detail |-> detail, day |-> d, asOffered |-> TRUE]
    BY DEF PageInv, MovePicked
  <2>4. moving'.phase \in {"made", "taken", "refused"}
    BY <2>2, <2>3
  <2> QED
    BY <1>b, <2>1, <2>4
<1>7. CASE MoveMade
  <2>1. moving'.phase = "reloading"
    BY <1>7 DEF MoveMade, NotMoving
  <2>2. loads' = loads \cup {"move"} /\ UNCHANGED <<alive, listed>> /\ loading' = TRUE /\ loadError' = FALSE
    BY <1>7 DEF MoveMade
  <2> QED
    BY <2>1, <2>2 DEF ListTyped, MovePhases
<1>8. CASE MoveTaken \/ MoveFails
  <2>1. moving' = NotMoving /\ moving.phase # "reloading" /\ UNCHANGED <<alive, list>>
    BY <1>8 DEF MoveTaken, MoveFails
  <2> QED
    BY <1>b, <1>c, <2>1
<1>9. CASE CancelServed
  <2>1. /\ alive' \subseteq alive /\ loads' = loads \cup {"cancel"} /\ UNCHANGED <<listed, moving>>
        /\ loading' = TRUE /\ loadError' = FALSE
    BY <1>9 DEF CancelServed
  <2> QED
    BY <2>1 DEF ListTyped, MovePhases
<1>10. CASE CancelFails
  <2>1. alive' \subseteq alive /\ UNCHANGED <<list, moving>>
    BY <1>10 DEF CancelFails
  <2> QED
    BY <2>1 DEF list, ListTyped, MovePhases
<1> QED
  BY <1>1, <1>2, <1>3, <1>4, <1>5, <1>6, <1>7, <1>8, <1>9, <1>10 DEF ApptNext

\* The panel, and how much it waits for.
LEMMA PagePanel ==
  ASSUME PageInv, PageTypes, [ApptNext]_apptVars
  PROVE  PanelBounds'
<1> USE DEF PageTypes
<1>a. /\ details \in Seq(Appts) /\ rescheduleSlots \in Lists(MoveAsks) /\ MaxPanels \in Nat
      /\ rescheduleSlots.asks \in Seq(MoveAsks) /\ Len(details) \in Nat /\ Len(rescheduleSlots.asks) \in Nat
  BY AppointmentsAssumption DEF PageInv, PanelTyped, Lists
<1>b. ASSUME UNCHANGED panel PROVE PanelBounds'
  BY <1>b DEF panel, PanelBounds
<1>c. ASSUME NEW ask, NEW last, NEW added \in {Asked(rescheduleSlots, ask), Reasked(rescheduleSlots, ask),
                                               [Asked(rescheduleSlots, ask) EXCEPT !.last = last]}
      PROVE  Len(added.asks) = Len(rescheduleSlots.asks) + 1
  <2>1. Asked(rescheduleSlots, ask).asks = Append(rescheduleSlots.asks, ask)
    BY <1>a DEF Asked, Lists
  <2>2. added.asks = Asked(rescheduleSlots, ask).asks
    BY <1>a DEF Asked, Reasked, Lists
  <2> QED
    BY <1>a, <2>1, <2>2
<1>d. Cleared(rescheduleSlots).asks = rescheduleSlots.asks
  BY <1>a, ListCleared
<1>e. ASSUME NEW i \in DOMAIN rescheduleSlots.asks,
             rescheduleSlots' \in {Answered(rescheduleSlots, i), AnsweredEmpty(rescheduleSlots, i),
                                   Unanswered(Cleared(rescheduleSlots), i)}
      PROVE  Len(rescheduleSlots'.asks) = Len(rescheduleSlots.asks) - 1
  <2>1. rescheduleSlots'.asks = RemoveAt(rescheduleSlots.asks, i)
    BY <1>a, <1>e DEF Answered, AnsweredEmpty, Unanswered, Cleared, Lists
  <2> QED
    BY <1>a, <2>1, Removing
<1>1. CASE \/ reloadAppointments \/ \E l \in loads : AppointmentsLoaded(l)
           \/ \E a \in Appts : openCancel(a) \/ ClosedByShop(a)
           \/ pickRescheduleSlot \/ MoveServed \/ MoveFails
           \/ closeCancel \/ confirmCancel \/ CancelServed \/ CancelFails \/ UNCHANGED apptVars
  <2>1. UNCHANGED panel
    BY <1>1 DEF reloadAppointments, AppointmentsLoaded, openCancel, ClosedByShop, pickRescheduleSlot, MoveServed,
       MoveFails, closeCancel, confirmCancel, CancelServed, CancelFails, apptVars
  <2> QED
    BY <1>b, <2>1
<1>2. ASSUME NEW a \in Appts, openReschedule(a) PROVE PanelBounds'
  <2>1. /\ Room /\ rescheduleId' = a /\ detailLoading' = TRUE /\ detailError' = FALSE /\ details' = Append(details, a)
        /\ rescheduleSlots' = [Cleared(rescheduleSlots) EXCEPT !.failed = FALSE, !.last = Nothing]
    BY <1>2 DEF openReschedule
  <2>2. rescheduleSlots'.asks = rescheduleSlots.asks
    BY <1>a, <2>1 DEF Cleared, Lists
  <2>3. Len(details') = Len(details) + 1
    BY <1>a, <2>1
  <2>4. Len(details) + Len(rescheduleSlots.asks) < MaxPanels
    BY <2>1 DEF Room
  <2>5. Len(rescheduleSlots'.asks) = Len(rescheduleSlots.asks)
    BY <2>2
  <2>6. Len(details) \in Nat /\ Len(rescheduleSlots.asks) \in Nat /\ MaxPanels \in Nat
    BY <1>a
  <2>7. \A x, y, m \in Nat : x + y < m => (x + 1) + y <= m
    OBVIOUS
  <2>8. (Len(details) + 1) + Len(rescheduleSlots.asks) <= MaxPanels
    BY <2>4, <2>6, <2>7, Zenon
  <2>9. Len(details') + Len(rescheduleSlots'.asks) <= MaxPanels
    BY <2>3, <2>5, <2>8, Zenon
  <2> QED
    BY <2>1, <2>9 DEF PanelBounds
<1>3. ASSUME NEW i \in DOMAIN details, DetailLoaded(i) \/ DetailFails(i) PROVE PanelBounds'
  <2> DEFINE ask == [For(details[i], Tomorrow) EXCEPT !.opens = TRUE]
  <2>1. Len(details') = Len(details) - 1
    BY <1>3, <1>a, Removing DEF DetailLoaded, DetailFails
  <2>2. /\ rescheduleSlots' = rescheduleSlots
           \/ rescheduleSlots' = Asked(rescheduleSlots, ask)
           \/ rescheduleSlots' = [Asked(rescheduleSlots, ask) EXCEPT !.last = Nothing]
        /\ rescheduleId' = rescheduleId
        /\ {detailLoading', detailError'} \subseteq {detailLoading, detailError, TRUE, FALSE}
    BY <1>3 DEF DetailLoaded, DetailFails
  <2> HIDE DEF ask
  <2>a. Len(rescheduleSlots'.asks) \in {Len(rescheduleSlots.asks), Len(rescheduleSlots.asks) + 1}
    <3>1. CASE rescheduleSlots' = rescheduleSlots
      BY <3>1
    <3>2. CASE rescheduleSlots' # rescheduleSlots
      <4>1. rescheduleSlots' \in {Asked(rescheduleSlots, ask), Reasked(rescheduleSlots, ask),
                                  [Asked(rescheduleSlots, ask) EXCEPT !.last = Nothing]}
        BY <2>2, <3>2
      <4> QED
        BY <1>c, <4>1, Zenon
    <3> QED
      BY <3>1, <3>2
  <2>3. Len(rescheduleSlots'.asks) <= Len(rescheduleSlots.asks) + 1 /\ Len(rescheduleSlots'.asks) \in Nat
    BY <1>a, <2>a
  <2>4. Len(details') + Len(rescheduleSlots'.asks) <= MaxPanels
    BY <1>a, <2>1, <2>3 DEF PanelBounds
  <2>5. {detailLoading', detailError'} \subseteq BOOLEAN
    BY <2>2 DEF PanelBounds
  <2> QED
    BY <2>2, <2>4, <2>5 DEF PanelBounds
<1>4. ASSUME NEW i \in DOMAIN rescheduleSlots.asks, RescheduleSlotsLoaded(i) PROVE PanelBounds'
  <2>1. rescheduleSlots' \in {Answered(rescheduleSlots, i), AnsweredEmpty(rescheduleSlots, i),
                              Unanswered(Cleared(rescheduleSlots), i)}
    BY <1>4 DEF RescheduleSlotsLoaded
  <2>2. Len(rescheduleSlots'.asks) = Len(rescheduleSlots.asks) - 1
    BY <1>e, <2>1
  <2>3. UNCHANGED <<rescheduleId, detailError, details>> /\ detailLoading' \in BOOLEAN
    BY <1>4 DEF RescheduleSlotsLoaded
  <2> QED
    BY <1>a, <2>2, <2>3 DEF PanelBounds
<1>5. CASE closeReschedule \/ MoveMade
  <2>1. /\ rescheduleId' = Nothing /\ rescheduleSlots' = Cleared(rescheduleSlots)
        /\ UNCHANGED <<detailLoading, detailError, details>>
    BY <1>5 DEF closeReschedule, MoveMade, Closed
  <2> QED
    BY <1>d, <2>1 DEF PanelBounds
<1>6. ASSUME NEW ask, Room, rescheduleSlots' \in {Asked(rescheduleSlots, ask), Reasked(rescheduleSlots, ask)},
             UNCHANGED <<rescheduleId, detailLoading, detailError, details>>
      PROVE  PanelBounds'
  BY <1>a, <1>c, <1>6 DEF PanelBounds, Room
<1>7. CASE (\E d \in MoveDays : changeRescheduleDate(d)) \/ reloadRescheduleSlots \/ MoveTaken
  BY <1>6, <1>7 DEF changeRescheduleDate, reloadRescheduleSlots, Reask, MoveTaken
<1> QED
  BY <1>1, <1>2, <1>3, <1>4, <1>5, <1>7 DEF ApptNext

LEMMA PageTypesStep ==
  ASSUME PageInv, PageTypes, [ApptNext]_apptVars
  PROVE  PageTypes'
<1>1. DialogTyped'
  <2>1. /\ cancelId' \in {cancelId, Nothing} \/ cancelId' \in Appts
        /\ cancelling' \in {cancelling, cancelId, Nothing}
    BY DEF ApptNext, apptVars, dialog, reloadAppointments, AppointmentsLoaded, openReschedule,
       openCancel, ClosedByShop, DetailLoaded, DetailFails, RescheduleSlotsLoaded, changeRescheduleDate, closeReschedule,
       reloadRescheduleSlots, pickRescheduleSlot, MoveServed, MoveMade, MoveTaken, MoveFails, closeCancel, confirmCancel,
       CancelServed, CancelFails
  <2> QED
    BY <2>1 DEF PageTypes, DialogTyped
<1>2. moves' = moves \/ Act
  BY DEF ApptNext, apptVars, reloadAppointments, AppointmentsLoaded, openReschedule,
     openCancel, ClosedByShop, DetailLoaded, DetailFails, RescheduleSlotsLoaded, changeRescheduleDate, closeReschedule,
     reloadRescheduleSlots, pickRescheduleSlot, MoveServed, MoveMade, MoveTaken, MoveFails, closeCancel, confirmCancel,
     CancelServed, CancelFails
<1>3. moved' = moved \/ moved' = (moved \/ ~moving.asOffered)
  BY DEF ApptNext, apptVars, reloadAppointments, AppointmentsLoaded, openReschedule,
     openCancel, ClosedByShop, DetailLoaded, DetailFails, RescheduleSlotsLoaded, changeRescheduleDate, closeReschedule,
     reloadRescheduleSlots, pickRescheduleSlot, MoveServed, MoveMade, MoveTaken, MoveFails, closeCancel, confirmCancel,
     CancelServed, CancelFails
<1>4. MovesCounted'
  <2>1. moves' \in 0 .. MaxMoves
    BY <1>2, AppointmentsAssumption DEF Act, PageTypes, MovesCounted
  <2>2. moved' \in BOOLEAN
    BY <1>3 DEF PageTypes, MovesCounted
  <2> QED
    BY <2>1, <2>2 DEF MovesCounted
<1> QED
  BY <1>1, <1>4, PageLists, PagePanel DEF PageTypes

LEMMA PageTyped == PageInv /\ PageTypes => ApptTypeOK
BY DEF PageInv, PanelTyped, PageTypes, ListTyped, PanelBounds, MovePhases, DialogTyped, MovesCounted, ApptTypeOK
-----------------------------------------------------------------------------
\* The pages' invariants hold at the start, and a step of the storefront is one of a page.
LEMMA StorefrontStart == Init => BuilderInv /\ BookInv /\ PageInv /\ CartInv /\ CheckoutInv
BY BuilderStart, BookStart, PageStart, CartStart, CheckoutStart, CartAssumption DEF Init

LEMMA StorefrontStep ==
  [Next]_storefrontVars => [BuilderNext]_builderVars /\ [BookNext]_bookVars /\ [ApptNext]_apptVars
                            /\ [CartNext]_cartVars /\ [CheckoutNext]_checkoutVars
BY DEF Next, storefrontVars

\* The pages keep to their states.  For the page builder that says that the local ids tell
\* its sections apart whatever is added, removed, dragged and loaded anew (addBlock,
\* removeBlock, moveBlock, reorderByDrag), unless raw JSON has brought an id along.
THEOREM StorefrontTypes == Spec => []StorefrontTypeOK
<1> DEFINE Pages == BuilderInv /\ BookInv /\ PageInv /\ CartInv /\ CheckoutInv
           Types == BuilderTypes /\ BookTypes /\ PageTypes
<1>1. Init => Pages /\ Types
  BY StorefrontStart, BuilderTypesStart, BookTypesStart, PageTypesStart DEF Init
<1>2. Pages /\ Types /\ [Next]_storefrontVars => (Pages /\ Types)'
  <2> SUFFICES ASSUME Pages, Types, [Next]_storefrontVars PROVE (Pages /\ Types)'
    OBVIOUS
  <2>1. BuilderInv' /\ BuilderTypes'
    BY StorefrontStep, BuilderStep, BuilderTypesStep
  <2>2. BookInv' /\ BookTypes'
    BY StorefrontStep, BookStep, BookTypesStep
  <2>3. PageInv' /\ PageTypes'
    BY StorefrontStep, PageStep, PageTypesStep
  <2>4. CartInv'
    BY StorefrontStep, CartStep, CartAssumption
  <2>5. CheckoutInv'
    BY StorefrontStep, TypeStep, QuotesStep, OnceStep DEF CheckoutInv
  <2> QED
    BY <2>1, <2>2, <2>3, <2>4, <2>5
<1>3. Pages /\ Types => StorefrontTypeOK
  BY BookTyped, PageTyped DEF BuilderTypes, CartInv, CheckoutInv, StorefrontTypeOK
<1> QED
  BY <1>1, <1>2, <1>3, PTL DEF Spec

\* In every behaviour, for every set of blocks, plugins, services, providers, days and
\* appointments: while the page builder shows "Saved", the file holds the page, unless it
\* was edited during the save (handleSave and saveBuilderData).
THEOREM SavedIsWritten == Spec => []SavedMeansSaved
<1>1. Init => BuilderInv
  BY StorefrontStart
<1>2. BuilderInv /\ [Next]_storefrontVars => BuilderInv'
  BY StorefrontStep, BuilderStep
<1>3. BuilderInv => SavedMeansSaved
  BY DEF BuilderInv
<1> QED
  BY <1>1, <1>2, <1>3, PTL DEF Spec

\* The configuration that the page builder writes enables every plugin that one of its
\* sections requires, whatever is edited by hand meanwhile (mergePlugins).
THEOREM PluginsAreCovered == Spec => []PluginsCoverSections
<1>1. Init => BuilderInv
  BY StorefrontStart
<1>2. BuilderInv /\ [Next]_storefrontVars => BuilderInv'
  BY StorefrontStep, BuilderStep
<1>3. BuilderInv => PluginsCoverSections
  BY DEF BuilderInv
<1> QED
  BY <1>1, <1>2, <1>3, PTL DEF Spec

\* Whatever is chosen, gone back on and reset, and in whatever order lists are asked for,
\* fail and are asked for again: what a customer books, or moves an appointment to, was
\* offered for the choice on display, as long as it was picked from an answer to what was
\* asked for last (and, in the panel, to the details of its own appointment).  Of an answer
\* that overtakes (loadProviders, loadSlots, loadRescheduleSlots) nothing is proved.
THEOREM TimelyOffersWereForTheChoice == Spec => []TimelyOffersFit
<1>1. Init => BookInv /\ PageInv
  BY StorefrontStart
<1>2. BookInv /\ PageInv /\ [Next]_storefrontVars => BookInv' /\ PageInv'
  BY StorefrontStep, BookStep, PageStep
<1>3. BookInv /\ PageInv => TimelyOffersFit
  BY DEF BookInv, PageInv, TimelyOffersFit
<1> QED
  BY <1>1, <1>2, <1>3, PTL DEF Spec

\* The invariant of the cart (store/cart.ts and the cart service): whose cart each call is
\* about, and whether what is shown is right or will be.
THEOREM CartInvariance == Spec => []CartInv
<1>1. Init => CartInv
  BY StorefrontStart
<1>2. CartInv /\ [Next]_storefrontVars => CartInv'
  BY StorefrontStep, CartStep, CartAssumption
<1> QED
  BY <1>1, <1>2, PTL DEF Spec

\* When no call is under way, the page shows the cart that the backend would answer with,
\* or none, whichever calls ran together, failed or were refused (store/cart.ts), but for
\* answers that were lost or overtaken and changes of the cart without a call.
THEOREM CartShownIsTheCart == Spec => []CartShownIsCart
<1>1. CartInv => CartShownIsCart
  BY DEF CartInv, CartFollows, CartShownIsCart, Asks, Newest, ShowsNow, Readers, Underway
<1> QED
  BY <1>1, CartInvariance, PTL

\* What a guest put into a cart stays in a cart that the browser can reach and that can be
\* read (_get_or_create_cart and the session cookie), unless two first requests ran
\* together or the answer to one was lost.
THEOREM GuestCartsAreKept == Spec => []GuestCartKept
<1>1. CartInv => GuestCartKept
  BY DEF CartInv, SessionInv, GuestInv, GuestCartKept
<1> QED
  BY <1>1, CartInvariance, PTL
==============================================================================
