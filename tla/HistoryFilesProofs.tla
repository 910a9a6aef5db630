--------------------------- MODULE HistoryFilesProofs ---------------------------
(***************************************************************************)
(* Proofs about the files of HistoryFiles, for every number of files,      *)
(* records, slots and errors: the allocation cells, and what retention     *)
(* leaves on the flash.                                                    *)
(***************************************************************************)
EXTENDS HistoryRecordsProofs, FiniteSetTheorems, WellFoundedInduction

\* A leaf gets up to 20 seconds of a prover.
USE SMTT(20), ZenonT(20)

-----------------------------------------------------------------------------
(* Sets of names, and the count of the errors.                             *)

\* Every non-empty set of natural numbers has a least element.
LEMMA LeastNat ==
  ASSUME NEW S \in SUBSET Nat, S # {}
  PROVE  \E n \in S : \A m \in S : n <= m
<1> DEFINE T == {0 .. m : m \in S}
<1>1. T \subseteq FiniteSubsetsOf(Nat)
  <2> SUFFICES ASSUME NEW m \in S PROVE 0 .. m \in FiniteSubsetsOf(Nat)
    OBVIOUS
  <2>1. IsFiniteSet(0 .. m)
    BY FS_Interval
  <2>2. 0 .. m \in SUBSET Nat
    OBVIOUS
  <2> QED BY <2>1, <2>2 DEF FiniteSubsetsOf
<1>2. T # {}
  BY Zenon
<1>3. IsWellFoundedOn(StrictSubsetOrdering(Nat), FiniteSubsetsOf(Nat))
  BY FS_StrictSubsetOrderingWellFounded
<1>4. \E x \in T : \A y \in T : ~(<<y, x>> \in StrictSubsetOrdering(Nat))
  <2> HIDE DEF T
  <2> QED BY <1>1, <1>2, <1>3, WFMin, Zenon
<1>5. PICK n \in S : \A y \in T : ~(<<y, 0 .. n>> \in StrictSubsetOrdering(Nat))
  BY <1>4
<1>6. ASSUME NEW m \in S, m < n PROVE FALSE
  <2> DEFINE a == 0 .. m
             b == 0 .. n
  <2>1. a \in T /\ a \in SUBSET Nat /\ b \in SUBSET Nat /\ a \subseteq b /\ a # b
    BY <1>6
  <2>2. \A y \in T : ~(<<y, b>> \in StrictSubsetOrdering(Nat))
    BY <1>5
  <2> HIDE DEF a, b, T
  <2>3. <<a, b>> \in StrictSubsetOrdering(Nat)
    BY <2>1, Zenon DEF StrictSubsetOrdering
  <2> QED BY <2>1, <2>2, <2>3
<1> QED BY <1>5, <1>6

\* The elements of S that have fewer than m smaller ones.
Low(S, m) == {x \in S : Cardinality({y \in S : y < x}) < m}

\* Of a finite set of numbers, m members have fewer than m below them.
LEMMA LowCount ==
  ASSUME NEW S \in SUBSET Nat, IsFiniteSet(S), NEW k \in Nat, k <= Cardinality(S)
  PROVE  Cardinality(Low(S, k)) >= k
<1>0. Cardinality(S) \in Nat
  BY FS_CardinalityType
<1>1. \A m : IsFiniteSet(Low(S, m)) /\ Cardinality(Low(S, m)) \in Nat
  BY FS_Subset, FS_CardinalityType, Zenon DEF Low
<1> DEFINE Bad == {m \in Nat : m <= Cardinality(S) /\ ~(Cardinality(Low(S, m)) >= m)}
<1>2. SUFFICES ASSUME Bad # {} PROVE FALSE
  BY <1>0
<1>3. PICK m \in Bad : \A j \in Bad : m <= j
  <2>1. Bad \in SUBSET Nat
    OBVIOUS
  <2> HIDE DEF Bad
  <2> QED BY <1>2, <2>1, LeastNat
<1>4. m \in Nat /\ m <= Cardinality(S) /\ ~(Cardinality(Low(S, m)) >= m)
  OBVIOUS
<1>5. m # 0
  BY <1>1, <1>4
<1>6. m - 1 \in Nat /\ m - 1 \notin Bad
  <2>1. m - 1 \in Nat /\ ~(m <= m - 1)
    BY <1>4, <1>5
  <2> HIDE DEF Bad
  <2> QED BY <1>3, <2>1
<1>7. Cardinality(Low(S, m - 1)) >= m - 1
  BY <1>0, <1>4, <1>6
<1> HIDE DEF Bad
<1>8. \A x : IsFiniteSet({y \in S : y < x}) /\ Cardinality({y \in S : y < x}) \in Nat
  BY FS_Subset, FS_CardinalityType
<1>9. Low(S, m - 1) \subseteq Low(S, m)
  BY <1>4, <1>8, SMTT(40), ZenonT(20) DEF Low
<1>10. Cardinality(Low(S, m - 1)) <= Cardinality(Low(S, m))
  BY <1>1, <1>9, FS_Subset
<1>11. Cardinality(Low(S, m - 1)) = m - 1 /\ Cardinality(Low(S, m)) = m - 1
  BY <1>1, <1>4, <1>7, <1>10
<1>12. Low(S, m) = Low(S, m - 1)
  BY <1>1, <1>9, <1>11, FS_Subset
<1> DEFINE R == S \ Low(S, m)
<1>13. R # {}
  <2>1. SUFFICES ASSUME R = {} PROVE FALSE
    OBVIOUS
  <2>2. S = Low(S, m)
    BY <2>1 DEF Low
  <2> QED BY <1>0, <1>4, <1>11, <2>2
<1>14. PICK x \in R : \A y \in R : x <= y
  <2>1. R \in SUBSET Nat
    BY Zenon
  <2> HIDE DEF R
  <2> QED BY <1>13, <2>1, LeastNat
<1>15. {y \in S : y < x} \subseteq Low(S, m)
  <2> SUFFICES ASSUME NEW y \in S, y < x, y \notin Low(S, m) PROVE FALSE
    BY Zenon
  <2>1. y \in R /\ x \in Nat /\ y \in Nat
    BY <1>14
  <2> HIDE DEF R
  <2> QED BY <1>14, <2>1
<1>16. Cardinality({y \in S : y < x}) <= Cardinality(Low(S, m))
  BY <1>1, <1>15, FS_Subset
<1>17. Cardinality({y \in S : y < x}) < m
  BY <1>4, <1>8, <1>11, <1>16
<1>18. x \in Low(S, m)
  BY <1>17 DEF Low
<1> QED BY <1>18

\* Retention takes the first names of the directory.
LEMMA RemovedFirst ==
  ASSUME NEW d, DOMAIN d \subseteq Name, NEW x \in Removed(d), NEW y \in DOMAIN d \ Removed(d)
  PROVE  x < y
<1>1. IsFiniteSet(DOMAIN d)
  <2>1. IsFiniteSet(Name)
    BY HistoryAssumption, FS_Interval DEF Name
  <2> QED BY <2>1, FS_Subset
<1>2. x \in DOMAIN d /\ y \in DOMAIN d /\ x \in Nat /\ y \in Nat
  BY HistoryAssumption DEF Removed, Name
<1>3. SUFFICES ASSUME y <= x PROVE FALSE
  BY <1>2
<1> DEFINE n == Cardinality(DOMAIN d)
           seen == IF n < NamesCap THEN n ELSE NamesCap
           A == {z \in DOMAIN d : z < x}
           B == {z \in DOMAIN d : z < y}
<1>4. Cardinality(A) < seen - MaxFiles /\ ~(Cardinality(B) < seen - MaxFiles)
  BY <1>2 DEF Removed
<1>5. B \subseteq A
  BY <1>2, <1>3, HistoryAssumption DEF Name
<1>6. IsFiniteSet(A) /\ IsFiniteSet(B) /\ n \in Nat
  BY <1>1, FS_Subset, FS_CardinalityType
<1>7. Cardinality(A) \in Nat /\ Cardinality(B) \in Nat /\ Cardinality(B) <= Cardinality(A)
  BY <1>5, <1>6, FS_Subset, FS_CardinalityType
<1>8. seen - MaxFiles \in Int
  BY <1>6, HistoryAssumption
<1> HIDE DEF A, B, seen
<1> QED BY <1>4, <1>7, <1>8

\* And it leaves at most MaxFiles of them, if the listing saw all.
LEMMA RemovedCount ==
  ASSUME NEW d, DOMAIN d \subseteq Name, NEW n, n = Cardinality(DOMAIN d)
  PROVE  /\ IsFiniteSet(DOMAIN d) /\ n \in Nat
         /\ Cardinality(DOMAIN d \ Removed(d)) \in Nat
         /\ n <= NamesCap => Cardinality(DOMAIN d \ Removed(d)) <= MaxFiles
         /\ n > NamesCap /\ MaxFiles <= NamesCap => Cardinality(DOMAIN d \ Removed(d)) <= n - (NamesCap - MaxFiles)
<1> DEFINE S == DOMAIN d
           seen == IF n < NamesCap THEN n ELSE NamesCap
<1>1. IsFiniteSet(S) /\ S \in SUBSET Nat
  <2>1. IsFiniteSet(Name)
    BY HistoryAssumption, FS_Interval DEF Name
  <2> QED BY <2>1, FS_Subset, HistoryAssumption DEF Name
<1>2. n \in Nat /\ NamesCap \in Nat /\ MaxFiles \in Nat
  BY <1>1, FS_CardinalityType, HistoryAssumption
<1>3. Removed(d) = Low(S, seen - MaxFiles)
  BY DEF Removed, Low
<1>4. Removed(d) \subseteq S /\ IsFiniteSet(Removed(d)) /\ Cardinality(Removed(d)) \in Nat
  BY <1>1, FS_Subset, FS_CardinalityType, Zenon DEF Removed
<1>5. Cardinality(S \ Removed(d)) = n - Cardinality(Removed(d)) /\ Cardinality(S \ Removed(d)) \in Nat
  <2>1. S \intersect Removed(d) = Removed(d)
    BY <1>4
  <2>2. IsFiniteSet(S \ Removed(d)) /\ Cardinality(S \ Removed(d)) = Cardinality(S) - Cardinality(S \intersect Removed(d))
    BY <1>1, FS_Difference, Zenon
  <2>3. Cardinality(S \ Removed(d)) \in Nat
    BY <2>2, FS_CardinalityType
  <2> QED BY <2>1, <2>2, <2>3, Zenon
<1> HIDE DEF S
<1>6. seen >= MaxFiles => Cardinality(Removed(d)) >= seen - MaxFiles
  <2> SUFFICES ASSUME seen >= MaxFiles PROVE Cardinality(Low(S, seen - MaxFiles)) >= seen - MaxFiles
    BY <1>3
  <2>1. seen - MaxFiles \in Nat /\ seen - MaxFiles <= Cardinality(S)
    BY <1>2 DEF S
  <2> QED BY <1>1, <2>1, LowCount
<1>7. IsFiniteSet(S) /\ n \in Nat
  BY <1>1, <1>2
<1>8. n <= NamesCap => Cardinality(S \ Removed(d)) <= MaxFiles
  BY <1>2, <1>4, <1>5, <1>6
<1>9. n > NamesCap /\ MaxFiles <= NamesCap => Cardinality(S \ Removed(d)) <= n - (NamesCap - MaxFiles)
  BY <1>2, <1>4, <1>5, <1>6
<1> QED BY <1>5, <1>7, <1>8, <1>9 DEF S

\* There are finitely many names.
LEMMA NamesFinite ==
  ASSUME NEW S, S \subseteq Name
  PROVE  IsFiniteSet(S) /\ Cardinality(S) \in Nat
<1>1. IsFiniteSet(Name)
  BY HistoryAssumption, FS_Interval DEF Name
<1> QED BY <1>1, FS_Subset, FS_CardinalityType

\* The faults of a step are counted.
LEMMA FailNat ==
  ASSUME faults \in Nat, NEW k, Fail(k)
  PROVE  faults' \in Nat /\ IsFiniteSet(k) /\ Cardinality(k) \in Nat
         /\ faults' = faults + Cardinality(k)
<1>1. k \subseteq FaultKinds
  BY HistoryAssumption DEF Fail
<1>2. IsFiniteSet(FaultKinds)
  <2> DEFINE A == (((((({} \union {"write"}) \union {"close"}) \union {"sync"}) \union {"find"})
                        \union {"reopen"}) \union {"first"})
             B == (((((({} \union {"create"}) \union {"newfirst"}) \union {"list"}) \union {"remove"})
                        \union {"slotclose"}) \union {"power"})
  <2>1. IsFiniteSet({})
    BY FS_EmptySet
  <2>2. IsFiniteSet(A) /\ IsFiniteSet(B)
    BY <2>1, FS_AddElement, ZenonT(40)
  <2>3. FaultKinds = A \union B
    BY DEF FaultKinds
  <2> HIDE DEF A, B
  <2> QED BY <2>2, <2>3, FS_Union
<1>3. IsFiniteSet(k)
  BY <1>1, <1>2, FS_Subset
<1>4. Cardinality(k) \in Nat
  BY <1>3, FS_CardinalityType
<1> QED BY <1>3, <1>4 DEF Fail


\* A step with an error counts it.
LEMMA ErrorCounts ==
  ASSUME faults \in Nat, NEW k, Fail(k), k # {}
  PROVE  faults' \in Nat /\ faults + 1 <= faults'
<1>1. IsFiniteSet(k) /\ Cardinality(k) \in Nat /\ faults' \in Nat /\ faults' = faults + Cardinality(k)
  BY FailNat
<1>2. Cardinality(k) # 0
  BY <1>1, FS_EmptySet
<1> QED BY <1>1, <1>2

\* Errors are only ever added.
LEMMA FaultsGrow ==
  ASSUME faults \in Nat, [Next]_vars
  PROVE  faults' \in Nat /\ faults <= faults'
<1>1. ASSUME NEW k, Fail(k) PROVE faults' \in Nat /\ faults <= faults'
  <2>1. faults' = faults + Cardinality(k) /\ Cardinality(k) \in Nat
    BY <1>1, FailNat
  <2> QED BY <2>1
<1>2. faults' = faults \/ \E k : Fail(k)
  <2>1. CASE DoWrite
    BY <2>1 DEF DoWrite, WriteFast, WriteSlow
  <2>2. CASE DoClose \/ DoSync
    BY <2>2 DEF DoClose, DoSync
  <2>3. ASSUME NEW s \in Slots, NEW h \in {"dl", "wr"}, DoOpen(s, h) \/ DoSlotClose(s, h)
        PROVE  faults' = faults \/ \E k : Fail(k)
    BY <2>3 DEF DoOpen, DoSlotClose
  <2>4. ASSUME NEW nm \in Name, DoRemove(nm) PROVE faults' = faults
    BY <2>4 DEF DoRemove
  <2>5. CASE Reset
    BY <2>5 DEF Reset
  <2>6. CASE Sample \/ SetHistory \/ Upgrade \/ RequestReboot \/ Tick
    BY <2>6 DEF Sample, SetHistory, Upgrade, RequestReboot, Tick, fsVars
  <2>7. ASSUME NEW t \in 0..MaxTime, SetTime(t) PROVE faults' = faults
    BY <2>7 DEF SetTime, fsVars
  <2>8. CASE UNCHANGED vars
    BY <2>8 DEF vars, fsVars
  <2> QED BY <2>1, <2>2, <2>3, <2>4, <2>5, <2>6, <2>7, <2>8 DEF Next
<1> QED BY <1>1, <1>2

-----------------------------------------------------------------------------
(* The allocation cells.                                                   *)

\* The cell of the history file is linked only while the file is open, and that
\* of a slot only while the slot holds a handle: every path that forgets a handle
\* has closed it.  Only hist_write opens through a linked cell.
LinkInv ==
  /\ clock \in Nat /\ DOMAIN disk \subseteq Name /\ "name" \in DOMAIN file
  /\ slots \in [Slots -> SUBSET {"dl", "wr"}]
  /\ "hist" \in linked => IsOpen
  /\ \A s \in Slots : s \in linked => slots[s] # {}
  /\ cyclic \subseteq {"hist"}

\* hist_write keeps the cells in order, but for its own.
LEMMA WriteKeepsLinks ==
  ASSUME LinkInv, NEW r, WriteFast(r) \/ WriteSlow(r), UNCHANGED <<clock, slots>>
  PROVE  LinkInv'
<1>1. CASE WriteFast(r)
  BY <1>1 DEF WriteFast, LinkInv, IsOpen
<1>2. CASE WriteSlow(r)
  <2>1. PICK k \in SUBSET (Faults \ {"slotclose", "power"}) :
          Reopen(r, k) \/ Create(r, k) \/ NotCreated(r, k)
    BY <1>2 DEF WriteSlow
  <2>2. "hist" \notin Unlinked /\ Unlinked \subseteq linked
    BY <2>1 DEF Unlinked, LinkInv
  <2>3. CASE Reopen(r, k)
    <3>1. Retained(k) \in Name
      BY <2>3, ClosedNames DEF Reopen, CanReopen, LinkInv
    <3>2. DOMAIN disk' = DOMAIN disk
      BY <2>3, ClosedNames DEF Reopen, Appended
    <3>3. "name" \in DOMAIN file' /\ file'.name = Retained(k)
      BY <2>3 DEF Reopen, Handle
    <3>4. Retained(k) # NoName
      BY <3>1, HistoryAssumption DEF Name, NoName
    <3>5. cyclic' \subseteq {"hist"}
      BY <2>3 DEF Reopen, Cycle, LinkInv
    <3>6. QED
      BY <2>2, <2>3, <3>2, <3>3, <3>4, <3>5, HistoryAssumption, Zenon DEF Reopen, LinkInv, IsOpen, NoName
  <2>4. CASE Create(r, k)
    <3>1. DOMAIN disk' \subseteq DOMAIN disk \union {NewName}
      BY <2>4, ClosedNames DEF Create, Without, Appended, WithFile
    <3>2. "name" \in DOMAIN file' /\ file'.name = NewName
      BY <2>4 DEF Create, Handle
    <3>3. cyclic' \subseteq {"hist"}
      BY <2>4 DEF Create, Cycle, LinkInv
    <3>4. NewName \in Name /\ NewName # NoName
      BY NewNameIsName, HistoryAssumption DEF LinkInv, Name, NoName
    <3>5. linked' = linked \union {"hist"}
      BY <2>4 DEF Create
    <3>6. QED
      BY <3>1, <3>2, <3>3, <3>4, <3>5, HistoryAssumption DEF LinkInv, IsOpen, NoName
  <2>5. CASE NotCreated(r, k)
    <3>1. DOMAIN disk' \subseteq DOMAIN disk \union {NewName}
      BY <2>5, ClosedNames DEF NotCreated, WithFile
    <3>2. /\ "name" \in DOMAIN file'
          /\ linked' = Unlinked \/ (linked' = linked \union {"hist"} /\ file'.name = NewName)
      BY <2>5 DEF NotCreated, NoFile
    <3>3. cyclic' \subseteq {"hist"}
      BY <2>5 DEF NotCreated, Cycle, LinkInv
    <3>4. QED
      BY <2>2, <3>1, <3>2, <3>3, NewNameIsName, HistoryAssumption
      DEF LinkInv, IsOpen, NoName, Name
  <2>6. QED
    BY <2>1, <2>3, <2>4, <2>5
<1>3. QED
  BY <1>1, <1>2

\* A sync leaves the handle of the history file as it was.
LEMMA SyncKeepsHandle ==
  ASSUME "name" \in DOMAIN file, NEW k, HistSync(k)
  PROVE  "name" \in DOMAIN file' /\ file'.name = file.name /\ DOMAIN disk' = DOMAIN disk
BY ClosedNames DEF HistSync

\* Opening through a slot keeps the cells in order: every handle that the slot
\* held has been closed first.
LEMMA OpenKeepsLinks ==
  ASSUME LinkInv, NEW s \in Slots, NEW h \in {"dl", "wr"}, DoOpen(s, h)
  PROVE  LinkInv' /\ cyclic' = cyclic
<1>1. PICK k \in SUBSET (Faults \intersect {"slotclose", "sync"}), ok \in BOOLEAN :
        LET l == IF HeldHandles(s) # {} THEN linked \ {s} ELSE linked
            fenced == bad \/ "slotclose" \in k
        IN  /\ IF h = "dl" THEN HistSync(k \ {"slotclose"})
               ELSE "sync" \notin k /\ UNCHANGED <<disk, file, st, fate>>
            /\ IF ~fenced /\ ok
               THEN /\ slots' = [slots EXCEPT ![s] = {h}] /\ linked' = l \union {s}
                    /\ cyclic' = IF s \in l THEN cyclic \union {s} ELSE cyclic
               ELSE slots' = [slots EXCEPT ![s] = {}] /\ linked' = l /\ UNCHANGED cyclic
            /\ UNCHANGED clock
  BY Zenon DEF DoOpen
<1>2. "name" \in DOMAIN file' /\ file'.name = file.name /\ DOMAIN disk' = DOMAIN disk
  BY <1>1, SyncKeepsHandle DEF LinkInv
<1>3. s # "hist"
  BY HistoryAssumption
<1>4. s \in linked => HeldHandles(s) # {}
  BY DEF LinkInv, HeldHandles
<1>5. slots' \in [Slots -> SUBSET {"dl", "wr"}]
  BY <1>1 DEF LinkInv
<1>6. "hist" \in linked' => "hist" \in linked
  BY <1>1, <1>3
<1>7. cyclic' = cyclic
  BY <1>1, <1>4, Zenon
<1>8. ASSUME NEW x \in Slots, x \in linked' PROVE slots'[x] # {}
  BY <1>1, <1>4, <1>8 DEF LinkInv
<1>9. QED
  BY <1>1, <1>2, <1>5, <1>6, <1>7, <1>8 DEF LinkInv, IsOpen

\* What the reset of a rotation leaves on the flash has proper names.
LEMMA RotatedNames ==
  ASSUME clock \in Nat, DOMAIN disk \subseteq Name, NEW d \in Rotated
  PROVE  DOMAIN d \subseteq Name
<1>1. DOMAIN Closed({}) = DOMAIN disk
  BY ClosedNames
<1>2. DOMAIN WithFile(Closed({}), NewName) = DOMAIN disk \union {NewName}
  BY <1>1 DEF WithFile
<1>3. DOMAIN Appended(WithFile(Closed({}), NewName), NewName, Head(queue).rec, {})
        = DOMAIN disk \union {NewName}
  BY <1>2 DEF Appended
<1>4. QED
  BY <1>1, <1>2, <1>3, NewNameIsName DEF Rotated

\* LinkInv is inductive.
LEMMA LinkInvInit == Init => LinkInv
BY HistoryAssumption DEF Init, LinkInv, NoFile

\* Every step keeps the cells in order.
LEMMA LinkInvNext ==
  ASSUME LinkInv, [Next]_vars
  PROVE  LinkInv'
<1>1. CASE DoWrite
  <2>1. UNCHANGED <<clock, slots>>
    BY <1>1 DEF DoWrite
  <2>2. CASE MayWrite
    BY <1>1, <2>1, <2>2, WriteKeepsLinks DEF DoWrite
  <2>3. CASE ~MayWrite
    BY <1>1, <2>3 DEF DoWrite, LinkInv, IsOpen
  <2>4. QED
    BY <2>2, <2>3
<1>2. CASE DoClose
  <2>1. PICK k : disk' = Closed(k)
    BY <1>2 DEF DoClose
  <2>2. file' = NoFile /\ linked' = Unlinked /\ UNCHANGED <<clock, slots, cyclic>>
    BY <1>2 DEF DoClose
  <2>3. QED
    BY <2>1, <2>2, ClosedNames DEF LinkInv, Unlinked, NoFile
<1>3. CASE DoSync
  <2>1. "name" \in DOMAIN file' /\ file'.name = file.name /\ DOMAIN disk' = DOMAIN disk
    BY <1>3, SyncKeepsHandle DEF DoSync, LinkInv
  <2>2. UNCHANGED <<clock, slots, linked, cyclic>>
    BY <1>3 DEF DoSync, HistSync
  <2>3. QED
    BY <2>1, <2>2 DEF LinkInv, IsOpen
<1>4. ASSUME NEW nm \in Name, DoRemove(nm) PROVE LinkInv'
  BY <1>4 DEF DoRemove, Without, LinkInv, IsOpen
<1>5. ASSUME NEW s \in Slots, NEW h \in {"dl", "wr"}, DoOpen(s, h) PROVE LinkInv'
  BY <1>5, OpenKeepsLinks
<1>6. ASSUME NEW s \in Slots, NEW h \in {"dl", "wr"}, DoSlotClose(s, h) PROVE LinkInv'
  BY <1>6, HistoryAssumption DEF DoSlotClose, LinkInv, IsOpen
<1>7. CASE Sample
  BY <1>7 DEF Sample, LinkInv, IsOpen
<1>8. CASE SetHistory \/ Upgrade \/ RequestReboot
  BY <1>8 DEF SetHistory, Upgrade, RequestReboot, fsVars, LinkInv, IsOpen
<1>9. CASE Reset
  <2>1. DOMAIN disk' \subseteq Name
    BY <1>9, RotatedNames DEF Reset, LinkInv
  <2>2. file' = NoFile /\ linked' = {} /\ cyclic' = {} /\ slots' = [s \in Slots |-> {}]
        /\ UNCHANGED clock
    BY <1>9 DEF Reset
  <2>3. QED
    BY <2>1, <2>2 DEF LinkInv, NoFile
<1>10. CASE Tick
  BY <1>10 DEF Tick, fsVars, LinkInv, IsOpen
<1>11. ASSUME NEW t \in 0..MaxTime, SetTime(t) PROVE LinkInv'
  BY <1>11, HistoryAssumption DEF SetTime, fsVars, LinkInv, IsOpen
<1>12. CASE UNCHANGED vars
  BY <1>12 DEF vars, fsVars, LinkInv, IsOpen
<1>13. QED
  BY <1>1, <1>2, <1>3, <1>4, <1>5, <1>6, <1>7, <1>8, <1>9, <1>10, <1>11, <1>12 DEF Next

\* hist_write opens its file through a linked cell only behind an error.
LEMMA CycleNeedsError ==
  ASSUME LinkInv, faults \in Nat, [Next]_vars, cyclic' # {}
  PROVE  cyclic' = cyclic \/ faults' > 0
<1>1. CASE DoWrite
  <2>1. SUFFICES ASSUME MayWrite, WriteSlow(Head(queue).rec) PROVE cyclic' = cyclic \/ faults' > 0
    BY <1>1 DEF DoWrite, WriteFast
  <2> DEFINE r == Head(queue).rec
  <2>2. PICK k : Fail(k) /\ (Reopen(r, k) \/ Create(r, k) \/ NotCreated(r, k))
    BY <2>1 DEF WriteSlow
  <2>3. "hist" \notin Unlinked
    BY DEF Unlinked, LinkInv
  <2>4. CASE "first" \in k
    <3>1. faults' \in Nat /\ faults + 1 <= faults'
      BY <2>2, <2>4, ErrorCounts, Zenon
    <3> QED BY <3>1
  <2>5. CASE "first" \notin k
    BY <2>2, <2>3, <2>5 DEF Reopen, Create, NotCreated, Relinks, Cycle
  <2> QED BY <2>4, <2>5
<1>2. CASE DoClose \/ DoSync
  BY <1>2 DEF DoClose, DoSync, HistSync
<1>3. ASSUME NEW s \in Slots, NEW h \in {"dl", "wr"}, DoOpen(s, h) \/ DoSlotClose(s, h)
      PROVE  cyclic' = cyclic
  BY <1>3, OpenKeepsLinks DEF DoSlotClose
<1>4. ASSUME NEW nm \in Name, DoRemove(nm) PROVE cyclic' = cyclic
  BY <1>4 DEF DoRemove
<1>5. CASE Reset
  BY <1>5 DEF Reset
<1>6. CASE Sample \/ SetHistory \/ Upgrade \/ RequestReboot \/ Tick
  BY <1>6 DEF Sample, SetHistory, Upgrade, RequestReboot, Tick, fsVars
<1>7. ASSUME NEW t \in 0..MaxTime, SetTime(t) PROVE cyclic' = cyclic
  BY <1>7 DEF SetTime, fsVars
<1>8. CASE UNCHANGED vars
  BY <1>8 DEF vars, fsVars
<1> QED BY <1>1, <1>2, <1>3, <1>4, <1>5, <1>6, <1>7, <1>8 DEF Next

\* Whatever fails, no transfer makes the list of littlefs cyclic: close_or_poison,
\* slot_close_all and the taking of the handle out of OPEN_FILE are enough.  The
\* history file does so only behind an error.
THEOREM NeverRelinked == Spec => []NoRelink
<1> DEFINE IInv == LinkInv /\ faults \in Nat /\ (cyclic # {} => faults > 0)
<1>1. Init => IInv
  BY LinkInvInit DEF Init
<1>2. IInv /\ [Next]_vars => IInv'
  <2> SUFFICES ASSUME IInv, [Next]_vars PROVE IInv'
    OBVIOUS
  <2>1. LinkInv' /\ faults' \in Nat /\ faults <= faults'
    BY LinkInvNext, FaultsGrow
  <2>2. cyclic' # {} => cyclic' = cyclic \/ faults' > 0
    BY CycleNeedsError
  <2>3. ASSUME cyclic' # {} PROVE faults' > 0
    <3>1. CASE cyclic' = cyclic
      <4>1. faults > 0
        BY <2>3, <3>1
      <4> QED BY <2>1, <4>1
    <3> QED BY <2>2, <2>3, <3>1
  <2> QED BY <2>1, <2>3
<1>3. IInv => NoRelink
  BY DEF LinkInv, NoRelink
<1> QED BY <1>1, <1>2, <1>3, PTL DEF Spec

-----------------------------------------------------------------------------
(* Retention.                                                              *)

\* Every finite set of names that is not empty has a greatest element.
LEMMA GreatestName ==
  ASSUME NEW S, S \subseteq Name, S # {}
  PROVE  \E x \in S : \A y \in S : y <= x
<1> DEFINE T == {n \in Nat : Year - n \in S}
<1>1. T \in SUBSET Nat /\ T # {}
  <2>1. PICK x \in S : TRUE
    OBVIOUS
  <2>2. Year - x \in Nat /\ Year - (Year - x) = x
    BY HistoryAssumption DEF Name
  <2> QED BY <2>1, <2>2
<1>2. PICK n \in T : \A m \in T : n <= m
  <2> HIDE DEF T
  <2> QED BY <1>1, LeastNat
<1>3. ASSUME NEW y \in S PROVE y <= Year - n
  <2>1. Year - y \in Nat /\ Year - (Year - y) = y /\ y \in Int /\ Year \in Int /\ n \in Int
    BY HistoryAssumption DEF Name
  <2>2. Year - y \in T
    BY <2>1
  <2>3. n <= Year - y
    BY <1>2, <2>2
  <2> QED BY <2>1, <2>3
<1> QED BY <1>3

\* At most m members have fewer than m below them.
LEMMA LowAtMost ==
  ASSUME NEW S, S \subseteq Name, NEW m \in Nat
  PROVE  Cardinality(Low(S, m)) <= m
<1> DEFINE W == Low(S, m)
<1>1. W \subseteq S /\ W \subseteq Name /\ IsFiniteSet(W) /\ Cardinality(W) \in Nat
  <2>1. W \subseteq S
    BY DEF Low
  <2> QED BY <2>1, NamesFinite
<1>2. CASE W = {}
  <2>1. Cardinality(W) = 0
    BY <1>2, FS_EmptySet, Zenon
  <2> QED BY <2>1
<1>3. CASE W # {}
  <2>1. PICK x \in W : \A y \in W : y <= x
    <3> HIDE DEF W
    <3> QED BY <1>1, <1>3, GreatestName
  <2> DEFINE B == {y \in S : y < x}
  <2>2. Cardinality(B) < m
    BY <2>1 DEF Low
  <2>3. IsFiniteSet(B) /\ Cardinality(B) \in Nat
    <3>1. B \subseteq Name
      OBVIOUS
    <3> QED BY <3>1, NamesFinite
  <2> HIDE DEF W
  <2>4. W \ {x} \subseteq B
    BY <1>1, <2>1, HistoryAssumption DEF Name
  <2>5. Cardinality(W \ {x}) = Cardinality(W) - 1
    BY <1>1, <2>1, FS_RemoveElement, Zenon
  <2>6. Cardinality(W \ {x}) <= Cardinality(B)
    BY <2>3, <2>4, FS_Subset
  <2> QED BY <1>1, <2>2, <2>3, <2>5, <2>6 DEF W
<1> QED BY <1>2, <1>3

\* Retention removes something only if it leaves at least MaxFiles names.
LEMMA RemovedLeaves ==
  ASSUME NEW d, DOMAIN d \subseteq Name, Removed(d) # {}
  PROVE  Cardinality(DOMAIN d \ Removed(d)) >= MaxFiles
<1> DEFINE S == DOMAIN d
           n == Cardinality(S)
           seen == IF n < NamesCap THEN n ELSE NamesCap
<1>1. IsFiniteSet(S) /\ n \in Nat /\ NamesCap \in Nat /\ MaxFiles \in Nat
  BY NamesFinite, HistoryAssumption
<1>2. Removed(d) = Low(S, seen - MaxFiles)
  BY DEF Removed, Low
<1>3. Removed(d) \subseteq S /\ Cardinality(Removed(d)) \in Nat
  BY <1>1, FS_Subset, FS_CardinalityType, Zenon DEF Removed
<1>4. Cardinality(S \ Removed(d)) = n - Cardinality(Removed(d))
  <2>1. S \intersect Removed(d) = Removed(d)
    BY <1>3
  <2>2. Cardinality(S \ Removed(d)) = n - Cardinality(S \intersect Removed(d))
    BY <1>1, FS_Difference, Zenon
  <2> QED BY <2>1, <2>2, Zenon
<1>5. seen - MaxFiles \in Nat
  <2>1. PICK x \in S : Cardinality({y \in S : y < x}) < seen - MaxFiles
    BY <1>2 DEF Low
  <2>2. Cardinality({y \in S : y < x}) \in Nat
    <3>1. {y \in S : y < x} \subseteq Name
      OBVIOUS
    <3> QED BY <3>1, NamesFinite
  <2>3. seen \in Nat
    BY <1>1
  <2> HIDE DEF seen, S, n
  <2> QED BY <1>1, <2>1, <2>2, <2>3
<1>6. Cardinality(Removed(d)) <= seen - MaxFiles
  <2> HIDE DEF seen
  <2> QED BY <1>2, <1>5, LowAtMost
<1>7. seen <= n
  BY <1>1
<1>8. seen \in Nat
  BY <1>1
<1> HIDE DEF seen, n, S
<1>9. Cardinality(S \ Removed(d)) >= MaxFiles
  BY <1>1, <1>3, <1>4, <1>6, <1>7, <1>8
<1> QED BY <1>9 DEF S

\* At most MaxFiles files, and one more for each error.
CountInv == faults \in Nat /\ Cardinality(DOMAIN disk) <= MaxFiles + faults

\* A step that adds no file keeps the bound on their number.
LEMMA FewerFiles ==
  ASSUME HistInv, CountInv, DOMAIN disk' \subseteq DOMAIN disk, faults' \in Nat, faults <= faults'
  PROVE  CountInv'
<1>1. DOMAIN disk \subseteq Name /\ faults \in Nat /\ MaxFiles \in Nat
  BY HistoryAssumption DEF HistInv, CountInv, Sound
<1>2. IsFiniteSet(DOMAIN disk) /\ Cardinality(DOMAIN disk) \in Nat /\ Cardinality(DOMAIN disk') \in Nat
  BY <1>1, NamesFinite
<1>3. Cardinality(DOMAIN disk') <= Cardinality(DOMAIN disk)
  BY <1>2, FS_Subset
<1> QED BY <1>1, <1>2, <1>3 DEF CountInv

\* A rotation adds at most one file.
LEMMA OneMoreFile ==
  ASSUME HistInv, CountInv, NEW S, S \subseteq DOMAIN disk \union {NewName}
  PROVE  /\ IsFiniteSet(S) /\ Cardinality(S) \in Nat
         /\ Cardinality(S) <= MaxFiles + faults + 1
<1>1. DOMAIN disk \subseteq Name /\ faults \in Nat /\ MaxFiles \in Nat /\ NewName \in Name
  BY HistoryAssumption, NewNameIsName DEF HistInv, CountInv, Sound
<1> DEFINE T == DOMAIN disk \union {NewName}
<1>2. IsFiniteSet(DOMAIN disk) /\ Cardinality(DOMAIN disk) \in Nat /\ Cardinality(S) \in Nat /\ IsFiniteSet(S)
  BY <1>1, NamesFinite
<1>3. IsFiniteSet(T) /\ Cardinality(T) \in Nat /\ Cardinality(T) <= Cardinality(DOMAIN disk) + 1
  <2>1. /\ IsFiniteSet(T)
        /\ Cardinality(T) = IF NewName \in DOMAIN disk THEN Cardinality(DOMAIN disk) ELSE Cardinality(DOMAIN disk) + 1
    BY <1>2, FS_AddElement, Zenon
  <2> QED BY <1>2, <2>1
<1>4. Cardinality(S) <= Cardinality(T)
  BY <1>3, FS_Subset
<1> QED BY <1>1, <1>2, <1>3, <1>4 DEF CountInv

\* A step with an error may leave one more file.
LEMMA ErrorAddsFile ==
  ASSUME HistInv, CountInv, NEW k, Fail(k), k # {}, DOMAIN disk' \subseteq DOMAIN disk \union {NewName}
  PROVE  CountInv'
<1>1. Cardinality(DOMAIN disk') \in Nat /\ Cardinality(DOMAIN disk') <= MaxFiles + faults + 1
  BY OneMoreFile
<1>2. faults' \in Nat /\ faults + 1 <= faults' /\ faults \in Nat /\ MaxFiles \in Nat
  BY ErrorCounts, HistoryAssumption DEF CountInv
<1> QED BY <1>1, <1>2 DEF CountInv

\* What a step rotates out has smaller names than MaxFiles files that stay.
Retires == \A nm \in RotatedOut : Cardinality({x \in DOMAIN disk' : x > nm}) >= MaxFiles

\* hist_write, a new file is created and the first names are cleaned up.
LEMMA CreateRetires ==
  ASSUME HistInv, CountInv, queue # <<>>, Head(queue).op = "write", NEW k, Fail(k),
         Create(Head(queue).rec, k)
  PROVE  CountInv' /\ Retires
<1> DEFINE r == Head(queue).rec
           c == Closed(k)
           f == ClosedFate(k)
           nm == NewName
           d == WithFile(c, nm)
           all == Appended(d, nm, r, k)
           g == Mark(f, {r}, NewFate(k))
<1>0. PICK removed \in Cleaned(all, k) :
        /\ disk' = Without(all, removed)
        /\ fate' = Mark(g, UNION {Recs(all[x]) : x \in removed}, "retired")
  BY DEF Create
<1> DEFINE rs == UNION {Recs(all[x]) : x \in removed}
<1>1. /\ Sound(c, f) /\ f \in Seq(Fates) /\ DOMAIN f = DOMAIN fate
      /\ \A x \in Held(c) : x < r
  BY ClosedIs
<1>2. r \in DOMAIN fate /\ r \in Nat
  BY HeadWaits
<1>3. nm \in Name
  BY NewNameIsName DEF HistInv
<1>4. removed \subseteq Removed(all) /\ Removed(all) \subseteq DOMAIN all
  BY <1>0 DEF Cleaned, Removed
<1>5. DOMAIN c = DOMAIN disk
  BY ClosedNames
<1> HIDE DEF r, c, f
<1>6. Sound(d, f) /\ Held(d) = Held(c) /\ nm \in DOMAIN d
  BY <1>1, <1>3, AddsFile
<1>7. DOMAIN d = DOMAIN disk \union {NewName}
  BY <1>5 DEF WithFile
<1> HIDE DEF d, nm
<1>8. /\ Sound(all, g) /\ DOMAIN all = DOMAIN d
      /\ Held(all) = IF "sync" \in k THEN Held(d) ELSE Held(d) \union {r}
  <2>1. Newest(d, f, nm, r)
    BY <1>1, <1>2, <1>6 DEF Newest
  <2>2. AppendsOne(d, f, nm, r, k)
    BY <1>6, <2>1, AppendSound, Zenon
  <2> QED BY <2>2 DEF AppendsOne
<1>9. DOMAIN g = DOMAIN fate /\ g \in Seq(Fates) /\ g[r] # "retired"
  <2>1. NewFate(k) \in Fates /\ NewFate(k) # "retired"
    BY DEF NewFate, Fates
  <2> QED BY <1>1, <1>2, <2>1, MarkIs
<1>10. "sync" \notin k => r \in Recs(all[nm])
  <2> SUFFICES ASSUME "sync" \notin k PROVE r \in Recs(all[nm])
    OBVIOUS
  <2>1. d[nm] \in Seq(Nat) /\ all[nm] = Append(d[nm], r)
    BY <1>6 DEF Appended, Sound
  <2>2. Len(d[nm]) + 1 \in DOMAIN Append(d[nm], r) /\ Append(d[nm], r)[Len(d[nm]) + 1] = r
    BY <1>2, <2>1
  <2> QED BY <2>1, <2>2 DEF Recs
<1>11. DOMAIN all \subseteq Name /\ DOMAIN all = DOMAIN disk \union {NewName}
  BY <1>7, <1>8 DEF Sound
<1> HIDE DEF all, g
<1>12. DOMAIN disk' = DOMAIN all \ removed
  BY <1>0 DEF Without
<1>13. CountInv'
  <2>1. CASE k # {}
    BY <1>11, <1>12, <2>1, ErrorAddsFile
  <2>2. CASE k = {}
    <3>1. removed = Removed(all)
      BY <1>0, <2>2 DEF Cleaned
    <3> DEFINE n == Cardinality(DOMAIN all)
    <3>2. n \in Nat /\ n <= MaxFiles + faults + 1
      BY <1>11, OneMoreFile
    <3>3. /\ Cardinality(DOMAIN disk') \in Nat
          /\ n <= NamesCap => Cardinality(DOMAIN disk') <= MaxFiles
          /\ n > NamesCap /\ MaxFiles <= NamesCap => Cardinality(DOMAIN disk') <= n - (NamesCap - MaxFiles)
      BY <1>11, <1>12, <3>1, RemovedCount
    <3>4. MaxFiles \in Nat /\ NamesCap \in Nat /\ MaxFiles < NamesCap /\ faults \in Nat
      BY HistoryAssumption DEF CountInv
    <3>5. faults' \in Nat /\ faults <= faults'
      <4>1. faults' = faults + Cardinality(k) /\ Cardinality(k) \in Nat
        BY <3>4, FailNat
      <4> QED BY <3>4, <4>1
    <3> HIDE DEF n
    <3> QED BY <3>2, <3>3, <3>4, <3>5 DEF CountInv
  <2> QED BY <2>1, <2>2
<1>14. RotatedOut \subseteq removed
  <2>1. DOMAIN disk \ DOMAIN disk' \subseteq removed
    BY <1>11, <1>12
  <2>2. ASSUME fate'[r] = "retired" PROVE nm \in removed
    <3>1. fate'[r] = IF r \in rs THEN "retired" ELSE g[r]
      <4> HIDE DEF rs
      <4>1. fate' = Mark(g, rs, "retired")
        BY <1>0 DEF rs
      <4>2. "retired" \in Fates
        BY DEF Fates
      <4> QED BY <1>2, <1>9, <4>1, <4>2, MarkIs
    <3>2. r \in rs
      BY <1>9, <2>2, <3>1
    <3>3. PICK x \in removed : r \in Recs(all[x])
      BY <3>2
    <3>4. x \in DOMAIN all /\ r \in Held(all)
      BY <1>4, <3>3 DEF Held
    <3>5. "sync" \notin k
      <4>1. ~(r < r)
        BY <1>2
      <4> QED BY <1>1, <1>6, <1>8, <3>4, <4>1
    <3>6. x = nm
      BY <1>6, <1>8, <1>10, <3>3, <3>4, <3>5 DEF Sound
    <3> QED BY <3>3, <3>6
  <2> QED BY <2>1, <2>2 DEF RotatedOut, r, nm
<1>15. ASSUME NEW x \in RotatedOut PROVE Cardinality({y \in DOMAIN disk' : y > x}) >= MaxFiles
  <2> DEFINE K == DOMAIN all \ Removed(all)
             G == {y \in DOMAIN disk' : y > x}
  <2>1. x \in Removed(all) /\ x \in Name
    BY <1>4, <1>11, <1>14
  <2>2. Cardinality(K) >= MaxFiles
    BY <1>11, <2>1, RemovedLeaves
  <2>3. K \subseteq G
    <3> SUFFICES ASSUME NEW y \in K PROVE y \in G
      OBVIOUS
    <3>1. x < y
      BY <1>11, <2>1, RemovedFirst
    <3>2. x \in Int /\ y \in Int
      BY <1>11, <2>1, HistoryAssumption DEF Name
    <3> QED BY <1>4, <1>12, <3>1, <3>2
  <2>4. G \subseteq Name /\ K \subseteq Name
    BY <1>11, <1>12
  <2> HIDE DEF K, G
  <2>5. IsFiniteSet(G) /\ Cardinality(G) \in Nat /\ Cardinality(K) \in Nat
    BY <2>4, NamesFinite
  <2>6. Cardinality(K) <= Cardinality(G)
    BY <2>3, <2>5, FS_Subset
  <2>7. Cardinality(G) >= MaxFiles
    BY <2>2, <2>5, <2>6, HistoryAssumption
  <2> QED BY <2>7 DEF G
<1> QED BY <1>13, <1>15 DEF Retires

\* hist_write: in the other cases no name goes.
LEMMA WriteRetires ==
  ASSUME HistInv, CountInv, DoWrite
  PROVE  CountInv' /\ Retires
<1> DEFINE r == Head(queue).rec
<1>1. queue # <<>> /\ Head(queue).op = "write"
  BY DEF DoWrite, Take
<1>2. r \in DOMAIN fate /\ r \in Nat /\ fate \in Seq(Fates)
  BY <1>1, HeadWaits DEF HistInv, Sound
<1>3. ASSUME DOMAIN disk \subseteq DOMAIN disk', fate'[r] # "retired" PROVE Retires
  BY <1>3 DEF Retires, RotatedOut
<1>4. CASE MayWrite /\ WriteFast(r)
  <2>1. /\ fate' = Mark(fate, {r}, IF Visible THEN "buffered" ELSE "orphaned")
        /\ disk' = disk /\ faults' = faults
    BY <1>4 DEF WriteFast
  <2> HIDE DEF r
  <2>2. "buffered" \in Fates /\ "orphaned" \in Fates
    BY DEF Fates
  <2>3. fate'[r] # "retired"
    BY <1>2, <2>1, <2>2, MarkIs
  <2>4. CountInv'
    BY <2>1 DEF CountInv
  <2> QED BY <1>3, <2>1, <2>3, <2>4
<1>5. CASE ~MayWrite
  <2>1. fate' = Mark(fate, {r}, "lost") /\ disk' = disk /\ faults' = faults
    BY <1>5 DEF DoWrite
  <2> HIDE DEF r
  <2>2. "lost" \in Fates
    BY DEF Fates
  <2>3. fate'[r] # "retired"
    BY <1>2, <2>1, <2>2, MarkIs
  <2>4. CountInv'
    BY <2>1 DEF CountInv
  <2> QED BY <1>3, <2>1, <2>3, <2>4
<1>6. CASE MayWrite /\ WriteSlow(r)
  <2>1. PICK k : Fail(k) /\ (Reopen(r, k) \/ Create(r, k) \/ NotCreated(r, k))
    BY <1>6 DEF WriteSlow
  <2>2. DOMAIN Closed(k) = DOMAIN disk
    BY ClosedNames
  <2>3. ClosedFate(k) \in Seq(Fates) /\ DOMAIN ClosedFate(k) = DOMAIN fate
    BY <1>1, ClosedIs
  <2>4. faults \in Nat /\ faults' \in Nat /\ faults <= faults'
    <3>1. faults' = faults + Cardinality(k) /\ Cardinality(k) \in Nat /\ faults \in Nat
      BY <2>1, FailNat DEF CountInv
    <3> QED BY <3>1
  <2>5. CASE Reopen(r, k)
    <3>1. disk' = Appended(Closed(k), Retained(k), r, k)
          /\ fate' = Mark(ClosedFate(k), {r}, NewFate(k))
      BY <2>5 DEF Reopen
    <3> HIDE DEF r
    <3>2. DOMAIN disk' = DOMAIN disk
      BY <2>2, <3>1 DEF Appended
    <3>3. NewFate(k) \in Fates /\ NewFate(k) # "retired"
      BY DEF NewFate, Fates
    <3>4. fate'[r] # "retired"
      BY <1>2, <2>3, <3>1, <3>3, MarkIs
    <3> QED BY <1>3, <2>4, <3>2, <3>4, FewerFiles
  <2>6. CASE Create(r, k)
    BY <1>1, <2>1, <2>6, CreateRetires
  <2>7. CASE NotCreated(r, k)
    <3>1. /\ disk' = Closed(k) \/ disk' = WithFile(Closed(k), NewName)
          /\ fate' = Mark(ClosedFate(k), {r}, "lost")
          /\ Cardinality(k \intersect {"create", "newfirst"}) = 1
      BY <2>7 DEF NotCreated
    <3> HIDE DEF r
    <3>2. DOMAIN disk \subseteq DOMAIN disk' /\ DOMAIN disk' \subseteq DOMAIN disk \union {NewName}
      BY <2>2, <3>1 DEF WithFile
    <3>3. "lost" \in Fates
      BY DEF Fates
    <3>4. fate'[r] # "retired"
      BY <1>2, <2>3, <3>1, <3>3, MarkIs
    <3>5. k # {}
      <4>1. SUFFICES ASSUME k = {} PROVE FALSE
        OBVIOUS
      <4>2. k \intersect {"create", "newfirst"} = {} /\ Cardinality({}) = 0
        BY <4>1, FS_EmptySet
      <4>3. Cardinality(k \intersect {"create", "newfirst"}) = 0
        BY <4>2, Zenon
      <4> QED BY <3>1, <4>3
    <3>6. CountInv'
      BY <2>1, <3>2, <3>5, ErrorAddsFile
    <3> QED BY <1>3, <3>2, <3>4, <3>6
  <2> QED BY <2>1, <2>5, <2>6, <2>7
<1> QED BY <1>4, <1>5, <1>6 DEF DoWrite

\* A reset leaves at most the file that a rotation had begun.
LEMMA ResetRetires ==
  ASSUME HistInv, CountInv, Reset
  PROVE  CountInv' /\ (queue # <<>> /\ Head(queue).op = "write" => Retires)
<1>1. DOMAIN disk \subseteq DOMAIN disk' /\ CountInv'
  <2>1. CASE disk' = disk /\ faults' = faults
    BY <2>1 DEF CountInv
  <2>2. CASE Fail({"power"}) /\ disk' \in Rotated
    <3>1. DOMAIN Closed({}) = DOMAIN disk
      BY ClosedNames
    <3>2. DOMAIN disk \subseteq DOMAIN disk' /\ DOMAIN disk' \subseteq DOMAIN disk \union {NewName}
      BY <2>2, <3>1 DEF Rotated, Appended, WithFile
    <3>3. {"power"} # {}
      OBVIOUS
    <3> QED BY <2>2, <3>2, <3>3, ErrorAddsFile
  <2> QED BY <2>1, <2>2 DEF Reset
<1>2. ASSUME queue # <<>>, Head(queue).op = "write" PROVE Retires
  <2>1. Head(queue).rec \in DOMAIN fate /\ fate[Head(queue).rec] = "queued"
    BY <1>2, HeadWaits
  <2>2. fate'[Head(queue).rec] # "retired"
    BY <2>1 DEF Reset
  <2> QED BY <1>1, <2>2 DEF Retires, RotatedOut
<1> QED BY <1>1, <1>2

\* The other steps add no file and take no write command.
LEMMA OthersRetire ==
  ASSUME HistInv, CountInv, [Next]_vars, ~DoWrite, ~Reset
  PROVE  CountInv' /\ ~Take("write")
<1>1. queue \in Seq(Cmds) /\ faults \in Nat
  BY DEF HistInv, Ordered, Cmds, CountInv
<1>2. ASSUME queue' = queue \/ \E c \in Cmds : queue' = Append(queue, c)
      PROVE  ~Take("write")
  <2> SUFFICES ASSUME queue # <<>>, queue' = Tail(queue) PROVE FALSE
    BY DEF Take
  <2>1. Len(Tail(queue)) = Len(queue) - 1 /\ Len(queue) \in Nat
    BY <1>1
  <2>2. CASE queue' = queue
    BY <2>1, <2>2
  <2>3. ASSUME NEW c \in Cmds, queue' = Append(queue, c) PROVE FALSE
    <3>1. Len(Append(queue, c)) = Len(queue) + 1
      BY <1>1
    <3> QED BY <2>1, <2>3, <3>1
  <2> QED BY <1>2, <2>2, <2>3
<1>3. \A op \in {"write", "close", "sync"}, r \in Nat : Cmd(op, r) \in Cmds
  BY DEF Cmd, Cmds
<1>4. DOMAIN disk' \subseteq DOMAIN disk /\ ~Take("write")
  <2>1. CASE DoClose
    BY <2>1, ClosedNames DEF DoClose, Take
  <2>2. CASE DoSync
    BY <2>2, ClosedNames DEF DoSync, HistSync, Take
  <2>3. ASSUME NEW s \in Slots, NEW h \in {"dl", "wr"}, DoOpen(s, h)
        PROVE  DOMAIN disk' \subseteq DOMAIN disk /\ ~Take("write")
    <3>1. queue' = queue
      BY <2>3 DEF DoOpen
    <3>2. DOMAIN disk' = DOMAIN disk
      BY <2>3, ClosedNames DEF DoOpen, HistSync
    <3> QED BY <1>2, <3>1, <3>2
  <2>4. ASSUME NEW s \in Slots, NEW h \in {"dl", "wr"}, DoSlotClose(s, h)
        PROVE  DOMAIN disk' \subseteq DOMAIN disk /\ ~Take("write")
    BY <1>2, <2>4 DEF DoSlotClose
  <2>5. ASSUME NEW nm \in Name, DoRemove(nm) PROVE DOMAIN disk' \subseteq DOMAIN disk /\ ~Take("write")
    BY <1>2, <2>5 DEF DoRemove, Without
  <2>6. CASE Sample
    <3>1. Len(fate) + 1 \in Nat
      BY DEF HistInv, Sound
    <3>2. queue' = queue \/ \E c \in Cmds : queue' = Append(queue, c)
      BY <1>3, <2>6, <3>1 DEF Sample, TrySend
    <3> QED BY <1>2, <2>6, <3>2 DEF Sample
  <2>7. CASE SetHistory \/ Upgrade \/ RequestReboot
    <3>1. queue' = queue \/ \E c \in Cmds : queue' = Append(queue, c)
      BY <1>3, <2>7 DEF SetHistory, Upgrade, RequestReboot, RebootSync, TrySend
    <3>2. disk' = disk
      BY <2>7 DEF SetHistory, Upgrade, RequestReboot, fsVars
    <3> QED BY <1>2, <3>1, <3>2
  <2>8. CASE Tick
    BY <1>2, <2>8 DEF Tick, fsVars
  <2>9. ASSUME NEW t \in 0..MaxTime, SetTime(t) PROVE DOMAIN disk' \subseteq DOMAIN disk /\ ~Take("write")
    BY <1>2, <2>9 DEF SetTime, fsVars
  <2>10. CASE UNCHANGED vars
    BY <1>2, <2>10 DEF vars, fsVars
  <2> QED BY <2>1, <2>2, <2>3, <2>4, <2>5, <2>6, <2>7, <2>8, <2>9, <2>10 DEF Next
<1>5. faults' \in Nat /\ faults <= faults'
  BY <1>1, FaultsGrow
<1> QED BY <1>4, <1>5, FewerFiles

\* However the clock is set and whatever fails, retention leaves at most MaxFiles
\* files and one more per error, and it removes a file only while MaxFiles with
\* greater names stay.
THEOREM NewestStay == Spec => RetentionNewest
<1>1. Init => CountInv
  <2>1. SUFFICES ASSUME Init PROVE CountInv
    OBVIOUS
  <2>2. DOMAIN disk = {} /\ faults = 0
    BY <2>1 DEF Init
  <2>3. Cardinality(DOMAIN disk) = 0
    BY <2>2, FS_EmptySet, Zenon
  <2> QED BY <2>2, <2>3, HistoryAssumption DEF CountInv
<1>2. HistInv /\ CountInv /\ [Next]_vars => CountInv' /\ (Take("write") => Retires)
  <2> SUFFICES ASSUME HistInv, CountInv, [Next]_vars PROVE CountInv' /\ (Take("write") => Retires)
    OBVIOUS
  <2>1. CASE DoWrite
    BY <2>1, WriteRetires
  <2>2. CASE Reset
    BY <2>2, ResetRetires DEF Take
  <2>3. CASE ~DoWrite /\ ~Reset
    BY <2>3, OthersRetire
  <2> QED BY <2>1, <2>2, <2>3
<1>3. HistInv /\ CountInv /\ [Next]_vars => CountInv'
  BY <1>2
<1>4. HistInv /\ CountInv /\ [Next]_vars
        => [/\ Cardinality(DOMAIN disk') <= MaxFiles + faults'
            /\ Take("write") => \A nm \in RotatedOut :
                 Cardinality({x \in DOMAIN disk' : x > nm}) >= MaxFiles]_vars
  BY <1>2 DEF CountInv, Retires
<1> QED BY <1>1, <1>3, <1>4, HistInvInit, HistInvNext, PTL DEF Spec, RetentionNewest
=================================================================================
