------------------------- MODULE KernelRetentionProofs -------------------------
(***************************************************************************)
(* Proofs about kernel retention, for any number of releases and any       *)
(* settings: RetentionInv is preserved by every action of both programs;  *)
(* on top of it, the bound a retention run keeps, the kernel that GRUB      *)
(* starts as long as no selection is taken back, and KernelPromise.        *)
(***************************************************************************)
EXTENDS KernelRetention, FiniteSetTheorems, WellFoundedInduction, TLAPS

\* A nonempty set of naturals has a least element.
LEMMA LeastNatural ==
  ASSUME NEW S \in SUBSET Nat, S # {}
  PROVE  \E k \in S : \A j \in S : k <= j
  <1> DEFINE less == {p \in Nat \X Nat : p[1] < p[2]}
  <1>1. IsWellFoundedOn(less, Nat)
    BY NatLessThanWellFounded, Zenon DEF OpToRel
  <1>2. PICK k \in S : \A j \in S : ~(<<j, k>> \in less)
    BY <1>1, WFMin, Zenon
  <1>3. ASSUME NEW j \in S PROVE k <= j
    <2>1. <<j, k>> \notin less
      BY <1>2
    <2>2. QED
      BY <2>1
  <1>4. QED
    BY <1>3

\* The n newest of a finite set are at most n: of more than n the least would
\* have n newer ones beside it.
LEMMA NewestOfBounded ==
  ASSUME NEW S \in SUBSET Nat, IsFiniteSet(S), NEW n \in Nat
  PROVE  Cardinality(NewestOf(S, n)) <= n
  <1> DEFINE N == NewestOf(S, n)
  <1>1. N \subseteq S
    BY DEF NewestOf
  <1>2. IsFiniteSet(N) /\ Cardinality(N) \in Nat
    BY <1>1, FS_Subset, FS_CardinalityType
  <1> SUFFICES ASSUME Cardinality(N) > n PROVE FALSE
    BY <1>2
  <1>3. N # {}
    BY <1>2, FS_EmptySet
  <1>4. PICK k \in N : \A j \in N : k <= j
    BY <1>1, <1>3, LeastNatural
  <1> DEFINE A == {j \in S : j > k}
  <1>5. N \ {k} \subseteq A
    <2>1. ASSUME NEW j \in N \ {k} PROVE j \in A
      <3>1. j \in S /\ j \in Nat /\ k \in Nat /\ k <= j
        BY <1>1, <1>4
      <3>2. QED
        BY <3>1
    <2>2. QED
      BY <2>1
  <1>6. IsFiniteSet(A) /\ Cardinality(A) \in Nat
    BY FS_Subset, FS_CardinalityType
  <1>7. Cardinality(N \ {k}) = Cardinality(N) - 1
    BY <1>2, <1>4, FS_RemoveElement
  <1>8. Cardinality(N \ {k}) <= Cardinality(A)
    BY <1>5, <1>6, FS_Subset
  <1>9. Cardinality(A) < n
    BY <1>4 DEF NewestOf
  <1>10. QED
    BY <1>2, <1>6, <1>7, <1>8, <1>9

\* What is not among the n newest has a newer kernel in the set.
LEMMA NewerThanDropped ==
  ASSUME NEW S, NEW n \in Nat \ {0}, NEW k \in S \ NewestOf(S, n)
  PROVE  \E j \in S : j > k
  <1> SUFFICES ASSUME \A j \in S : ~(j > k) PROVE FALSE
    OBVIOUS
  <1>1. {j \in S : j > k} = {}
    OBVIOUS
  <1>2. Cardinality({j \in S : j > k}) = 0
    BY <1>1, FS_EmptySet
  <1>3. QED
    BY <1>2 DEF NewestOf

\* Every initial state satisfies the invariant.
LEMMA RetentionInit == Init => RetentionInv
  BY RetentionAssumption
     DEF Init, RetentionInv, TypeOK, RunningKept, NewKernelKept,
         PlansSpareRunning, PlansSpareTarget, TargetIsNewest, NewerStays,
         HelperShape, Kernels, AnyKernel, Official, UpdaterSteps, HelperSteps

\* Every step of either program preserves it.
LEMMA RetentionStep == RetentionInv /\ [Next]_vars => RetentionInv'
  <1> SUFFICES ASSUME RetentionInv, [Next]_vars PROVE RetentionInv'
    OBVIOUS
  <1> USE RetentionAssumption
      DEF RetentionInv, TypeOK, RunningKept, NewKernelKept, PlansSpareRunning,
          PlansSpareTarget, TargetIsNewest, NewerStays, HelperShape, Kernels,
          AnyKernel, Official, UpdaterSteps, HelperSteps, machine, updater,
          helper
  <1>1. CASE Accept
    <2>1. TypeOK'
      BY <1>1 DEF Accept, UGoto
    <2>2. RunningKept'
      BY <1>1 DEF Accept, UGoto
    <2>3. NewKernelKept'
      BY <1>1 DEF Accept, UGoto
    <2>4. PlansSpareRunning'
      BY <1>1 DEF Accept, UGoto
    <2>5. PlansSpareTarget'
      BY <1>1 DEF Accept, UGoto
    <2>6. TargetIsNewest'
      BY <1>1 DEF Accept, UGoto
    <2>7. NewerStays'
      BY <1>1 DEF Accept, UGoto
    <2>8. HelperShape'
      BY <1>1 DEF Accept, UGoto
    <2>9. QED
      BY <2>1, <2>2, <2>3, <2>4, <2>5, <2>6, <2>7, <2>8 DEF RetentionInv
  <1>2. CASE Unpack
    BY <1>2 DEF Unpack, UGoto
  <1>3. CASE Select
    BY <1>3 DEF Select, UGoto
  <1>4. CASE Selected
    BY <1>4 DEF Selected, UGoto
  <1>5. CASE Unselect
    BY <1>5 DEF Unselect, UEnd, UGoto
  <1>6. CASE ChooseSuperseded
    <2>1. TypeOK'
      BY <1>6 DEF ChooseSuperseded, UGoto
    <2>2. RunningKept'
      BY <1>6 DEF ChooseSuperseded, UGoto
    <2>3. NewKernelKept'
      BY <1>6 DEF ChooseSuperseded, UGoto
    <2>4. PlansSpareRunning'
      BY <1>6 DEF ChooseSuperseded, UGoto
    <2>5. PlansSpareTarget'
      BY <1>6 DEF ChooseSuperseded, UGoto
    <2>6. TargetIsNewest'
      BY <1>6 DEF ChooseSuperseded, UGoto
    <2>7. NewerStays'
      BY <1>6 DEF ChooseSuperseded, UGoto
    <2>8. HelperShape'
      BY <1>6 DEF ChooseSuperseded, UGoto
    <2>9. QED
      BY <2>1, <2>2, <2>3, <2>4, <2>5, <2>6, <2>7, <2>8 DEF RetentionInv
  <1>7. CASE Prune
    <2>1. TypeOK'
      BY <1>7 DEF Prune, UGoto
    <2>2. RunningKept'
      BY <1>7 DEF Prune, UGoto
    <2>3. NewKernelKept'
      BY <1>7 DEF Prune, UGoto
    <2>4. PlansSpareRunning'
      BY <1>7 DEF Prune, UGoto
    <2>5. PlansSpareTarget'
      BY <1>7 DEF Prune, UGoto
    <2>6. TargetIsNewest'
      BY <1>7 DEF Prune, UGoto
    <2>7. NewerStays'
      BY <1>7 DEF Prune, UGoto
    <2>8. HelperShape'
      BY <1>7 DEF Prune, UGoto
    <2>9. QED
      BY <2>1, <2>2, <2>3, <2>4, <2>5, <2>6, <2>7, <2>8 DEF RetentionInv
  <1>8. CASE Record
    BY <1>8 DEF Record, UEnd, UGoto
  <1>9. CASE UpdaterStops
    BY <1>9 DEF UpdaterStops, UEnd, UGoto
  <1>10. CASE Retain
    BY <1>10 DEF Retain, HGoto
  <1>11. CASE ListPackages
    BY <1>11 DEF ListPackages, HGoto
  <1>12. CASE GuardTop
    BY <1>12 DEF GuardTop, HGoto
  <1>13. CASE Choose
    <2> DEFINE historical == listed \ (guarded \cup {recorded})
    <2>1. doomed' = historical \ NewestOf(historical, history)
      BY <1>13 DEF Choose
    <2>2. history \in Nat \ {0}
      OBVIOUS
    <2>3. \A k \in doomed' : \E j \in historical : j > k
      BY <2>1, <2>2, NewerThanDropped
    <2>4. doomed' \subseteq historical
      BY <2>1
    <2>5. historical \subseteq listed /\ running \notin historical
      BY <1>13 DEF Choose
    <2>6. TypeOK'
      BY <1>13, <2>3, <2>4, <2>5 DEF Choose, HGoto
    <2>7. RunningKept'
      BY <1>13, <2>3, <2>4, <2>5 DEF Choose, HGoto
    <2>8. NewKernelKept'
      BY <1>13, <2>3, <2>4, <2>5 DEF Choose, HGoto
    <2>9. PlansSpareRunning'
      BY <1>13, <2>3, <2>4, <2>5 DEF Choose, HGoto
    <2>10. PlansSpareTarget'
      BY <1>13, <2>3, <2>4, <2>5 DEF Choose, HGoto
    <2>11. TargetIsNewest'
      BY <1>13, <2>3, <2>4, <2>5 DEF Choose, HGoto
    <2>12. NewerStays'
      <3>1. ASSUME NEW k \in doomed' PROVE \E j \in installed \cup asked : j > k
        <4>1. PICK i \in historical : i > k
          BY <2>3, <3>1
        <4>2. PICK j \in installed \cup asked : j >= i
          BY <2>5, <4>1
        <4>3. i \in Nat /\ j \in Nat /\ k \in Nat
          BY <2>4, <2>5
        <4>4. QED
          BY <4>1, <4>2, <4>3
      <3>2. QED
        BY <1>13, <3>1 DEF Choose, HGoto
    <2>13. HelperShape'
      BY <1>13, <2>3, <2>4, <2>5 DEF Choose, HGoto
    <2>14. QED
      BY <2>6, <2>7, <2>8, <2>9, <2>10, <2>11, <2>12, <2>13 DEF RetentionInv
  <1>14. CASE Remove
    <2>1. TypeOK'
      BY <1>14 DEF Remove, HEnd, HGoto
    <2>2. RunningKept'
      BY <1>14 DEF Remove, HEnd, HGoto
    <2>3. NewKernelKept'
      BY <1>14 DEF Remove, HEnd, HGoto
    <2>4. PlansSpareRunning'
      BY <1>14 DEF Remove, HEnd, HGoto
    <2>5. PlansSpareTarget'
      BY <1>14 DEF Remove, HEnd, HGoto
    <2>6. TargetIsNewest'
      BY <1>14 DEF Remove, HEnd, HGoto
    <2>7. NewerStays'
      BY <1>14 DEF Remove, HEnd, HGoto
    <2>8. HelperShape'
      BY <1>14 DEF Remove, HEnd, HGoto
    <2>9. QED
      BY <2>1, <2>2, <2>3, <2>4, <2>5, <2>6, <2>7, <2>8 DEF RetentionInv
  <1>15. CASE RetainFail
    <2>1. TypeOK'
      BY <1>15 DEF RetainFail, HEnd, HGoto
    <2>2. RunningKept'
      BY <1>15 DEF RetainFail, HEnd, HGoto
    <2>3. NewKernelKept'
      BY <1>15 DEF RetainFail, HEnd, HGoto
    <2>4. PlansSpareRunning'
      BY <1>15 DEF RetainFail, HEnd, HGoto
    <2>5. PlansSpareTarget'
      BY <1>15 DEF RetainFail, HEnd, HGoto
    <2>6. TargetIsNewest'
      BY <1>15 DEF RetainFail, HEnd, HGoto
    <2>7. NewerStays'
      BY <1>15 DEF RetainFail, HEnd, HGoto
    <2>8. HelperShape'
      BY <1>15 DEF RetainFail, HEnd, HGoto
    <2>9. QED
      BY <2>1, <2>2, <2>3, <2>4, <2>5, <2>6, <2>7, <2>8 DEF RetentionInv
  <1>16. CASE Ask
    <2>1. TypeOK'
      BY <1>16 DEF Ask, HGoto
    <2>2. RunningKept'
      BY <1>16 DEF Ask, HGoto
    <2>3. NewKernelKept'
      BY <1>16 DEF Ask, HGoto
    <2>4. PlansSpareRunning'
      BY <1>16 DEF Ask, HGoto
    <2>5. PlansSpareTarget'
      BY <1>16 DEF Ask, HGoto
    <2>6. TargetIsNewest'
      BY <1>16 DEF Ask, HGoto
    <2>7. NewerStays'
      BY <1>16 DEF Ask, HGoto
    <2>8. HelperShape'
      BY <1>16 DEF Ask, HGoto
    <2>9. QED
      BY <2>1, <2>2, <2>3, <2>4, <2>5, <2>6, <2>7, <2>8 DEF RetentionInv
  <1>17. CASE AskListed
    <2>1. TypeOK'
      BY <1>17 DEF AskListed, HGoto
    <2>2. RunningKept'
      BY <1>17 DEF AskListed, HGoto
    <2>3. NewKernelKept'
      BY <1>17 DEF AskListed, HGoto
    <2>4. PlansSpareRunning'
      BY <1>17 DEF AskListed, HGoto
    <2>5. PlansSpareTarget'
      BY <1>17 DEF AskListed, HGoto
    <2>6. TargetIsNewest'
      BY <1>17 DEF AskListed, HGoto
    <2>7. NewerStays'
      BY <1>17 DEF AskListed, HGoto
    <2>8. HelperShape'
      BY <1>17 DEF AskListed, HGoto
    <2>9. QED
      BY <2>1, <2>2, <2>3, <2>4, <2>5, <2>6, <2>7, <2>8 DEF RetentionInv
  <1>18. CASE RemoveAsked
    <2>1. TypeOK'
      BY <1>18 DEF RemoveAsked, HEnd, HGoto
    <2>2. RunningKept'
      BY <1>18 DEF RemoveAsked, HEnd, HGoto
    <2>3. NewKernelKept'
      BY <1>18 DEF RemoveAsked, HEnd, HGoto
    <2>4. PlansSpareRunning'
      BY <1>18 DEF RemoveAsked, HEnd, HGoto
    <2>5. PlansSpareTarget'
      BY <1>18 DEF RemoveAsked, HEnd, HGoto
    <2>6. TargetIsNewest'
      BY <1>18 DEF RemoveAsked, HEnd, HGoto
    <2>7. NewerStays'
      BY <1>18 DEF RemoveAsked, HEnd, HGoto
    <2>8. HelperShape'
      BY <1>18 DEF RemoveAsked, HEnd, HGoto
    <2>9. QED
      BY <2>1, <2>2, <2>3, <2>4, <2>5, <2>6, <2>7, <2>8 DEF RetentionInv
  <1>19. CASE HelperStops
    BY <1>19 DEF HelperStops, HEnd, HGoto
  <1>20. CASE Reboot
    BY <1>20 DEF Reboot, UEnd, HEnd, UGoto, HGoto
  <1>21. CASE UNCHANGED vars
    BY <1>21 DEF vars
  <1>22. QED
    BY <1>1, <1>2, <1>3, <1>4, <1>5, <1>6, <1>7, <1>8, <1>9, <1>10, <1>11,
       <1>12, <1>13, <1>14, <1>15, <1>16, <1>17, <1>18, <1>19, <1>20, <1>21
       DEF Next, UpdaterNext, HelperNext

\* RetentionInv is an invariant.
LEMMA RetentionInvariant == Spec => []RetentionInv
  BY RetentionInit, RetentionStep, PTL DEF Spec

\* Every variable keeps its type.
THEOREM RetentionTypes == Spec => []TypeOK
  BY RetentionInvariant, PTL DEF RetentionInv

\* Neither program, nor both together, removes the kernel that is running.
THEOREM RunningKernelStays == Spec => []RunningKept
  BY RetentionInvariant, PTL DEF RetentionInv

\* No cleanup removes the kernel that the updater has installed and is about to
\* record, although the two programs do not share a lock.
THEOREM NewKernelStays == Spec => []NewKernelKept
  BY RetentionInvariant, PTL DEF RetentionInv

-----------------------------------------------------------------------------
(* What a retention run leaves behind *)

LEMMA ChoiceInit == Init => ChoiceApplies
  BY DEF Init, ChoiceApplies

\* The choice keeps its bound: nothing that it depends on changes before the
\* removal, although the other program goes on.
LEMMA ChoiceStep == RetentionInv /\ ChoiceApplies /\ [Next]_vars => ChoiceApplies'
  <1> SUFFICES ASSUME RetentionInv, ChoiceApplies, [Next]_vars
               PROVE  ChoiceApplies'
    OBVIOUS
  <1> USE DEF ChoiceApplies
  <1>1. CASE Choose
    <2> DEFINE historical == listed \ (guarded \cup {recorded})
    <2>1. /\ doomed' = historical \ NewestOf(historical, history)
          /\ listed' \ guarded' = historical
          /\ history' = history
      BY <1>1 DEF Choose, machine
    <2>2. NewestOf(historical, history) \subseteq historical
      BY DEF NewestOf
    <2>3. (listed' \ guarded') \ doomed' = NewestOf(historical, history)
      BY <2>1, <2>2
    <2>4. historical \in SUBSET Nat /\ historical \subseteq Kernels
      <3>1. historical \subseteq Kernels
        BY DEF RetentionInv, TypeOK
      <3>2. Kernels \subseteq Nat
        BY RetentionAssumption DEF Kernels
      <3>3. QED
        BY <3>1, <3>2
    <2>5. IsFiniteSet(Kernels)
      BY RetentionAssumption, FS_Interval DEF Kernels
    <2>6. IsFiniteSet(historical)
      BY <2>4, <2>5, FS_Subset
    <2>7. history \in Nat
      BY RetentionAssumption DEF RetentionInv, TypeOK
    <2>8. Cardinality(NewestOf(historical, history)) <= history
      BY <2>4, <2>6, <2>7, NewestOfBounded
    <2>9. QED
      BY <2>1, <2>3, <2>8
  <1>2. CASE UpdaterNext
    BY <1>2 DEF UpdaterNext, Accept, Unpack, Select, Selected, Unselect,
                ChooseSuperseded, Prune, Record, UpdaterStops, machine, helper
  <1>3. CASE HelperNext /\ ~Choose
    BY <1>3 DEF HelperNext, Retain, ListPackages, GuardTop, Remove, RetainFail,
                Ask, AskListed, RemoveAsked, HelperStops, HEnd, HGoto, machine
  <1>4. CASE Reboot
    BY <1>4 DEF Reboot, HEnd, HGoto
  <1>5. CASE UNCHANGED vars
    BY <1>5 DEF vars, machine, helper
  <1>6. QED
    BY <1>1, <1>2, <1>3, <1>4, <1>5 DEF Next

\* A removal takes exactly what was chosen.
LEMMA RemovalApplies ==
  ASSUME RetentionInv, ChoiceApplies, [Next]_vars
  PROVE  hpc = "removing" /\ hpc' = "idle" /\ installed' # installed =>
            Cardinality((installed' \cap listed) \ guarded) <= history
  <1> SUFFICES ASSUME hpc = "removing", hpc' = "idle", installed' # installed
               PROVE  Cardinality((installed' \cap listed) \ guarded) <= history
    OBVIOUS
  <1>1. installed' = installed \ doomed
    <2>1. Remove \/ RetainFail
      BY DEF Next, UpdaterNext, HelperNext, Accept, Unpack, Select, Selected,
             Unselect, ChooseSuperseded, Prune, Record, UpdaterStops, Retain,
             ListPackages, GuardTop, Choose, Ask, AskListed, RemoveAsked,
             HelperStops, Reboot, machine, helper, vars
    <2>2. QED
      BY <2>1 DEF Remove, RetainFail
  <1> DEFINE rest == (listed \ guarded) \ doomed
  <1>2. (installed' \cap listed) \ guarded \subseteq rest
    BY <1>1
  <1>3. IsFiniteSet(rest)
    <2>1. rest \subseteq Kernels
      BY DEF RetentionInv, TypeOK
    <2>2. IsFiniteSet(Kernels)
      BY RetentionAssumption, FS_Interval DEF Kernels
    <2>3. QED
      BY <2>1, <2>2, FS_Subset
  <1>4. Cardinality(rest) <= history /\ history \in Nat
    BY RetentionAssumption DEF ChoiceApplies, RetentionInv, TypeOK
  <1>5. /\ Cardinality((installed' \cap listed) \ guarded) <= Cardinality(rest)
        /\ Cardinality((installed' \cap listed) \ guarded) \in Nat
        /\ Cardinality(rest) \in Nat
    BY <1>2, <1>3, FS_Subset, FS_CardinalityType
  <1>6. QED
    BY <1>4, <1>5

\* A retention run that ends well leaves, of the kernels it listed, no more than
\* the setting allows beside the running, selected and recorded ones, whatever
\* the updater installs or removes in the meantime.
THEOREM RetentionIsApplied == Spec => RetentionApplied
  <1>1. RetentionInv /\ ChoiceApplies /\ [Next]_vars
          => [hpc = "removing" /\ hpc' = "idle" /\ installed' # installed =>
                Cardinality((installed' \cap listed) \ guarded) <= history]_vars
    BY RemovalApplies
  <1>2. Spec => []ChoiceApplies
    BY ChoiceInit, ChoiceStep, RetentionInvariant, PTL DEF Spec
  <1>3. QED
    BY <1>1, <1>2, RetentionInvariant, PTL DEF Spec, RetentionApplied

-----------------------------------------------------------------------------
(* The kernel that GRUB starts *)

LEMMA SelectionInit == Init => SelectionSpared
  BY DEF Init, SelectionSpared, TopLevelKept, UpdaterSteps, Official

\* As long as no selection is taken back, a selection that the helper has not
\* seen is the newest kernel, which its choice leaves alone.
LEMMA SelectionStep ==
  RetentionInv /\ SelectionSpared /\ [Next]_vars /\ [~Unselect]_vars
     => SelectionSpared'
  <1> SUFFICES ASSUME RetentionInv, SelectionSpared, [Next]_vars, [~Unselect]_vars
               PROVE  SelectionSpared'
    OBVIOUS
  <1> USE DEF SelectionSpared, TopLevelKept, UpdaterSteps
  <1>1. CASE Choose
    <2> DEFINE historical == listed \ (guarded \cup {recorded})
    <2>1. doomed' = historical \ NewestOf(historical, history)
      BY <1>1 DEF Choose
    <2>2. history \in Nat \ {0}
      BY RetentionAssumption DEF RetentionInv, TypeOK
    <2>3. \A k \in doomed' : \E j \in historical : j > k
      BY <2>1, <2>2, NewerThanDropped
    <2>4. doomed' \subseteq historical /\ historical \subseteq Nat
      BY <2>1 DEF RetentionInv, TypeOK, Kernels
    <2>5. top \notin doomed'
      BY <1>1, <2>3, <2>4 DEF Choose
    <2>6. QED
      BY <1>1, <2>5 DEF Choose, HGoto, machine, updater
  <1>2. CASE Accept
    BY <1>2 DEF Accept, UGoto, machine, helper
  <1>3. CASE Unpack
    BY <1>3 DEF Unpack, UGoto, helper
  <1>4. CASE Select
    BY <1>4 DEF Select, UGoto, helper, RetentionInv, PlansSpareTarget,
                TargetIsNewest
  <1>5. CASE Selected
    BY <1>5 DEF Selected, UGoto, machine, helper
  <1>6. CASE Unselect
    <2>1. vars' = vars
      BY <1>6
    <2>2. QED
      BY <2>1 DEF vars, machine, updater, helper
  <1>7. CASE ChooseSuperseded
    BY <1>7 DEF ChooseSuperseded, UGoto, machine, helper
  <1>8. CASE Prune
    BY <1>8 DEF Prune, UGoto, helper, RetentionInv, PlansSpareTarget
  <1>9. CASE Record \/ UpdaterStops
    BY <1>9 DEF Record, UpdaterStops, UEnd, UGoto, machine, helper
  <1>10. CASE Retain \/ ListPackages \/ GuardTop \/ Ask \/ AskListed
    BY <1>10 DEF Retain, ListPackages, GuardTop, Ask, AskListed, HGoto, machine,
                 updater
  <1>11. CASE Remove \/ RetainFail \/ RemoveAsked \/ HelperStops
    BY <1>11 DEF Remove, RetainFail, RemoveAsked, HelperStops, HEnd, HGoto,
                 machine, updater, RetentionInv, HelperShape
  <1>12. CASE Reboot
    BY <1>12 DEF Reboot, UEnd, HEnd, UGoto, HGoto
  <1>13. CASE UNCHANGED vars
    BY <1>13 DEF vars, machine, updater, helper
  <1>14. QED
    BY <1>1, <1>2, <1>3, <1>4, <1>5, <1>6, <1>7, <1>8, <1>9, <1>10, <1>11,
       <1>12, <1>13 DEF Next, UpdaterNext, HelperNext

\* Only a selection that is taken back (restore_configuration, after a failed
\* update-grub) lets the helper remove the kernel that GRUB is configured to
\* start: in every behaviour without that step the kernel stays installed,
\* unless the user has it removed.
THEOREM TopLevelStays == Spec /\ [][~Unselect]_vars => []TopLevelKept
  <1>1. SelectionSpared => TopLevelKept
    BY DEF SelectionSpared
  <1>2. QED
    BY <1>1, SelectionInit, SelectionStep, RetentionInvariant, PTL DEF Spec

-----------------------------------------------------------------------------
(* The promise of the machine, kept by two programs side by side *)

\* Different kernels are different in the abstract specification.
LEMMA RelIsInjective ==
  /\ \A j, k \in Nat : Rel(j) = Rel(k) => j = k
  /\ \A j, k \in Nat : Promise!Behind(Rel(j), Rel(k)) <=> j < k
  BY DEF Rel, Promise!Behind

\* A removal that spares what runs and what starts is one the promise allows.
LEMMA RemovalIsLeave ==
  ASSUME TypeOK, TypeOK', NEW gone, installed' = installed \ gone,
         running \notin gone, top \notin gone, UNCHANGED <<running, top>>
  PROVE  Promise!Leave
  <1>1. /\ installed \subseteq Nat /\ top \in Nat /\ running \in Nat
        /\ installed' \subseteq installed
    BY DEF TypeOK, Kernels, AnyKernel, Official
  <1>2. {Rel(k) : k \in installed'} \subseteq {Rel(k) : k \in installed}
    BY <1>1
  <1>3. ASSUME NEW k \in {top, running}, Rel(k) \in {Rel(j) : j \in installed}
        PROVE  Rel(k) \in {Rel(j) : j \in installed'}
    <2>1. PICK j \in installed : Rel(j) = Rel(k)
      BY <1>3
    <2>2. j = k
      BY <1>1, <2>1, RelIsInjective
    <2>3. k \in installed'
      BY <2>1, <2>2
    <2>4. QED
      BY <2>3
  <1>4. QED
    BY <1>2, <1>3 DEF Promise!Leave

\* Every step is one of the promise, or none, as long as nothing is undone.
LEMMA RetentionPromiseStep ==
  ASSUME RetentionInv, RetentionInv', SelectionSpared, asked = {},
         [Next]_vars, [~Unselect /\ ~RemoveAsked]_vars
  PROVE  asked' = {} /\ [Promise!Next]_Promise!pvars
  <1> DEFINE Same == UNCHANGED <<installed, running, top, asked>>
  <1>0. TypeOK /\ TypeOK'
    BY DEF RetentionInv
  <1>t. /\ installed \subseteq Nat /\ installed' \subseteq Nat /\ target \in Nat
        /\ Kernels \subseteq Nat
    BY <1>0 DEF TypeOK, Kernels, AnyKernel, Official
  <1>s. Same => asked' = {} /\ UNCHANGED Promise!pvars
    BY DEF Promise!pvars
  <1>n. ASSUME upc # "idle", NEW p \in {Rel(k) : k \in installed}
        PROVE  ~Promise!Behind(Rel(target), p)
    <2>1. PICK k \in installed : p = Rel(k)
      BY <1>n
    <2>2. target >= k
      BY <1>n DEF RetentionInv, TargetIsNewest
    <2>3. QED
      BY <1>t, <2>1, <2>2, RelIsInjective
  <1>l. ASSUME NEW gone, installed' = installed \ gone,
               running \notin gone, top \notin gone, UNCHANGED <<running, top, asked>>
        PROVE  asked' = {} /\ [Promise!Next]_Promise!pvars
    <2>1. Promise!Leave
      BY <1>0, <1>l, RemovalIsLeave
    <2>2. QED
      BY <1>l, <2>1 DEF Promise!Next
  <1>1. CASE Unpack
    <2>1. upc # "idle" /\ target \in Kernels
      BY <1>1 DEF Unpack, RetentionInv, TargetIsNewest
    <2>2. /\ installed' = installed \cup {target} /\ asked' = asked \ {target}
          /\ UNCHANGED <<running, top>>
      BY <1>1 DEF Unpack
    <2>3. {Rel(k) : k \in installed'} = {Rel(k) : k \in installed} \cup {Rel(target)}
      BY <2>2
    <2>4. Promise!Arrive(Rel(target))
      BY <1>n, <2>1, <2>2, <2>3 DEF Promise!Arrive
    <2>5. QED
      BY <2>1, <2>2, <2>4 DEF Promise!Next
  <1>2. CASE Select
    <2>1. /\ upc # "idle" /\ target \in installed /\ top' = target
          /\ UNCHANGED <<installed, running, asked>>
      BY <1>2 DEF Select
    <2>2. Promise!BecomeDefault(Rel(target))
      BY <1>n, <2>1 DEF Promise!BecomeDefault
    <2>3. Rel(target) \in {Rel(k) : k \in installed}
      BY <2>1
    <2>4. QED
      BY <2>1, <2>2, <2>3 DEF Promise!Next
  <1>3. CASE Prune
    <2>1. installed' = installed \ superseded /\ UNCHANGED <<running, top, asked>>
      BY <1>3 DEF Prune
    <2>2. running \notin superseded /\ top \notin superseded
      BY <1>3 DEF Prune, RetentionInv, PlansSpareRunning, PlansSpareTarget,
                  SelectionSpared, UpdaterSteps
    <2>3. QED
      BY <1>l, <2>1, <2>2
  <1>4. CASE Remove \/ RetainFail
    <2>1. CASE installed' = installed /\ UNCHANGED <<running, top, asked>>
      BY <1>s, <2>1
    <2>2. CASE /\ hpc = "removing" /\ installed' = installed \ doomed
               /\ UNCHANGED <<running, top, asked>>
      <3>1. running \notin doomed /\ top \notin doomed
        BY <2>2 DEF RetentionInv, PlansSpareRunning, SelectionSpared
      <3>2. QED
        BY <1>l, <2>2, <3>1
    <2>3. QED
      BY <1>4, <2>1, <2>2 DEF Remove, RetainFail
  <1>5. CASE Accept \/ Selected \/ ChooseSuperseded \/ Record \/ UpdaterStops
    BY <1>s, <1>5 DEF Accept, Selected, ChooseSuperseded, Record, UpdaterStops, machine
  <1>6. CASE \/ Retain \/ ListPackages \/ GuardTop \/ Choose \/ Ask \/ AskListed
             \/ HelperStops
    BY <1>s, <1>6 DEF Retain, ListPackages, GuardTop, Choose, Ask, AskListed,
                      HelperStops, machine
  <1>7. CASE Reboot
    <2>1. running' \in installed \cup {Official} /\ UNCHANGED <<installed, top, asked>>
      BY <1>7 DEF Reboot
    <2>2. Rel(running') \in {Rel(k) : k \in installed} \cup {Rel(Official)}
      BY <2>1
    <2>3. Promise!Start(Rel(running'))
      BY <2>1 DEF Promise!Start
    <2>4. QED
      BY <2>1, <2>2, <2>3 DEF Promise!Next
  <1>8. CASE UNCHANGED vars \/ Unselect \/ RemoveAsked
    <2>1. UNCHANGED vars
      BY <1>8
    <2>2. QED
      BY <1>s, <2>1 DEF vars, machine
  <1>9. QED
    BY <1>1, <1>2, <1>3, <1>4, <1>5, <1>6, <1>7, <1>8
       DEF Next, UpdaterNext, HelperNext

\* In every behaviour in which no failed update-grub takes a selection back and
\* the user has no kernel removed, the updater and the helper together implement
\* KernelPromise as far as it concerns packages, GRUB and the running kernel:
\* retention, under a lock of its own, takes nothing away that the updater
\* promises.
THEOREM RetentionKeepsMachinePromise == Spec /\ NothingUndone => KeepsMachinePromise
  <1>1. Init => asked = {} /\ Promise!Init
    <2> SUFFICES ASSUME Init PROVE asked = {} /\ Promise!Init
      OBVIOUS
    <2>1. installed \subseteq Kernels /\ asked = {}
      BY DEF Init
    <2>2. {Rel(k) : k \in Kernels} \subseteq Promise!Release
      BY RetentionAssumption DEF Rel, Kernels, Promise!Release
    <2>3. /\ Rel(top) \in {Rel(k) : k \in installed} \cup {Rel(Official)}
          /\ Rel(running) \in {Rel(k) : k \in installed} \cup {Rel(Official)}
      BY DEF Init
    <2>4. QED
      BY <2>1, <2>2, <2>3 DEF Promise!Init
  <1>2. [~Unselect /\ ~RemoveAsked]_vars => [~Unselect]_vars
    OBVIOUS
  <1>3. NothingUndone => [][~Unselect]_vars
    BY <1>2, PTL DEF NothingUndone
  <1>4. Spec /\ [][~Unselect]_vars => []SelectionSpared
    BY SelectionInit, SelectionStep, RetentionInvariant, PTL DEF Spec
  <1> DEFINE NoneAsked == asked = {}
  <1>5. /\ RetentionInv /\ RetentionInv' /\ SelectionSpared /\ NoneAsked
        /\ [Next]_vars /\ [~Unselect /\ ~RemoveAsked]_vars
        => NoneAsked' /\ [Promise!Next]_Promise!pvars
    BY RetentionPromiseStep
  <1>6. Init => NoneAsked /\ Promise!Init
    BY <1>1
  <1> HIDE DEF NoneAsked
  <1>7. Spec /\ NothingUndone => []NoneAsked
    BY <1>3, <1>4, <1>5, <1>6, RetentionInvariant, PTL DEF Spec, NothingUndone
  <1>8. QED
    BY <1>3, <1>4, <1>5, <1>6, <1>7, RetentionInvariant, PTL
       DEF Spec, NothingUndone, KeepsMachinePromise, Promise!Spec
=============================================================================
