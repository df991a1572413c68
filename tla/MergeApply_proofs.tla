------------------------- MODULE MergeApply_proofs --------------------------
(* Theorems about MergeApply, for any folders, contents and number of runs   *)
(* that were cut short.                                                      *)
EXTENDS MergeApply, SyncManifestTheorems

(* What an action finds in the folder as it is now.                         *)
PlanFits == \A a \in plan : Fits(a, base, folder, remote)

(* A path that is not merged yet is one an action of the run changes, and a  *)
(* conflict without its copy one that an action copies.                      *)
Unmerged ==
    pc = "apply" =>
        \A p \in Path :
            /\ folder[p] # ThreeWay(p) => \E a \in plan : p \in {a.path, a.to} /\ a.op # "copy"
            /\ Conflicting(p) /\ <<p, remote[p]>> \notin copies
                 => \E a \in plan : a.path = p /\ a.op = "copy"

CopiesOnlyConflicts == copies \subseteq {<<p, remote[p]>> : p \in {q \in Path : Conflicting(q)}}

Merged ==
    pc = "done" => \A p \in Path : /\ folder[p] = ThreeWay(p)
                                   /\ Conflicting(p) => <<p, remote[p]>> \in copies

IInv ==
    /\ TypeOK /\ OldOrNew /\ Apart(plan) /\ PlanFits
    /\ Unmerged /\ CopiesOnlyConflicts /\ Merged

---------------------------------------------------------------------------
LEMMA TheManifests ==
    ASSUME TypeOK
    PROVE  base \in Manifest /\ remote \in Manifest /\ folder \in Folder /\ original \in Folder
BY BasesAssumption DEF TypeOK

(* A path that holds what the base has was left alone by the user, and the  *)
(* merge gives it the remote's state.                                       *)
LEMMA LeftAlone ==
    ASSUME TypeOK, OldOrNew, NEW p \in Path, folder[p] = base[p]
    PROVE  original[p] = base[p] /\ ThreeWay(p) = AsFile(remote[p])
BY DEF OldOrNew, ThreeWay

LEMMA InitIInv == Init => IInv
<1> SUFFICES ASSUME Init PROVE IInv
  OBVIOUS
<1>1. TypeOK
  BY StopsAssumption DEF Init, TypeOK
<1>2. OldOrNew /\ Apart(plan) /\ PlanFits
  BY DEF Init, OldOrNew, Apart, PlanFits
<1>3. Unmerged /\ CopiesOnlyConflicts /\ Merged
  BY DEF Init, Unmerged, CopiesOnlyConflicts, Merged
<1> QED
  BY <1>1, <1>2, <1>3 DEF IInv

(* A run plans every change the merge still has to make, also when an       *)
(* earlier run made some of them.                                           *)
LEMMA ScanIInv == IInv /\ Scan => IInv'
<1> SUFFICES ASSUME IInv, Scan PROVE IInv'
  OBVIOUS
<1> USE DEF IInv
<1>1. base \in Manifest /\ remote \in Manifest /\ folder \in Folder /\ original \in Folder
  BY TheManifests
<1>2. /\ plan' = MergePlan(base, folder, remote) /\ pc' = "apply"
      /\ UNCHANGED <<base, remote, original, folder, copies, stops>>
  BY DEF Scan, inputs
<1>3. \A a \in plan' : Fits(a, base, folder, remote)
  BY <1>1, <1>2, MergePlanFits
<1>4. TypeOK'
  <2>1. plan' \subseteq Action
    BY <1>3 DEF Fits
  <2> QED
    BY <1>2, <2>1 DEF TypeOK
<1>5. Apart(plan')
  BY <1>1, <1>2, MergePlanApart
<1>6. PlanFits'
  BY <1>2, <1>3 DEF PlanFits
<1>7. ASSUME NEW p \in Path, folder[p] # ThreeWay(p)
      PROVE  \E a \in plan' : p \in {a.path, a.to} /\ a.op # "copy"
  <2>1. folder[p] = original[p] /\ original[p] = base[p] /\ ThreeWay(p) = AsFile(remote[p])
    BY <1>7 DEF OldOrNew, ThreeWay
  <2>2. folder[p] \in Content \cup {None} /\ Tombstone \notin Content \cup {None}
    BY <1>1, SentinelAssumption DEF Folder
  <2>3. folder[p] # remote[p] /\ remote[p] # base[p]
    BY <1>7, <2>1, <2>2 DEF AsFile
  <2> QED
    BY <1>1, <1>2, <2>1, <2>3, MergePlanReaches
<1>8. ASSUME NEW p \in Path, Conflicting(p)
      PROVE  \E a \in plan' : a.path = p /\ a.op = "copy"
  <2>1. folder[p] = original[p] /\ folder[p] # base[p] /\ folder[p] # remote[p]
        /\ remote[p] # base[p] /\ remote[p] \in Content
    BY <1>8 DEF Conflicting, OldOrNew, ThreeWay
  <2> QED
    BY <1>1, <1>2, <2>1, MergePlanReaches
<1>9. OldOrNew' /\ CopiesOnlyConflicts' /\ Merged'
  BY <1>2 DEF OldOrNew, CopiesOnlyConflicts, Merged, ThreeWay, Conflicting
<1>10. Unmerged'
  BY <1>2, <1>7, <1>8 DEF Unmerged, ThreeWay, Conflicting
<1> QED
  BY <1>4, <1>5, <1>6, <1>9, <1>10

(* An action gives its paths what the merge gives them, and leaves what the *)
(* others need.                                                             *)
LEMMA ApplyStepIInv == IInv /\ ApplyStep => IInv'
<1> SUFFICES ASSUME IInv, ApplyStep PROVE IInv'
  OBVIOUS
<1> USE DEF IInv
<1>1. base \in Manifest /\ remote \in Manifest /\ folder \in Folder /\ original \in Folder
  BY TheManifests
<1>2. PICK a \in plan :
         /\ folder' = ApplyToFolder(folder, a)
         /\ copies' = IF a.op = "copy" THEN copies \cup {<<a.path, a.content>>} ELSE copies
         /\ plan' = plan \ {a}
  BY DEF ApplyStep
<1>3. pc = "apply" /\ UNCHANGED <<base, remote, original, pc, stops>>
  BY DEF ApplyStep, inputs
<1>4. Fits(a, base, folder, remote) /\ a \in Action /\ a.op \in Op /\ a.path \in Path /\ a.to \in Path
  BY DEF PlanFits, Fits, Action
<1>5. a.op # "delete" => a.content \in Content
  BY <1>4 DEF Fits, Op
<1>6. a.op = "rename" => a.path # a.to
  BY <1>4, SentinelAssumption DEF Fits
<1> DEFINE f == ApplyToFolder(folder, a)
<1>7. f \in Folder
  BY <1>1, <1>4, <1>5, ApplyToFolderType
<1>8. /\ a.op = "upsert" => \A p \in Path : f[p] = IF p = a.path THEN a.content ELSE folder[p]
      /\ a.op = "delete" => \A p \in Path : f[p] = IF p = a.path THEN None ELSE folder[p]
      /\ a.op = "copy" => f = folder
      /\ a.op = "rename" =>
           \A p \in Path : f[p] = IF p = a.to THEN (IF folder[a.path] # None THEN folder[a.path] ELSE a.content)
                                  ELSE IF p = a.path THEN None ELSE folder[p]
  BY <1>1, <1>4, <1>6, ApplyToFolderCases
<1> HIDE DEF f
<1>9. /\ \A p \in Path : p \notin {a.path, a.to} => f[p] = folder[p]
      /\ a.op = "copy" => \A p \in Path : f[p] = folder[p]
  BY <1>4, <1>8 DEF Op
<1>10. ASSUME a.op # "copy", NEW p \in {a.path, a.to}
       PROVE  f[p] = ThreeWay(p)
  <2>1. CASE a.op = "upsert"
    <3>1. folder[p] = base[p] /\ p = a.path /\ f[p] = remote[p] /\ remote[p] \in Content
      BY <1>4, <1>8, <1>10, <2>1 DEF Fits
    <3>2. AsFile(remote[p]) = remote[p]
      BY <3>1, SentinelAssumption DEF AsFile
    <3> QED
      BY <1>4, <3>1, <3>2, LeftAlone
  <2>2. CASE a.op = "delete"
    <3>1. folder[p] = base[p] /\ p = a.path /\ f[p] = None /\ remote[p] \in State \ Content
      BY <1>1, <1>4, <1>8, <1>10, <2>2 DEF Fits, Manifest
    <3>2. AsFile(remote[p]) = None
      BY <3>1 DEF AsFile, State
    <3> QED
      BY <1>4, <3>1, <3>2, LeftAlone
  <2>3. CASE a.op = "rename"
    <3>1. /\ folder[a.path] = base[a.path] /\ base[a.path] \in Content
          /\ remote[a.path] \in State \ Content
          /\ folder[a.to] = base[a.to] /\ remote[a.to] = base[a.path]
      BY <1>1, <1>4, <2>3 DEF Fits, Manifest
    <3>2. AsFile(remote[a.path]) = None /\ AsFile(remote[a.to]) = remote[a.to]
      BY <3>1, SentinelAssumption DEF AsFile, State
    <3>3. ThreeWay(a.path) = None /\ ThreeWay(a.to) = remote[a.to]
      BY <1>4, <3>1, <3>2, LeftAlone
    <3>4. f[a.to] = folder[a.path] /\ f[a.path] = None
      BY <1>4, <1>6, <1>8, <2>3, <3>1, SentinelAssumption
    <3> QED
      BY <1>10, <3>1, <3>3, <3>4
  <2> QED
    BY <1>4, <1>10, <2>1, <2>2, <2>3 DEF Op
<1>11. a.op = "copy" => Conflicting(a.path) /\ a.content = remote[a.path]
  <2> SUFFICES ASSUME a.op = "copy" PROVE Conflicting(a.path) /\ a.content = remote[a.path]
    OBVIOUS
  <2>1. /\ folder[a.path] # base[a.path] /\ folder[a.path] # remote[a.path]
        /\ remote[a.path] # base[a.path]
        /\ a.content = remote[a.path] /\ a.content \in Content
    BY <1>4 DEF Fits
  <2>2. AsFile(remote[a.path]) = remote[a.path]
    BY <2>1, SentinelAssumption DEF AsFile
  <2>3. original[a.path] # base[a.path] /\ folder[a.path] = original[a.path]
    BY <1>4, <2>1, <2>2 DEF OldOrNew, ThreeWay
  <2> QED
    BY <2>1, <2>3 DEF Conflicting
<1>12. copies \subseteq copies' /\ (a.op = "copy" => <<a.path, remote[a.path]>> \in copies')
  BY <1>2, <1>11
<1>13. \A p \in Path : /\ (ThreeWay(p))' = ThreeWay(p) /\ Conflicting(p)' = Conflicting(p)
  BY <1>3 DEF ThreeWay, Conflicting
<1>14. TypeOK'
  <2>1. copies' \subseteq Path \X Content
    BY <1>2, <1>4, <1>5 DEF TypeOK
  <2> QED
    BY <1>2, <1>3, <1>7, <2>1 DEF TypeOK, f
<1>15. OldOrNew'
  <2>1. \A p \in Path : f[p] \in {original[p], ThreeWay(p)}
    BY <1>9, <1>10 DEF OldOrNew
  <2> QED
    BY <1>2, <1>3, <1>13, <2>1 DEF OldOrNew, f
<1>16. Apart(plan') /\ \A b \in plan' : b \in plan /\ {a.path, a.to} \cap {b.path, b.to} = {}
  BY <1>2 DEF Apart
<1>17. PlanFits'
  <2>1. ASSUME NEW b \in plan'
        PROVE  Fits(b, base, f, remote)
    <3>1. Fits(b, base, folder, remote) /\ b.path \in Path /\ b.to \in Path
      BY <1>16 DEF PlanFits, Fits, Action
    <3>2. f[b.path] = folder[b.path] /\ f[b.to] = folder[b.to]
      BY <1>9, <1>16, <3>1
    <3> QED
      BY <3>1, <3>2 DEF Fits
  <2> QED
    BY <1>2, <1>3, <2>1 DEF PlanFits, f
<1>18. Unmerged'
  <2>1. ASSUME NEW p \in Path, f[p] # ThreeWay(p)
        PROVE  \E b \in plan' : p \in {b.path, b.to} /\ b.op # "copy"
    <3>1. f[p] = folder[p] /\ ~(a.op # "copy" /\ p \in {a.path, a.to})
      BY <1>9, <1>10, <2>1
    <3>2. PICK b \in plan : p \in {b.path, b.to} /\ b.op # "copy"
      BY <1>3, <2>1, <3>1 DEF Unmerged
    <3> QED
      BY <1>2, <3>1, <3>2
  <2>2. ASSUME NEW p \in Path, Conflicting(p), <<p, remote[p]>> \notin copies'
        PROVE  \E b \in plan' : b.path = p /\ b.op = "copy"
    <3>1. PICK b \in plan : b.path = p /\ b.op = "copy"
      BY <1>3, <1>12, <2>2 DEF Unmerged
    <3> QED
      BY <1>2, <1>12, <2>2, <3>1
  <2> QED
    BY <1>2, <1>3, <1>13, <2>1, <2>2 DEF Unmerged, f
<1>19. CopiesOnlyConflicts'
  <2>1. copies' \subseteq {<<p, remote[p]>> : p \in {q \in Path : Conflicting(q)}}
    BY <1>2, <1>4, <1>11 DEF CopiesOnlyConflicts
  <2> QED
    BY <1>3, <1>13, <2>1 DEF CopiesOnlyConflicts
<1>20. Merged'
  BY <1>3 DEF Merged
<1> QED
  BY <1>14, <1>15, <1>16, <1>17, <1>18, <1>19, <1>20

(* A run ends when its plan is done, or is cut short and planned again.     *)
LEMMA EndIInv == IInv /\ (Finish \/ Stop \/ UNCHANGED vars) => IInv'
<1> SUFFICES ASSUME IInv, Finish \/ Stop \/ UNCHANGED vars PROVE IInv'
  OBVIOUS
<1> USE DEF IInv
<1>1. UNCHANGED <<base, remote, original, folder, copies>>
  BY DEF Finish, Stop, vars, inputs
<1>2. \/ pc' = "done" /\ pc = "apply" /\ plan = {} /\ plan' = {} /\ stops' = stops
      \/ pc' = "ready" /\ plan' = {} /\ stops' = stops + 1 /\ stops < MaxStops
      \/ UNCHANGED <<pc, plan, stops>>
  BY DEF Finish, Stop, vars
<1>3. TypeOK'
  <2>1. stops' \in 0..MaxStops
    BY <1>2, StopsAssumption DEF TypeOK
  <2> QED
    BY <1>1, <1>2, <2>1 DEF TypeOK
<1>4. Apart(plan') /\ PlanFits'
  BY <1>1, <1>2 DEF Apart, PlanFits
<1>5. OldOrNew' /\ CopiesOnlyConflicts'
  BY <1>1 DEF OldOrNew, CopiesOnlyConflicts, ThreeWay, Conflicting
<1>6. Unmerged' /\ Merged'
  BY <1>1, <1>2 DEF Unmerged, Merged, ThreeWay, Conflicting
<1> QED
  BY <1>3, <1>4, <1>5, <1>6

---------------------------------------------------------------------------
(* The invariant holds for any folders and however often runs are cut short.*)
THEOREM Invariance == Spec => []IInv
<1>1. IInv /\ [Next]_vars => IInv'
  BY ScanIInv, ApplyStepIInv, EndIInv DEF Next
<1> QED
  BY <1>1, InitIInv, PTL DEF Spec

(* The variables stay in their types.                                       *)
THEOREM TypeCorrect == Spec => []TypeOK
<1>1. IInv => TypeOK
  BY DEF IInv
<1> QED
  BY <1>1, Invariance, PTL

(* A path holds what it held before or what the merge gives it, at every     *)
(* point of every run.                                                       *)
THEOREM PathsHold == Spec => []OldOrNew
<1>1. IInv => OldOrNew
  BY DEF IInv
<1> QED
  BY <1>1, Invariance, PTL

(* A completed run has made the three-way merge of the folder as it was      *)
(* before the first run.                                                     *)
THEOREM MergeHolds == Spec => []MergesAll
<1>1. IInv => MergesAll
  BY DEF IInv, Merged, MergesAll
<1> QED
  BY <1>1, Invariance, PTL

(* The conflict copies are those of the conflicts.                          *)
THEOREM CopiesHold == Spec => []CopiesConflicts
<1>1. IInv => CopiesConflicts
  BY DEF IInv, CopiesOnlyConflicts, Merged, CopiesConflicts
<1> QED
  BY <1>1, Invariance, PTL

(* No action takes away what a later one needs.                             *)
THEOREM PlansExecute == Spec => []Executable
<1>1. IInv => Executable
  BY SentinelAssumption DEF IInv, PlanFits, Fits, Executable
<1> QED
  BY <1>1, Invariance, PTL
=============================================================================
