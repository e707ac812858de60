------------------------- MODULE PartnerNodeInfosProofs -------------------------
(***************************************************************************)
(* Proofs about ReadFullPartnerNodeInfos (PartnerNodeInfos): the node list *)
(* it returns is always well typed, and is exactly one validated NodeInfo  *)
(* per partner node-info file of the directory, in order, with the weight  *)
(* the weights file gives its node ID.                                     *)
(***************************************************************************)
EXTENDS PartnerNodeInfos

(* partners holds, in order, the prefixed files among the first n of the   *)
(* directory: the loop of ReadPartnerNodes has read n files.               *)
PartnersSoFar(n) ==
  \E idx \in [1 .. Len(partners) -> 1 .. n] :
    /\ Enumerates(idx, PrefixedFiles(partnerDir, n))
    /\ \A j \in 1 .. Len(partners) : partners[j] = partnerDir[idx[j]]

(* The first i - 1 partners have their NodeInfo in nodes, with the weight  *)
(* ValidateWeight accepted.                                                *)
NodesSoFar ==
  /\ Len(nodes) = i - 1
  /\ \A j \in 1 .. i - 1 :
       nodes[j] = [node |-> partners[j].node,
                   weight |-> Lookup(weights, partners[j].node)]

(* The inductive invariant: where each loop is, and what it has built.     *)
IInv ==
  /\ TypeOK
  /\ partnerDir \in ListsUpTo(PartnerFile, MaxFiles)
  /\ weightsFile \in WeightMaps
  /\ pc = "listDir" =>
       /\ i = 1 /\ partners = <<>> /\ nodes = <<>> /\ weightsErr = FALSE
  /\ pc = "readFiles" =>
       /\ i \in 1 .. Len(partnerDir) + 1
       /\ Len(partners) <= i - 1
       /\ PartnersSoFar(i - 1)
       /\ nodes = <<>>
       /\ weightsErr = FALSE
  /\ pc \in {"build", "returned"} =>
       /\ Len(partners) <= Len(partnerDir)
       /\ PartnersSoFar(Len(partnerDir))
       /\ i \in 1 .. Len(partners) + 1
       /\ weights = IF weightsErr THEN NilWeights ELSE weightsFile
       /\ NodesSoFar
  /\ pc = "returned" => i = Len(partners) + 1

-----------------------------------------------------------------------------
(* A map of the weights file gives a weight or, for a missing key, 0.      *)
LEMMA LookupType ==
  ASSUME NEW m \in WeightMaps, NEW k
  PROVE  Lookup(m, k) \in Weights \cup {0}
BY DEF WeightMaps, Lookup

-----------------------------------------------------------------------------
(* The initial state satisfies the inductive invariant.                    *)
LEMMA InitIInv == Init => IInv
<1> SUFFICES ASSUME Init PROVE IInv
  OBVIOUS
<1>. USE PartnerConstantsAssumption
<1>1. <<>> \in ListsUpTo(PartnerFile, MaxFiles) /\ <<>> \in ListsUpTo(NodeInfo, MaxFiles)
  <2>1. <<>> \in Seq(PartnerFile) /\ <<>> \in Seq(NodeInfo) /\ Len(<<>>) = 0
    BY EmptySeq
  <2>2. MaxFiles \in Nat
    BY PartnerConstantsAssumption
  <2>3. \A s : s \in ListsUpTo(PartnerFile, MaxFiles) <=> s \in Seq(PartnerFile) /\ Len(s) <= MaxFiles
    BY <2>2, ListsUpToSeq
  <2>4. \A s : s \in ListsUpTo(NodeInfo, MaxFiles) <=> s \in Seq(NodeInfo) /\ Len(s) <= MaxFiles
    BY <2>2, ListsUpToSeq
  <2>5. Len(<<>>) <= MaxFiles
    BY <2>1, <2>2
  <2>. QED
    BY <2>1, <2>3, <2>4, <2>5, Zenon
<1>2. NilWeights \in WeightMaps
  <2>1. NilWeights \in [{} -> Weights]
    BY DEF NilWeights
  <2>. QED
    BY <2>1 DEF WeightMaps
<1>3. 1 \in 1 .. MaxFiles + 1
  BY PartnerConstantsAssumption
<1>4. TypeOK
  BY <1>1, <1>2, <1>3, Zenon DEF Init, TypeOK
<1>. QED
  BY <1>4, Zenon DEF Init, IInv

(* The lists the model manipulates, as sequences.                          *)
LEMMA ListsFacts ==
  /\ \A s : s \in ListsUpTo(PartnerFile, MaxFiles)
              <=> s \in Seq(PartnerFile) /\ Len(s) <= MaxFiles
  /\ \A s : s \in ListsUpTo(NodeInfo, MaxFiles)
              <=> s \in Seq(NodeInfo) /\ Len(s) <= MaxFiles
<1>1. MaxFiles \in Nat
  BY PartnerConstantsAssumption
<1>. QED
  BY <1>1, ListsUpToSeq

(* The facts about the current state that every step uses.                 *)
LEMMA StateFacts ==
  IInv =>
         /\ partnerDir \in Seq(PartnerFile) /\ Len(partnerDir) <= MaxFiles
         /\ partners \in Seq(PartnerFile) /\ Len(partners) <= MaxFiles
         /\ nodes \in Seq(NodeInfo) /\ Len(nodes) <= MaxFiles
         /\ i \in 1 .. MaxFiles + 1
         /\ weights \in WeightMaps
         /\ weightsErr \in BOOLEAN
         /\ MaxFiles \in Nat
BY ListsFacts, PartnerConstantsAssumption DEF IInv, TypeOK

(* A step that exits the process keeps the invariant.                      *)
LEMMA ExitIInv ==
  ASSUME IInv, pc' = "exited",
         UNCHANGED <<partnerDir, weightsFile, partners, weights, weightsErr, nodes>>,
         i' \in 1 .. MaxFiles + 1
  PROVE  IInv'
BY DEF IInv, TypeOK

(* One iteration of ReadPartnerNodes' loop extends what partners holds by  *)
(* the file it reads, if that file has the prefix.                         *)
LEMMA ReadPartnerFileIInv ==
  ASSUME IInv, ReadPartnerFile
  PROVE  IInv'
<1>0. /\ partnerDir \in Seq(PartnerFile) /\ Len(partnerDir) <= MaxFiles
      /\ partners \in Seq(PartnerFile) /\ MaxFiles \in Nat
  BY StateFacts
<1>. USE <1>0
<1>1. /\ i \in 1 .. Len(partnerDir)
      /\ Len(partners) <= i - 1
      /\ nodes = <<>> /\ weightsErr = FALSE
  BY DEF IInv, ReadPartnerFile
<1>6. partnerDir[i] \in PartnerFile
  BY <1>1, ElementOfSeq
<1>. USE <1>6
<1>2. PICK idx \in [1 .. Len(partners) -> 1 .. i - 1] :
        /\ Enumerates(idx, PrefixedFiles(partnerDir, i - 1))
        /\ \A j \in 1 .. Len(partners) : partners[j] = partnerDir[idx[j]]
  BY DEF IInv, ReadPartnerFile, PartnersSoFar
<1>3. SUFFICES /\ partners' \in Seq(PartnerFile)
               /\ Len(partners') <= i
               /\ \E idx2 \in [1 .. Len(partners') -> 1 .. i] :
                    /\ Enumerates(idx2, PrefixedFiles(partnerDir, i))
                    /\ \A j \in 1 .. Len(partners') :
                         partners'[j] = partnerDir[idx2[j]]
  <2>1. partners' \in ListsUpTo(PartnerFile, MaxFiles)
    BY <1>1, <1>3, ListsFacts
  <2>2. i' \in 1 .. Len(partnerDir) + 1 /\ i' \in 1 .. MaxFiles + 1
    BY <1>1 DEF ReadPartnerFile
  <2>3. i' - 1 = i /\ partnerDir' = partnerDir
    BY <1>1 DEF ReadPartnerFile
  <2>4. (PartnersSoFar(i - 1))'
    BY <1>3, <2>3 DEF PartnersSoFar
  <2>. QED
    BY <1>1, <2>1, <2>2, <2>4 DEF IInv, TypeOK, ReadPartnerFile
<1>4. CASE partnerDir[i].prefixed
  <2>. DEFINE idx2 == [j \in 1 .. Len(partners) + 1 |->
                         IF j <= Len(partners) THEN idx[j] ELSE i]
  <2>1. /\ partners' \in Seq(PartnerFile)
        /\ Len(partners') = Len(partners) + 1
        /\ \A j \in 1 .. Len(partners) : partners'[j] = partners[j]
        /\ partners'[Len(partners) + 1] = partnerDir[i]
    BY <1>1, <1>4, AppendProperties DEF ReadPartnerFile
  <2>2. idx2 \in [1 .. Len(partners') -> 1 .. i]
    BY <1>1, <1>2, <2>1
  <2>3. \A j, k \in DOMAIN idx2 : j < k => idx2[j] < idx2[k]
    BY <1>1, <1>2 DEF Enumerates
  <2>4. {idx2[j] : j \in DOMAIN idx2} = PrefixedFiles(partnerDir, i)
    <3>1. {idx[j] : j \in DOMAIN idx} = PrefixedFiles(partnerDir, i - 1)
      BY <1>2 DEF Enumerates
    <3>2. PrefixedFiles(partnerDir, i) = PrefixedFiles(partnerDir, i - 1) \cup {i}
      BY <1>1, <1>4 DEF PrefixedFiles
    <3>3. DOMAIN idx2 = 1 .. Len(partners) + 1 /\ DOMAIN idx = 1 .. Len(partners)
      BY <1>2
    <3>4. ASSUME NEW j \in DOMAIN idx2
          PROVE  idx2[j] \in {idx[j2] : j2 \in DOMAIN idx} \cup {i}
      BY <3>3
    <3>5. ASSUME NEW j \in DOMAIN idx PROVE idx[j] = idx2[j]
      BY <3>3
    <3>6. i = idx2[Len(partners) + 1]
      BY <3>3
    <3>8. {idx2[j] : j \in DOMAIN idx2} \subseteq {idx[j] : j \in DOMAIN idx} \cup {i}
      BY <3>4
    <3>9. {idx[j] : j \in DOMAIN idx} \subseteq {idx2[j] : j \in DOMAIN idx2}
      BY <3>3, <3>5
    <3>10. i \in {idx2[j] : j \in DOMAIN idx2}
      BY <3>3, <3>6
    <3>7. {idx2[j] : j \in DOMAIN idx2} = {idx[j] : j \in DOMAIN idx} \cup {i}
      BY <3>8, <3>9, <3>10, Zenon
    <3>. QED
      BY <3>1, <3>2, <3>7
  <2>5. \A j \in 1 .. Len(partners') : partners'[j] = partnerDir[idx2[j]]
    BY <1>1, <1>2, <2>1
  <2>6. Enumerates(idx2, PrefixedFiles(partnerDir, i))
    BY <2>3, <2>4 DEF Enumerates
  <2>7. \E idx3 \in [1 .. Len(partners') -> 1 .. i] :
          /\ Enumerates(idx3, PrefixedFiles(partnerDir, i))
          /\ \A j \in 1 .. Len(partners') : partners'[j] = partnerDir[idx3[j]]
    BY <2>2, <2>5, <2>6
  <2>8. Len(partners') <= i
    BY <1>1, <2>1
  <2>. QED
    BY <2>1, <2>7, <2>8
<1>5. CASE ~partnerDir[i].prefixed
  <2>1. partners' = partners
    BY <1>5 DEF ReadPartnerFile
  <2>2. PrefixedFiles(partnerDir, i) = PrefixedFiles(partnerDir, i - 1)
    BY <1>1, <1>5 DEF PrefixedFiles
  <2>3. idx \in [1 .. Len(partners') -> 1 .. i]
    BY <1>1, <1>2, <2>1
  <2>. QED
    BY <1>1, <1>2, <2>1, <2>2, <2>3
<1>. QED
  BY <1>4, <1>5

(* FilesInDir succeeds: the loop starts with nothing read.                 *)
LEMMA ListPartnerDirIInv ==
  ASSUME IInv, ListPartnerDir
  PROVE  IInv'
<1>1. /\ i = 1 /\ partners = <<>> /\ nodes = <<>> /\ weightsErr = FALSE
      /\ partnerDir \in Seq(PartnerFile)
  BY StateFacts DEF IInv, ListPartnerDir
<1>2. Len(partners) = 0 /\ Len(partnerDir) \in Nat
  BY <1>1, EmptySeq, LenProperties
<1>3. PartnersSoFar(0)
  <2>1. [j \in {} |-> 1] \in [1 .. Len(partners) -> 1 .. 0]
    BY <1>2
  <2>2. PrefixedFiles(partnerDir, 0) = {}
    BY DEF PrefixedFiles
  <2>3. Enumerates([j \in {} |-> 1], PrefixedFiles(partnerDir, 0))
    BY <2>2 DEF Enumerates
  <2>. QED
    BY <1>2, <2>1, <2>3 DEF PartnersSoFar
<1>4. (PartnersSoFar(i - 1))'
  <2>1. i' - 1 = 0 /\ partners' = partners /\ partnerDir' = partnerDir
    BY <1>1 DEF ListPartnerDir
  <2>. QED
    BY <1>3, <2>1, Zenon DEF PartnersSoFar
<1>5. i' \in 1 .. Len(partnerDir') + 1 /\ Len(partners') <= i' - 1
  BY <1>1, <1>2 DEF ListPartnerDir
<1>. QED
  BY <1>1, <1>4, <1>5 DEF IInv, TypeOK, ListPartnerDir

(* The directory loop is done: partners holds every prefixed file, and the *)
(* build loop starts with the weights read (or the nil map, on an error).  *)
LEMMA ReadWeightsIInv ==
  ASSUME IInv, ReadPartnerWeights \/ ReadPartnerWeightsFails
  PROVE  IInv'
<1>0. /\ pc = "readFiles" /\ i \in 1 .. Len(partnerDir) + 1
      /\ i > Len(partnerDir)
      /\ Len(partners) <= i - 1
      /\ PartnersSoFar(i - 1)
      /\ nodes = <<>> /\ weightsErr = FALSE
      /\ partners \in Seq(PartnerFile) /\ partnerDir \in Seq(PartnerFile)
  BY StateFacts DEF IInv, ReadPartnerWeights, ReadPartnerWeightsFails
<1>8. i - 1 = Len(partnerDir)
  BY <1>0, LenProperties
<1>1. /\ pc = "readFiles" /\ i = Len(partnerDir) + 1
      /\ Len(partners) <= Len(partnerDir)
      /\ PartnersSoFar(Len(partnerDir))
      /\ nodes = <<>> /\ weightsErr = FALSE
      /\ partners \in Seq(PartnerFile)
  <2>1. PartnersSoFar(Len(partnerDir))
    BY <1>0, <1>8, Zenon
  <2>. QED
    BY <1>0, <1>8, <2>1
<1>2. /\ pc' = "build" /\ i' = 1
      /\ weights' = IF weightsErr' THEN NilWeights ELSE weightsFile
      /\ weights' \in WeightMaps
      /\ UNCHANGED <<partnerDir, weightsFile, partners, nodes>>
  <2>1. NilWeights \in WeightMaps
    <3>1. NilWeights \in [{} -> Weights]
      BY DEF NilWeights
    <3>. QED
      BY <3>1 DEF WeightMaps
  <2>2. CASE ReadPartnerWeights
    BY <1>1, <2>2 DEF IInv, TypeOK, ReadPartnerWeights
  <2>3. CASE ReadPartnerWeightsFails
    BY <1>1, <2>1, <2>3 DEF ReadPartnerWeightsFails
  <2>. QED
    BY <2>2, <2>3
<1>3. Len(nodes) = 0 /\ Len(partners) \in Nat
  BY <1>1, EmptySeq, LenProperties
<1>4. NodesSoFar'
  BY <1>2, <1>3 DEF NodesSoFar
<1>5. (PartnersSoFar(Len(partnerDir)))'
  BY <1>1, <1>2 DEF PartnersSoFar
<1>6. i' \in 1 .. Len(partners') + 1 /\ i' \in 1 .. MaxFiles + 1
  BY <1>2, <1>3, StateFacts
<1>7. weightsErr' \in BOOLEAN
  BY <1>1 DEF ReadPartnerWeights, ReadPartnerWeightsFails
<1>. QED
  BY <1>1, <1>2, <1>4, <1>5, <1>6, <1>7 DEF IInv, TypeOK

(* One iteration of the build loop appends the NodeInfo of the next        *)
(* partner, or exits on a weight ValidateWeight rejects.                   *)
LEMMA BuildPartnerIInv ==
  ASSUME IInv, BuildPartner
  PROVE  IInv'
<1>0. /\ pc = "build" /\ i \in 1 .. Len(partners)
      /\ partners \in Seq(PartnerFile) /\ nodes \in Seq(NodeInfo)
      /\ Len(partners) <= Len(partnerDir) /\ Len(partnerDir) <= MaxFiles
      /\ weights \in WeightMaps /\ MaxFiles \in Nat
      /\ NodesSoFar
  BY StateFacts DEF IInv, BuildPartner
<1>. DEFINE w == Lookup(weights, partners[i].node)
            rec == [node |-> partners[i].node, weight |-> w]
<1>1. CASE w > 0
  <2>1. partners[i] \in PartnerFile
    BY <1>0, ElementOfSeq
  <2>2. w \in Weights
    BY <1>0, <1>1, LookupType, PartnerConstantsAssumption
  <2>3. rec \in NodeInfo
    BY <1>1, <2>1, <2>2 DEF NodeInfo, PartnerFile
  <2>4. /\ nodes' = Append(nodes, rec) /\ i' = i + 1 /\ pc' = pc
        /\ UNCHANGED <<partnerDir, weightsFile, partners, weights, weightsErr>>
    BY <1>1 DEF BuildPartner
  <2>5. /\ nodes' \in Seq(NodeInfo)
        /\ Len(nodes') = Len(nodes) + 1
        /\ \A j \in 1 .. Len(nodes) : nodes'[j] = nodes[j]
        /\ nodes'[Len(nodes) + 1] = rec
    BY <1>0, <2>3, <2>4, AppendProperties
  <2>6. NodesSoFar'
    BY <1>0, <2>4, <2>5 DEF NodesSoFar
  <2>7. nodes' \in ListsUpTo(NodeInfo, MaxFiles)
    BY <1>0, <2>5, <1>0, ListsFacts DEF NodesSoFar
  <2>8. i' \in 1 .. Len(partners') + 1 /\ i' \in 1 .. MaxFiles + 1
    BY <1>0, <2>4
  <2>. QED
    BY <1>0, <2>4, <2>6, <2>7, <2>8 DEF IInv, TypeOK, PartnersSoFar
<1>2. CASE ~(w > 0)
  <2>1. /\ pc' = "exited" /\ i' = i
        /\ UNCHANGED <<partnerDir, weightsFile, partners, weights, weightsErr, nodes>>
    BY <1>2 DEF BuildPartner
  <2>2. i' \in 1 .. MaxFiles + 1
    BY <1>0, <2>1
  <2>. QED
    BY <2>1, <2>2, ExitIInv
<1>. QED
  BY <1>1, <1>2

(* The build loop is done: the function returns.                           *)
LEMMA ReturnPartnersIInv ==
  ASSUME IInv, ReturnPartners
  PROVE  IInv'
<1>1. /\ i \in 1 .. Len(partners) + 1 /\ i > Len(partners)
      /\ partners \in Seq(PartnerFile)
  BY StateFacts DEF IInv, ReturnPartners
<1>2. i = Len(partners) + 1
  BY <1>1, LenProperties
<1>. QED
  BY <1>2 DEF IInv, TypeOK, ReturnPartners, PartnersSoFar, NodesSoFar

(* Every step keeps the inductive invariant.                               *)
LEMMA NextIInv == IInv /\ [Next]_vars => IInv'
<1> SUFFICES ASSUME IInv, [Next]_vars PROVE IInv'
  OBVIOUS
<1>0. i \in 1 .. MaxFiles + 1
  BY StateFacts
<1>1. CASE ListPartnerDir
  BY <1>1, ListPartnerDirIInv
<1>2. CASE ListPartnerDirFails \/ ReadPartnerFileFails
  <2>1. /\ pc' = "exited" /\ i' = i
        /\ UNCHANGED <<partnerDir, weightsFile, partners, weights, weightsErr, nodes>>
    BY <1>2 DEF ListPartnerDirFails, ReadPartnerFileFails
  <2>. QED
    BY <1>0, <2>1, ExitIInv
<1>3. CASE ReadPartnerFile
  BY <1>3, ReadPartnerFileIInv
<1>4. CASE ReadPartnerWeights \/ ReadPartnerWeightsFails
  BY <1>4, ReadWeightsIInv
<1>5. CASE BuildPartner
  BY <1>5, BuildPartnerIInv
<1>6. CASE ReturnPartners
  BY <1>6, ReturnPartnersIInv
<1>7. CASE UNCHANGED vars
  BY <1>7 DEF vars, IInv, TypeOK, PartnersSoFar, NodesSoFar
<1>. QED
  BY <1>1, <1>2, <1>3, <1>4, <1>5, <1>6, <1>7 DEF Next

(* The invariant gives the reference list on return.                       *)
LEMMA IInvReference == IInv => PartnerNodesFromFiles
<1> SUFFICES ASSUME IInv, pc = "returned"
             PROVE  IsPartnerReference(nodes, partnerDir, weightsFile)
  BY DEF PartnerNodesFromFiles
<1>1. /\ partners \in Seq(PartnerFile) /\ nodes \in Seq(NodeInfo)
      /\ Len(nodes) = Len(partners)
      /\ \A j \in 1 .. Len(partners) :
           nodes[j] = [node |-> partners[j].node,
                       weight |-> Lookup(weights, partners[j].node)]
      /\ weights = IF weightsErr THEN NilWeights ELSE weightsFile
      /\ weightsErr \in BOOLEAN
  BY StateFacts DEF IInv, NodesSoFar
<1>2. PICK idx \in [1 .. Len(partners) -> 1 .. Len(partnerDir)] :
        /\ Enumerates(idx, PrefixedFiles(partnerDir, Len(partnerDir)))
        /\ \A j \in 1 .. Len(partners) : partners[j] = partnerDir[idx[j]]
  BY DEF IInv, PartnersSoFar
<1>3. \A j \in 1 .. Len(partners) :
        nodes[j] = [node |-> partnerDir[idx[j]].node,
                    weight |-> Lookup(weightsFile, partnerDir[idx[j]].node)]
  <2>1. CASE weightsErr = FALSE
    BY <1>1, <1>2, <2>1
  <2>2. CASE weightsErr = TRUE
    <3>1. SUFFICES ASSUME NEW j \in 1 .. Len(partners) PROVE FALSE
      OBVIOUS
    <3>2. nodes[j] \in NodeInfo
      BY <1>1, ElementOfSeq
    <3>4. weights = NilWeights
      BY <1>1, <2>2
    <3>5. \A k : Lookup(NilWeights, k) = 0
      BY DEF Lookup, NilWeights
    <3>6. nodes[j] = [node |-> partners[j].node,
                      weight |-> Lookup(weights, partners[j].node)]
      BY <1>1
    <3>7. Lookup(weights, partners[j].node) = 0
      BY <3>4, <3>5
    <3>3. nodes[j].weight = 0
      BY <3>6, <3>7
    <3>. QED
      BY <3>2, <3>3 DEF NodeInfo
  <2>. QED
    BY <1>1, <2>1, <2>2
<1>. QED
  BY <1>1, <1>2, <1>3 DEF IsPartnerReference

-----------------------------------------------------------------------------
(***************************************************************************)
(* ReadFullPartnerNodeInfos keeps its state well typed: every NodeInfo it  *)
(* builds carries a weight ValidateWeight accepted, and none of its lists  *)
(* outgrows the directory.                                                 *)
(***************************************************************************)
THEOREM PartnerTypeCorrect == Spec => []TypeOK
<1>1. IInv => TypeOK
  BY DEF IInv
<1>. QED
  BY <1>1, InitIInv, NextIInv, PTL DEF Spec

(***************************************************************************)
(* For every directory and weights file, when ReadFullPartnerNodeInfos     *)
(* returns, its list is exactly one NodeInfo per partner node-info file,   *)
(* in directory order, with the weight the weights file gives its node ID. *)
(***************************************************************************)
THEOREM PartnerListCorrect == Spec => []PartnerNodesFromFiles
BY InitIInv, NextIInv, IInvReference, PTL DEF Spec

=============================================================================
