------------------------ MODULE InternalNodeInfosProofs ------------------------
(***************************************************************************)
(* Proofs about ReadInternalNodeInfos (InternalNodeInfos): the node list   *)
(* it returns is always well typed, and is exactly one validated NodeInfo  *)
(* per private node-info file, in order, with the weight of the first      *)
(* configuration entry of its address.                                     *)
(***************************************************************************)
EXTENDS InternalNodeInfos

(* The map internalWeightsByAddress starts from.                           *)
EmptyWeights == [a \in {} |-> 0]

(* privInternals holds, in order, the prefixed files among the first n of  *)
(* the directory: the loop of ReadInternalNodes has read n files.          *)
InternalsSoFar(n) ==
  \E idx \in [1 .. Len(privInternals) -> 1 .. n] :
    /\ Enumerates(idx, PrefixedFiles(privDir, n))
    /\ \A j \in 1 .. Len(privInternals) : privInternals[j] = privDir[idx[j]]

(* weights maps each address among the first n configurations to the       *)
(* weight of the first of them: the loop of internalWeightsByAddress has   *)
(* read n configurations.                                                  *)
WeightsSoFar(n) ==
  /\ DOMAIN weights = {configFile[k].address : k \in 1 .. n}
  /\ \A a \in DOMAIN weights : weights[a] = FirstWeight(configFile, n, a)

(* The first i - 1 internal nodes have their NodeInfo in nodes.            *)
NodesSoFar ==
  /\ Len(nodes) = i - 1
  /\ \A j \in 1 .. i - 1 :
       nodes[j] = [node |-> privInternals[j].node,
                   address |-> privInternals[j].address,
                   weight |-> Lookup(weights, privInternals[j].address)]

(* The inductive invariant: where each loop is, and what it has built.     *)
IInv ==
  /\ TypeOK
  /\ privDir \in ListsUpTo(PrivFile, MaxFiles)
  /\ configFile \in ListsUpTo(NodeConfig, MaxConfigs)
  /\ pc = "listDir" =>
       /\ i = 1 /\ privInternals = <<>> /\ nodes = <<>> /\ weights = EmptyWeights
  /\ pc = "readFiles" =>
       /\ i \in 1 .. Len(privDir) + 1
       /\ Len(privInternals) <= i - 1
       /\ InternalsSoFar(i - 1)
       /\ nodes = <<>> /\ weights = EmptyWeights
  /\ pc \in {"weights", "build", "returned"} =>
       /\ Len(privInternals) <= Len(privDir)
       /\ InternalsSoFar(Len(privDir))
  /\ pc = "weights" =>
       /\ i \in 1 .. Len(configFile) + 1
       /\ WeightsSoFar(i - 1)
       /\ nodes = <<>>
  /\ pc \in {"build", "returned"} =>
       /\ WeightsSoFar(Len(configFile))
       /\ i \in 1 .. Len(privInternals) + 1
       /\ NodesSoFar
  /\ pc = "returned" => i = Len(privInternals) + 1

(* The maps internalWeightsByAddress can build.                            *)
WeightMaps == UNION {[D -> Weights] : D \in SUBSET Addresses}

-----------------------------------------------------------------------------
(* Adding a smaller-than-all position does not change the least position   *)
(* of a set of configurations: the larger one is never the first.          *)
LEMMA FirstConfigAdd ==
  \A ks \in SUBSET Nat : \A m \in Nat :
    ks # {} /\ (\A k \in ks : k < m) => FirstConfig(ks \cup {m}) = FirstConfig(ks)
<1> SUFFICES ASSUME NEW ks \in SUBSET Nat, NEW m \in Nat, ks # {},
                    \A k \in ks : k < m
             PROVE  FirstConfig(ks \cup {m}) = FirstConfig(ks)
  OBVIOUS
<1>1. \A k : (k \in ks \cup {m} /\ \A k2 \in ks \cup {m} : k <= k2)
               <=> (k \in ks /\ \A k2 \in ks : k <= k2)
  <2> SUFFICES ASSUME NEW k
               PROVE  (k \in ks \cup {m} /\ \A k2 \in ks \cup {m} : k <= k2)
                        <=> (k \in ks /\ \A k2 \in ks : k <= k2)
    OBVIOUS
  <2>1. CASE k \in ks
    BY <2>1
  <2>2. CASE k = m
    <3>1. PICK k2 \in ks : k2 < m
      OBVIOUS
    <3>2. ~(m <= k2) /\ m \notin ks
      BY <3>1
    <3>. QED
      BY <2>2, <3>1, <3>2
  <2>3. CASE k \notin ks /\ k # m
    BY <2>3
  <2>. QED
    BY <2>1, <2>2, <2>3
<1>. QED
  BY <1>1, Zenon DEF FirstConfig

(* The weight of an address after one more configuration: the new entry's  *)
(* weight if it is the first to name the address, otherwise unchanged.     *)
LEMMA FirstWeightStep ==
  \A cfgs : \A n \in Nat : \A a :
    FirstWeight(cfgs, n + 1, a) =
      IF ConfigsOf(cfgs, n, a) = {} /\ cfgs[n + 1].address = a
        THEN cfgs[n + 1].weight ELSE FirstWeight(cfgs, n, a)
<1> SUFFICES ASSUME NEW cfgs, NEW n \in Nat, NEW a
             PROVE  FirstWeight(cfgs, n + 1, a) =
                      IF ConfigsOf(cfgs, n, a) = {} /\ cfgs[n + 1].address = a
                        THEN cfgs[n + 1].weight ELSE FirstWeight(cfgs, n, a)
  OBVIOUS
<1>1. CASE cfgs[n + 1].address # a
  <2>1. ConfigsOf(cfgs, n + 1, a) = ConfigsOf(cfgs, n, a)
    BY <1>1 DEF ConfigsOf
  <2>. QED
    BY <1>1, <2>1 DEF FirstWeight
<1>2. CASE cfgs[n + 1].address = a /\ ConfigsOf(cfgs, n, a) = {}
  <2>1. ConfigsOf(cfgs, n + 1, a) = {n + 1}
    BY <1>2 DEF ConfigsOf
  <2>2. FirstConfig({n + 1}) = n + 1
    BY DEF FirstConfig
  <2>. QED
    BY <1>2, <2>1, <2>2 DEF FirstWeight
<1>3. CASE cfgs[n + 1].address = a /\ ConfigsOf(cfgs, n, a) # {}
  <2>1. ConfigsOf(cfgs, n + 1, a) = ConfigsOf(cfgs, n, a) \cup {n + 1}
    BY <1>3 DEF ConfigsOf
  <2>2. /\ ConfigsOf(cfgs, n, a) \in SUBSET Nat
        /\ \A k \in ConfigsOf(cfgs, n, a) : k < n + 1
    BY DEF ConfigsOf
  <2>3. FirstConfig(ConfigsOf(cfgs, n + 1, a)) = FirstConfig(ConfigsOf(cfgs, n, a))
    BY <1>3, <2>1, <2>2, FirstConfigAdd
  <2>4. ConfigsOf(cfgs, n + 1, a) # {}
    BY <1>3, <2>1
  <2>. QED
    BY <1>3, <2>3, <2>4 DEF FirstWeight
<1>. QED
  BY <1>1, <1>2, <1>3

(* A map of internalWeightsByAddress gives a weight or, for a missing key, 0. *)
LEMMA LookupType ==
  ASSUME NEW m \in WeightMaps, NEW k
  PROVE  Lookup(m, k) \in Weights \cup {0}
BY DEF WeightMaps, Lookup

(* The lists the model manipulates, as sequences.                          *)
LEMMA ListsFacts ==
  /\ \A s : s \in ListsUpTo(PrivFile, MaxFiles)
              <=> s \in Seq(PrivFile) /\ Len(s) <= MaxFiles
  /\ \A s : s \in ListsUpTo(NodeInfo, MaxFiles)
              <=> s \in Seq(NodeInfo) /\ Len(s) <= MaxFiles
  /\ \A s : s \in ListsUpTo(NodeConfig, MaxConfigs)
              <=> s \in Seq(NodeConfig) /\ Len(s) <= MaxConfigs
<1>1. MaxFiles \in Nat /\ MaxConfigs \in Nat
  BY InternalConstantsAssumption
<1>. QED
  BY <1>1, ListsUpToSeq

(* The largest loop bound TypeOK allows for i.                             *)
MaxLoop == IF MaxFiles >= MaxConfigs THEN MaxFiles ELSE MaxConfigs

(* The facts about the current state that every step uses.                 *)
LEMMA StateFacts ==
  IInv =>
         /\ privDir \in Seq(PrivFile) /\ Len(privDir) <= MaxFiles
         /\ configFile \in Seq(NodeConfig) /\ Len(configFile) <= MaxConfigs
         /\ privInternals \in Seq(PrivFile) /\ Len(privInternals) <= MaxFiles
         /\ nodes \in Seq(NodeInfo) /\ Len(nodes) <= MaxFiles
         /\ i \in 1 .. MaxLoop + 1
         /\ MaxFiles <= MaxLoop /\ MaxConfigs <= MaxLoop /\ MaxLoop \in Nat
         /\ weights \in WeightMaps
         /\ MaxFiles \in Nat /\ MaxConfigs \in Nat /\ Weights \subseteq Nat
BY ListsFacts, InternalConstantsAssumption DEF IInv, TypeOK, MaxLoop, WeightMaps

(* A step that exits the process keeps the invariant.                      *)
LEMMA ExitIInv ==
  ASSUME IInv, pc' = "exited",
         UNCHANGED <<privDir, configFile, i, privInternals, weights, nodes>>
  PROVE  IInv'
BY DEF IInv, TypeOK

-----------------------------------------------------------------------------
(* The initial state satisfies the inductive invariant.                    *)
LEMMA InitIInv == Init => IInv
<1> SUFFICES ASSUME Init PROVE IInv
  OBVIOUS
<1>0. MaxFiles \in Nat /\ MaxConfigs \in Nat
  BY InternalConstantsAssumption
<1>1. <<>> \in ListsUpTo(PrivFile, MaxFiles) /\ <<>> \in ListsUpTo(NodeInfo, MaxFiles)
  <2>1. <<>> \in Seq(PrivFile) /\ <<>> \in Seq(NodeInfo) /\ Len(<<>>) = 0
    BY EmptySeq
  <2>2. Len(<<>>) <= MaxFiles
    BY <1>0, <2>1
  <2>. QED
    BY <2>1, <2>2, ListsFacts, Zenon
<1>2. EmptyWeights \in UNION {[D -> Weights] : D \in SUBSET Addresses}
  <2>1. EmptyWeights \in [{} -> Weights]
    BY DEF EmptyWeights
  <2>. QED
    BY <2>1
<1>3. 1 \in 1 .. (IF MaxFiles >= MaxConfigs THEN MaxFiles ELSE MaxConfigs) + 1
  BY <1>0
<1>4. weights = EmptyWeights
  BY DEF Init, EmptyWeights
<1>5. TypeOK
  BY <1>1, <1>2, <1>3, <1>4, Zenon DEF Init, TypeOK
<1>. QED
  BY <1>4, <1>5, Zenon DEF Init, IInv

(* FilesInDir succeeds: the loop starts with nothing read.                 *)
LEMMA ListInternalDirIInv ==
  ASSUME IInv, ListInternalDir
  PROVE  IInv'
<1>1. /\ i = 1 /\ privInternals = <<>> /\ nodes = <<>> /\ weights = EmptyWeights
      /\ privDir \in Seq(PrivFile)
  BY StateFacts DEF IInv, ListInternalDir
<1>2. Len(privInternals) = 0 /\ Len(privDir) \in Nat
  BY <1>1, EmptySeq, LenProperties
<1>3. InternalsSoFar(0)
  <2>1. [j \in {} |-> 1] \in [1 .. Len(privInternals) -> 1 .. 0]
    BY <1>2
  <2>2. PrefixedFiles(privDir, 0) = {}
    BY DEF PrefixedFiles
  <2>3. Enumerates([j \in {} |-> 1], PrefixedFiles(privDir, 0))
    BY <2>2 DEF Enumerates
  <2>. QED
    BY <1>2, <2>1, <2>3 DEF InternalsSoFar
<1>4. (InternalsSoFar(i - 1))'
  <2>1. i' - 1 = 0 /\ privInternals' = privInternals /\ privDir' = privDir
    BY <1>1 DEF ListInternalDir
  <2>. QED
    BY <1>3, <2>1, Zenon DEF InternalsSoFar
<1>5. i' \in 1 .. Len(privDir') + 1 /\ Len(privInternals') <= i' - 1
  BY <1>1, <1>2 DEF ListInternalDir
<1>. QED
  BY <1>1, <1>4, <1>5 DEF IInv, TypeOK, ListInternalDir

(* One iteration of ReadInternalNodes' loop extends what privInternals     *)
(* holds by the file it reads, if that file has the prefix.                *)
LEMMA ReadInternalFileIInv ==
  ASSUME IInv, ReadInternalFile
  PROVE  IInv'
<1>0. /\ privDir \in Seq(PrivFile) /\ Len(privDir) <= MaxFiles
      /\ privInternals \in Seq(PrivFile) /\ MaxFiles \in Nat
      /\ MaxFiles <= MaxLoop /\ MaxLoop \in Nat
  BY StateFacts
<1>. USE <1>0
<1>1. /\ i \in 1 .. Len(privDir)
      /\ Len(privInternals) <= i - 1
      /\ nodes = <<>> /\ weights = EmptyWeights
  BY DEF IInv, ReadInternalFile
<1>6. privDir[i] \in PrivFile
  BY <1>1, ElementOfSeq
<1>. USE <1>6
<1>2. PICK idx \in [1 .. Len(privInternals) -> 1 .. i - 1] :
        /\ Enumerates(idx, PrefixedFiles(privDir, i - 1))
        /\ \A j \in 1 .. Len(privInternals) : privInternals[j] = privDir[idx[j]]
  BY DEF IInv, ReadInternalFile, InternalsSoFar
<1>3. SUFFICES /\ privInternals' \in Seq(PrivFile)
               /\ Len(privInternals') <= i
               /\ \E idx2 \in [1 .. Len(privInternals') -> 1 .. i] :
                    /\ Enumerates(idx2, PrefixedFiles(privDir, i))
                    /\ \A j \in 1 .. Len(privInternals') :
                         privInternals'[j] = privDir[idx2[j]]
  <2>1. privInternals' \in ListsUpTo(PrivFile, MaxFiles)
    BY <1>1, <1>3, ListsFacts
  <2>2. i' \in 1 .. Len(privDir) + 1 /\ i' \in 1 .. MaxLoop + 1
    BY <1>1 DEF ReadInternalFile
  <2>3. i' - 1 = i /\ privDir' = privDir
    BY <1>1 DEF ReadInternalFile
  <2>4. (InternalsSoFar(i - 1))'
    BY <1>3, <2>3 DEF InternalsSoFar
  <2>. QED
    BY <1>1, <2>1, <2>2, <2>4 DEF IInv, TypeOK, ReadInternalFile, MaxLoop
<1>4. CASE privDir[i].prefixed
  <2>. DEFINE idx2 == [j \in 1 .. Len(privInternals) + 1 |->
                         IF j <= Len(privInternals) THEN idx[j] ELSE i]
  <2>1. /\ privInternals' \in Seq(PrivFile)
        /\ Len(privInternals') = Len(privInternals) + 1
        /\ \A j \in 1 .. Len(privInternals) : privInternals'[j] = privInternals[j]
        /\ privInternals'[Len(privInternals) + 1] = privDir[i]
    BY <1>1, <1>4, AppendProperties DEF ReadInternalFile
  <2>2. idx2 \in [1 .. Len(privInternals') -> 1 .. i]
    BY <1>1, <1>2, <2>1
  <2>3. \A j, k \in DOMAIN idx2 : j < k => idx2[j] < idx2[k]
    BY <1>1, <1>2 DEF Enumerates
  <2>4. {idx2[j] : j \in DOMAIN idx2} = PrefixedFiles(privDir, i)
    <3>1. {idx[j] : j \in DOMAIN idx} = PrefixedFiles(privDir, i - 1)
      BY <1>2 DEF Enumerates
    <3>2. PrefixedFiles(privDir, i) = PrefixedFiles(privDir, i - 1) \cup {i}
      BY <1>1, <1>4 DEF PrefixedFiles
    <3>3. DOMAIN idx2 = 1 .. Len(privInternals) + 1
          /\ DOMAIN idx = 1 .. Len(privInternals)
      BY <1>2
    <3>4. ASSUME NEW j \in DOMAIN idx2
          PROVE  idx2[j] \in {idx[j2] : j2 \in DOMAIN idx} \cup {i}
      BY <3>3
    <3>5. ASSUME NEW j \in DOMAIN idx PROVE idx[j] = idx2[j]
      BY <3>3
    <3>6. i = idx2[Len(privInternals) + 1]
      BY <3>3
    <3>8. {idx2[j] : j \in DOMAIN idx2} \subseteq {idx[j] : j \in DOMAIN idx} \cup {i}
      BY <3>4
    <3>9. {idx[j] : j \in DOMAIN idx} \subseteq {idx2[j] : j \in DOMAIN idx2}
      BY <3>3, <3>5
    <3>10. i \in {idx2[j] : j \in DOMAIN idx2}
      BY <3>3, <3>6
    <3>7. {idx2[j] : j \in DOMAIN idx2} = {idx[j] : j \in DOMAIN idx} \cup {i}
      BY <3>8, <3>9, <3>10, Zenon
    <3>. QED
      BY <3>1, <3>2, <3>7
  <2>5. \A j \in 1 .. Len(privInternals') : privInternals'[j] = privDir[idx2[j]]
    BY <1>1, <1>2, <2>1
  <2>6. Enumerates(idx2, PrefixedFiles(privDir, i))
    BY <2>3, <2>4 DEF Enumerates
  <2>7. \E idx3 \in [1 .. Len(privInternals') -> 1 .. i] :
          /\ Enumerates(idx3, PrefixedFiles(privDir, i))
          /\ \A j \in 1 .. Len(privInternals') : privInternals'[j] = privDir[idx3[j]]
    BY <2>2, <2>5, <2>6
  <2>8. Len(privInternals') <= i
    BY <1>1, <2>1
  <2>. QED
    BY <2>1, <2>7, <2>8
<1>5. CASE ~privDir[i].prefixed
  <2>1. privInternals' = privInternals
    BY <1>5 DEF ReadInternalFile
  <2>2. PrefixedFiles(privDir, i) = PrefixedFiles(privDir, i - 1)
    BY <1>1, <1>5 DEF PrefixedFiles
  <2>3. idx \in [1 .. Len(privInternals') -> 1 .. i]
    BY <1>1, <1>2, <2>1
  <2>. QED
    BY <1>1, <1>2, <2>1, <2>2, <2>3
<1>. QED
  BY <1>4, <1>5

(* The directory loop is done: privInternals holds every prefixed file,    *)
(* and the configuration loop starts with the empty map.                   *)
LEMMA ReadConfigsIInv ==
  ASSUME IInv, ReadConfigs
  PROVE  IInv'
<1>0. /\ pc = "readFiles" /\ i \in 1 .. Len(privDir) + 1
      /\ i > Len(privDir)
      /\ Len(privInternals) <= i - 1
      /\ InternalsSoFar(i - 1)
      /\ nodes = <<>> /\ weights = EmptyWeights
      /\ privDir \in Seq(PrivFile) /\ configFile \in Seq(NodeConfig)
      /\ MaxLoop \in Nat
  BY StateFacts DEF IInv, ReadConfigs
<1>1. i - 1 = Len(privDir)
  BY <1>0, LenProperties
<1>2. InternalsSoFar(Len(privDir))
  BY <1>0, <1>1, Zenon
<1>3. /\ pc' = "weights" /\ i' = 1
      /\ UNCHANGED <<privDir, configFile, privInternals, weights, nodes>>
  BY DEF ReadConfigs
<1>4. (WeightsSoFar(i - 1))'
  <2>1. i' - 1 = 0
    BY <1>3
  <2>2. DOMAIN EmptyWeights = {configFile[k].address : k \in 1 .. 0}
    BY DEF EmptyWeights
  <2>. QED
    BY <1>0, <1>3, <2>1, <2>2 DEF WeightsSoFar
<1>5. Len(configFile) \in Nat
  BY <1>0, LenProperties
<1>6. TypeOK'
  BY <1>0, <1>3 DEF IInv, TypeOK, MaxLoop
<1>7. (InternalsSoFar(Len(privDir)))'
  BY <1>2, <1>3 DEF InternalsSoFar
<1>. QED
  BY <1>0, <1>1, <1>3, <1>4, <1>5, <1>6, <1>7 DEF IInv

(* What a configuration step leaves of the invariant, once the new map is  *)
(* known to be the map of the first i configurations.                      *)
LEMMA AddConfigWeightFrame ==
  ASSUME IInv, AddConfigWeight,
         DOMAIN weights' = {configFile[k].address : k \in 1 .. i},
         \A a \in DOMAIN weights' : weights'[a] = FirstWeight(configFile, i, a),
         weights' \in WeightMaps
  PROVE  IInv'
<1>0. /\ pc = "weights" /\ i \in 1 .. Len(configFile)
      /\ configFile \in Seq(NodeConfig)
      /\ Len(configFile) <= MaxConfigs /\ MaxConfigs <= MaxLoop /\ MaxLoop \in Nat
  BY StateFacts DEF IInv, AddConfigWeight
<1>1. /\ i' = i + 1 /\ pc' = pc
      /\ UNCHANGED <<privDir, configFile, privInternals, nodes>>
  BY DEF AddConfigWeight
<1>2. (WeightsSoFar(i - 1))'
  <2>1. i' - 1 = i
    BY <1>0, <1>1
  <2>. QED
    BY <1>1, <2>1, Zenon DEF WeightsSoFar
<1>6. Len(configFile) \in Nat /\ InternalsSoFar(Len(privDir))
  BY <1>0, LenProperties DEF IInv
<1>7. configFile' = configFile /\ i' = i + 1
  BY <1>1
<1>8. i' \in 1 .. Len(configFile) + 1
  BY <1>0, <1>7
<1>9. Len(configFile') = Len(configFile)
  BY <1>7
<1>10. i' \in 1 .. MaxLoop + 1
  BY <1>0, <1>8, <1>6, InternalConstantsAssumption
<1>3. i' \in 1 .. Len(configFile') + 1 /\ i' \in 1 .. MaxLoop + 1
  BY <1>8, <1>9, <1>10
<1>4. TypeOK'
  BY <1>0, <1>1, <1>3 DEF IInv, TypeOK, WeightMaps, MaxLoop
<1>5. (InternalsSoFar(Len(privDir)))'
  BY <1>1, <1>6 DEF InternalsSoFar
<1>. QED
  BY <1>0, <1>1, <1>2, <1>3, <1>4, <1>5 DEF IInv

(* One iteration of internalWeightsByAddress' loop: the map keeps, for     *)
(* every address read so far, the weight of its first configuration.      *)
LEMMA AddConfigWeightIInv ==
  ASSUME IInv, AddConfigWeight
  PROVE  IInv'
<1>0. /\ pc = "weights" /\ i \in 1 .. Len(configFile)
      /\ WeightsSoFar(i - 1)
      /\ configFile \in Seq(NodeConfig)
      /\ weights \in WeightMaps
      /\ Len(configFile) <= MaxConfigs /\ MaxConfigs <= MaxLoop /\ MaxLoop \in Nat
  BY StateFacts DEF IInv, AddConfigWeight
<1>. DEFINE c == configFile[i]
<1>1. c \in NodeConfig
  BY <1>0, ElementOfSeq
<1>2. /\ i' = i + 1 /\ pc' = pc
      /\ UNCHANGED <<privDir, configFile, privInternals, nodes>>
  BY DEF AddConfigWeight
<1>3. (i - 1) \in Nat /\ (i - 1) + 1 = i
  BY <1>0
<1>4. \A a : FirstWeight(configFile, i, a) =
               IF ConfigsOf(configFile, i - 1, a) = {} /\ c.address = a
                 THEN c.weight ELSE FirstWeight(configFile, i - 1, a)
  <2>1. \A a : FirstWeight(configFile, (i - 1) + 1, a) =
               IF ConfigsOf(configFile, i - 1, a) = {} /\ configFile[(i - 1) + 1].address = a
                 THEN configFile[(i - 1) + 1].weight ELSE FirstWeight(configFile, i - 1, a)
    BY <1>3, FirstWeightStep
  <2>. QED
    BY <1>3, <2>1
<1>5. {configFile[k].address : k \in 1 .. i}
        = {configFile[k].address : k \in 1 .. i - 1} \cup {c.address}
  BY <1>0
<1>6. \A a : ConfigsOf(configFile, i - 1, a) = {}
               <=> a \notin {configFile[k].address : k \in 1 .. i - 1}
  BY DEF ConfigsOf
<1>7. CASE c.address \in DOMAIN weights
  <2>1. weights' = weights
    BY <1>7 DEF AddConfigWeight
  <2>2. DOMAIN weights' = {configFile[k].address : k \in 1 .. i}
    BY <1>0, <1>5, <1>7, <2>1 DEF WeightsSoFar
  <2>3. \A a \in DOMAIN weights' : weights'[a] = FirstWeight(configFile, i, a)
    BY <1>0, <1>4, <1>6, <1>7, <2>1 DEF WeightsSoFar
  <2>4. weights' \in WeightMaps
    BY <1>0, <2>1
  <2>. QED
    BY <2>2, <2>3, <2>4, AddConfigWeightFrame
<1>8. CASE c.address \notin DOMAIN weights
  <2>1. weights' = [a \in DOMAIN weights \cup {c.address} |->
                      IF a = c.address THEN c.weight ELSE weights[a]]
    BY <1>8 DEF AddConfigWeight
  <2>2. DOMAIN weights' = {configFile[k].address : k \in 1 .. i}
    BY <1>0, <1>5, <2>1 DEF WeightsSoFar
  <2>3. \A a \in DOMAIN weights' : weights'[a] = FirstWeight(configFile, i, a)
    BY <1>0, <1>4, <1>6, <1>8, <2>1 DEF WeightsSoFar
  <2>4. weights' \in WeightMaps
    BY <1>0, <1>1, <2>1 DEF WeightMaps, NodeConfig
  <2>. QED
    BY <2>2, <2>3, <2>4, AddConfigWeightFrame
<1>. QED
  BY <1>7, <1>8

(* internalWeightsByAddress returns: the map holds every configured        *)
(* address, and the build loop starts.                                     *)
LEMMA WeightsReadIInv ==
  ASSUME IInv, WeightsRead
  PROVE  IInv'
<1>0. /\ pc = "weights" /\ i \in 1 .. Len(configFile) + 1
      /\ i > Len(configFile)
      /\ WeightsSoFar(i - 1)
      /\ nodes = <<>>
      /\ configFile \in Seq(NodeConfig) /\ privInternals \in Seq(PrivFile)
      /\ MaxLoop \in Nat
  BY StateFacts DEF IInv, WeightsRead
<1>1. i - 1 = Len(configFile)
  BY <1>0, LenProperties
<1>2. WeightsSoFar(Len(configFile))
  BY <1>0, <1>1, Zenon
<1>3. /\ pc' = "build" /\ i' = 1
      /\ UNCHANGED <<privDir, configFile, privInternals, weights, nodes>>
  BY DEF WeightsRead
<1>4. Len(nodes) = 0 /\ Len(privInternals) \in Nat
  BY <1>0, EmptySeq, LenProperties
<1>5. NodesSoFar'
  BY <1>3, <1>4 DEF NodesSoFar
<1>6. (WeightsSoFar(Len(configFile)))'
  BY <1>2, <1>3 DEF WeightsSoFar
<1>7. TypeOK'
  BY <1>0, <1>3 DEF IInv, TypeOK, MaxLoop
<1>8. (InternalsSoFar(Len(privDir)))' /\ Len(privInternals) <= Len(privDir)
  BY <1>0, <1>3 DEF IInv, InternalsSoFar
<1>. QED
  BY <1>0, <1>3, <1>4, <1>5, <1>6, <1>7, <1>8 DEF IInv

(* One iteration of the build loop appends the NodeInfo of the next        *)
(* internal node, or exits on a weight ValidateWeight rejects.             *)
LEMMA BuildInternalIInv ==
  ASSUME IInv, BuildInternal
  PROVE  IInv'
<1>0. /\ pc = "build" /\ i \in 1 .. Len(privInternals)
      /\ privInternals \in Seq(PrivFile) /\ nodes \in Seq(NodeInfo)
      /\ Len(privInternals) <= Len(privDir) /\ Len(privDir) <= MaxFiles
      /\ MaxFiles <= MaxLoop /\ MaxLoop \in Nat
      /\ weights \in WeightMaps /\ MaxFiles \in Nat
      /\ NodesSoFar
  BY StateFacts DEF IInv, BuildInternal
<1>. DEFINE p == privInternals[i]
            w == Lookup(weights, p.address)
            rec == [node |-> p.node, address |-> p.address, weight |-> w]
<1>1. CASE w > 0
  <2>1. p \in PrivFile
    BY <1>0, ElementOfSeq
  <2>2. w \in Weights
    BY <1>0, <1>1, LookupType, InternalConstantsAssumption
  <2>3. rec \in NodeInfo
    BY <1>1, <2>1, <2>2 DEF NodeInfo, PrivFile
  <2>4. /\ nodes' = Append(nodes, rec) /\ i' = i + 1 /\ pc' = pc
        /\ UNCHANGED <<privDir, configFile, privInternals, weights>>
    BY <1>1 DEF BuildInternal
  <2>5. /\ nodes' \in Seq(NodeInfo)
        /\ Len(nodes') = Len(nodes) + 1
        /\ \A j \in 1 .. Len(nodes) : nodes'[j] = nodes[j]
        /\ nodes'[Len(nodes) + 1] = rec
    BY <1>0, <2>3, <2>4, AppendProperties
  <2>6. NodesSoFar'
    BY <1>0, <2>4, <2>5 DEF NodesSoFar
  <2>7. nodes' \in ListsUpTo(NodeInfo, MaxFiles)
    BY <1>0, <2>5, ListsFacts DEF NodesSoFar
  <2>8. i' \in 1 .. Len(privInternals') + 1 /\ i' \in 1 .. MaxLoop + 1
    BY <1>0, <2>4
  <2>9. TypeOK'
    BY <1>0, <2>4, <2>7, <2>8 DEF IInv, TypeOK, MaxLoop
  <2>11. InternalsSoFar(Len(privDir)) /\ WeightsSoFar(Len(configFile))
    BY <1>0 DEF IInv
  <2>10. (InternalsSoFar(Len(privDir)))' /\ (WeightsSoFar(Len(configFile)))'
    BY <2>4, <2>11 DEF InternalsSoFar, WeightsSoFar
  <2>. QED
    BY <1>0, <2>4, <2>6, <2>8, <2>9, <2>10 DEF IInv
<1>2. CASE ~(w > 0)
  <2>1. /\ pc' = "exited"
        /\ UNCHANGED <<privDir, configFile, i, privInternals, weights, nodes>>
    BY <1>2 DEF BuildInternal
  <2>. QED
    BY <2>1, ExitIInv
<1>. QED
  BY <1>1, <1>2

(* The build loop is done: the function returns.                           *)
LEMMA ReturnInternalsIInv ==
  ASSUME IInv, ReturnInternals
  PROVE  IInv'
<1>1. /\ i \in 1 .. Len(privInternals) + 1 /\ i > Len(privInternals)
      /\ privInternals \in Seq(PrivFile)
  BY StateFacts DEF IInv, ReturnInternals
<1>2. i = Len(privInternals) + 1
  BY <1>1, LenProperties
<1>3. /\ InternalsSoFar(Len(privDir)) /\ WeightsSoFar(Len(configFile))
      /\ NodesSoFar /\ TypeOK /\ Len(privInternals) <= Len(privDir)
      /\ privDir \in ListsUpTo(PrivFile, MaxFiles)
      /\ configFile \in ListsUpTo(NodeConfig, MaxConfigs)
  BY DEF IInv, ReturnInternals
<1>4. /\ pc' = "returned"
      /\ UNCHANGED <<privDir, configFile, i, privInternals, weights, nodes>>
  BY DEF ReturnInternals
<1>5. /\ (InternalsSoFar(Len(privDir)))' /\ (WeightsSoFar(Len(configFile)))'
      /\ NodesSoFar'
  BY <1>3, <1>4 DEF InternalsSoFar, WeightsSoFar, NodesSoFar
<1>6. TypeOK'
  BY <1>3, <1>4 DEF TypeOK
<1>. QED
  BY <1>2, <1>3, <1>4, <1>5, <1>6 DEF IInv

(* Every step keeps the inductive invariant.                               *)
LEMMA NextIInv == IInv /\ [Next]_vars => IInv'
<1> SUFFICES ASSUME IInv, [Next]_vars PROVE IInv'
  OBVIOUS
<1>1. CASE ListInternalDir
  BY <1>1, ListInternalDirIInv
<1>2. CASE ListInternalDirFails \/ ReadInternalFileFails \/ ReadConfigsFails
  <2>1. /\ pc' = "exited"
        /\ UNCHANGED <<privDir, configFile, i, privInternals, weights, nodes>>
    BY <1>2 DEF ListInternalDirFails, ReadInternalFileFails, ReadConfigsFails
  <2>. QED
    BY <2>1, ExitIInv
<1>3. CASE ReadInternalFile
  BY <1>3, ReadInternalFileIInv
<1>4. CASE ReadConfigs
  BY <1>4, ReadConfigsIInv
<1>5. CASE AddConfigWeight
  BY <1>5, AddConfigWeightIInv
<1>6. CASE WeightsRead
  BY <1>6, WeightsReadIInv
<1>7. CASE BuildInternal
  BY <1>7, BuildInternalIInv
<1>8. CASE ReturnInternals
  BY <1>8, ReturnInternalsIInv
<1>9. CASE UNCHANGED vars
  BY <1>9 DEF vars, IInv, TypeOK, InternalsSoFar, WeightsSoFar, NodesSoFar
<1>. QED
  BY <1>1, <1>2, <1>3, <1>4, <1>5, <1>6, <1>7, <1>8, <1>9 DEF Next

(* Once every configuration is read, looking an address up in the map      *)
(* gives the weight of its first configuration, or 0 when none names it.   *)
LEMMA LookupFirstWeight ==
  ASSUME WeightsSoFar(Len(configFile)), NEW a
  PROVE  Lookup(weights, a) = FirstWeight(configFile, Len(configFile), a)
<1>1. CASE a \in DOMAIN weights
  BY <1>1 DEF WeightsSoFar, Lookup
<1>2. CASE a \notin DOMAIN weights
  <2>1. ConfigsOf(configFile, Len(configFile), a) = {}
    BY <1>2 DEF WeightsSoFar, ConfigsOf
  <2>. QED
    BY <1>2, <2>1 DEF Lookup, FirstWeight
<1>. QED
  BY <1>1, <1>2

(* The invariant gives the reference list on return.                       *)
LEMMA IInvReference == IInv => InternalNodesFromFiles
<1> SUFFICES ASSUME IInv, pc = "returned"
             PROVE  IsInternalReference(nodes, privDir, configFile)
  BY DEF InternalNodesFromFiles
<1>1. /\ privInternals \in Seq(PrivFile) /\ nodes \in Seq(NodeInfo)
      /\ Len(nodes) = Len(privInternals)
      /\ \A j \in 1 .. Len(privInternals) :
           nodes[j] = [node |-> privInternals[j].node,
                       address |-> privInternals[j].address,
                       weight |-> Lookup(weights, privInternals[j].address)]
      /\ WeightsSoFar(Len(configFile))
  BY StateFacts DEF IInv, NodesSoFar
<1>2. PICK idx \in [1 .. Len(privInternals) -> 1 .. Len(privDir)] :
        /\ Enumerates(idx, PrefixedFiles(privDir, Len(privDir)))
        /\ \A j \in 1 .. Len(privInternals) : privInternals[j] = privDir[idx[j]]
  BY DEF IInv, InternalsSoFar
<1>3. \A a : Lookup(weights, a) = FirstWeight(configFile, Len(configFile), a)
  BY <1>1, LookupFirstWeight
<1>4. \A j \in 1 .. Len(privInternals) :
        nodes[j] = [node |-> privDir[idx[j]].node,
                    address |-> privDir[idx[j]].address,
                    weight |-> FirstWeight(configFile, Len(configFile),
                                           privDir[idx[j]].address)]
  BY <1>1, <1>2, <1>3
<1>. QED
  BY <1>1, <1>2, <1>4 DEF IsInternalReference

-----------------------------------------------------------------------------
(***************************************************************************)
(* ReadInternalNodeInfos keeps its state well typed: every NodeInfo it     *)
(* builds carries a weight ValidateWeight accepted, the weights map only   *)
(* holds configured addresses, and no list outgrows its file.              *)
(***************************************************************************)
THEOREM InternalTypeCorrect == Spec => []TypeOK
<1>1. IInv => TypeOK
  BY DEF IInv
<1>. QED
  BY <1>1, InitIInv, NextIInv, PTL DEF Spec

(***************************************************************************)
(* For every directory and configuration file, when ReadInternalNodeInfos  *)
(* returns, its list is exactly one NodeInfo per private node-info file,   *)
(* in directory order, with the weight of the first configuration entry of *)
(* its address: internalWeightsByAddress keeps the first weight of a       *)
(* duplicated address, so a later entry never changes a node's weight.     *)
(***************************************************************************)
THEOREM InternalListCorrect == Spec => []InternalNodesFromFiles
BY InitIInv, NextIInv, IInvReference, PTL DEF Spec

=============================================================================
