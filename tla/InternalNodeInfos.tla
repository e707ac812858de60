---------------------------- MODULE InternalNodeInfos ----------------------------
(***************************************************************************)
(* ReadInternalNodeInfos (cmd/util/cmd/common/node_info.go): read the      *)
(* private node-info files of the internal nodes (ReadInternalNodes), read *)
(* the internal node configurations and map each address to its weight    *)
(* (internalWeightsByAddress), then build one NodeInfo per internal node   *)
(* with the weight of its address.                                         *)
(*                                                                         *)
(* As in PartnerNodeInfos, each loop iteration is a step, the directory    *)
(* and the configuration file are inputs chosen in Init, and a failed read *)
(* is a step of its own.  A private node-info file is whether its name has *)
(* the prefix, its node ID and its address; keys and role are carried      *)
(* through and left out.  ValidateAddressFormat and ValidateNodeID are     *)
(* taken to accept, and ValidateWeight(w) is (w, w > 0).  A duplicate      *)
(* address in the configurations is logged and skipped.                    *)
(***************************************************************************)
EXTENDS NodeInfoLists

CONSTANTS
  NodeIDs,       \* node IDs the files may hold
  Addresses,     \* node addresses
  Weights,       \* weights a configuration may give (0 is invalid)
  MaxFiles,      \* bound on the files in the private node-info directory
  MaxConfigs     \* bound on the entries of the configuration file

ASSUME InternalConstantsAssumption ==
  /\ Weights \subseteq Nat
  /\ MaxFiles \in Nat
  /\ MaxConfigs \in Nat

PrivFile == [prefixed : BOOLEAN, node : NodeIDs, address : Addresses]

NodeConfig == [address : Addresses, weight : Weights]

(* weights[address] on a Go map.                                           *)
Lookup(m, k) == IF k \in DOMAIN m THEN m[k] ELSE 0

VARIABLES
  privDir,        \* input: the files FilesInDir lists
  configFile,     \* input: the []NodeConfig the configuration file holds
  pc,             \* "listDir", "readFiles", "weights", "build", "returned"
                  \* or "exited"
  i,              \* loop index of the current range loop
  privInternals,  \* ReadInternalNodes' result, so far
  weights,        \* internalWeightsByAddress' map, so far
  nodes           \* ReadInternalNodeInfos' result, so far

vars == <<privDir, configFile, pc, i, privInternals, weights, nodes>>

Init ==
  /\ privDir \in ListsUpTo(PrivFile, MaxFiles)
  /\ configFile \in ListsUpTo(NodeConfig, MaxConfigs)
  /\ pc = "listDir"
  /\ i = 1
  /\ privInternals = <<>>
  /\ weights = [a \in {} |-> 0]
  /\ nodes = <<>>

-----------------------------------------------------------------------------
(* FilesInDir succeeds.                                                    *)
ListInternalDir ==
  /\ pc = "listDir"
  /\ pc' = "readFiles"
  /\ UNCHANGED <<privDir, configFile, i, privInternals, weights, nodes>>

(* FilesInDir fails: Fatal with Msg exits.                                 *)
ListInternalDirFails ==
  /\ pc = "listDir"
  /\ pc' = "exited"
  /\ UNCHANGED <<privDir, configFile, i, privInternals, weights, nodes>>

(* One iteration of ReadInternalNodes' loop: skip a file without the       *)
(* private node-info prefix, or read it and append it.                     *)
ReadInternalFile ==
  /\ pc = "readFiles"
  /\ i <= Len(privDir)
  /\ privInternals' = IF privDir[i].prefixed
                        THEN Append(privInternals, privDir[i])
                        ELSE privInternals
  /\ i' = i + 1
  /\ UNCHANGED <<privDir, configFile, pc, weights, nodes>>

(* ReadJSON of a private node-info file fails: Fatal with Msg exits.       *)
ReadInternalFileFails ==
  /\ pc = "readFiles"
  /\ i <= Len(privDir)
  /\ privDir[i].prefixed
  /\ pc' = "exited"
  /\ UNCHANGED <<privDir, configFile, i, privInternals, weights, nodes>>

(* internalWeightsByAddress reads the configuration file.                  *)
ReadConfigs ==
  /\ pc = "readFiles"
  /\ i > Len(privDir)
  /\ pc' = "weights"
  /\ i' = 1
  /\ UNCHANGED <<privDir, configFile, privInternals, weights, nodes>>

(* ReadJSON of the configuration file fails: Fatal with Msg exits.         *)
ReadConfigsFails ==
  /\ pc = "readFiles"
  /\ i > Len(privDir)
  /\ pc' = "exited"
  /\ UNCHANGED <<privDir, configFile, i, privInternals, weights, nodes>>

(* Mutant: a later configuration of the same address overwrites it.      *)
AddConfigWeightLastWins ==
  LET c == configFile[i] IN
  /\ pc = "weights"
  /\ i <= Len(configFile)
  /\ weights' = [a \in DOMAIN weights \cup {c.address} |->
                   IF a = c.address THEN c.weight ELSE weights[a]]
  /\ i' = i + 1
  /\ UNCHANGED <<privDir, configFile, pc, privInternals, nodes>>

(* One iteration of internalWeightsByAddress' loop: the first weight of an *)
(* address is kept; a duplicate address is only logged.                   *)
AddConfigWeight ==
  LET c == configFile[i] IN
  /\ pc = "weights"
  /\ i <= Len(configFile)
  /\ weights' = IF c.address \in DOMAIN weights THEN weights
                ELSE [a \in DOMAIN weights \cup {c.address} |->
                        IF a = c.address THEN c.weight ELSE weights[a]]
  /\ i' = i + 1
  /\ UNCHANGED <<privDir, configFile, pc, privInternals, nodes>>

(* internalWeightsByAddress returns the map; the build loop starts.        *)
WeightsRead ==
  /\ pc = "weights"
  /\ i > Len(configFile)
  /\ pc' = "build"
  /\ i' = 1
  /\ UNCHANGED <<privDir, configFile, privInternals, weights, nodes>>

(* Mutant: the result of ValidateWeight is ignored.                      *)
BuildInternalUnvalidated ==
  LET p == privInternals[i] IN
  /\ pc = "build"
  /\ i <= Len(privInternals)
  /\ nodes' = Append(nodes, [node |-> p.node, address |-> p.address,
                             weight |-> Lookup(weights, p.address)])
  /\ i' = i + 1
  /\ UNCHANGED <<privDir, configFile, pc, privInternals, weights>>

(* One iteration of the build loop: ValidateWeight(weights[Address]); an   *)
(* invalid weight is Fatal (sent with Msgf), a valid one gives a NodeInfo. *)
BuildInternal ==
  LET p == privInternals[i]
      w == Lookup(weights, p.address)
  IN
  /\ pc = "build"
  /\ i <= Len(privInternals)
  /\ IF w > 0
       THEN /\ nodes' = Append(nodes, [node |-> p.node, address |-> p.address,
                                       weight |-> w])
            /\ i' = i + 1
            /\ UNCHANGED pc
       ELSE /\ pc' = "exited"
            /\ UNCHANGED <<nodes, i>>
  /\ UNCHANGED <<privDir, configFile, privInternals, weights>>

(* The build loop is done and the node list is returned.                   *)
ReturnInternals ==
  /\ pc = "build"
  /\ i > Len(privInternals)
  /\ pc' = "returned"
  /\ UNCHANGED <<privDir, configFile, i, privInternals, weights, nodes>>

Next ==
  \/ ListInternalDir \/ ListInternalDirFails
  \/ ReadInternalFile \/ ReadInternalFileFails
  \/ ReadConfigs \/ ReadConfigsFails \/ AddConfigWeight \/ WeightsRead
  \/ BuildInternal \/ ReturnInternals

Spec == Init /\ [][Next]_vars

-----------------------------------------------------------------------------
(* A NodeInfo of the result: a weight ValidateWeight took.                 *)
NodeInfo == [node : NodeIDs, address : Addresses,
             weight : {w \in Weights : w > 0}]

TypeOK ==
  /\ pc \in {"listDir", "readFiles", "weights", "build", "returned", "exited"}
  /\ i \in 1 .. (IF MaxFiles >= MaxConfigs THEN MaxFiles ELSE MaxConfigs) + 1
  /\ privInternals \in ListsUpTo(PrivFile, MaxFiles)
  /\ weights \in UNION {[D -> Weights] : D \in SUBSET Addresses}
  /\ nodes \in ListsUpTo(NodeInfo, MaxFiles)

(* The entries among the first n configurations that name addr.          *)
ConfigsOf(cfgs, n, addr) == {k \in 1 .. n : cfgs[k].address = addr}

(* The least of a set of positions.                                        *)
FirstConfig(ks) == CHOOSE k \in ks : \A k2 \in ks : k <= k2

(* The weight of the first of the first n configurations of an address, 0  *)
(* if none names it.                                                       *)
FirstWeight(cfgs, n, addr) ==
  IF ConfigsOf(cfgs, n, addr) = {} THEN 0
  ELSE cfgs[FirstConfig(ConfigsOf(cfgs, n, addr))].weight

(* What ReadInternalNodeInfos should return: one entry per prefixed file,  *)
(* in directory order, with the first configured weight of its address.   *)
IsInternalReference(ns, dir, cfgs) ==
  \E idx \in [1 .. Len(ns) -> 1 .. Len(dir)] :
    /\ Enumerates(idx, PrefixedFiles(dir, Len(dir)))
    /\ \A j \in 1 .. Len(ns) :
         ns[j] = [node |-> dir[idx[j]].node, address |-> dir[idx[j]].address,
                  weight |-> FirstWeight(cfgs, Len(cfgs), dir[idx[j]].address)]

(***************************************************************************)
(* When ReadInternalNodeInfos returns, its list is exactly one NodeInfo    *)
(* per private node-info file, in order, each with the weight of the       *)
(* first configuration entry of its address: a duplicate entry later in    *)
(* the file never changes a node's weight.                                 *)
(***************************************************************************)
InternalNodesFromFiles ==
  pc = "returned" => IsInternalReference(nodes, privDir, configFile)

=============================================================================
