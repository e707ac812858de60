---------------------------- MODULE PartnerNodeInfos ----------------------------
(***************************************************************************)
(* ReadFullPartnerNodeInfos (cmd/util/cmd/common/node_info.go), run by the *)
(* bootstrap commands: list the partner node-info directory, read every    *)
(* file whose name carries the partner node-info prefix (ReadPartnerNodes), *)
(* read the partner weights file (ReadPartnerWeights), then build one      *)
(* NodeInfo per partner with the weight the weights map gives its node ID. *)
(*                                                                         *)
(* Each loop iteration is a step.  The directory and the weights file are  *)
(* inputs chosen in Init; reading them may fail (an I/O or JSON error),    *)
(* which is a step of its own.  A file is whether its name has the prefix  *)
(* and the node ID it holds; keys, role and address are carried through    *)
(* unchanged and left out.  ValidateNodeID and the key validators are      *)
(* taken to accept (they exit on a malformed input file), and              *)
(* ValidateWeight(w) is (w, w > 0).                                        *)
(*                                                                         *)
(* log.Fatal() returns a zerolog event that exits the process only when it *)
(* is sent with Msg, Msgf or Send.                                         *)
(***************************************************************************)
EXTENDS NodeInfoLists

CONSTANTS
  NodeIDs,     \* node IDs the files may hold
  Weights,     \* weights the weights file may give (0 is invalid)
  MaxFiles     \* bound on the files in the partner directory

ASSUME PartnerConstantsAssumption ==
  /\ Weights \subseteq Nat
  /\ MaxFiles \in Nat

PartnerFile == [prefixed : BOOLEAN, node : NodeIDs]

(* The JSON weights map: node ID -> weight, for some of the node IDs.      *)
WeightMaps == UNION {[D -> Weights] : D \in SUBSET NodeIDs}

(* A nil map: every lookup gives the zero value.                           *)
NilWeights == [n \in {} |-> 0]

(* weights[id] on a Go map.                                                *)
Lookup(m, k) == IF k \in DOMAIN m THEN m[k] ELSE 0

VARIABLES
  partnerDir,     \* input: the files FilesInDir lists
  weightsFile,    \* input: the map the weights file holds
  pc,             \* "listDir", "readFiles", "build",
                  \* "returned" or "exited"
  i,              \* loop index of the current range loop
  partners,       \* ReadPartnerNodes' result, so far
  weights,        \* ReadPartnerWeights' result
  weightsErr,     \* ReadPartnerWeights returned an error
  nodes           \* ReadFullPartnerNodeInfos' result, so far

vars == <<partnerDir, weightsFile, pc, i, partners, weights, weightsErr, nodes>>

Init ==
  /\ partnerDir \in ListsUpTo(PartnerFile, MaxFiles)
  /\ weightsFile \in WeightMaps
  /\ pc = "listDir"
  /\ i = 1
  /\ partners = <<>>
  /\ weights = NilWeights
  /\ weightsErr = FALSE
  /\ nodes = <<>>

-----------------------------------------------------------------------------
(* FilesInDir succeeds.                                                    *)
ListPartnerDir ==
  /\ pc = "listDir"
  /\ pc' = "readFiles"
  /\ UNCHANGED <<partnerDir, weightsFile, i, partners, weights, weightsErr,
                 nodes>>

(* FilesInDir fails: log.Fatal().Err(err).Msg exits.                       *)
ListPartnerDirFails ==
  /\ pc = "listDir"
  /\ pc' = "exited"
  /\ UNCHANGED <<partnerDir, weightsFile, i, partners, weights, weightsErr,
                 nodes>>

(* Mutant: files without the node-info prefix are read as well.         *)
ReadPartnerFileUnfiltered ==
  /\ pc = "readFiles"
  /\ i <= Len(partnerDir)
  /\ partners' = Append(partners, partnerDir[i])
  /\ i' = i + 1
  /\ UNCHANGED <<partnerDir, weightsFile, pc, weights, weightsErr, nodes>>

(* One iteration of ReadPartnerNodes' loop: skip a file without the        *)
(* prefix, or read it with ReadJSON and append it.                         *)
ReadPartnerFile ==
  /\ pc = "readFiles"
  /\ i <= Len(partnerDir)
  /\ partners' = IF partnerDir[i].prefixed
                   THEN Append(partners, partnerDir[i]) ELSE partners
  /\ i' = i + 1
  /\ UNCHANGED <<partnerDir, weightsFile, pc, weights, weightsErr, nodes>>

(* ReadJSON of a node-info file fails: Fatal with Msg exits.               *)
ReadPartnerFileFails ==
  /\ pc = "readFiles"
  /\ i <= Len(partnerDir)
  /\ partnerDir[i].prefixed
  /\ pc' = "exited"
  /\ UNCHANGED <<partnerDir, weightsFile, i, partners, weights, weightsErr,
                 nodes>>

(* The loop is done; ReadPartnerWeights reads the weights file.            *)
ReadPartnerWeights ==
  /\ pc = "readFiles"
  /\ i > Len(partnerDir)
  /\ weights' = weightsFile
  /\ pc' = "build"
  /\ i' = 1
  /\ UNCHANGED <<partnerDir, weightsFile, partners, weightsErr, nodes>>

(* ReadPartnerWeights fails and returns a nil map.  The Fatal event at     *)
(* line 28 is never sent, so the function goes on with no weights.         *)
ReadPartnerWeightsFails ==
  /\ pc = "readFiles"
  /\ i > Len(partnerDir)
  /\ weights' = NilWeights
  /\ weightsErr' = TRUE
  /\ pc' = "build"
  /\ i' = 1
  /\ UNCHANGED <<partnerDir, weightsFile, partners, nodes>>

(* Mutant: the result of ValidateWeight is ignored.                      *)
BuildPartnerUnvalidated ==
  LET w == Lookup(weights, partners[i].node) IN
  /\ pc = "build"
  /\ i <= Len(partners)
  /\ nodes' = Append(nodes, [node |-> partners[i].node, weight |-> w])
  /\ i' = i + 1
  /\ UNCHANGED <<partnerDir, weightsFile, pc, partners, weights, weightsErr>>

(* One iteration of the build loop: ValidateWeight(weights[NodeID]); an    *)
(* invalid weight is Fatal (sent with Msgf), a valid one gives a NodeInfo. *)
BuildPartner ==
  LET w == Lookup(weights, partners[i].node) IN
  /\ pc = "build"
  /\ i <= Len(partners)
  /\ IF w > 0
       THEN /\ nodes' = Append(nodes, [node |-> partners[i].node, weight |-> w])
            /\ i' = i + 1
            /\ UNCHANGED pc
       ELSE /\ pc' = "exited"
            /\ UNCHANGED <<nodes, i>>
  /\ UNCHANGED <<partnerDir, weightsFile, partners, weights, weightsErr>>

(* The build loop is done and the node list is returned.                   *)
ReturnPartners ==
  /\ pc = "build"
  /\ i > Len(partners)
  /\ pc' = "returned"
  /\ UNCHANGED <<partnerDir, weightsFile, i, partners, weights, weightsErr,
                 nodes>>

Next ==
  \/ ListPartnerDir \/ ListPartnerDirFails
  \/ ReadPartnerFile \/ ReadPartnerFileFails
  \/ ReadPartnerWeights \/ ReadPartnerWeightsFails
  \/ BuildPartner \/ ReturnPartners

Spec == Init /\ [][Next]_vars

-----------------------------------------------------------------------------
(* A NodeInfo of the result: a node ID and a weight ValidateWeight took.   *)
NodeInfo == [node : NodeIDs, weight : {w \in Weights : w > 0}]

TypeOK ==
  /\ pc \in {"listDir", "readFiles", "build", "returned",
             "exited"}
  /\ i \in 1 .. MaxFiles + 1
  /\ partners \in ListsUpTo(PartnerFile, MaxFiles)
  /\ weights \in WeightMaps
  /\ weightsErr \in BOOLEAN
  /\ nodes \in ListsUpTo(NodeInfo, MaxFiles)

(* What ReadFullPartnerNodeInfos should return for a directory and a       *)
(* weights map: one entry per prefixed file, in directory order, with the  *)
(* weight of its node ID.                                                  *)
IsPartnerReference(ns, dir, wmap) ==
  \E idx \in [1 .. Len(ns) -> 1 .. Len(dir)] :
    /\ Enumerates(idx, PrefixedFiles(dir, Len(dir)))
    /\ \A j \in 1 .. Len(ns) :
         ns[j] = [node |-> dir[idx[j]].node,
                  weight |-> Lookup(wmap, dir[idx[j]].node)]

(***************************************************************************)
(* When ReadFullPartnerNodeInfos returns, its list is exactly one NodeInfo *)
(* per partner node-info file of the directory, in order, each with the    *)
(* weight the weights file gives its node ID.                              *)
(***************************************************************************)
PartnerNodesFromFiles ==
  pc = "returned" => IsPartnerReference(nodes, partnerDir, weightsFile)

(***************************************************************************)
(* The doc comment says any error of ReadFullPartnerNodeInfos is           *)
(* irrecoverable and the code calls log.Fatal on a failed weights read:    *)
(* the function never returns after ReadPartnerWeights failed.             *)
(***************************************************************************)
WeightsErrorIsFatal == pc = "returned" => ~weightsErr

=============================================================================
