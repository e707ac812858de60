---------------------------- MODULE NodeInfoLists ----------------------------
(***************************************************************************)
(* The lists the bootstrap node-info readers (cmd/util/cmd/common/         *)
(* node_info.go) walk: a directory listing of bounded length, the          *)
(* positions of the files whose name carries a node-info prefix, and what  *)
(* it means for a list to hold those files in directory order.  Shared by  *)
(* PartnerNodeInfos and InternalNodeInfos.                                 *)
(***************************************************************************)
EXTENDS Naturals, SequenceTheorems, TLAPS

(* The lists of at most n elements of S.                                   *)
ListsUpTo(S, n) == UNION {[1 .. m -> S] : m \in 0 .. n}

(* The positions 1..n of dir that hold a file with the node-info prefix.   *)
PrefixedFiles(dir, n) == {k \in 1 .. n : dir[k].prefixed}

(* idx lists the members of the set P in increasing order.                 *)
Enumerates(idx, P) ==
  /\ \A j, k \in DOMAIN idx : j < k => idx[j] < idx[k]
  /\ {idx[j] : j \in DOMAIN idx} = P

-----------------------------------------------------------------------------
(* A list of at most n elements of S is a sequence over S of length at     *)
(* most n.                                                                 *)
LEMMA ListsUpToSeq ==
  \A S : \A n \in Nat : \A s : s \in ListsUpTo(S, n) <=> s \in Seq(S) /\ Len(s) <= n
<1> SUFFICES ASSUME NEW S, NEW n \in Nat, NEW s
             PROVE  s \in ListsUpTo(S, n) <=> s \in Seq(S) /\ Len(s) <= n
  OBVIOUS
<1>1. ASSUME s \in ListsUpTo(S, n) PROVE s \in Seq(S) /\ Len(s) <= n
  <2>1. PICK m \in 0 .. n : s \in [1 .. m -> S]
    BY <1>1 DEF ListsUpTo
  <2>2. s \in Seq(S)
    BY <2>1, SeqDef
  <2>. QED
    BY <2>1, <2>2, LenProperties
<1>2. ASSUME s \in Seq(S), Len(s) <= n PROVE s \in ListsUpTo(S, n)
  BY <1>2, LenProperties DEF ListsUpTo
<1>. QED
  BY <1>1, <1>2

=============================================================================
