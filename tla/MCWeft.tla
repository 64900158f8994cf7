------------------------------- MODULE MCWeft -------------------------------
(* Instances of WeftProgram for TLC.  Each .cfg gives the small sets.      *)
EXTENDS WeftProgram, MerkleTree

CONSTANTS n1, n2, t1, t2

\* One node, one leaf, or two nodes with a leaf each.
NoLeaves == {{}}
OneLeaf == {{<<n1, 1>>}}
TwoLeaves == {{<<n1, 1>>, <<n2, 2>>}, {<<n1, 2>>, <<n1, 1>>}}

TwoLeafTrees == [t \in Trees |-> 2]

-----------------------------------------------------------------------------
(* MerkleTree has no steps; TLC evaluates it on trees of up to 9 leaves.   *)

EpochLeaves(epoch, n) == [i \in 1..n |-> RewardLeaf(epoch, i, 10 * i)]
TreeNodes(leaves) ==
  UNION {{Levels(leaves)[h][i] : i \in DOMAIN Levels(leaves)[h]} :
           h \in 0..Height(leaves)}

\* Every entitlement of a tree can be claimed with the proof that
\* merkle_proof builds for it (merkle.rs:112), whatever the tree's shape.
ASSUME EveryLeafVerifies ==
  \A n \in 1..9 : \A i \in 1..n :
    LET leaves == EpochLeaves(1, n)
    IN  MerkleVerify(MerkleProof(leaves, i - 1), MerkleRoot(leaves), leaves[i])

\* Nothing else can: no other epoch, node or amount, no allocation and no
\* other leaf's proof verifies, with any proof put together from the nodes
\* of the tree and of another epoch's (merkle.rs:124, merkle.rs:143).
ASSUME OnlyLeavesVerify ==
  \A n \in 1..5 :
    LET leaves == EpochLeaves(1, n)
        root   == MerkleRoot(leaves)
        nodes  == TreeNodes(leaves) \cup TreeNodes(EpochLeaves(2, 2))
        proofs == UNION {[1..l -> nodes] : l \in 0..3}
        strangers == ((1..2) \X {1, n + 1} \X {10, 20})
                       \ {<<1, i, 10 * i>> : i \in 1..n}
    IN  \A proof \in proofs :
          /\ \A s \in strangers :
               ~MerkleVerify(proof, root, RewardLeaf(s[1], s[2], s[3]))
          /\ ~MerkleVerify(proof, root, AllocationLeaf(1, 1, 10))
          /\ \A i \in 1..n : MerkleVerify(proof, root, leaves[i]) =>
               proof = MerkleProof(leaves, i - 1)
=============================================================================
