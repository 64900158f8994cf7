----------------------------- MODULE MerkleTree ------------------------------
(***************************************************************************)
(* The Merkle tree behind a posted epoch: built by the aggregator          *)
(* (sdk/src/math.ts), verified by claim (weft-primitives).  SHA-256 is     *)
(* taken to be injective: a hash is the record of what was hashed, with    *)
(* its domain as the field's name.  Module Distributor lets a claim        *)
(* through when its leaf is in the posted set; PrimitivesProofs proves     *)
(* that verification amounts to this, and MCWeft evaluates small trees.   *)
(***************************************************************************)
EXTENDS Integers, Sequences

\* hash_reward_leaf, domain 0x00: one node's entitlement in one epoch.
RewardLeaf(epoch, k, amount) == [leaf |-> <<epoch, k, amount>>]

\* hash_allocation_leaf, domain 0x02: a sale allocation of one distributor.
AllocationLeaf(sale, k, amount) == [allocation |-> <<sale, k, amount>>]

\* hash_pair, domain 0x01: the two are sorted before they are hashed.
HashPair(a, b) == [pair |-> {a, b}]

\* The last node of a level of odd length is promoted unchanged.
NextLevel(level) ==
  [i \in 1..((Len(level) + 1) \div 2) |->
     IF 2 * i <= Len(level) THEN HashPair(level[2 * i - 1], level[2 * i])
                            ELSE level[2 * i - 1]]

\* The tree's levels, from the leaves up.
Levels(leaves) ==
  LET level[h \in 0..Len(leaves)] ==
        IF h = 0 THEN leaves ELSE NextLevel(level[h - 1])
  IN  level

\* The loops of merkle_root and merkle_proof end where one node is left.
Height(leaves) ==
  CHOOSE h \in 0..Len(leaves) :
    /\ Len(Levels(leaves)[h]) <= 1
    /\ \A g \in 0..(h - 1) : Len(Levels(leaves)[g]) > 1

\* merkle_root; an empty tree is refused.
MerkleRoot(leaves) == Levels(leaves)[Height(leaves)][1]

\* merkle_proof: the siblings on the way from leaf `index` (from 0) up; a
\* promoted node has none.
Sibling(idx) == IF idx % 2 = 0 THEN idx + 1 ELSE idx - 1
Ascend(level, at) ==
  LET sibling == Sibling(at.idx)
  IN  [idx   |-> at.idx \div 2,
       proof |-> IF sibling < Len(level) THEN Append(at.proof, level[sibling + 1])
                                         ELSE at.proof]
Walk(leaves, index) ==
  LET at[h \in 0..Len(leaves)] ==
        IF h = 0 THEN [idx |-> index, proof |-> <<>>]
                 ELSE Ascend(Levels(leaves)[h - 1], at[h - 1])
  IN  at
MerkleProof(leaves, index) == Walk(leaves, index)[Height(leaves)].proof

\* merkle_verify: the proof's nodes are hashed onto the leaf in turn.
Climb(proof, leaf) ==
  LET node[j \in 0..Len(proof)] ==
        IF j = 0 THEN leaf ELSE HashPair(node[j - 1], proof[j])
  IN  node
MerkleVerify(proof, root, leaf) == Climb(proof, leaf)[Len(proof)] = root
=============================================================================
