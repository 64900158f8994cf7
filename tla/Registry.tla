------------------------------ MODULE Registry ------------------------------
(***************************************************************************)
(* Core lifecycle, tree shards, node registration and administration.      *)
(***************************************************************************)
EXTENDS WeftState

\* initialize_core: `init` fails when the core accounts exist.
InitializeCore(auth, poster, disputer, unbonding, window) ==
  /\ ~registry.live
  /\ registry' = [ZeroRegistry EXCEPT !.live = TRUE, !.authority = auth]
  /\ staking_config' = [authority |-> auth, slash_authority |-> disputer,
                        unbonding_seconds |-> unbonding]
  /\ distributor' = [ZeroDistributor EXCEPT
                       !.authority = auth, !.poster_authority = poster,
                       !.dispute_authority = disputer,
                       !.dispute_window = window]
  /\ reward_vault' = 0
  /\ UNCHANGED <<now, shard, node, tree_leaves, tree_uses, reused, position,
                 stake_vault, pledged, slashed, stake_gift, escrowVars,
                 epoch_distribution, claim_status, gasless_paid, attested,
                 tokenVars>>

\* register_tree: the index is the client's argument and must equal
\* tree_count; a shard left by an earlier core is overwritten.
RegisterTree(t) ==
  /\ registry.live
  /\ registry.tree_count < MaxTrees
  /\ shard' = [shard EXCEPT ![registry.tree_count] =
                 [live |-> TRUE, merkle_tree |-> t, minted |-> 0,
                  capacity |-> TreeCapacity[t], full |-> FALSE]]
  /\ registry' = [registry EXCEPT !.active_tree = t, !.tree_count = @ + 1]
  /\ tree_uses' = [tree_uses EXCEPT ![t] = Smaller(@ + 1, 2)]
  /\ UNCHANGED <<now, node, tree_leaves, reused, stakingVars, escrowVars,
                 rewardVars, tokenVars>>

SetRegistryCollection ==
  /\ registry.live
  /\ registry' = [registry EXCEPT !.collection = TRUE]
  /\ UNCHANGED <<now, shard, node, tree_leaves, tree_uses, reused,
                 stakingVars, escrowVars, rewardVars, tokenVars>>

\* The Bubblegum mint (external) adds a leaf to the real tree; it fails when
\* the tree is full or no collection was set.
MintLeaf(t) ==
  /\ registry.collection
  /\ tree_leaves[t] < TreeCapacity[t]
  /\ tree_leaves' = [tree_leaves EXCEPT ![t] = @ + 1]

\* External: the tree is public (provision.ts:64), so anyone may add a leaf
\* outside the collection, before or after the tree is registered.
ForeignMint(t) ==
  /\ tree_leaves[t] < TreeCapacity[t]
  /\ tree_leaves' = [tree_leaves EXCEPT ![t] = @ + 1]
  /\ UNCHANGED <<now, registry, shard, node, tree_uses, reused, stakingVars,
                 escrowVars, rewardVars, tokenVars>>

\* Nonce of the next leaf: what the shard counted so far.
LeafNonceOff(i) == shard[i].minted + 1
LeafNonce(i) == shard[i].minted

\* register_node with the shard account i the client passes.
RegisterNode(k, i, m) ==
  /\ registry.live /\ ~registry.paused
  /\ shard[i].live /\ ~shard[i].full
  /\ shard[i].merkle_tree = registry.active_tree
  /\ ~node[k].live
  /\ Fits(registry.node_sequence + 1)
  /\ registry' = [registry EXCEPT !.node_sequence = @ + 1,
                                  !.node_count = @ + 1]
  /\ node' = [node EXCEPT ![k] =
                [live |-> TRUE, meta |-> m, reputation |-> BPS,
                 stake_amount |-> 0, sequence |-> registry.node_sequence + 1,
                 merkle_tree |-> registry.active_tree,
                 leaf_nonce |-> LeafNonce(i), withdrawn |-> 0]]
  /\ MintLeaf(registry.active_tree)
  /\ shard' = [shard EXCEPT ![i] =
                 [shard[i] EXCEPT
                    !.minted = @ + 1,
                    !.full = shard[i].minted + 1 >= shard[i].capacity]]
  /\ UNCHANGED <<now, tree_uses, reused, stakingVars, escrowVars, rewardVars,
                 tokenVars>>

UpdateNode(k, m) ==
  /\ node[k].live
  /\ node' = [node EXCEPT ![k].meta = m]
  /\ UNCHANGED <<now, registry, shard, tree_leaves, tree_uses, reused,
                 stakingVars, escrowVars, rewardVars, tokenVars>>

\* deregister_node refuses while the position still holds stake.
DeregisterableAlways(k) == TRUE
Deregisterable(k) == node[k].stake_amount = 0

NodeCountKept == registry.node_count
NodeCountAfterDeregister == SaturatingSub(registry.node_count, 1)

\* deregister_node closes the NodeState, and with it `withdrawn`.
DeregisterNode(k) ==
  /\ registry.live
  /\ node[k].live
  /\ Deregisterable(k)
  /\ registry' = [registry EXCEPT !.node_count = NodeCountAfterDeregister]
  /\ node' = [node EXCEPT ![k] = ZeroNode]
  /\ reused' = reused \cup {k}
  /\ UNCHANGED <<now, shard, tree_leaves, tree_uses, stakingVars, escrowVars,
                 rewardVars, tokenVars>>

\* CoreAdmin: one signer must be the authority of all three accounts.
AdminSigns ==
  /\ registry.live
  /\ registry.authority = staking_config.authority
  /\ registry.authority = distributor.authority

SetCoreAuthority(a) ==
  /\ AdminSigns
  /\ registry' = [registry EXCEPT !.authority = a]
  /\ staking_config' = [staking_config EXCEPT !.authority = a]
  /\ distributor' = [distributor EXCEPT !.authority = a]
  /\ UNCHANGED <<now, shard, node, tree_leaves, tree_uses, reused, position,
                 stake_vault, pledged, slashed, stake_gift, escrowVars,
                 epoch_distribution, claim_status, reward_vault, gasless_paid,
                 attested, tokenVars>>

SetPaused(p) ==
  /\ AdminSigns
  /\ registry' = [registry EXCEPT !.paused = p]
  /\ UNCHANGED <<now, shard, node, tree_leaves, tree_uses, reused,
                 stakingVars, escrowVars, rewardVars, tokenVars>>

SetPosterAuthority(a) ==
  /\ AdminSigns
  /\ distributor' = [distributor EXCEPT !.poster_authority = a]
  /\ UNCHANGED <<now, registryVars, stakingVars, escrowVars,
                 epoch_distribution, claim_status, reward_vault, gasless_paid,
                 attested, tokenVars>>

SetDisputeAuthorityHalf(a) ==
  /\ AdminSigns
  /\ distributor' = [distributor EXCEPT !.dispute_authority = a]
  /\ UNCHANGED <<now, registryVars, stakingVars, escrowVars,
                 epoch_distribution, claim_status, reward_vault, gasless_paid,
                 attested, tokenVars>>
SetDisputeAuthority(a) ==
  /\ AdminSigns
  /\ distributor' = [distributor EXCEPT !.dispute_authority = a]
  /\ staking_config' = [staking_config EXCEPT !.slash_authority = a]
  /\ UNCHANGED <<now, registryVars, position, stake_vault, pledged, slashed,
                 stake_gift, escrowVars, epoch_distribution, claim_status,
                 reward_vault, gasless_paid, attested, tokenVars>>

\* shutdown_core refuses while the books show an unpaid obligation.
BooksIgnored == TRUE
BooksSettled ==
  distributor.cumulative_obligated = distributor.cumulative_claimed

\* shutdown_core closes the core accounts; shards, epochs, claim statuses,
\* positions and escrows survive it.
ShutdownCore ==
  /\ AdminSigns
  /\ registry.paused
  /\ registry.node_count = 0
  /\ BooksSettled
  /\ reward_vault = 0
  /\ registry' = ZeroRegistry
  /\ staking_config' = ZeroStakingConfig
  /\ distributor' = ZeroDistributor
  /\ UNCHANGED <<now, shard, node, tree_leaves, tree_uses, reused, position,
                 stake_vault, pledged, slashed, stake_gift, escrowVars,
                 epoch_distribution, claim_status, reward_vault, gasless_paid,
                 attested, tokenVars>>

RegistryNext ==
  \/ \E a, p, d \in Keys, b \in Unbondings, w \in Windows :
       InitializeCore(a, p, d, b, w)
  \/ \E t \in Trees : RegisterTree(t) \/ ForeignMint(t)
  \/ SetRegistryCollection
  \/ \E k \in NodeKeys, i \in ShardIds, m \in Metas : RegisterNode(k, i, m)
  \/ \E k \in NodeKeys, m \in Metas : UpdateNode(k, m)
  \/ \E k \in NodeKeys : DeregisterNode(k)
  \/ \E a \in Keys : SetCoreAuthority(a)
  \/ \E p \in BOOLEAN : SetPaused(p)
  \/ \E a \in Keys : SetPosterAuthority(a)
  \/ \E a \in Keys : SetDisputeAuthority(a)
  \/ ShutdownCore
=============================================================================
