------------------------------- MODULE Merkle -------------------------------
(***************************************************************************)
(* The Merkle tree over result-sheet block hashes (merkle.py) as           *)
(* results_core.py uses it: sheets arrive, the authority signs the root of *)
(* those present, and proofs are cut for the sheets the root covers.       *)
(*                                                                         *)
(* Bytes are sequences of tokens.  SHA-256 is collision free: the digest   *)
(* of a string is one token that names the string.  Tokens are pairs, so   *)
(* that any two can be compared.                                           *)
(***************************************************************************)
EXTENDS Integers, Sequences, FiniteSetsExt, SequencesExt

CONSTANTS
  MaxLeaves,       \* bound: how many sheets arrive
  NoCheckpoint     \* nothing signed yet

ASSUME MerkleAssumption == MaxLeaves \in Nat

VARIABLES
  sheets,       \* block_hash of every stored sheet, in order
  checkpoint    \* the latest signed [tree_size, root]

treeVars == <<sheets, checkpoint>>

sha256(bytes) == << <<"sha256", bytes>> >>
Byte(b) == << <<"byte", b>> >>
BlockHash(i) == << <<"block", i>> >>
None == << <<"none", 0>> >>

-----------------------------------------------------------------------------
(* merkle.py *)

(* Mutant: leaves are hashed without the prefix that tells them from nodes. *)
UnprefixedLeaf(d) == sha256(d)

_leaf(d) == sha256(Byte(0) \o d)
_node(l, r) == sha256(Byte(1) \o l \o r)

(* while k * 2 < n: k *= 2; asked of n > 1 only. *)
Doubled(n) == LET k[i \in 1..n - 1] == IF i * 2 < n THEN k[i * 2] ELSE i IN k

(* Mutant: the tree is split in the middle. *)
Halved(n) == n \div 2

_split(n) == Doubled(n)[1]

(* The roots of all slices: of the n leaves after the first s, from the    *)
(* hashes of the leaves.                                                   *)
Roots(hashes) ==
  LET N == 0..Len(hashes)
      r[n \in N] == [s \in N |->
        IF n = 0 THEN sha256(<< >>)
        ELSE IF n = 1 THEN hashes[s + 1]
        ELSE _node(r[_split(n)][s], r[n - _split(n)][s + _split(n)])]
  IN r

LeafHashes(leaves) == [i \in 1..Len(leaves) |-> _leaf(leaves[i])]

root(leaves) == Roots(LeafHashes(leaves))[Len(leaves)][0]

(* The path of the m-th leaf, counted from 0, in each slice. *)
Proofs(hashes) ==
  LET N == 0..Len(hashes)
      r == Roots(hashes)
      path[n \in N] == [s \in N |-> [m \in N |->
        LET k == _split(n)
        IN IF n <= 1 THEN << >>
           ELSE IF m < k THEN Append(path[k][s][m], r[n - k][s + k])
           ELSE Append(path[n - k][s + k][m - k], r[k][s])]]
  IN path

proof(leaves, m) == Proofs(LeafHashes(leaves))[Len(leaves)][0][m]

(* Of the path, the first j elements are left; path[-1] is the j-th. *)
_from_proof(leaf_hash, path) ==
  LET from[j \in 0..Len(path)] == [m \in Nat |-> [n \in Nat |->
        LET k == _split(n)
            sub == IF m < k THEN from[j - 1][m][k] ELSE from[j - 1][m - k][n - k]
        IN IF n = 1 THEN IF j = 0 THEN leaf_hash ELSE None
           ELSE IF j = 0 \/ sub = None THEN None
           ELSE IF m < k THEN _node(sub, path[j]) ELSE _node(path[j], sub)]]
  IN from[Len(path)]

verify_proof(leaf, index, tree_size, path, expected_root) ==
  /\ 0 <= index /\ index < tree_size
  /\ _from_proof(_leaf(leaf), path)[index][tree_size] = expected_root

-----------------------------------------------------------------------------
(* results_core.py *)

Signed(leaves) == [tree_size |-> Len(leaves), root |-> root(leaves)]

InitTree ==
  /\ sheets = << >>
  /\ checkpoint = NoCheckpoint

submit_sheet ==
  /\ Len(sheets) < MaxLeaves
  /\ sheets' = Append(sheets, BlockHash(Len(sheets)))
  /\ UNCHANGED checkpoint

create_checkpoint ==
  /\ checkpoint' = Signed(sheets)
  /\ UNCHANGED sheets

NextTree == submit_sheet \/ create_checkpoint

SpecTree == InitTree /\ [][NextTree]_treeVars

(* inclusion_proof: refused when not cp or pos >= cp["tree_size"]. *)
Covered(pos) == checkpoint # NoCheckpoint /\ pos < checkpoint.tree_size

(* Mutant: the path leads to the root of all sheets there are. *)
UncutProof(pos) ==
  [leaf |-> sheets[pos + 1], leaf_index |-> pos, tree_size |-> checkpoint.tree_size,
   path |-> proof(sheets, pos), root |-> checkpoint.root]

inclusion_proof(pos) ==
  [leaf |-> sheets[pos + 1], leaf_index |-> pos, tree_size |-> checkpoint.tree_size,
   path |-> proof(SubSeq(sheets, 1, checkpoint.tree_size), pos),
   root |-> checkpoint.root]

-----------------------------------------------------------------------------
(* Properties. *)

Positions == 0..Len(sheets) - 1

Verifies(p) == verify_proof(p.leaf, p.leaf_index, p.tree_size, p.path, p.root)

(* Every sheet the server takes as covered gets a proof that verifies      *)
(* against the signed root, whatever arrived since it was signed.          *)
CoveredSheetsProve ==
  \A pos \in Positions : Covered(pos) => Verifies(inclusion_proof(pos))

(* What could be passed off as a sheet: the others, and what is hashed     *)
(* further up: digests, and the pairs that make nodes beside sheet pos.    *)
Candidates(p) ==
  LET digests == {p.path[i] : i \in 1..Len(p.path)}
      own == _leaf(p.leaf)
      pairs == {own \o b : b \in digests} \cup {b \o own : b \in digests}
  IN Range(sheets) \cup digests \cup pairs \cup {Byte(1) \o ab : ab \in pairs}

(* The path, its ends, and the path made longer at the leaf. *)
Paths(p) ==
  LET path == p.path
  IN {SubSeq(path, i, Len(path)) : i \in 1..Len(path) + 1}
       \cup {<<path[i]>> \o path : i \in 1..Min({1, Len(path)})}

(* A path of the signed tree verifies no bytes but its sheet's, whatever   *)
(* position and tree size are claimed with it; and with the size that was  *)
(* signed, no position but the sheet's.                                    *)
ProofsBindTheSheet ==
  \A pos \in Positions : Covered(pos) =>
    LET p == inclusion_proof(pos)
    IN \A d \in Candidates(p), path \in Paths(p), size \in 1..Len(sheets) + 1 :
         \A index \in 0..size - 1 :
           verify_proof(d, index, size, path, p.root) =>
             /\ d = p.leaf /\ path = p.path
             /\ size = p.tree_size => index = pos

(* A second definition of the root, level by level from the leaves: two    *)
(* hashes that stand side by side make a node, an odd one out goes up as   *)
(* it is.  There are no more levels than leaves.                           *)
Paired(hashes) ==
  [i \in 1..(Len(hashes) + 1) \div 2 |->
     IF 2 * i <= Len(hashes) THEN _node(hashes[2 * i - 1], hashes[2 * i])
     ELSE hashes[2 * i - 1]]

Levels(hashes) ==
  LET level[l \in 0..Len(hashes)] == IF l = 0 THEN hashes ELSE Paired(level[l - 1])
  IN level

LevelRoot(leaves) ==
  IF leaves = << >> THEN sha256(<< >>)
  ELSE Levels(LeafHashes(leaves))[Len(leaves)][1]

(* The signed root is the one any RFC 6962 implementation computes, and    *)
(* differs from that of every other number of sheets: it fixes the size.   *)
SignedRootIsStandard ==
  checkpoint # NoCheckpoint =>
  \A n \in 0..Len(sheets) :
    (LevelRoot(SubSeq(sheets, 1, n)) = checkpoint.root) <=> (n = checkpoint.tree_size)
=============================================================================
