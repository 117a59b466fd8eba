--------------------------- MODULE BallotBoxProofs ---------------------------
(***************************************************************************)
(* What the ballot box guarantees for every electorate, every set of       *)
(* elections, parties and polling units, and every number of checkpoints.  *)
(***************************************************************************)
EXTENDS BallotBox, FiniteSetTheorems, TLAPS

(* A chained block is a block, and its hash commits to one ballot more than *)
(* the hash it names as its predecessor.                                    *)
LEMMA NewBlockType ==
  ASSUME NEW prev \in Hash, NEW e \in Elections, NEW p \in Parties, NEW u \in PollingUnits
  PROVE  /\ NewBlock(prev, e, p, u) \in Block
         /\ NewBlock(prev, e, p, u).block_hash = compute_hash(prev, e, p, u)
         /\ NewBlock(prev, e, p, u).previous_hash = prev
         /\ Len(compute_hash(prev, e, p, u)) = Len(prev) + 1
<1>1. <<e, p, u>> \in Ballot  BY DEF Ballot
<1>2. compute_hash(prev, e, p, u) \in Hash  BY <1>1 DEF compute_hash, Hash
<1> QED  BY <1>1, <1>2 DEF NewBlock, Block, compute_hash, Hash

(* The head of a typed ledger is a hash. *)
LEMMA HeadHashType ==
  ASSUME NEW rows \in Seq(Block)
  PROVE  HeadHash(rows) \in Hash
<1>1. << >> \in Hash  BY DEF Hash
<1>2. rows # << >> => rows[Len(rows)] \in Block  OBVIOUS
<1> QED  BY <1>1, <1>2 DEF HeadHash, GENESIS, Block

(* What RecordBallot appends is a block of the voter's registered unit. *)
LEMMA RecordedBlock ==
  ASSUME TypeOK, NEW v \in Voters, NEW e \in Elections, NEW p \in Parties,
         RecordBallot(v, e, p)
  PROVE  /\ register[v] \in PollingUnits
         /\ NewBlock(HeadHash(ledger), e, p, register[v]) \in Block
         /\ ledger' = Append(ledger, NewBlock(HeadHash(ledger), e, p, register[v]))
<1>1. register[v] \in PollingUnits  BY DEF TypeOK, RecordBallot
<1>2. HeadHash(ledger) \in Hash  BY HeadHashType DEF TypeOK
<1> QED  BY <1>1, <1>2, NewBlockType DEF RecordBallot

-----------------------------------------------------------------------------
(* Type correctness: no transaction ever writes a value of another type    *)
(* into a table or hands one out as a receipt.                             *)
THEOREM TypeCorrect == Spec => []TypeOK
<1>1. Init => TypeOK
  <2> SUFFICES ASSUME Init PROVE TypeOK  OBVIOUS
  <2> QED  BY DEF Init, TypeOK, Status
<1>2. TypeOK /\ [Next]_vars => TypeOK'
  <2> SUFFICES ASSUME TypeOK, [Next]_vars PROVE TypeOK'  OBVIOUS
  <2>1. ASSUME NEW v \in Voters, NEW u \in PollingUnits, RegisterVoter(v, u) PROVE TypeOK'
    BY <2>1 DEF RegisterVoter, TypeOK
  <2>2. ASSUME NEW e \in Elections, OpenElection(e) \/ CloseElection(e) PROVE TypeOK'
    BY <2>2 DEF OpenElection, CloseElection, Transition, TypeOK, Status
  <2>3. ASSUME NEW v \in Voters, NEW e \in Elections, NEW p \in Parties,
               RecordBallot(v, e, p)
        PROVE TypeOK'
    <3> DEFINE block == NewBlock(HeadHash(ledger), e, p, register[v])
    <3>1. block \in Block /\ ledger' = Append(ledger, block)  BY <2>3, RecordedBlock
    <3>2. ledger' \in Seq(Block)  BY <3>1 DEF TypeOK
    <3>3. [block_index |-> Len(ledger) + 1, block_hash |-> block.block_hash,
           election_type |-> e] \in Receipt
      BY <3>1 DEF Receipt, Block, TypeOK
    <3>4. receipts' \in SUBSET Receipt  BY <2>3, <3>3 DEF RecordBallot, TypeOK
    <3> QED  BY <2>3, <3>2, <3>4 DEF RecordBallot, TypeOK
  <2>4. ASSUME SignCheckpoint PROVE TypeOK'
    <3>1. SignedHead(ledger) \in Checkpoint
      BY HeadHashType DEF SignedHead, Checkpoint, TypeOK
    <3> QED  BY <2>4, <3>1 DEF SignCheckpoint, TypeOK
  <2>5. CASE UNCHANGED vars  BY <2>5 DEF vars, TypeOK
  <2> QED  BY <2>1, <2>2, <2>3, <2>4, <2>5 DEF Next
<1> QED  BY <1>1, <1>2, PTL DEF Spec

-----------------------------------------------------------------------------
(* The chain.  That every hash commits to exactly as many ballots as its   *)
(* block's index says makes hashes unique, so the three facts about the    *)
(* chain are proved together with it.                                      *)

HashLength == \A i \in 1..Len(ledger) : Len(ledger[i].block_hash) = i

ChainInv == TypeOK /\ HashLength /\ CheckpointsHold /\ ReceiptsHold

(* Appending a block changes no earlier row. *)
LEMMA AppendKeepsRows ==
  ASSUME NEW rows \in Seq(Block), NEW b \in Block
  PROVE  /\ Append(rows, b) \in Seq(Block)
         /\ Len(Append(rows, b)) = Len(rows) + 1
         /\ \A i \in 1..Len(rows) : Append(rows, b)[i] = rows[i]
         /\ Append(rows, b)[Len(rows) + 1] = b
  OBVIOUS

(* A block that names the head extends the chain. *)
LEMMA AppendKeepsLinked ==
  ASSUME NEW rows \in Seq(Block), Linked(rows),
         NEW e \in Elections, NEW p \in Parties, NEW u \in PollingUnits
  PROVE  Linked(Append(rows, NewBlock(HeadHash(rows), e, p, u)))
<1> DEFINE b == NewBlock(HeadHash(rows), e, p, u)
           longer == Append(rows, b)
<1>1. b \in Block  BY HeadHashType, NewBlockType
<1>2. /\ Len(longer) = Len(rows) + 1 /\ Len(rows) \in Nat
      /\ \A i \in 1..Len(rows) : longer[i] = rows[i]
      /\ longer[Len(rows) + 1] = b
  BY <1>1, AppendKeepsRows
<1> SUFFICES ASSUME NEW i \in 1..Len(longer)
             PROVE  /\ longer[i].previous_hash
                         = IF i = 1 THEN GENESIS ELSE longer[i - 1].block_hash
                    /\ longer[i].block_hash
                         = compute_hash(longer[i].previous_hash, longer[i].election_type,
                                        longer[i].party_code, longer[i].polling_unit_code)
  BY DEF Linked
<1>3. CASE i \in 1..Len(rows)
  <2>1. longer[i] = rows[i] /\ (i # 1 => longer[i - 1] = rows[i - 1])  BY <1>2, <1>3
  <2> QED  BY <1>3, <2>1 DEF Linked
<1>4. CASE i = Len(rows) + 1
  <2>1. longer[i] = b  BY <1>2, <1>4
  <2>2. b.previous_hash = HeadHash(rows)  BY DEF NewBlock
  <2>3. i = 1 => HeadHash(rows) = GENESIS  BY <1>4 DEF HeadHash
  <2>4. i # 1 => HeadHash(rows) = longer[i - 1].block_hash  BY <1>2, <1>4 DEF HeadHash
  <2>5. b.block_hash = compute_hash(b.previous_hash, b.election_type, b.party_code,
                                    b.polling_unit_code)
    BY DEF NewBlock
  <2> QED  BY <2>1, <2>2, <2>3, <2>4, <2>5
<1> QED  BY <1>2, <1>3, <1>4

(* A checkpoint that was reached stays reached. *)
LEMMA AppendKeepsReaches ==
  ASSUME NEW rows \in Seq(Block), NEW b \in Block, NEW cp \in Checkpoint, Reaches(rows, cp)
  PROVE  Reaches(Append(rows, b), cp)
<1>1. cp.height \in Nat  BY DEF Checkpoint
<1> QED  BY <1>1, AppendKeepsRows DEF Reaches

LEMMA RecordBallotKeepsChain ==
  ASSUME ChainInv, NEW v \in Voters, NEW e \in Elections, NEW p \in Parties,
         RecordBallot(v, e, p)
  PROVE  HashLength' /\ CheckpointsHold' /\ ReceiptsHold'
<1> DEFINE b == NewBlock(HeadHash(ledger), e, p, register[v])
           n == Len(ledger)
<1>1. /\ register[v] \in PollingUnits /\ b \in Block /\ ledger' = Append(ledger, b)
      /\ ledger \in Seq(Block) /\ n \in Nat
  BY RecordedBlock DEF ChainInv, TypeOK
<1>2. /\ Len(ledger') = n + 1
      /\ \A i \in 1..n : ledger'[i] = ledger[i]
      /\ ledger'[n + 1] = b
  BY <1>1, AppendKeepsRows
<1>3. Len(b.block_hash) = n + 1
  <2>1. HeadHash(ledger) \in Hash  BY <1>1, HeadHashType
  <2>2. Len(HeadHash(ledger)) = n
    BY <1>1 DEF HeadHash, GENESIS, ChainInv, HashLength
  <2> QED  BY <1>1, <2>1, <2>2, NewBlockType
<1>4. HashLength'
  BY <1>1, <1>2, <1>3 DEF HashLength, ChainInv
<1>5. CheckpointsHold'
  <2>1. Linked(ledger')  BY <1>1, AppendKeepsLinked DEF ChainInv, CheckpointsHold
  <2>2. ASSUME NEW k \in 1..Len(ledger_checkpoints)
        PROVE  Reaches(ledger', ledger_checkpoints[k])
    <3>1. ledger_checkpoints[k] \in Checkpoint  BY DEF ChainInv, TypeOK
    <3> QED  BY <1>1, <3>1, AppendKeepsReaches DEF ChainInv, CheckpointsHold
  <2>3. ledger_checkpoints' = ledger_checkpoints  BY DEF RecordBallot
  <2> QED  BY <2>1, <2>2, <2>3 DEF CheckpointsHold
<1>6. ReceiptsHold'
  <2> DEFINE new == [block_index |-> n + 1, block_hash |-> b.block_hash, election_type |-> e]
  <2> SUFFICES ASSUME NEW r \in receipts'
               PROVE  /\ \A i \in 1..Len(ledger') :
                            ledger'[i].block_hash = r.block_hash <=> i = r.block_index
                      /\ r.block_index \in 1..Len(ledger')
                      /\ ledger'[r.block_index].election_type = r.election_type
    BY DEF ReceiptsHold, verify_receipt
  <2>1. r \in receipts \/ r = new  BY DEF RecordBallot
  <2>2. CASE r \in receipts
    <3>1. /\ r.block_index \in 1..n
          /\ ledger[r.block_index].block_hash = r.block_hash
          /\ ledger[r.block_index].election_type = r.election_type
          /\ \A i \in 1..n : ledger[i].block_hash = r.block_hash <=> i = r.block_index
      BY <2>2 DEF ChainInv, ReceiptsHold, verify_receipt
    <3>2. Len(r.block_hash) = r.block_index  BY <3>1 DEF ChainInv, HashLength
    <3>3. b.block_hash # r.block_hash  BY <1>1, <1>3, <3>1, <3>2
    <3> QED  BY <1>1, <1>2, <3>1, <3>3
  <2>3. CASE r = new
    <3>1. r.block_index = n + 1 /\ r.block_hash = b.block_hash /\ r.election_type = e
      BY <2>3
    <3>2. \A i \in 1..n : ledger[i].block_hash # b.block_hash
      BY <1>1, <1>3 DEF ChainInv, HashLength
    <3>3. b.election_type = e  BY DEF NewBlock
    <3> QED  BY <1>1, <1>2, <3>1, <3>2, <3>3
  <2> QED  BY <2>1, <2>2, <2>3
<1> QED  BY <1>4, <1>5, <1>6

(* Signing the head: the ledger reaches the checkpoint just signed. *)
LEMMA SignCheckpointKeepsChain ==
  ASSUME ChainInv, SignCheckpoint
  PROVE  CheckpointsHold'
<1> DEFINE cps == ledger_checkpoints
<1>1. /\ ledger' = ledger /\ cps' = Append(cps, SignedHead(ledger))
      /\ cps \in Seq(Checkpoint) /\ ledger \in Seq(Block)
  BY DEF SignCheckpoint, ChainInv, TypeOK
<1>2. /\ Len(cps') = Len(cps) + 1 /\ cps'[Len(cps) + 1] = SignedHead(ledger)
      /\ \A k \in 1..Len(cps) : cps'[k] = cps[k]
  BY <1>1
<1>3. Reaches(ledger, SignedHead(ledger))
  BY <1>1 DEF Reaches, SignedHead, HeadHash
<1> QED  BY <1>1, <1>2, <1>3 DEF ChainInv, CheckpointsHold

LEMMA ChainInvHolds == Spec => []ChainInv
<1>1. Init => ChainInv
  <2> SUFFICES ASSUME Init PROVE ChainInv  OBVIOUS
  <2>1. TypeOK  BY DEF Init, TypeOK, Status
  <2>2. Len(ledger) = 0 /\ Len(ledger_checkpoints) = 0 /\ receipts = {}  BY DEF Init
  <2> QED  BY <2>1, <2>2 DEF ChainInv, HashLength, CheckpointsHold, Linked, ReceiptsHold
<1>2. ChainInv /\ TypeOK' /\ [Next]_vars => ChainInv'
  <2> SUFFICES ASSUME ChainInv, TypeOK', [Next]_vars PROVE ChainInv'  OBVIOUS
  <2>1. ASSUME NEW v \in Voters, NEW u \in PollingUnits, RegisterVoter(v, u)
        PROVE  ChainInv'
    BY <2>1 DEF RegisterVoter, ChainInv, HashLength, CheckpointsHold, ReceiptsHold,
                verify_receipt
  <2>2. ASSUME NEW e \in Elections, OpenElection(e) \/ CloseElection(e) PROVE ChainInv'
    BY <2>2 DEF OpenElection, CloseElection, Transition, ChainInv, HashLength,
                CheckpointsHold, ReceiptsHold, verify_receipt
  <2>3. ASSUME NEW v \in Voters, NEW e \in Elections, NEW p \in Parties,
               RecordBallot(v, e, p)
        PROVE  ChainInv'
    BY <2>3, RecordBallotKeepsChain DEF ChainInv
  <2>4. ASSUME SignCheckpoint PROVE ChainInv'
    BY <2>4, SignCheckpointKeepsChain
       DEF SignCheckpoint, ChainInv, HashLength, ReceiptsHold, verify_receipt
  <2>5. CASE UNCHANGED vars
    BY <2>5 DEF vars, ChainInv, HashLength, CheckpointsHold, ReceiptsHold, verify_receipt
  <2> QED  BY <2>1, <2>2, <2>3, <2>4, <2>5 DEF Next
<1> QED  BY <1>1, <1>2, TypeCorrect, PTL DEF Spec

(* However many ballots and checkpoints there are, the ledger stays linked *)
(* and reaches every head ever signed: verify_chain never raises a false   *)
(* alarm on a ledger only the API has written.                             *)
THEOREM CheckpointsAlwaysHold == Spec => []CheckpointsHold
<1>1. ChainInv => CheckpointsHold  BY DEF ChainInv
<1> QED  BY <1>1, ChainInvHolds, PTL

(* Every receipt ever returned can be looked up, by its hash alone, for as *)
(* long as the ledger grows, and leads to the voter's own block.           *)
THEOREM ReceiptsAlwaysHold == Spec => []ReceiptsHold
<1>1. ChainInv => ReceiptsHold  BY DEF ChainInv
<1> QED  BY <1>1, ChainInvHolds, PTL

-----------------------------------------------------------------------------
(* The count.  A voter who is enrolled after others have voted must not    *)
(* have voted herself, so that is proved together with the equality.       *)

VotedAreRegistered ==
  \A v \in Voters, e \in Elections : <<v, e>> \in votes_cast => register[v] # Unregistered

CountInv == TypeOK /\ VotedAreRegistered /\ LedgerMatchesVotes

LEMMA CountedSetsAreFinite ==
  ASSUME TypeOK
  PROVE  /\ Len(ledger) \in Nat
         /\ \A e, u : IsFiniteSet(BlocksOf(e, u)) /\ IsFiniteSet(VotersOf(e, u))
<1>1. Len(ledger) \in Nat  BY DEF TypeOK
<1>2. IsFiniteSet(1..Len(ledger))  BY <1>1, FS_Interval
<1>3. ASSUME NEW e, NEW u PROVE IsFiniteSet(BlocksOf(e, u)) /\ IsFiniteSet(VotersOf(e, u))
  <2>1. BlocksOf(e, u) \subseteq 1..Len(ledger)  BY DEF BlocksOf
  <2>2. VotersOf(e, u) \subseteq Voters  BY DEF VotersOf
  <2> QED  BY <1>2, <2>1, <2>2, FS_Subset, BallotBoxAssumptions
<1> QED  BY <1>1, <1>3

LEMMA RecordBallotKeepsCount ==
  ASSUME CountInv, NEW v \in Voters, NEW e \in Elections, NEW p \in Parties,
         RecordBallot(v, e, p)
  PROVE  VotedAreRegistered' /\ LedgerMatchesVotes'
<1> DEFINE b == NewBlock(HeadHash(ledger), e, p, register[v])
           n == Len(ledger)
<1>1. /\ register[v] \in PollingUnits /\ b \in Block /\ ledger' = Append(ledger, b)
      /\ ledger \in Seq(Block) /\ n \in Nat
      /\ b.election_type = e /\ b.polling_unit_code = register[v]
  BY RecordedBlock DEF CountInv, TypeOK, NewBlock
<1>2. /\ Len(ledger') = n + 1 /\ \A i \in 1..n : ledger'[i] = ledger[i]
      /\ ledger'[n + 1] = b
  BY <1>1, AppendKeepsRows
<1>3. /\ <<v, e>> \notin votes_cast /\ votes_cast' = votes_cast \cup {<<v, e>>}
      /\ register' = register
  BY DEF RecordBallot, MayVote
<1>4. VotedAreRegistered'
  <2>1. register[v] # Unregistered  BY DEF RecordBallot
  <2> QED  BY <1>3, <2>1 DEF CountInv, VotedAreRegistered
<1>5. ASSUME NEW f \in Elections, NEW u \in PollingUnits
      PROVE  Cardinality(BlocksOf(f, u)') = Cardinality(VotersOf(f, u)')
  <2>1. Cardinality(BlocksOf(f, u)) = Cardinality(VotersOf(f, u))
    BY DEF CountInv, LedgerMatchesVotes
  <2>2. CASE f = e /\ u = register[v]
    <3>1. BlocksOf(f, u)' = BlocksOf(f, u) \cup {n + 1}  BY <1>1, <1>2, <2>2 DEF BlocksOf
    <3>2. VotersOf(f, u)' = VotersOf(f, u) \cup {v}  BY <1>3, <2>2 DEF VotersOf
    <3>3. n + 1 \notin BlocksOf(f, u) /\ v \notin VotersOf(f, u)
      BY <1>1, <1>3, <2>2 DEF BlocksOf, VotersOf
    <3>4. IsFiniteSet(BlocksOf(f, u)) /\ IsFiniteSet(VotersOf(f, u))
      BY CountedSetsAreFinite DEF CountInv
    <3>5. Cardinality(BlocksOf(f, u)') = Cardinality(BlocksOf(f, u)) + 1
      BY <3>1, <3>3, <3>4, FS_AddElement
    <3>6. Cardinality(VotersOf(f, u)') = Cardinality(VotersOf(f, u)) + 1
      BY <3>2, <3>3, <3>4, FS_AddElement
    <3> QED  BY <2>1, <3>5, <3>6
  <2>3. CASE ~(f = e /\ u = register[v])
    <3>1. BlocksOf(f, u)' = BlocksOf(f, u)  BY <1>1, <1>2, <2>3 DEF BlocksOf
    <3>2. VotersOf(f, u)' = VotersOf(f, u)  BY <1>3, <2>3 DEF VotersOf
    <3> QED  BY <2>1, <3>1, <3>2
  <2> QED  BY <2>2, <2>3
<1> QED  BY <1>4, <1>5 DEF LedgerMatchesVotes

LEMMA CountInvHolds == Spec => []CountInv
<1>1. Init => CountInv
  <2> SUFFICES ASSUME Init PROVE CountInv  OBVIOUS
  <2>1. TypeOK  BY DEF Init, TypeOK, Status
  <2>2. votes_cast = {} /\ Len(ledger) = 0  BY DEF Init
  <2>3. ASSUME NEW e \in Elections, NEW u \in PollingUnits
        PROVE  BlocksOf(e, u) = {} /\ VotersOf(e, u) = {}
    BY <2>2 DEF BlocksOf, VotersOf
  <2> QED  BY <2>1, <2>2, <2>3 DEF CountInv, VotedAreRegistered, LedgerMatchesVotes
<1>2. CountInv /\ TypeOK' /\ [Next]_vars => CountInv'
  <2> SUFFICES ASSUME CountInv, TypeOK', [Next]_vars PROVE CountInv'  OBVIOUS
  <2>1. ASSUME NEW v \in Voters, NEW u \in PollingUnits, RegisterVoter(v, u)
        PROVE  CountInv'
    <3>1. VotedAreRegistered'
      BY <2>1, BallotBoxAssumptions
         DEF RegisterVoter, CountInv, TypeOK, VotedAreRegistered
    <3>2. ASSUME NEW e \in Elections, NEW w \in PollingUnits
          PROVE  BlocksOf(e, w)' = BlocksOf(e, w) /\ VotersOf(e, w)' = VotersOf(e, w)
      BY <2>1, BallotBoxAssumptions
         DEF RegisterVoter, CountInv, TypeOK, VotedAreRegistered, BlocksOf, VotersOf
    <3>3. LedgerMatchesVotes'  BY <3>2 DEF CountInv, LedgerMatchesVotes
    <3> QED  BY <3>1, <3>3 DEF CountInv
  <2>2. ASSUME UNCHANGED <<register, votes_cast, ledger>> PROVE CountInv'
    BY <2>2 DEF CountInv, VotedAreRegistered, LedgerMatchesVotes, BlocksOf, VotersOf
  <2>3. ASSUME NEW v \in Voters, NEW e \in Elections, NEW p \in Parties,
               RecordBallot(v, e, p)
        PROVE  CountInv'
    BY <2>3, RecordBallotKeepsCount DEF CountInv
  <2> QED  BY <2>1, <2>2, <2>3
           DEF Next, OpenElection, CloseElection, Transition, SignCheckpoint, vars
<1> QED  BY <1>1, <1>2, TypeCorrect, PTL DEF Spec

(* Every ballot is counted once and every counted ballot has its voter: at *)
(* each polling unit the anonymous ledger and the table of who has voted   *)
(* agree in number, for any electorate.                                    *)
THEOREM LedgerAlwaysMatchesVotes == Spec => []LedgerMatchesVotes
<1>1. CountInv => LedgerMatchesVotes  BY DEF CountInv
<1> QED  BY <1>1, CountInvHolds, PTL

-----------------------------------------------------------------------------
(* Tallies, and the abstract promise. *)

(* One more block adds one to its own cell of the tally and to no other. *)
LEMMA TallyOfAppend ==
  ASSUME NEW rows \in Seq(Block), NEW b \in Block, NEW e, NEW u, NEW p
  PROVE  /\ TallyOf(rows, e, u, p) \in Nat
         /\ TallyOf(Append(rows, b), e, u, p)
              = IF b.election_type = e /\ b.polling_unit_code = u /\ b.party_code = p
                THEN TallyOf(rows, e, u, p) + 1 ELSE TallyOf(rows, e, u, p)
<1> DEFINE In(s) == {i \in 1..Len(s) : /\ s[i].election_type = e
                                        /\ s[i].polling_unit_code = u
                                        /\ s[i].party_code = p}
           n == Len(rows)
           longer == Append(rows, b)
<1>1. /\ n \in Nat /\ Len(longer) = n + 1 /\ longer[n + 1] = b
      /\ \A i \in 1..n : longer[i] = rows[i]
  BY AppendKeepsRows
<1>2. IsFiniteSet(In(rows)) /\ Cardinality(In(rows)) \in Nat
  <2>1. IsFiniteSet(1..n)  BY <1>1, FS_Interval
  <2>2. In(rows) \subseteq 1..n  OBVIOUS
  <2> QED  BY <2>1, <2>2, FS_Subset, FS_CardinalityType
<1>3. CASE b.election_type = e /\ b.polling_unit_code = u /\ b.party_code = p
  <2>1. In(longer) = In(rows) \cup {n + 1}  BY <1>1, <1>3
  <2>2. n + 1 \notin In(rows)  BY <1>1
  <2>3. Cardinality(In(longer)) = Cardinality(In(rows)) + 1
    BY <1>2, <2>1, <2>2, FS_AddElement
  <2> QED  BY <1>2, <1>3, <2>3 DEF TallyOf
<1>4. CASE ~(b.election_type = e /\ b.polling_unit_code = u /\ b.party_code = p)
  <2>1. In(longer) = In(rows)  BY <1>1, <1>4
  <2> QED  BY <1>2, <1>4, <2>1 DEF TallyOf
<1> QED  BY <1>3, <1>4

(* What admin.tally may release is final: neither the status nor any cell  *)
(* of the tally of a CLOSED election changes in any later transaction.     *)
THEOREM ClosedTallyStaysFrozen == Spec => ClosedTallyFrozen
<1> DEFINE Frozen ==
      \A e \in Elections : status[e] = "CLOSED" =>
        /\ status'[e] = "CLOSED"
        /\ \A u \in PollingUnits, p \in Parties :
             TallyOf(ledger', e, u, p) = TallyOf(ledger, e, u, p)
<1>1. TypeOK /\ [Next]_vars => [Frozen]_vars
  <2> SUFFICES ASSUME TypeOK, Next PROVE Frozen  BY DEF vars
  <2>1. ASSUME NEW v \in Voters, NEW u \in PollingUnits, RegisterVoter(v, u) PROVE Frozen
    BY <2>1 DEF RegisterVoter
  <2>2. ASSUME NEW e \in Elections, OpenElection(e) \/ CloseElection(e) PROVE Frozen
    BY <2>2 DEF OpenElection, CloseElection, Transition, TypeOK
  <2>3. ASSUME NEW v \in Voters, NEW e \in Elections, NEW p \in Parties,
               RecordBallot(v, e, p)
        PROVE  Frozen
    <3> DEFINE b == NewBlock(HeadHash(ledger), e, p, register[v])
    <3>1. /\ b \in Block /\ ledger' = Append(ledger, b) /\ ledger \in Seq(Block)
          /\ b.election_type = e
      BY <2>3, RecordedBlock DEF TypeOK, NewBlock
    <3>2. status[e] = "OPEN" /\ status' = status  BY <2>3 DEF RecordBallot, MayVote
    <3>3. ASSUME NEW f \in Elections, status[f] = "CLOSED",
                 NEW u \in PollingUnits, NEW q \in Parties
          PROVE  TallyOf(ledger', f, u, q) = TallyOf(ledger, f, u, q)
      <4>1. f # e  BY <3>2, <3>3
      <4> QED  BY <3>1, <4>1, TallyOfAppend
    <3> QED  BY <3>2, <3>3
  <2>4. ASSUME SignCheckpoint PROVE Frozen  BY <2>4 DEF SignCheckpoint
  <2> QED  BY <2>1, <2>2, <2>3, <2>4 DEF Next
<1> QED  BY <1>1, TypeCorrect, PTL DEF Spec, ClosedTallyFrozen

(* The ballot box implements its promise: the count anyone can recompute   *)
(* from the public ledger moves exactly as OneVote's count does.           *)
THEOREM BallotBoxKeepsPromise == Spec => ImplementsOneVote
<1> DEFINE Cells == Elections \X PollingUnits \X Parties
           count == [c \in Cells |-> TallyOf(ledger, c[1], c[2], c[3])]
<1>1. Init => Promise!Init
  <2> SUFFICES ASSUME Init PROVE Promise!Init  OBVIOUS
  <2>1. ASSUME NEW c \in Cells PROVE TallyOf(ledger, c[1], c[2], c[3]) = 0
    <3>1. {i \in 1..Len(ledger) : /\ ledger[i].election_type = c[1]
                                  /\ ledger[i].polling_unit_code = c[2]
                                  /\ ledger[i].party_code = c[3]} = {}
      BY DEF Init
    <3> QED  BY <3>1, FS_EmptySet DEF TallyOf
  <2>2. count = [c \in Cells |-> 0]  BY <2>1
  <2> QED  BY <2>2 DEF Init, Promise!Init, Promise!Cells
<1>2. TypeOK /\ [Next]_vars => [Promise!Next]_(Promise!vars)
  <2> SUFFICES ASSUME TypeOK, [Next]_vars PROVE [Promise!Next]_(Promise!vars)  OBVIOUS
  <2>1. ASSUME NEW v \in Voters, NEW u \in PollingUnits, RegisterVoter(v, u)
        PROVE  Promise!Next
    <3>1. Promise!Enrol(v, u)  BY <2>1 DEF RegisterVoter, Promise!Enrol
    <3> QED  BY <3>1 DEF Promise!Next
  <2>2. ASSUME NEW e \in Elections, OpenElection(e) \/ CloseElection(e)
        PROVE  Promise!Next
    <3>1. Promise!Advance(e)
      BY <2>2 DEF OpenElection, CloseElection, Transition, Promise!Advance
    <3> QED  BY <3>1 DEF Promise!Next
  <2>3. ASSUME NEW v \in Voters, NEW e \in Elections, NEW p \in Parties,
               RecordBallot(v, e, p)
        PROVE  Promise!Next
    <3> DEFINE b == NewBlock(HeadHash(ledger), e, p, register[v])
               cell == <<e, register[v], p>>
    <3>1. /\ register[v] \in PollingUnits /\ b \in Block /\ ledger' = Append(ledger, b)
          /\ ledger \in Seq(Block) /\ b.election_type = e
          /\ b.polling_unit_code = register[v] /\ b.party_code = p
      BY <2>3, RecordedBlock DEF TypeOK, NewBlock
    <3>2. cell \in Cells  BY <3>1
    <3>3. ASSUME NEW c \in Cells
          PROVE  TallyOf(ledger', c[1], c[2], c[3])
                   = IF c = cell THEN TallyOf(ledger, c[1], c[2], c[3]) + 1
                     ELSE TallyOf(ledger, c[1], c[2], c[3])
      <4>1. c = cell <=> c[1] = e /\ c[2] = register[v] /\ c[3] = p  BY <3>3
      <4> QED  BY <3>1, <4>1, TallyOfAppend
    <3>4. count' = [count EXCEPT ![cell] = @ + 1]  BY <3>2, <3>3
    <3>5. Promise!Vote(v, e, p)
      BY <2>3, <3>4 DEF RecordBallot, MayVote, Promise!Vote
    <3> QED  BY <3>5 DEF Promise!Next
  <2>4. ASSUME SignCheckpoint PROVE UNCHANGED Promise!vars
    BY <2>4 DEF SignCheckpoint, Promise!vars
  <2>5. CASE UNCHANGED vars  BY <2>5 DEF vars, Promise!vars
  <2> QED  BY <2>1, <2>2, <2>3, <2>4, <2>5 DEF Next
<1> QED  BY <1>1, <1>2, TypeCorrect, PTL DEF Spec, ImplementsOneVote, Promise!Spec
=============================================================================
