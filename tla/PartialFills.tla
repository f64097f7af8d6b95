---------------------------- MODULE PartialFills ----------------------------
(***************************************************************************)
(* Partial fills of the relayer's order book: ProgressiveFillManager       *)
(* (relayer/src/partial-fills.ts) over the Merkle tree of secrets          *)
(* (merkle-tree.ts).                                                       *)
(*                                                                         *)
(* A hash is the term it hashes: <<i>> for the secret of part i, <<l, r>>  *)
(* for a pair.  Numbers of parts that do not divide 100 are left out: the  *)
(* conversion of their percentage to BigInt throws before the order        *)
(* exists.                                                                 *)
(***************************************************************************)
EXTENDS Naturals, Sequences, FiniteSets, SequencesExt

CONSTANTS
    FillOrders,   \* orders
    Parts,        \* numbers of secrets an order may be split into
    Amounts,      \* making amounts
    MaxFills      \* bound: executions per order

VARIABLES
    book,         \* the order as ProgressiveFillManager stores it
    fills,        \* fillExecutions: the parts of each order, in order
    over          \* orders whose auction has ended

fillVars == <<book, fills, over>>

-----------------------------------------------------------------------------
(* createMerkleTree: the amounts of the parts.                             *)
fillAmount_RoundedUp(total, parts) == (total * (100 \div parts) + 99) \div 100
fillAmount(total, parts) == (total * (100 \div parts)) \div 100
cumulativeAmount(total, parts, i) == i * fillAmount(total, parts)

(* buildTree: pairs level by level until one node is left; an odd node is  *)
(* hashed with itself and has no right child.  There are fewer levels than *)
(* leaves.                                                                 *)
Node(hash, kids) == [hash |-> hash, kids |-> kids]

PairUp(nodes) ==
    [k \in 1 .. (Len(nodes) + 1) \div 2 |->
        LET l == nodes[2 * k - 1] IN
        IF 2 * k <= Len(nodes)
        THEN Node(<<l.hash, nodes[2 * k].hash>>, <<l, nodes[2 * k]>>)
        ELSE Node(<<l.hash, l.hash>>, <<l>>)]

buildTree(leaves) ==
    LET level[n \in Nat] ==
            IF n = 0 THEN leaves
            ELSE IF Len(level[n - 1]) = 1 THEN level[n - 1] ELSE PairUp(level[n - 1])
    IN  level[Len(leaves)][1]

Leaves(parts) == [i \in 1 .. parts |-> Node(<<i>>, <<>>)]
Tree(parts) == buildTree(Leaves(parts))

(* generateProof: from the root down, halving the range of indices; a node *)
(* without the child to go to, or a range of one, ends the descent.        *)
Descend(s, i) ==
    LET mid == (s.start + s.end) \div 2
        left == i <= mid
        sibling == IF left THEN 2 ELSE 1
        kid == IF left THEN 1 ELSE 2
        kids == s.node.kids
        found == IF sibling \in DOMAIN kids THEN Append(s.proof, kids[sibling].hash)
                 ELSE s.proof
    IN  IF s.start = s.end THEN s
        ELSE IF kid \in DOMAIN kids
        THEN [node |-> kids[kid], proof |-> found,
              start |-> IF left THEN s.start ELSE mid + 1,
              end |-> IF left THEN mid ELSE s.end]
        ELSE [s EXCEPT !.proof = found, !.end = s.start]

generateProof(root, i, parts) ==
    LET at[n \in Nat] == IF n = 0 THEN [node |-> root, proof |-> <<>>, start |-> 1, end |-> parts]
                         ELSE Descend(at[n - 1], i)
    IN  at[parts].proof

getProof(parts, i) == generateProof(Tree(parts), i, parts)

(* computeProofHash: from the leaf, every proof hash on the right.         *)
computeProofHash(i, proof) == FoldLeft(LAMBDA h, p : <<h, p>>, <<i>>, proof)

verifyProof(parts, i, proof) ==
    computeProofHash(i, proof) = Tree(parts).hash

(* MerkleTreeUtils.hashLockForMultipleFills: the same levels over hashes.  *)
PairHashes(nodes) ==
    [k \in 1 .. (Len(nodes) + 1) \div 2 |->
        <<nodes[2 * k - 1],
          IF 2 * k <= Len(nodes) THEN nodes[2 * k] ELSE nodes[2 * k - 1]>>]

hashLockForMultipleFills(hashes) ==
    LET level[n \in Nat] ==
            IF n = 0 THEN hashes
            ELSE IF Len(level[n - 1]) = 1 THEN level[n - 1] ELSE PairHashes(level[n - 1])
    IN  level[Len(hashes)][1]

-----------------------------------------------------------------------------
NoFillOrder == [status |-> "none", parts |-> 1, total |-> 1]

initializePartialFillOrder(o, parts, total) ==
    /\ book[o].status = "none"
    /\ book' = [book EXCEPT ![o] = [status |-> "active", parts |-> parts, total |-> total]]
    /\ fills' = [fills EXCEPT ![o] = <<>>]
    /\ UNCHANGED over

(* validateFill.  Executions are stored as pending and nothing ever turns  *)
(* one into executed, so the tests for a filled fragment and for the       *)
(* remaining amount see no earlier fill.                                   *)
Executed(o) == {}

validateFill_ProofUnchecked(o, i, amount) ==
    /\ book[o].status = "active" /\ o \notin over
    /\ i \in 1 .. book[o].parts
    /\ i \notin Executed(o)
    /\ amount <= book[o].total
validateFill(o, i, amount) ==
    /\ validateFill_ProofUnchecked(o, i, amount)
    /\ verifyProof(book[o].parts, i, getProof(book[o].parts, i))

(* executePartialFill; fillPercentage counts executed fills only, so the   *)
(* order is not completed here.                                            *)
executePartialFill(o, i, amount) ==
    /\ validateFill(o, i, amount)
    /\ Len(fills[o]) < MaxFills
    /\ fills' = [fills EXCEPT ![o] = Append(@, [part |-> i, amount |-> amount])]
    /\ UNCHANGED <<book, over>>

AuctionEnds(o) ==
    /\ o \notin over
    /\ over' = over \cup {o}
    /\ UNCHANGED <<book, fills>>

FillInit ==
    /\ book = [o \in FillOrders |-> NoFillOrder]
    /\ fills = [o \in FillOrders |-> <<>>]
    /\ over = {}

FillNext ==
    \E o \in FillOrders :
          \/ \E parts \in Parts, total \in Amounts : initializePartialFillOrder(o, parts, total)
          \/ \E i \in 1 .. book[o].parts :
                \E amount \in {fillAmount(book[o].total, book[o].parts), book[o].total} :
                    executePartialFill(o, i, amount)
          \/ AuctionEnds(o)

-----------------------------------------------------------------------------
(* The shapes of the order book's state.                                   *)
FillTypeOK ==
    /\ book \in [FillOrders -> [status: {"none", "active"}, parts: Parts \cup {1},
                                total: Amounts \cup {1}]]
    /\ \A o \in FillOrders : Len(fills[o]) <= MaxFills
    /\ over \subseteq FillOrders

(* The tree that proofs are checked against and the hash lock published    *)
(* for the order commit to the same secrets, and the parts never add up to *)
(* more than the order, with less than one unit per part left over.        *)
SplitIsSound ==
    \A o \in FillOrders :
        LET n == book[o].parts
            sum == cumulativeAmount(book[o].total, n, n)
        IN  /\ hashLockForMultipleFills([i \in 1 .. n |-> <<i>>]) = Tree(n).hash
            /\ sum <= book[o].total /\ book[o].total - sum < n

=============================================================================
