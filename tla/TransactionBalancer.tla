------------------------ MODULE TransactionBalancer ------------------------
(***************************************************************************)
(* TransactionBalancer (transaction_balancer.cpp): coin selection in a     *)
(* random order, the three ways to balance a transaction, the splitting of *)
(* change and the merging of transactions.  Amounts are of one token and   *)
(* wrap at Width; a transaction is its inputs, its outputs and its fee.    *)
(***************************************************************************)
EXTENDS Integers, FiniteSets, Sequences, SequencesExt, Sums

CONSTANTS
    Coins,        \* amounts of the candidates, as a sequence
    Amounts,      \* amounts in the transactions to balance, and of change
    MinDust,      \* min_dust of split_change()
    MaxParts,     \* bound: transactions merged
    Width         \* 2^64, scaled

ASSUME BalancerAssumption ==
    /\ MinDust \in Nat \ {0} /\ MaxParts \in Nat /\ Width \in Nat \ {0}
    /\ Coins \in Seq(Nat) /\ Amounts \subseteq Nat

VARIABLES
    recipe,       \* the SimpleBalancingRecipe of the last call, and what it was made from
    split,        \* split_change(): the change, what remains of it, the outputs made
    merged        \* merge_transactions(): the result so far and the transactions put in

balancerVars == <<recipe, split, merged>>

Total(s) == SumSeq(s)
Minus(a, b) == (a - b) % Width

Tx(ins, outs, fee) == [ins |-> ins, outs |-> outs, fee |-> fee]
NoTransaction == Tx(<< >>, << >>, 0)
NoRecipe == [kind |-> "none", of |-> NoTransaction, taken |-> << >>, needed |-> 0,
             txs |-> << >>, fee |-> 0, proof |-> FALSE, success |-> FALSE]

BalancerInit ==
    /\ recipe = NoRecipe
    /\ split = [change |-> 0, remaining |-> 0, outs |-> << >>]
    /\ merged = [result |-> NoTransaction, parts |-> << >>]
-----------------------------------------------------------------------------
(* FeeCalculator::calculate_tx_fee(), at one unit per byte. *)
CalculateFee(ins, outs, proof) == 64 + 96 * ins + 80 * outs + (IF proof THEN 128 ELSE 0)

EstimateFeeFromTx(tx) == CalculateFee(Len(tx.ins), Len(tx.outs), FALSE)

(* Faulty variant: the fee of the inputs is left out. *)
RandomImproveSelectFeeless(order, target) ==
    LET enough == {i \in 1..Len(order) : Total(SubSeq(order, 1, i)) >= target + 80}
    IN  IF enough = {} THEN << >> ELSE SubSeq(order, 1, CHOOSE i \in enough : \A j \in enough : i <= j)

(* random_improve_select(): the shortest prefix of the shuffled candidates *)
(* that pays for itself.  The improvement pass is reached only when every  *)
(* candidate is selected, and then finds none to put in place of another.  *)
RandomImproveSelect(order, target) ==
    LET enough == {i \in 1..Len(order) : Total(SubSeq(order, 1, i)) >= target + 96 * i + 80}
    IN  IF enough = {} THEN << >> ELSE SubSeq(order, 1, CHOOSE i \in enough : \A j \in enough : i <= j)

(* What the three operations call the shortfall: inputs over outputs. *)
Shortfall(tx) == IF Total(tx.ins) > Total(tx.outs) THEN Total(tx.ins) - Total(tx.outs) ELSE 0

Failed(kind, tx) == [NoRecipe EXCEPT !.kind = kind, !.of = tx]

(* The sender gets all that was selected less the fee, and the change on   *)
(* top of it.  With nothing selected both subtractions wrap.               *)
FinalizedOutputs(total, shortfall, fee) ==
    LET change == Minus(total, shortfall + fee)
    IN  IF change >= 1000 THEN <<Minus(total, fee), change>> ELSE <<Minus(total, fee)>>

BalanceFinalized(tx, order) ==
    LET needed == Shortfall(tx) + EstimateFeeFromTx(tx)
        taken  == RandomImproveSelect(order, needed)
        fee    == CalculateFee(Len(taken), 1, FALSE)
    IN  /\ recipe' = IF taken = << >> /\ Shortfall(tx) > 0 THEN Failed("finalized", tx)
                     ELSE [kind |-> "finalized", of |-> tx, taken |-> taken, needed |-> needed,
                           txs |-> <<tx, Tx(taken, FinalizedOutputs(Total(taken), Shortfall(tx), fee), fee)>>,
                           fee |-> fee, proof |-> FALSE, success |-> TRUE]
        /\ UNCHANGED <<split, merged>>

(* create_balancing_transaction(): the inputs and outputs of the original  *)
(* once more, under a fee of its own.                                      *)
CreateBalancingTransaction(tx, proof) == Tx(tx.ins, tx.outs, CalculateFee(1, 1, proof))

(* balance_unbound(): the selection goes into the transaction in place,    *)
(* the other kinds get a transaction each, whose fees total_fee omits.     *)
BalanceUnbound(tx, order, kinds) ==
    LET balances == "unshielded" \in kinds /\ Shortfall(tx) > 0
        needed   == Shortfall(tx) + EstimateFeeFromTx(tx)
        taken    == IF balances THEN RandomImproveSelect(order, needed) ELSE << >>
        fee      == IF balances THEN CalculateFee(Len(taken), 1, FALSE) ELSE 0
    IN  /\ recipe' = IF balances /\ taken = << >> THEN Failed("unbound", tx)
                     ELSE [kind |-> "unbound", of |-> tx, taken |-> taken, needed |-> needed,
                           txs |-> <<Tx(tx.ins \o taken, tx.outs, fee)>>
                                     \o (IF "shielded" \in kinds THEN <<CreateBalancingTransaction(tx, TRUE)>> ELSE << >>)
                                     \o (IF "dust" \in kinds THEN <<CreateBalancingTransaction(tx, FALSE)>> ELSE << >>),
                           fee |-> fee, proof |-> "shielded" \in kinds, success |-> TRUE]
        /\ UNCHANGED <<split, merged>>

(* balance_unproven(): one transaction with the fees of all kinds. *)
BalanceUnproven(tx, order, kinds) ==
    LET balances == "unshielded" \in kinds /\ Shortfall(tx) > 0
        needed   == Shortfall(tx) + EstimateFeeFromTx(tx)
        taken    == IF balances THEN RandomImproveSelect(order, needed) ELSE << >>
        fee      == (IF balances THEN CalculateFee(Len(taken), 1, FALSE) ELSE 0)
                      + (IF "shielded" \in kinds THEN CalculateFee(1, 1, TRUE) ELSE 0)
                      + (IF "dust" \in kinds THEN CalculateFee(1, 1, FALSE) ELSE 0)
    IN  /\ recipe' = IF balances /\ taken = << >> THEN Failed("unproven", tx)
                     ELSE [kind |-> "unproven", of |-> tx, taken |-> taken, needed |-> needed,
                           txs |-> <<Tx(tx.ins \o taken, tx.outs, fee)>>,
                           fee |-> fee, proof |-> "shielded" \in kinds, success |-> TRUE]
        /\ UNCHANGED <<split, merged>>
-----------------------------------------------------------------------------
SplitChange(change) ==
    /\ split.remaining < MinDust
    /\ split' = [change |-> change, remaining |-> change, outs |-> << >>]
    /\ UNCHANGED <<recipe, merged>>

(* Faulty variant: halves down to the dust threshold, whatever is left. *)
SplitAmountHalf(r) == IF r >= MinDust /\ r > 1 THEN r \div 2 ELSE r

SplitAmount(r) ==
    IF r <= 2 * MinDust THEN r
    ELSE IF r \div 2 < MinDust THEN r - MinDust ELSE r \div 2

(* One turn of the loop. *)
SplitStep ==
    /\ split.remaining >= MinDust
    /\ LET amount == SplitAmount(split.remaining)
       IN  split' = [change |-> split.change, remaining |-> split.remaining - amount,
                     outs |-> Append(split.outs, amount)]
    /\ UNCHANGED <<recipe, merged>>

(* Faulty variant: the fee of the source replaces that of the target. *)
MergeIntoOver(source) ==
    /\ Len(merged.parts) < MaxParts
    /\ merged' = [result |-> Tx(merged.result.ins \o source.ins, merged.result.outs \o source.outs, source.fee),
                  parts |-> Append(merged.parts, source)]
    /\ UNCHANGED <<recipe, split>>

(* merge_into(): a fee that would overflow throws, and the merge is lost. *)
MergeInto(source) ==
    /\ Len(merged.parts) < MaxParts
    /\ merged' = IF merged.result.fee + source.fee >= Width
                 THEN [result |-> NoTransaction, parts |-> << >>]
                 ELSE [result |-> Tx(merged.result.ins \o source.ins, merged.result.outs \o source.outs,
                                     merged.result.fee + source.fee),
                       parts |-> Append(merged.parts, source)]
    /\ UNCHANGED <<recipe, split>>

Orders == {[i \in 1..Len(Coins) |-> Coins[p[i]]] :
             p \in {q \in [1..Len(Coins) -> 1..Len(Coins)] : IsInjective(q)}}
TxsToBalance == {Tx(<<a>>, <<b>>, 0) : a, b \in Amounts}

(* The three uses of a balancer share no state. *)
BalanceNext ==
    /\ recipe = NoRecipe
    /\ \E tx \in TxsToBalance, order \in Orders :
          \/ BalanceFinalized(tx, order)
          \/ \E kinds \in SUBSET {"unshielded", "shielded", "dust"} :
                BalanceUnbound(tx, order, kinds) \/ BalanceUnproven(tx, order, kinds)

SplitNext == SplitStep \/ \E change \in Amounts : SplitChange(change)

MergeNext == \E a, b \in Amounts : MergeInto(Tx(<<a>>, << >>, b))
-----------------------------------------------------------------------------
(* What a recipe selects pays for the amount it was selected for and for   *)
(* the fee of its own inputs and output, with one coin less it would not;  *)
(* the finalized recipe's subtractions wrap only when nothing was taken    *)
(* (transaction_balancer.cpp:61-146, 419-705).                             *)
SelectionCoversFee ==
    LET n == Len(recipe.taken)
        fee == CalculateFee(n, 1, FALSE)
    IN  n > 0 =>
          /\ Total(recipe.taken) >= recipe.needed + fee - 64
          /\ n > 1 => Total(SubSeq(recipe.taken, 1, n - 1)) < recipe.needed + fee - 64 - 96
          /\ \A i \in 1..Len(recipe.txs) : \A j \in 1..Len(recipe.txs[i].outs) :
                recipe.txs[i].outs[j] <= Total(recipe.txs[i].ins) \/ recipe.txs[i].outs = recipe.of.outs

(* split_change() neither loses nor makes change and no output of it is    *)
(* dust (191-232); a merge holds the inputs, outputs and fees of all its   *)
(* parts (356-415).                                                        *)
ChangeConserved ==
    /\ split.remaining + Total(split.outs) = split.change
    /\ split.change >= MinDust /\ split.remaining < MinDust => split.remaining = 0
    /\ \A i \in 1..Len(split.outs) : split.outs[i] >= MinDust
    /\ merged.result.fee = Total([i \in 1..Len(merged.parts) |-> merged.parts[i].fee])
    /\ Total(merged.result.ins) = Total([i \in 1..Len(merged.parts) |-> Total(merged.parts[i].ins)])
=============================================================================
