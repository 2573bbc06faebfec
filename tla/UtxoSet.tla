------------------------------ MODULE UtxoSet ------------------------------
(***************************************************************************)
(* UtxoSetManager, TransactionBuilder, TransactionValidator, UtxoSelector  *)
(* and FeeEstimator (utxo_transactions.cpp).  An input names its UTXO with *)
(* or without the 0x prefix; the chain may spend a UTXO at any time.       *)
(***************************************************************************)
EXTENDS Integers, FiniteSets, Sequences, SequencesExt

CONSTANTS
    Utxos,        \* outputs of the chain
    Builders,     \* transactions being built, each with its hash
    TTL,          \* ttl_ms of a reservation, in ticks
    MaxTick,      \* bound: the clock
    TxShapes,     \* what the rest of a transaction may look like
    MaxOutputs    \* bound: outputs a selection is made for

ASSUME UtxoSetAssumption ==
    TTL \in Nat /\ MaxTick \in Nat /\ MaxOutputs \in Nat /\ "nobody" \notin Builders

VARIABLES
    utxoSpent,    \* the chain: spent outputs
    tick,
    reserved,     \* reserved_utxos_
    granted,      \* history: what reserve_utxos() last said yes to
    inputs,       \* tx_.inputs of each builder
    validation,   \* validate_transaction() under way or finished
    selection     \* the last select_utxos() and its answer

utxoVars == <<utxoSpent, tick, reserved, granted, inputs, validation, selection>>

Keys == Utxos \X {"0x", "bare"}
Nobody == "nobody"
Free == [tx |-> Nobody, expiry |-> 0]
NoGrant == [keys |-> {}, expiry |-> 0]
NoValidation == [all |-> << >>, todo |-> << >>, spentThen |-> {}, unseen |-> {}, verdict |-> "none"]
NoSelection == [from |-> << >>, outputs |-> 0, witnesses |-> FALSE, chosen |-> << >>]

UtxoInit ==
    /\ utxoSpent = {} /\ tick = 0
    /\ reserved = [k \in Keys |-> Free]
    /\ granted = [t \in Builders |-> NoGrant]
    /\ inputs = [t \in Builders |-> << >>]
    /\ validation = NoValidation
    /\ selection = NoSelection

(* External: another transaction spends an output; time passes. *)
Spend(u) ==
    /\ u \notin utxoSpent
    /\ utxoSpent' = utxoSpent \cup {u}
    /\ UNCHANGED <<tick, reserved, granted, inputs, validation, selection>>

Tick ==
    /\ tick < MaxTick
    /\ tick' = tick + 1
    /\ UNCHANGED <<utxoSpent, reserved, granted, inputs, validation, selection>>
-----------------------------------------------------------------------------
(* Reservations. *)

(* Faulty variant: a reservation ends at its last instant. *)
ExpiredEarly(k) == tick >= reserved[k].expiry

Expired(k) == tick > reserved[k].expiry

(* is_reserved(): the empty exclude hash of the validators excludes no one. *)
IsReserved(k, exclude) == reserved[k] # Free /\ ~Expired(k) /\ reserved[k].tx # exclude

(* reserve_utxos() stops at the first input somebody else has and leaves   *)
(* the ones before it reserved.                                            *)
ReserveUtxos(t, s) ==
    LET refused == {i \in 1..Len(s) : IsReserved(s[i], t)}
        taken   == {s[i] : i \in {j \in 1..Len(s) : \A r \in refused : j < r}}
    IN  /\ reserved' = [k \in Keys |-> IF k \in taken THEN [tx |-> t, expiry |-> tick + TTL] ELSE reserved[k]]
        /\ granted' = IF refused = {} THEN [granted EXCEPT ![t] = [keys |-> Range(s), expiry |-> tick + TTL]]
                                      ELSE granted
        /\ UNCHANGED <<utxoSpent, tick, inputs, validation, selection>>

ReleaseReservedUtxos(t) ==
    /\ reserved' = [k \in Keys |-> IF reserved[k].tx = t THEN Free ELSE reserved[k]]
    /\ granted' = [granted EXCEPT ![t] = NoGrant]
    /\ UNCHANGED <<utxoSpent, tick, inputs, validation, selection>>

(* cleanup_expired_reservations(), the first thing of                      *)
(* verify_inputs_unspent(), whose verdict changes nothing.                 *)
VerifyInputsUnspent ==
    /\ reserved' = [k \in Keys |-> IF Expired(k) THEN Free ELSE reserved[k]]
    /\ UNCHANGED <<utxoSpent, tick, granted, inputs, validation, selection>>
-----------------------------------------------------------------------------
(* TransactionBuilder. *)

(* Faulty variant: the names are compared as they are spelled. *)
HasDuplicateInputSpelled(t, k) == \E i \in 1..Len(inputs[t]) : inputs[t][i] = k

(* has_duplicate_input() compares without the prefix. *)
HasDuplicateInput(t, k) == \E i \in 1..Len(inputs[t]) : inputs[t][i][1] = k[1]

(* query_utxo() and is_spent(): a failed query and an output that is not   *)
(* found look the same.                                                    *)
QueryUtxo(k, answered) ==
    IF ~answered THEN "none" ELSE IF k[1] \in utxoSpent THEN "spent" ELSE "unspent"

(* verify_input_utxo() asks twice: whether the output is there, and        *)
(* whether it is spent; the second time no answer counts as unspent.       *)
PassesSpentCheck(k, secondSeen) == QueryUtxo(k, secondSeen) # "spent"

AddInput(t, k, secondSeen) ==
    /\ ~HasDuplicateInput(t, k)
    /\ PassesSpentCheck(k, secondSeen)
    /\ inputs' = [inputs EXCEPT ![t] = Append(@, k)]
    /\ UNCHANGED <<utxoSpent, tick, reserved, granted, validation, selection>>
-----------------------------------------------------------------------------
(* TransactionValidator, one step per input and one for the rest. *)

StartValidation(t) ==
    /\ validation.todo = << >> /\ inputs[t] # << >>
    /\ validation' = [NoValidation EXCEPT !.all = inputs[t], !.todo = inputs[t], !.spentThen = utxoSpent]
    /\ UNCHANGED <<utxoSpent, tick, reserved, granted, inputs, selection>>

(* Faulty variant: the second query is not made. *)
ValidateInputUnasked(secondSeen) ==
    /\ validation.todo # << >>
    /\ validation' = [validation EXCEPT !.todo = Tail(@),
                         !.verdict = IF Tail(validation.todo) = << >> THEN "inputs valid" ELSE @]
    /\ UNCHANGED <<utxoSpent, tick, reserved, granted, inputs, selection>>

ValidateInput(secondSeen) ==
    /\ validation.todo # << >>
    /\ LET k == Head(validation.todo)
           ok == PassesSpentCheck(k, secondSeen) /\ ~IsReserved(k, Nobody)
       IN  /\ validation' = IF ok THEN [validation EXCEPT
                                  !.todo = Tail(@),
                                  !.unseen = IF secondSeen THEN @ ELSE @ \cup {k[1]},
                                  !.verdict = IF Tail(validation.todo) = << >> THEN "inputs valid" ELSE @]
                            ELSE [NoValidation EXCEPT !.verdict = "refused"]
           /\ reserved' = IF Expired(k) THEN [reserved EXCEPT ![k] = Free] ELSE reserved
    /\ UNCHANGED <<utxoSpent, tick, granted, inputs, selection>>

DustBalanced(x) == x.dustIn >= x.dustOut + x.fees + 128 * x.outputs

(* Proof references and witness signatures stand in for the flat fields.   *)
RestValid(x) ==
    /\ x.outputs \in 1..256 /\ x.commitments
    /\ DustBalanced(x)
    /\ IF x.references # "none" THEN x.references = "given" ELSE x.proofs = "well-formed"
    /\ IF x.signatures # "none" THEN x.signatures = "well-formed" ELSE x.signature = "well-formed"

ValidateRest(x) ==
    /\ validation.verdict = "inputs valid"
    /\ validation' = IF RestValid(x) THEN [validation EXCEPT !.verdict = "valid"]
                                     ELSE [NoValidation EXCEPT !.verdict = "refused"]
    /\ UNCHANGED <<utxoSpent, tick, reserved, granted, inputs, selection>>
-----------------------------------------------------------------------------
(* FeeEstimator and UtxoSelector, with the fee model and the protocol      *)
(* parameters of the default context.                                      *)
EstimateTxSize(ins, outs, proof) == 64 + ins * 96 + outs * 80 + proof

CommitmentDust(outs) == outs * 128 * (4310 \div 1024)

EstimateFee(ins, outs, proof) ==
    EstimateTxSize(ins, outs, proof) * 44 + 155381
      + ((proof + 127) \div 128) * (44 * 4)
      + outs * 1000 + CommitmentDust(outs)

DustAvailable(n) == n * (155381 \div 2)

MinInputs(outs, witnesses) == LET least == IF witnesses THEN 2 ELSE 1 IN IF outs > least THEN outs ELSE least

RequiredDust(outs, witnesses) ==
    EstimateFee(MinInputs(outs, witnesses), outs, IF witnesses THEN 128 ELSE 0)

(* Deepest finality first, then the oldest. *)
Preferred(a, b) == IF a.depth # b.depth THEN a.depth > b.depth ELSE a.height < b.height

(* Faulty variant: the number of inputs alone ends the search. *)
ChosenCountByInputs(n, outs, witnesses) ==
    IF n >= MinInputs(outs, witnesses) THEN MinInputs(outs, witnesses) ELSE n

(* How many of n candidates select_utxos() takes, 0 for none; when they    *)
(* pay but are fewer than the inputs wanted it takes them all.             *)
ChosenCount(n, outs, witnesses) ==
    LET enough == {i \in 1..n : i >= MinInputs(outs, witnesses) /\ DustAvailable(i) >= RequiredDust(outs, witnesses)}
    IN  IF enough # {} THEN CHOOSE i \in enough : \A j \in enough : i <= j
        ELSE IF DustAvailable(n) >= RequiredDust(outs, witnesses) THEN n ELSE 0

SelectUtxos(available, outs, witnesses) ==
    /\ \E ordered \in SetToSeqs(available) :
          /\ \A i, j \in 1..Len(ordered) : i < j => Preferred(ordered[i], ordered[j])
          /\ selection' = [from |-> ordered, outputs |-> outs, witnesses |-> witnesses,
                           chosen |-> SubSeq(ordered, 1, ChosenCount(Len(ordered), outs, witnesses))]
    /\ UNCHANGED <<utxoSpent, tick, reserved, granted, inputs, validation>>

Candidates == [depth : 0..1, height : 0..1]

(* External: the caller takes the verdict, before anything else happens:   *)
(* nothing that follows changes it.                                        *)
Verdict == validation.verdict \in {"valid", "refused"}

TakeVerdict ==
    /\ Verdict
    /\ validation' = NoValidation
    /\ UNCHANGED <<utxoSpent, tick, reserved, granted, inputs, selection>>

UtxoNext ==
    \/ TakeVerdict
    \/ /\ ~Verdict
       /\ \/ \E u \in Utxos : Spend(u)
          \/ Tick \/ VerifyInputsUnspent
          \/ \E t \in Builders :
                \/ ReserveUtxos(t, inputs[t]) /\ inputs[t] # << >>
                \/ ReleaseReservedUtxos(t) \/ StartValidation(t)
                \/ \E k \in Keys, seen \in BOOLEAN : AddInput(t, k, seen)
          \/ \E seen \in BOOLEAN : ValidateInput(seen)
          \/ \E x \in TxShapes : ValidateRest(x)

SelectorNext ==
    \E available \in SUBSET Candidates \ {{}}, outs \in 1..MaxOutputs, witnesses \in BOOLEAN :
        SelectUtxos(available, outs, witnesses)
-----------------------------------------------------------------------------
(* A reservation that was granted stays with its transaction until it is   *)
(* released or expires, through the partial reservations of others that    *)
(* failed (utxo_transactions.cpp:429-512).                                 *)
ReservationsExclusive ==
    \A t \in Builders :
        granted[t].keys # {} /\ tick <= granted[t].expiry
          => \A k \in granted[t].keys : IsReserved(k, Nobody) /\ reserved[k].tx = t

(* No builder names an output twice, however it is spelled (601-644); and  *)
(* what validate_transaction() accepts was unspent when it began, except   *)
(* an output whose second query failed (836-858).                          *)
InputsSpendable ==
    /\ \A t \in Builders : \A i, j \in 1..Len(inputs[t]) :
          inputs[t][i][1] = inputs[t][j][1] => i = j
    /\ validation.verdict = "valid" =>
          \A k \in Range(validation.all) : k[1] \in validation.spentThen => k[1] \in validation.unseen

(* A selection pays the fee it was made for, takes the best candidates in  *)
(* order, and would not do with one less unless inputs were still wanted   *)
(* (1060-1128).                                                            *)
SelectionPays ==
    LET n == Len(selection.chosen)
    IN  n > 0 =>
          /\ DustAvailable(n) >= RequiredDust(selection.outputs, selection.witnesses)
          /\ selection.chosen = SubSeq(selection.from, 1, n)
          /\ n > MinInputs(selection.outputs, selection.witnesses)
               => DustAvailable(n - 1) < RequiredDust(selection.outputs, selection.witnesses)
=============================================================================
