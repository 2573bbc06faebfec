---------------------------- MODULE WalletFacade ----------------------------
(***************************************************************************)
(* WalletFacade (wallet_facade.cpp) apart from sync(), which WalletSync    *)
(* has: how one is made, started, stopped and wiped, whose keys and        *)
(* addresses it holds, its encrypted state, and its selection of coins.    *)
(* Keys and addresses are the seed they come from.                         *)
(***************************************************************************)
EXTENDS Base64, FiniteSets, SequencesExt, Sums

CONSTANTS
    FacadeSeeds,     \* positive numbers: the seeds of mnemonics
    StatePasswords,  \* passwords of encrypted states
    StateBytes,      \* what EncryptedState::create() may return: byte sequences
    Purse,           \* the coins: [token, amount], as a sequence
    Targets          \* amounts to select coins for

ASSUME WalletFacadeAssumption ==
    /\ FacadeSeeds \subseteq Nat \ {0} /\ Targets \subseteq Nat
    /\ \A b \in StateBytes : b \in Seq(0..255)
    /\ Purse \in Seq([token : {Purse[c].token : c \in 1..Len(Purse)}, amount : Nat])

VARIABLES
    facade,      \* the facade the application holds
    kept,        \* the encrypted state it keeps
    opened,      \* what restore_from_encrypted() last said, and of what
    signature,   \* the last signature: its key and the address shown with it
    choice       \* the last selection

facadeVars == <<facade, kept, opened, signature, choice>>

Strategies == {"LargestFirst", "SmallestFirst", "RandomImprove"}
NoFacade == [keys |-> 0, addr |-> 0, official |-> FALSE, cleared |-> FALSE, running |-> FALSE,
             services |-> {}, strategy |-> "LargestFirst"]
NothingKept == [addr |-> 0, official |-> FALSE, password |-> "", bytes |-> << >>, text |-> << >>]
NotOpened == [ok |-> FALSE, authentic |-> FALSE, size |-> 0]
NotSigned == [key |-> 0, addr |-> 0]
NotChosen == [strategy |-> "", target |-> 0, token |-> "", coins |-> << >>]

FacadeInit ==
    /\ facade = NoFacade /\ kept = NothingKept
    /\ opened = NotOpened /\ signature = NotSigned /\ choice = NotChosen

(* The results of one call are not looked at after the next.               *)
Becomes(f) ==
    /\ facade' = f
    /\ opened' = NotOpened /\ signature' = NotSigned
    /\ UNCHANGED <<kept, choice>>
-----------------------------------------------------------------------------
(* apply_official_addresses(): the addresses of the ledger library replace *)
(* the derived ones; without a library that is an error only if they are   *)
(* required, and a library that fails is always one.                       *)
LibraryAnswers == {"derives", "fails", "none"}
OfficialAddressesApplied(library, required) == library = "derives" \/ (library = "none" /\ ~required)

(* from_wallet(): the five keys, and the addresses encoded from them.      *)
FromWallet(seed) == [NoFacade EXCEPT !.keys = seed, !.addr = seed]

(* from_mnemonic() and from_mnemonic_with_config(); a throw leaves the     *)
(* application with the facade it had.                                     *)
MakeLocal(seed) == Becomes(FromWallet(seed))

FromMnemonic(seed, library) ==
    /\ OfficialAddressesApplied(library, TRUE)
    /\ Becomes([FromWallet(seed) EXCEPT !.official = TRUE])

FromMnemonicWithConfig(seed, library, required, services) ==
    /\ OfficialAddressesApplied(library, required)
    /\ Becomes([FromWallet(seed) EXCEPT !.official = (library = "derives"), !.services = services \cup {"pending"}])

EnsureNotCleared == facade.addr # 0 /\ ~facade.cleared

Start == EnsureNotCleared /\ Becomes([facade EXCEPT !.running = TRUE])

Stop == facade.addr # 0 /\ Becomes([facade EXCEPT !.running = FALSE])

(* Faulty variant: the services are left running. *)
ClearOnly == facade.addr # 0 /\ Becomes([facade EXCEPT !.keys = 0, !.cleared = TRUE])

(* clear(): the keys are wiped, the addresses stay, the services stop.     *)
Clear == facade.addr # 0 /\ Becomes([facade EXCEPT !.keys = 0, !.cleared = TRUE, !.running = FALSE])

SignData ==
    /\ EnsureNotCleared
    /\ facade.keys # 0
    /\ signature' = [key |-> facade.keys, addr |-> facade.addr]
    /\ opened' = NotOpened
    /\ UNCHANGED <<facade, kept, choice>>
-----------------------------------------------------------------------------
(* serialize_encrypted(): also of a facade that was cleared. *)
SerializeEncrypted(password, bytes) ==
    /\ facade.addr # 0
    /\ kept' = [addr |-> facade.addr, official |-> facade.official, password |-> password,
                bytes |-> bytes, text |-> base64_encode(bytes)]
    /\ opened' = NotOpened /\ signature' = NotSigned
    /\ UNCHANGED <<facade, choice>>

(* restore(): addresses and state, no keys and no services; it counts as   *)
(* cleared until the keys are derived again.                               *)
Restored(k) == [NoFacade EXCEPT !.addr = k.addr, !.official = k.official, !.cleared = TRUE]

(* EncryptedState::decrypt(): authenticated, so only the bytes that were   *)
(* sealed open, and only to the password they were sealed with.            *)
Decrypts(bytes, password) == bytes = kept.bytes /\ password = kept.password

(* Faulty variant: the keys and their flag are not taken over. *)
RestoreKeepingKeys(password) ==
    /\ kept # NothingKept /\ facade.addr # 0
    /\ LET ok == Decrypts(base64_decode(kept.text), password) IN
        /\ opened' = [ok |-> ok, authentic |-> password = kept.password, size |-> Len(kept.bytes)]
        /\ facade' = IF ok THEN [Restored(kept) EXCEPT !.keys = facade.keys, !.cleared = facade.cleared] ELSE facade
    /\ signature' = NotSigned
    /\ UNCHANGED <<kept, choice>>

(* restore_from_encrypted(), into a facade that exists: what restore()     *)
(* made replaces its keys, addresses, flags and services.                  *)
RestoreFromEncrypted(password) ==
    /\ kept # NothingKept /\ facade.addr # 0
    /\ LET ok == Decrypts(base64_decode(kept.text), password) IN
        /\ opened' = [ok |-> ok, authentic |-> password = kept.password, size |-> Len(kept.bytes)]
        /\ facade' = IF ok THEN Restored(kept) ELSE facade
    /\ signature' = NotSigned
    /\ UNCHANGED <<kept, choice>>
-----------------------------------------------------------------------------
Worth(coins) == SumSeq([i \in 1..Len(coins) |-> Purse[coins[i]].amount])

(* The candidates of a token in every order that the strategy may give     *)
(* them: sorted by amount, or shuffled.                                    *)
Shuffles(token, strategy) ==
    LET candidates == {c \in 1..Len(Purse) : Purse[c].token = token}
        sorted(s) == \A i, j \in 1..Len(s) : i < j =>
                        CASE strategy = "LargestFirst"  -> Purse[s[i]].amount >= Purse[s[j]].amount
                          [] strategy = "SmallestFirst" -> Purse[s[i]].amount <= Purse[s[j]].amount
                          [] OTHER -> TRUE
    IN  {s \in SetToSeqs(candidates) : sorted(s)}

(* Coins are taken until they reach the target, one at least. *)
Accumulate(order, target) ==
    LET enough == {n \in 1..Len(order) : Worth(SubSeq(order, 1, n)) >= target}
    IN  IF enough = {} THEN order ELSE SubSeq(order, 1, CHOOSE n \in enough : \A m \in enough : n <= m)

Waste(amount, target) == IF amount > target THEN amount - target ELSE 0

(* The improvement of RandomImprove: the largest coin gives way to the     *)
(* first that is not selected and wastes less, which may fall short.       *)
Improve(order, selected, target) ==
    LET amount(c) == Purse[c].amount
        largest == CHOOSE i \in 1..Len(selected) :
                     \A j \in 1..Len(selected) : \/ amount(selected[j]) < amount(selected[i])
                                                 \/ amount(selected[j]) = amount(selected[i]) /\ i <= j
        after(c) == Worth(selected) - amount(selected[largest]) + amount(c)
        better == {i \in 1..Len(order) : /\ order[i] \notin {selected[j] : j \in 1..Len(selected)}
                                         /\ Waste(after(order[i]), target) < Waste(Worth(selected), target)}
    IN  IF better = {} THEN selected
        ELSE [selected EXCEPT ![largest] = order[CHOOSE i \in better : \A j \in better : i <= j]]

(* Faulty variant: what the improvement left is not looked at. *)
SelectCoinsUnchecked(order, strategy, target) ==
    LET selected == Accumulate(order, target)
    IN  IF strategy = "RandomImprove" /\ Worth(selected) > target THEN Improve(order, selected, target)
        ELSE IF Worth(selected) >= target THEN selected ELSE << >>

(* select_coins(): nothing when the selection does not reach the target.   *)
SelectCoins(order, strategy, target) ==
    LET first == Accumulate(order, target)
        selected == IF strategy = "RandomImprove" /\ Worth(first) > target THEN Improve(order, first, target) ELSE first
    IN  IF Worth(selected) >= target THEN selected ELSE << >>

Choose(token, target) ==
    /\ choice = NotChosen
    /\ \E order \in Shuffles(token, facade.strategy) :
          choice' = [strategy |-> facade.strategy, target |-> target, token |-> token,
                     coins |-> SelectCoins(order, facade.strategy, target)]
    /\ UNCHANGED <<facade, kept, opened, signature>>

SetCoinSelectionStrategy(strategy) == choice = NotChosen /\ Becomes([facade EXCEPT !.strategy = strategy])

FacadeNext ==
    \/ \E seed \in FacadeSeeds :
          \/ MakeLocal(seed)
          \/ \E library \in LibraryAnswers :
                \/ FromMnemonic(seed, library)
                \/ \E required \in BOOLEAN, services \in {{}, {"submission", "proving"}} :
                      FromMnemonicWithConfig(seed, library, required, services)
    \/ Start \/ Stop \/ Clear \/ SignData
    \/ \E p \in StatePasswords : RestoreFromEncrypted(p) \/ \E b \in StateBytes : SerializeEncrypted(p, b)

ChoosingNext ==
    \/ \E s \in Strategies : SetCoinSelectionStrategy(s)
    \/ \E token \in {Purse[c].token : c \in 1..Len(Purse)}, target \in Targets : Choose(token, target)
-----------------------------------------------------------------------------
(* A facade signs only with the key that its addresses belong to, also     *)
(* when the state of another wallet was restored into it, and once its     *)
(* keys are gone nothing of it runs.  An encrypted state opens only to its *)
(* password; it does open if its bytes come in threes, since then Base64   *)
(* brings them back (wallet_facade.cpp:42-262, 369-372, 555-752).          *)
FacadeKeysBelong ==
    /\ signature.key = signature.addr
    /\ facade.cleared => facade.keys = 0 /\ ~facade.running
    /\ opened.ok => opened.authentic
    /\ opened.authentic => (opened.ok <=> opened.size % 3 = 0)

(* What select_coins() gives is worth the target, no coin is in it twice,  *)
(* and all are of the token.  In a sorted order it gives up only when all  *)
(* coins of the token are worth less, and the largest first are never more *)
(* coins than another choice needs (281-365).                              *)
ChoiceCovers ==
    LET ofToken == {c \in 1..Len(Purse) : Purse[c].token = choice.token}
        worth(S) == SumOver([c \in S |-> Purse[c].amount], S)
        n == Len(choice.coins)
    IN  choice # NotChosen =>
          /\ n > 0 => Worth(choice.coins) >= choice.target
          /\ {choice.coins[i] : i \in 1..n} \subseteq ofToken /\ IsInjective(choice.coins)
          /\ n = 0 /\ choice.strategy # "RandomImprove" => worth(ofToken) < choice.target
          /\ choice.strategy = "LargestFirst" =>
                \A S \in SUBSET ofToken : worth(S) >= choice.target /\ n > 1 => Cardinality(S) >= n
=============================================================================
