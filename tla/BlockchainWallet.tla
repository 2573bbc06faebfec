-------------------------- MODULE BlockchainWallet --------------------------
(***************************************************************************)
(* Wallet (blockchain/wallet.cpp) with its file, and the file format of    *)
(* EncryptedState (state_encryption.cpp).  Seeds are numbers; what a       *)
(* ciphertext looks like as a seed is Noise; an address is the seed it is  *)
(* derived from and the kind its role gives it.                            *)
(***************************************************************************)
EXTENDS Naturals, Sequences

CONSTANTS
    Seeds,          \* positive numbers: BIP-39 seeds of mnemonics and extended keys
    FilePasswords,  \* "" saves the seed as it is
    MaxAddresses    \* bound: addresses generated

ASSUME BlockchainWalletAssumption == Seeds \subseteq 1..98 /\ MaxAddresses \in Nat

VARIABLES
    wallet,         \* extended_private_key_ and addresses_
    walletFile,     \* the file: its form, what it holds and the passphrase
    writing,        \* save() has truncated the file and not written it
    rawLoad         \* history: the seed came from a load without passphrase

walletVars == <<wallet, walletFile, writing, rawLoad>>

Noise == 0
Unset == 99
NoSeed == [seed |-> Unset, addresses |-> << >>]
NoWalletFile == [form |-> "absent", seed |-> Noise, addresses |-> << >>, pass |-> ""]

WalletInit ==
    /\ wallet = NoSeed /\ walletFile = NoWalletFile
    /\ writing = FALSE /\ rawLoad = FALSE
-----------------------------------------------------------------------------
RoleToHrp(role) == CASE role = 3 -> "shield-addr" [] role = 2 -> "dust" [] OTHER -> "addr"

(* derive_key(): three HMAC-SHA512 steps, taken to be without collisions. *)
DeriveKey(seed, role) == [seed |-> seed, kind |-> RoleToHrp(role)]

(* Faulty variant: the addresses of the wallet before are kept. *)
CreateKeeping(seed) ==
    /\ ~writing
    /\ wallet' = [seed |-> seed, addresses |-> IF wallet.addresses = << >> THEN <<DeriveKey(seed, 0)>> ELSE wallet.addresses]
    /\ rawLoad' = FALSE
    /\ UNCHANGED <<walletFile, writing>>

(* create_from_mnemonic(), create_from_xprv(): the first address is made.  *)
Create(seed) ==
    /\ ~writing
    /\ wallet' = [seed |-> seed, addresses |-> <<DeriveKey(seed, 0)>>]
    /\ rawLoad' = FALSE
    /\ UNCHANGED <<walletFile, writing>>

(* The seed a raw load took from something else is not 64 bytes long: no   *)
(* address is derived from it.                                             *)
GenerateAddress(role) ==
    /\ ~writing /\ wallet.seed \notin {Unset, Noise} /\ Len(wallet.addresses) < MaxAddresses
    /\ wallet' = [wallet EXCEPT !.addresses = Append(@, DeriveKey(wallet.seed, role))]
    /\ UNCHANGED <<walletFile, writing, rawLoad>>

(* EncryptedState::create() and decrypt(): the key comes from the          *)
(* passphrase and the ciphertext is authenticated, so only the passphrase  *)
(* it was made with opens it; an absent, cut or raw file does not open.    *)
Sealed(w, p) == [form |-> "encrypted", seed |-> w.seed, addresses |-> w.addresses, pass |-> p]
Opens(file, p) == p # "" /\ file.form = "encrypted" /\ file.pass = p

(* Opening the stream empties the file. *)
SaveOpens ==
    /\ ~writing /\ wallet.seed # Unset
    /\ writing' = TRUE
    /\ walletFile' = [NoWalletFile EXCEPT !.form = "empty"]
    /\ UNCHANGED <<wallet, rawLoad>>

(* Without a passphrase the addresses are not written, and nobody asks     *)
(* whether the write went through.                                         *)
SaveWrites(p, short) ==
    /\ writing
    /\ writing' = FALSE
    /\ walletFile' = IF short THEN [NoWalletFile EXCEPT !.form = "short"]
                     ELSE IF p # "" THEN Sealed(wallet, p)
                     ELSE [NoWalletFile EXCEPT !.form = "raw", !.seed = wallet.seed]
    /\ UNCHANGED <<wallet, rawLoad>>

(* load() without a passphrase takes the file for the seed before it looks *)
(* at its length, and leaves the addresses as they were.                   *)
LoadRaw ==
    /\ ~writing /\ walletFile.form \notin {"absent", "empty"}
    /\ wallet' = [wallet EXCEPT !.seed = IF walletFile.form = "raw" THEN walletFile.seed ELSE Noise]
    /\ rawLoad' = TRUE
    /\ UNCHANGED <<walletFile, writing>>

(* Faulty variant: the addresses are appended to those held. *)
LoadEncryptedAppending(p) ==
    /\ ~writing /\ Opens(walletFile, p)
    /\ wallet' = [seed |-> walletFile.seed, addresses |-> wallet.addresses \o walletFile.addresses]
    /\ rawLoad' = FALSE
    /\ UNCHANGED <<walletFile, writing>>

(* load() with one: EncryptedState::decrypt() is authenticated, so any     *)
(* other file throws before anything is assigned.  What had been saved     *)
(* after a raw load comes back as it was.                                  *)
LoadEncrypted(p) ==
    /\ ~writing /\ Opens(walletFile, p)
    /\ wallet' = [seed |-> walletFile.seed, addresses |-> walletFile.addresses]
    /\ rawLoad' = \E i \in 1..Len(walletFile.addresses) : walletFile.addresses[i].seed # walletFile.seed
    /\ UNCHANGED <<walletFile, writing>>

EndWalletProcess ==
    /\ wallet' = NoSeed /\ writing' = FALSE /\ rawLoad' = FALSE
    /\ UNCHANGED walletFile

WalletNext ==
    \/ \E seed \in Seeds : Create(seed)
    \/ \E role \in {0, 2, 3} : GenerateAddress(role)
    \/ SaveOpens \/ LoadRaw \/ EndWalletProcess
    \/ \E p \in FilePasswords : LoadEncrypted(p) \/ \E short \in BOOLEAN : SaveWrites(p, short)
-----------------------------------------------------------------------------
(* The addresses a wallet shows are derived from the seed it holds, except *)
(* after a load without passphrase, which keeps the addresses of the       *)
(* wallet before it (blockchain/wallet.cpp:250-387).                       *)
AddressesOfSeed ==
    ~rawLoad /\ wallet.seed # Unset =>
        \A i \in 1..Len(wallet.addresses) : wallet.addresses[i].seed = wallet.seed
=============================================================================
