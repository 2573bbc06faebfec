---------------------------- MODULE WalletStore ----------------------------
(***************************************************************************)
(* WalletManager (wallet_manager.cpp): wallets stored under an alias, by   *)
(* several processes, through a temporary file that replaces the old one   *)
(* in two steps.  A process may crash at any step and the disk may fail.   *)
(***************************************************************************)
EXTENDS Base64, FiniteSets

CONSTANTS
    Savers,         \* processes with the store open
    Passphrases,    \* MIDNIGHT_WALLET_STORE_PASSPHRASE, or the password of an encrypted state
    MaxSaves,       \* bound: saves begun
    MaxCrashes      \* bound: crashes

ASSUME WalletStoreAssumption == MaxSaves \in Nat /\ MaxCrashes \in Nat

VARIABLES
    aliasFile,      \* <alias>.json
    saver,          \* where each process is in a save, and its temporary file
    orphans,        \* temporary files of crashed processes
    stored,         \* history: payloads whose save returned true
    present,        \* history: a save returned true and no remove_wallet() since
    diskFailed,     \* history: a write fell short unseen, or a rename failed
    loaded,         \* the seed the last load gave, and the passphrase it was given
    savesBegun, walletCrashes

walletStoreVars == <<aliasFile, saver, orphans, stored, present, diskFailed, loaded, savesBegun, walletCrashes>>

NoPayloadFile == [whole |-> FALSE, version |-> 0, seed |-> 0, created |-> 0, pass |-> "none"]
Payload(v, seed, created, p) == [whole |-> TRUE, version |-> v, seed |-> seed, created |-> created, pass |-> p]
AtRest == [pc |-> "idle", temp |-> NoPayloadFile]

WalletStoreInit ==
    /\ aliasFile = NoPayloadFile
    /\ saver = [s \in Savers |-> AtRest]
    /\ orphans = {} /\ stored = {} /\ present = FALSE /\ diskFailed = FALSE
    /\ loaded = [seed |-> 0, pass |-> "none"]
    /\ savesBegun = 0 /\ walletCrashes = 0
-----------------------------------------------------------------------------
(* A save is refused for its alias, its seed, its passphrase, the store    *)
(* directory or the temporary file; what it writes may be cut short.       *)
SaveOutcomes == {"written", "short", "refused"}

(* createdAt is taken over from the file there is, if it can be read. *)
CreatedAt == IF aliasFile.whole THEN aliasFile.created ELSE savesBegun + 1

(* Faulty variant: the old file goes before the new one is written. *)
WriteTempAfterRemoval(s, v, p, outcome) ==
    /\ saver[s].pc = "idle" /\ savesBegun < MaxSaves
    /\ savesBegun' = savesBegun + 1
    /\ aliasFile' = NoPayloadFile
    /\ saver' = IF outcome = "refused" THEN saver
                ELSE [saver EXCEPT ![s] = [pc |-> "temp",
                        temp |-> [Payload(v, savesBegun + 1, CreatedAt, p) EXCEPT !.whole = (outcome = "written")]]]
    /\ diskFailed' = (diskFailed \/ outcome = "short")
    /\ UNCHANGED <<orphans, stored, present, loaded, walletCrashes>>

(* save_seed_hex() (version 2) and save_encrypted() (version 3): the same  *)
(* file, so either replaces the other.  The stream is asked before it is   *)
(* flushed: a write that falls short at the close is not seen.             *)
WriteTemp(s, v, p, outcome) ==
    /\ saver[s].pc = "idle" /\ savesBegun < MaxSaves
    /\ savesBegun' = savesBegun + 1
    /\ saver' = IF outcome = "refused" THEN saver
                ELSE [saver EXCEPT ![s] = [pc |-> "temp",
                        temp |-> [Payload(v, savesBegun + 1, CreatedAt, p) EXCEPT !.whole = (outcome = "written")]]]
    /\ diskFailed' = (diskFailed \/ outcome = "short")
    /\ UNCHANGED <<aliasFile, orphans, stored, present, loaded, walletCrashes>>

(* The old file is removed before the new one takes its name; when the     *)
(* removal fails the temporary file goes and the old one stays.            *)
RemoveOld(s, ok) ==
    /\ saver[s].pc = "temp"
    /\ IF ok THEN aliasFile' = NoPayloadFile /\ saver' = [saver EXCEPT ![s].pc = "removed"]
             ELSE saver' = [saver EXCEPT ![s] = AtRest] /\ UNCHANGED aliasFile
    /\ UNCHANGED <<orphans, stored, present, diskFailed, loaded, savesBegun, walletCrashes>>

(* A rename that fails takes the temporary file with it.                   *)
RenameTemp(s, ok) ==
    /\ saver[s].pc = "removed"
    /\ saver' = [saver EXCEPT ![s] = AtRest]
    /\ IF ok THEN /\ aliasFile' = saver[s].temp
                  /\ stored' = stored \cup {[seed |-> saver[s].temp.seed, pass |-> saver[s].temp.pass]}
                  /\ present' = TRUE /\ UNCHANGED diskFailed
             ELSE diskFailed' = TRUE /\ UNCHANGED <<aliasFile, stored, present>>
    /\ UNCHANGED <<orphans, loaded, savesBegun, walletCrashes>>

RemoveWallet(s) ==
    /\ saver[s].pc = "idle" /\ aliasFile # NoPayloadFile
    /\ aliasFile' = NoPayloadFile /\ present' = FALSE
    /\ UNCHANGED <<saver, orphans, stored, diskFailed, loaded, savesBegun, walletCrashes>>

(* Faulty variant: the tag is not looked at. *)
DecryptSeedHexUntagged(p) == aliasFile.seed

(* The state that save_encrypted() is given: 57 bytes of version, salt,    *)
(* nonce and tag, and a text as long as the seed says.                     *)
EncryptedStateOf(seed) == [i \in 1..(57 + seed) |-> (7 * i + seed) % 256]

(* decrypt_seed_hex() and EncryptedState::decrypt() are authenticated: a   *)
(* state that base64_decode_state() does not bring back does not open.     *)
DecryptSeedHex(p) ==
    LET state == EncryptedStateOf(aliasFile.seed)
    IN  IF aliasFile.pass = p /\ (aliasFile.version = 3 => base64_decode(base64_encode(state)) = state)
        THEN aliasFile.seed ELSE 0

(* load_wallet(), load_seed_hex() and load_encrypted(): each finds in the  *)
(* file of the other version nothing it can use.                           *)
LoadWallet(v, p) ==
    /\ aliasFile.whole /\ aliasFile.version = v
    /\ DecryptSeedHex(p) # 0
    /\ loaded' = [seed |-> DecryptSeedHex(p), pass |-> p]
    /\ UNCHANGED <<aliasFile, saver, orphans, stored, present, diskFailed, savesBegun, walletCrashes>>

CrashSaver(s) ==
    /\ saver[s].pc # "idle" /\ walletCrashes < MaxCrashes
    /\ walletCrashes' = walletCrashes + 1
    /\ orphans' = orphans \cup {saver[s].temp}
    /\ saver' = [saver EXCEPT ![s] = AtRest]
    /\ UNCHANGED <<aliasFile, stored, present, diskFailed, loaded, savesBegun>>

WalletStoreNext ==
    \/ \E s \in Savers, v \in {2, 3}, p \in Passphrases, o \in SaveOutcomes : WriteTemp(s, v, p, o)
    \/ \E s \in Savers, ok \in BOOLEAN : RemoveOld(s, ok) \/ RenameTemp(s, ok)
    \/ \E s \in Savers : RemoveWallet(s) \/ CrashSaver(s)
    \/ \E v \in {2, 3}, p \in Passphrases : LoadWallet(v, p)
-----------------------------------------------------------------------------
(* As long as the disk does not fail, a wallet that was stored and not     *)
(* removed is in its file or whole in a temporary one, through crashes and *)
(* two processes saving at once (wallet_manager.cpp:524-594).              *)
WalletKept ==
    present /\ ~diskFailed =>
        \/ aliasFile.whole
        \/ \E s \in Savers : saver[s].temp.whole
        \/ \E t \in orphans : t.whole

(* A load gives only a seed that was stored, and only to the passphrase it *)
(* was stored with (244-354, 686-756, 927-984).                            *)
LoadedWasStored == loaded.seed # 0 => loaded \in stored
=============================================================================
