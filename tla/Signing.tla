------------------------------ MODULE Signing ------------------------------
(***************************************************************************)
(* KeyManager, TransactionSigner, FinalityVoteSigner and BatchSigner       *)
(* (signing_submission.cpp) with the key file of KeyEncryption             *)
(* (key_encryption.cpp).  Key material is a number, 0 what decryption      *)
(* makes of it under another password; a signature is who made it, with    *)
(* which algorithm, about what.                                            *)
(***************************************************************************)
EXTENDS Naturals, FiniteSets, Sequences

CONSTANTS
    Schemes,     \* the SigningAlgorithms in use
    Payloads,    \* ledger-provided payloads, and the targets of votes
    Passwords,   \* passwords keys are saved with
    WrongPassword,
    MaxKeys,     \* bound: keys generated
    MaxMade      \* bound: signatures kept to be verified


VARIABLES
    sodium,      \* kHasSodium, an option of the build
    keypair,     \* the Keypair the application holds
    born,        \* history: keys generated
    keyfile,     \* the key file
    saving,      \* save_key() has opened the file and not written it yet
    signer,      \* a TransactionSigner: keypair_ and last_signed_payload_
    made         \* history: the signatures made

signingVars == <<sodium, keypair, born, keyfile, saving, signer, made>>

AllSchemes == {"SR25519", "ED25519", "ECDSA", "BIP340", "BLS"}
ASSUME SigningAssumption ==
    Schemes \subseteq AllSchemes /\ MaxKeys \in Nat /\ MaxMade \in Nat

PrivateBytes(s) == IF s \in {"SR25519", "ED25519"} THEN 64 ELSE 32
PublicBytes(s) == CASE s = "ECDSA" -> 33 [] s = "BLS" -> 48 [] OTHER -> 32

Garbage == 0
NoPublic == MaxKeys + 2
SeedKey == MaxKeys + 1      \* what derive_seed_bytes_from_phrase() makes of the phrase

(* type is the label, scheme the algorithm the material is of. *)
Keypair(t, s, m) == [type |-> t, scheme |-> s, pub |-> m, priv |-> m]
NoKey == [Keypair("BIP340", "BIP340", Garbage) EXCEPT !.pub = NoPublic]
NoPayload == "no payload"

NoFile == [state |-> "absent", key |-> NoKey, password |-> ""]

SigningInit ==
    /\ sodium \in BOOLEAN
    /\ keypair = NoKey /\ born = 0
    /\ keyfile = NoFile /\ saving = ""
    /\ signer = [key |-> NoKey, last |-> NoPayload]
    /\ made = {}
-----------------------------------------------------------------------------
(* KeyManager. *)

(* generate_<scheme>_key(): two of the five throw without libsodium. *)
GenerateKey(s) ==
    /\ born < MaxKeys
    /\ s \in {"SR25519", "ED25519"} => sodium
    /\ born' = born + 1
    /\ keypair' = Keypair(s, s, born + 1)
    /\ UNCHANGED <<sodium, keyfile, saving, signer, made>>

(* An Ed25519 key under whatever label. *)
ImportFromSeed(t) ==
    /\ sodium
    /\ keypair' = Keypair(t, "ED25519", SeedKey)
    /\ UNCHANGED <<sodium, born, keyfile, saving, signer, made>>

(* encrypt_key() refuses the empty password before the file is touched;    *)
(* opening the file truncates it.                                          *)
OpenKeyFile(p) ==
    /\ saving = "" /\ keypair # NoKey /\ p # ""
    /\ saving' = p
    /\ keyfile' = NoFile
    /\ UNCHANGED <<sodium, keypair, born, signer, made>>

(* Written: the encrypted private key, a marker, the type, the public key. *)
(* Nobody looks at the stream afterwards: a short write is a success too.  *)
FileStates == {"no marker", "no type", "no public key", "whole"}

WriteKeyFile(f) ==
    /\ saving # "" /\ f \in FileStates
    /\ keyfile' = [state |-> f, key |-> keypair, password |-> saving]
    /\ saving' = ""
    /\ UNCHANGED <<sodium, keypair, born, signer, made>>

(* decrypt_key(): the authentication step is taken as failed when its      *)
(* result is negative, which it never is.                                  *)
Decrypt(p) == IF p = keyfile.password THEN keyfile.key.priv ELSE Garbage

(* Faulty variant: the label that was not read stays that of the key held. *)
LoadKeyOverHeld(p) ==
    /\ saving = "" /\ keyfile.state \notin {"absent", "no marker"}
    /\ keypair' = [keypair EXCEPT
          !.scheme = keyfile.key.scheme,
          !.pub = IF keyfile.state = "whole" THEN keyfile.key.pub ELSE @,
          !.priv = Decrypt(p)]
    /\ UNCHANGED <<sodium, born, keyfile, saving, signer, made>>

(* load_key(): a missing type is SR25519 and a missing public key is       *)
(* empty.  A file that is not there, or has no marker, gives nothing.     *)
LoadKey(p) ==
    /\ saving = "" /\ keyfile.state \notin {"absent", "no marker"}
    /\ keypair' = [type   |-> IF keyfile.state = "no type" THEN "SR25519" ELSE keyfile.key.type,
                   scheme |-> keyfile.key.scheme,
                   pub    |-> IF keyfile.state = "whole" THEN keyfile.key.pub ELSE NoPublic,
                   priv   |-> Decrypt(p)]
    /\ UNCHANGED <<sodium, born, keyfile, saving, signer, made>>

(* The process ends; what save_key() had opened stays truncated. *)
EndProcess ==
    /\ keypair' = NoKey /\ saving' = ""
    /\ signer' = [key |-> NoKey, last |-> NoPayload]
    /\ UNCHANGED <<sodium, born, keyfile, made>>
-----------------------------------------------------------------------------
(* The signers. *)

(* derive_address() of the two labels that need libsodium throws. *)
NewSigner ==
    /\ keypair # NoKey
    /\ keypair.type \in {"SR25519", "ED25519"} => sodium
    /\ signer' = [key |-> keypair, last |-> NoPayload]
    /\ UNCHANGED <<sodium, keypair, born, keyfile, saving, made>>

(* The signatures made are kept, up to a bound, for verifying later. *)
Keep(new) == made' = IF Cardinality(made \cup new) <= MaxMade THEN made \cup new ELSE made

Signature(alg, k, p) == [alg |-> alg, scheme |-> k.scheme, by |-> k.priv, about |-> p]

(* sign_transaction(): the payload is remembered before the key is found   *)
(* to have another size than Bip340Signer wants.                           *)
Bip340Signs(k) == PrivateBytes(k.scheme) = 32

SignTransaction(p) ==
    /\ signer.key # NoKey
    /\ signer' = [signer EXCEPT !.last = p]
    /\ Keep(IF Bip340Signs(signer.key) THEN {Signature("BIP340", signer.key, p)} ELSE {})
    /\ UNCHANGED <<sodium, keypair, born, keyfile, saving>>

(* Faulty variant: only the size of the keys and the payload count. *)
VerifiesAnyKey(p, s) ==
    /\ PublicBytes(signer.key.scheme) = 32
    /\ s.alg = "BIP340" /\ s.scheme = "BIP340"
    /\ s.about = IF signer.last = NoPayload THEN p ELSE signer.last

(* verify_signature(): about the payload signed last, if there is one,     *)
(* whatever payload is asked about.                                        *)
Verifies(p, s) ==
    /\ PublicBytes(signer.key.scheme) = 32
    /\ s.alg = "BIP340" /\ s.scheme = "BIP340" /\ s.by = signer.key.pub
    /\ s.about = IF signer.last = NoPayload THEN p ELSE signer.last

(* FinalityVoteSigner takes any private key of 64 bytes for Ed25519. *)
CreateVote(target) ==
    /\ keypair # NoKey /\ PrivateBytes(keypair.scheme) = 64
    /\ keypair.type \in {"SR25519", "ED25519"} => sodium
    /\ Keep({Signature("ED25519", keypair, target)})
    /\ UNCHANGED <<sodium, keypair, born, keyfile, saving, signer>>

(* verify_vote(): against the verifier's own public key. *)
VerifiesVote(k, target, s) ==
    /\ PublicBytes(k.scheme) = 32
    /\ s.alg = "ED25519" /\ s.scheme = "ED25519" /\ k.scheme = "ED25519"
    /\ s.by = k.pub /\ s.about = target

(* add_transaction() for each payload, then sign_batch(): one signer signs *)
(* them all, or none if the key has the wrong size.                        *)
SignBatch(batch) ==
    /\ keypair # NoKey /\ Bip340Signs(keypair)
    /\ Keep({Signature("BIP340", keypair, p) : p \in batch})
    /\ UNCHANGED <<sodium, keypair, born, keyfile, saving, signer>>

SigningNext ==
    \/ \E s \in Schemes : GenerateKey(s) \/ ImportFromSeed(s)
    \/ \E p \in Passwords : OpenKeyFile(p)
    \/ \E p \in Passwords \cup {WrongPassword} : LoadKey(p)
    \/ \E f \in FileStates : WriteKeyFile(f)
    \/ EndProcess \/ NewSigner
    \/ \E batch \in SUBSET Payloads : SignBatch(batch)
    \/ \E p \in Payloads : SignTransaction(p) \/ CreateVote(p)
-----------------------------------------------------------------------------
(* A key that is loaded is never put together from two keys: its private   *)
(* half is the one saved or garbage, its public half the one that belongs  *)
(* to it or missing, however the writing of the file ended                 *)
(* (signing_submission.cpp:307-376, key_encryption.cpp:359-440).           *)
KeyHalvesBelong ==
    \/ keypair.priv \in {keypair.pub, Garbage}
    \/ keypair.pub = NoPublic

(* A signature a signer accepts was made with its own private key, for the *)
(* payload asked about or the one it signed last; and what a BIP-340 key   *)
(* signed last is accepted (signing_submission.cpp:507-574).  An accepted  *)
(* vote was cast with the verifier's key for that very block (628-664).    *)
SignaturesGenuine ==
    /\ \A p \in Payloads, s \in made :
          Verifies(p, s) => s.by = signer.key.pub /\ s.about \in {p, signer.last}
    /\ \A p \in Payloads :
          (/\ signer.last = p /\ signer.key.scheme = "BIP340"
           /\ signer.key.priv = signer.key.pub)
            => Verifies(p, Signature("BIP340", signer.key, p))
    /\ \A p \in Payloads, s \in made :
          VerifiesVote(keypair, p, s) => s.by = keypair.pub /\ s.about = p
=============================================================================
