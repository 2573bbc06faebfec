---------------------------- MODULE PrivateState ----------------------------
(***************************************************************************)
(* SecretKeyStore, PrivateStateManager and WitnessContextBuilder           *)
(* (private_state.cpp).  Secrets are sealed under a key derived from the   *)
(* master key in the environment, which may change under the process; if   *)
(* it is missing or too short, every call invents a key of its own, and    *)
(* what was sealed can never be opened.                                    *)
(***************************************************************************)
EXTENDS Naturals

CONSTANTS
    SecretNames,     \* names of secrets
    SecretValues,    \* contents of secrets
    Addresses,       \* contract addresses
    MasterKeys,      \* usable values of MIDNIGHT_SECRET_MASTER_KEY
    MaxHeight        \* bound: block heights

ASSUME PrivateStateAssumption == MaxHeight \in Nat /\ MasterKeys \subseteq Nat \ {0}

VARIABLES
    masterKey,    \* the environment: 0 for a missing or short master key
    secrets,      \* secrets_: what each name is sealed to
    states,       \* private_states_
    witness,      \* the last context built, or how building failed
    lastStored,   \* history: the value last given to store_secret() with success
    lastSynced,   \* history: the public part last given to sync_state() or update_private_state()
    lastLocal     \* history: the private part last given to update_private_state()

privateVars == <<masterKey, secrets, states, witness, lastStored, lastSynced, lastLocal>>

NoSecret == [key |-> 0, name |-> "none", value |-> 0]
NoState == [known |-> FALSE, own |-> FALSE, local |-> 0, height |-> 0]
NoWitness == [built |-> FALSE, thrown |-> FALSE, address |-> "none", state |-> NoState, data |-> [n \in {} |-> 0]]

PrivateInit ==
    /\ masterKey \in {0} \cup MasterKeys
    /\ secrets = [n \in SecretNames |-> NoSecret] /\ states = [a \in Addresses |-> NoState]
    /\ witness = NoWitness
    /\ lastStored = [n \in SecretNames |-> 0] /\ lastSynced = [a \in Addresses |-> 0]
    /\ lastLocal = [a \in Addresses |-> 0]

(* External: the environment is changed, as a restart of a service under a *)
(* new configuration does within one process.                              *)
ChangeEnvironment(k) ==
    /\ masterKey' = k
    /\ UNCHANGED <<secrets, states, witness, lastStored, lastSynced, lastLocal>>
-----------------------------------------------------------------------------
(* get_master_key() and the derivation of a secret's key from it, the      *)
(* nonce and the name: a box opens under the same usable master key and    *)
(* the same name only.                                                     *)
Seal(name, value) == [key |-> masterKey, name |-> name, value |-> value]
Unseals(name, box) == masterKey # 0 /\ box.key = masterKey /\ box.name = name

(* Faulty variant: emplace() does not replace a secret already there. *)
StoreSecretOnce(name, value) ==
    /\ secrets' = IF secrets[name] # NoSecret THEN secrets ELSE [secrets EXCEPT ![name] = Seal(name, value)]
    /\ lastStored' = [lastStored EXCEPT ![name] = value]
    /\ UNCHANGED <<masterKey, states, witness, lastSynced, lastLocal>>

StoreSecret(name, value) ==
    /\ secrets' = [secrets EXCEPT ![name] = Seal(name, value)]
    /\ lastStored' = [lastStored EXCEPT ![name] = value]
    /\ UNCHANGED <<masterKey, states, witness, lastSynced, lastLocal>>

RemoveSecret(name) ==
    /\ secrets[name] # NoSecret
    /\ secrets' = [secrets EXCEPT ![name] = NoSecret]
    /\ lastStored' = [lastStored EXCEPT ![name] = 0]
    /\ UNCHANGED <<masterKey, states, witness, lastSynced, lastLocal>>

ClearSecrets ==
    /\ secrets' = [n \in SecretNames |-> NoSecret] /\ lastStored' = [n \in SecretNames |-> 0]
    /\ UNCHANGED <<masterKey, states, witness, lastSynced, lastLocal>>
-----------------------------------------------------------------------------
(* update_private_state() *)
UpdatePrivateState(a, local, height) ==
    /\ states' = [states EXCEPT ![a] = [known |-> TRUE, own |-> TRUE, local |-> local, height |-> height]]
    /\ lastSynced' = [lastSynced EXCEPT ![a] = height]
    /\ lastLocal' = [lastLocal EXCEPT ![a] = local]
    /\ UNCHANGED <<masterKey, secrets, witness, lastStored>>

(* Faulty variant: the public part replaces the whole state. *)
SyncStateWhole(a, height) ==
    /\ states' = [states EXCEPT ![a] = [known |-> TRUE, own |-> @.own, local |-> 0, height |-> height]]
    /\ lastSynced' = [lastSynced EXCEPT ![a] = height]
    /\ UNCHANGED <<masterKey, secrets, witness, lastStored, lastLocal>>

(* sync_state(): the private part is kept.  A contract not known before    *)
(* becomes known under an empty address (own stays FALSE).                 *)
SyncState(a, height) ==
    /\ states' = [states EXCEPT ![a] = [@ EXCEPT !.known = TRUE, !.height = height]]
    /\ lastSynced' = [lastSynced EXCEPT ![a] = height]
    /\ UNCHANGED <<masterKey, secrets, witness, lastStored, lastLocal>>

ClearStates ==
    /\ states' = [a \in Addresses |-> NoState] /\ lastSynced' = [a \in Addresses |-> 0]
    /\ lastLocal' = [a \in Addresses |-> 0]
    /\ UNCHANGED <<masterKey, secrets, witness, lastStored>>
-----------------------------------------------------------------------------
(* build_from_managers(): secrets that are missing are left out silently,  *)
(* one that does not open makes the whole build throw, and an unknown      *)
(* contract gives an empty state.  The block height is never set.          *)
Present(required) == {n \in required : secrets[n] # NoSecret}

BuildFromManagers(a, required) ==
    /\ witness' = IF \E n \in Present(required) : ~Unseals(n, secrets[n]) THEN [NoWitness EXCEPT !.thrown = TRUE]
                  ELSE [built |-> TRUE, thrown |-> FALSE, address |-> a, state |-> states[a],
                        data |-> [n \in Present(required) |-> secrets[n].value]]
    /\ UNCHANGED <<masterKey, secrets, states, lastStored, lastSynced, lastLocal>>

ForgetWitness ==
    /\ witness # NoWitness
    /\ witness' = NoWitness
    /\ UNCHANGED <<masterKey, secrets, states, lastStored, lastSynced, lastLocal>>

(* The caller uses a context before it changes the stores.                 *)
PrivateNext ==
    \/ ForgetWitness
    \/ /\ witness = NoWitness
       /\ \/ \E k \in {0} \cup MasterKeys : ChangeEnvironment(k)
          \/ \E n \in SecretNames : RemoveSecret(n) \/ \E v \in SecretValues : StoreSecret(n, v)
          \/ ClearSecrets \/ ClearStates
          \/ \E a \in Addresses, h \in 1..MaxHeight : SyncState(a, h) \/ \E v \in SecretValues : UpdatePrivateState(a, v, h)
          \/ \E a \in Addresses, required \in SUBSET SecretNames : BuildFromManagers(a, required)
-----------------------------------------------------------------------------
(* A witness context holds, for each secret it carries, the value last     *)
(* stored under that name, although the master key may have changed any    *)
(* number of times in between; and the state of its contract with the      *)
(* public part of the last synchronisation and the private part of the     *)
(* last update, which a synchronisation in between does not lose.          *)
WitnessFaithful ==
    witness.built =>
        /\ \A n \in DOMAIN witness.data : witness.data[n] = lastStored[n]
        /\ witness.state.height = lastSynced[witness.address]
        /\ witness.state.local = lastLocal[witness.address]
=============================================================================
