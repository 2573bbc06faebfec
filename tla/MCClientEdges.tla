--------------------------- MODULE MCClientEdges ---------------------------
(* The edges of the SDK: what it writes to the disk and reads back, and    *)
(* what it puts on a wire and reads from it.  The parts share no object    *)
(* and no file, so a behaviour of several is a behaviour of each: the run  *)
(* takes one of them at a time.                                            *)
(*   - ArtifactManager: two savers of one transaction hash and a cleanup;  *)
(*   - WalletManager: two processes that save one alias, one crash;        *)
(*   - Wallet and SecretKeyStore: one object each, with two seeds, two     *)
(*     secrets and two contracts;                                          *)
(*   - the gRPC server: two handlers, a chain of two blocks, one fork; the *)
(*     gRPC client: two items per stream;                                  *)
(*   - MQTT and CoAP: sizes on both sides of every boundary of the length  *)
(*     encodings; URLs of up to four tokens;                               *)
(*   - addresses of four bytes, SCALE numbers on both sides of every mode. *)
EXTENDS ArtifactStore, WalletStore, BlockchainWallet, PrivateState, GrpcServer, GrpcClient,
        MqttPackets, CoapMessages, Endpoints, AddressCodec, ScaleCodec, TLC,
        Sums, TLAPS, FiniteSetTheorems

VARIABLE edge   \* the part that is used

storeVars == <<artifactVars, walletStoreVars, walletVars, privateVars>>
wireVars == <<grpcServerVars, grpcClientVars, mqttVars, coapVars, endpointVars>>
encodingVars == <<codecVars, scaleVars>>
edgeVars == <<storeVars, wireVars, encodingVars, edge>>

Run97(n) == [i \in 1..n |-> 97]
TopicSet == {<<97>>, <<97, 47, 98>>}
SegmentSet == {Run97(1), Run97(13), Run97(269)}
CoapPayloadSet == {<< >>, <<255, 0>>}
KeySet == {<<1, 2, 3, 4>>, <<255, 0, 128, 7>>}
NumberSet ==
    {<<0, 0, 0, 0, 0, 0, 0, 0>>, <<63, 0, 0, 0, 0, 0, 0, 0>>, <<64, 0, 0, 0, 0, 0, 0, 0>>,
     <<255, 63, 0, 0, 0, 0, 0, 0>>, <<0, 64, 0, 0, 0, 0, 0, 0>>, <<255, 255, 255, 63, 0, 0, 0, 0>>,
     <<0, 0, 0, 64, 0, 0, 0, 0>>, <<1, 2, 3, 4, 5, 0, 0, 0>>, <<255, 255, 255, 255, 255, 255, 255, 255>>}
BlobSet == {<< >>, <<1>>, [i \in 1..64 |-> i]}

EdgeSymmetry == Permutations(ArtifactSavers) \cup Permutations(Savers) \cup Permutations(Handlers)

Init ==
    /\ ArtifactInit /\ WalletStoreInit /\ WalletInit /\ PrivateInit
    /\ GrpcServerInit /\ GrpcClientInit /\ MqttInit /\ CoapInit /\ EndpointInit
    /\ CodecInit /\ ScaleInit
    /\ edge \in {"artifacts", "wallet files", "wallet", "private", "server", "client",
                 "mqtt", "coap", "url", "address", "scale", "extrinsic"}
    /\ edge # "artifacts" => enabled /\ \A d \in Dirs : ~disk[d].exists
    /\ edge # "private" => masterKey = 0

ArtifactsNext ==
    /\ edge = "artifacts" /\ ArtifactNext
    /\ UNCHANGED <<walletStoreVars, walletVars, privateVars, wireVars, encodingVars, edge>>
WalletFilesNext ==
    /\ edge = "wallet files" /\ WalletStoreNext
    /\ UNCHANGED <<artifactVars, walletVars, privateVars, wireVars, encodingVars, edge>>
WalletObjectNext ==
    /\ edge = "wallet" /\ WalletNext
    /\ UNCHANGED <<artifactVars, walletStoreVars, privateVars, wireVars, encodingVars, edge>>
PrivateStateNext ==
    /\ edge = "private" /\ PrivateNext
    /\ UNCHANGED <<artifactVars, walletStoreVars, walletVars, wireVars, encodingVars, edge>>
ServerNext ==
    /\ edge = "server" /\ GrpcServerNext
    /\ UNCHANGED <<storeVars, grpcClientVars, mqttVars, coapVars, endpointVars, encodingVars, edge>>
ClientNext ==
    /\ edge = "client" /\ GrpcClientNext
    /\ UNCHANGED <<storeVars, grpcServerVars, mqttVars, coapVars, endpointVars, encodingVars, edge>>
PacketsNext ==
    /\ edge = "mqtt" /\ MqttNext
    /\ UNCHANGED <<storeVars, grpcServerVars, grpcClientVars, coapVars, endpointVars, encodingVars, edge>>
MessagesNext ==
    /\ edge = "coap" /\ CoapNext
    /\ UNCHANGED <<storeVars, grpcServerVars, grpcClientVars, mqttVars, endpointVars, encodingVars, edge>>
UrlNext ==
    /\ edge = "url" /\ EndpointNext
    /\ UNCHANGED <<storeVars, grpcServerVars, grpcClientVars, mqttVars, coapVars, encodingVars, edge>>
AddressNext ==
    /\ edge = "address" /\ CodecNext
    /\ UNCHANGED <<storeVars, wireVars, scaleVars, edge>>
ScaleNext ==
    /\ \/ edge = "scale" /\ CodecFieldsNext
       \/ edge = "extrinsic" /\ ExtrinsicNext
    /\ UNCHANGED <<storeVars, wireVars, codecVars, edge>>

Next ==
    \/ ArtifactsNext \/ WalletFilesNext \/ WalletObjectNext \/ PrivateStateNext
    \/ ServerNext \/ ClientNext \/ PacketsNext \/ MessagesNext \/ UrlNext
    \/ AddressNext \/ ScaleNext

Spec == Init /\ [][Next]_edgeVars
-----------------------------------------------------------------------------
(* WalletKept, LoadedWasStored and ArtifactsKept: a wallet file or an      *)
(* artifact whose save succeeded is not lost to another saver, a crash or  *)
(* a cleanup, and what is loaded was once stored (wallet_manager.cpp,      *)
(* artifact_manager.cpp).                                                  *)
FilesKept == WalletKept /\ LoadedWasStored /\ ArtifactsKept

(* WitnessFaithful and AddressesOfSeed: a witness context carries what was *)
(* last stored and synced (private_state.cpp), and the addresses of a      *)
(* wallet come from the one seed it holds (wallet.cpp).                    *)
SecretsFaithful == WitnessFaithful /\ AddressesOfSeed

(* GrpcAnswersTrue and ClientAnswersHonest: what the gRPC server answers   *)
(* was so on the chain it asked, and what the client returns is what it    *)
(* was sent or its documented default (grpc_server.cpp, grpc_client.cpp).  *)
AnswersTrue == GrpcAnswersTrue /\ ClientAnswersHonest

(* ShutdownMeansQuiet, CancelledMeansOver and SocketsOwned: after          *)
(* shutdown() and cancel_subscriptions() return nothing of what they ended *)
(* runs on, and every CoAP socket has its owner (grpc_server.cpp:118-134,  *)
(* grpc_client.cpp:472-489, coap_client.cpp).                              *)
StoppedMeansOver == ShutdownMeansQuiet /\ CancelledMeansOver /\ SocketsOwned

(* PacketsReadBack, CoapReadsBack, AddressesReadBack, ScaleReadsBack and   *)
(* ExtrinsicsReadAsBuilt: what the SDK encodes, a reader of the format     *)
(* reads back, and damage that the format detects is refused               *)
(* (mqtt_connection.cpp, coap_client.cpp, bech32m.cpp, scale_codec.cpp,    *)
(* extrinsic_builder.cpp).                                                 *)
EncodingsReadBack ==
    PacketsReadBack /\ CoapReadsBack /\ AddressesReadBack /\ ScaleReadsBack /\ ExtrinsicsReadAsBuilt
-----------------------------------------------------------------------------
(* The wallet files.  A file that was taken away on the way to its         *)
(* successor leaves a whole temporary one with a saver between the two     *)
(* steps, or with nobody.                                                  *)
Files == [whole : BOOLEAN, version : {0, 2, 3}, seed : Nat, created : Nat, pass : Passphrases \cup {"none"}]
Loads == [seed : Nat, pass : Passphrases \cup {"none"}]

WalletStoreTypeOK ==
    /\ aliasFile \in Files
    /\ saver \in [Savers -> [pc : {"idle", "temp", "removed"}, temp : Files]]
    /\ orphans \subseteq Files /\ stored \subseteq Loads /\ loaded \in Loads
    /\ present \in BOOLEAN /\ diskFailed \in BOOLEAN
    /\ savesBegun \in Nat /\ walletCrashes \in Nat

WalletStoreInv ==
    /\ WalletStoreTypeOK
    /\ ~diskFailed => \A s \in Savers : saver[s].pc # "idle" => saver[s].temp.whole
    /\ present /\ ~diskFailed =>
        \/ aliasFile.whole
        \/ \E s \in Savers : saver[s].pc = "removed"
        \/ \E t \in orphans : t.whole
    /\ aliasFile.whole => [seed |-> aliasFile.seed, pass |-> aliasFile.pass] \in stored
    /\ LoadedWasStored

LEMMA WalletStoreInitial == WalletStoreInit => WalletStoreInv
  <1> SUFFICES ASSUME WalletStoreInit PROVE WalletStoreInv
    OBVIOUS
  <1>1. NoPayloadFile \in Files /\ ~NoPayloadFile.whole
    BY DEF NoPayloadFile, Files
  <1>2. AtRest \in [pc : {"idle", "temp", "removed"}, temp : Files] /\ AtRest.pc = "idle"
    BY <1>1 DEF AtRest
  <1> QED BY <1>1, <1>2 DEF WalletStoreInit, WalletStoreInv, WalletStoreTypeOK, LoadedWasStored, Loads

LEMMA WalletStoreStep ==
    ASSUME WalletStoreInv, WalletStoreNext \/ UNCHANGED walletStoreVars
    PROVE  WalletStoreInv'
  <1> DEFINE SaverType == [pc : {"idle", "temp", "removed"}, temp : Files]
  <1>0. /\ NoPayloadFile \in Files /\ ~NoPayloadFile.whole
        /\ AtRest \in SaverType /\ AtRest.pc = "idle"
    BY DEF NoPayloadFile, Files, AtRest
  <1>1. ASSUME NEW s \in Savers, NEW v \in {2, 3}, NEW p \in Passphrases, NEW o \in SaveOutcomes, WriteTemp(s, v, p, o)
        PROVE  WalletStoreInv'
    <2>1. PICK c \in Nat, n \in Nat, w \in BOOLEAN : c = CreatedAt /\ n = savesBegun + 1 /\ w = (o = "written")
      <3>1. aliasFile.created \in Nat /\ savesBegun + 1 \in Nat
        BY DEF WalletStoreInv, WalletStoreTypeOK, Files
      <3> QED BY <3>1 DEF CreatedAt
    <2>2. PICK f \in Files : f = [Payload(v, n, c, p) EXCEPT !.whole = w] /\ f.whole = w
      <3> DEFINE g == [whole |-> w, version |-> v, seed |-> n, created |-> c, pass |-> p]
      <3>1. g \in Files /\ g.whole = w
        BY <2>1 DEF Files
      <3>2. g = [Payload(v, n, c, p) EXCEPT !.whole = w]
        BY DEF Payload
      <3> QED BY <3>1, <3>2
    <2>3. PICK r \in SaverType : r = [pc |-> "temp", temp |-> f] /\ r.temp = f
      <3>1. [pc |-> "temp", temp |-> f] \in SaverType
        BY <2>2
      <3> QED BY <3>1
    <2>4. saver' = IF o = "refused" THEN saver ELSE [saver EXCEPT ![s] = r]
      BY <1>1, <2>1, <2>2, <2>3 DEF WriteTemp
    <2>5. /\ diskFailed' = (diskFailed \/ o = "short") /\ savesBegun' = savesBegun + 1
          /\ UNCHANGED <<aliasFile, orphans, stored, present, loaded, walletCrashes>>
          /\ saver[s].pc = "idle"
      BY <1>1 DEF WriteTemp
    <2>6. diskFailed' \in BOOLEAN /\ (~diskFailed' => ~diskFailed /\ o # "short")
      BY <2>5 DEF WalletStoreInv, WalletStoreTypeOK
    <2>7. saver' \in [Savers -> SaverType]
      BY <2>3, <2>4 DEF WalletStoreInv, WalletStoreTypeOK
    <2>8. WalletStoreTypeOK'
      BY <2>5, <2>6, <2>7 DEF WalletStoreInv, WalletStoreTypeOK
    <2>9. ~diskFailed' => \A q \in Savers : saver'[q].pc # "idle" => saver'[q].temp.whole
      BY <2>1, <2>2, <2>3, <2>4, <2>6 DEF WalletStoreInv, WalletStoreTypeOK, SaveOutcomes
    <2>10. \A q \in Savers : saver[q].pc = "removed" => saver'[q].pc = "removed"
      BY <2>4, <2>5 DEF WalletStoreInv, WalletStoreTypeOK
    <2> QED BY <2>5, <2>6, <2>8, <2>9, <2>10 DEF WalletStoreInv, LoadedWasStored
  <1>2. ASSUME NEW s \in Savers, NEW ok \in BOOLEAN, RemoveOld(s, ok)
        PROVE  WalletStoreInv'
    <2>1. CASE ok
      <3>1. /\ aliasFile' = NoPayloadFile /\ saver' = [saver EXCEPT ![s].pc = "removed"]
            /\ UNCHANGED <<orphans, stored, present, diskFailed, loaded, savesBegun, walletCrashes>>
            /\ saver[s].pc = "temp"
        BY <1>2, <2>1 DEF RemoveOld
      <3>2. WalletStoreTypeOK' /\ saver'[s].pc = "removed"
        BY <1>0, <3>1 DEF WalletStoreInv, WalletStoreTypeOK
      <3>3. ~diskFailed' => \A q \in Savers : saver'[q].pc # "idle" => saver'[q].temp.whole
        BY <3>1 DEF WalletStoreInv, WalletStoreTypeOK
      <3> QED BY <1>0, <3>1, <3>2, <3>3 DEF WalletStoreInv, LoadedWasStored
    <2>2. CASE ~ok
      <3>1. /\ saver' = [saver EXCEPT ![s] = AtRest]
            /\ UNCHANGED <<aliasFile, orphans, stored, present, diskFailed, loaded, savesBegun, walletCrashes>>
            /\ saver[s].pc = "temp"
        BY <1>2, <2>2 DEF RemoveOld
      <3>2. WalletStoreTypeOK'
        BY <1>0, <3>1 DEF WalletStoreInv, WalletStoreTypeOK
      <3>3. /\ ~diskFailed' => \A q \in Savers : saver'[q].pc # "idle" => saver'[q].temp.whole
            /\ \A q \in Savers : saver[q].pc = "removed" => saver'[q].pc = "removed"
        BY <1>0, <3>1 DEF WalletStoreInv, WalletStoreTypeOK
      <3> QED BY <3>1, <3>2, <3>3 DEF WalletStoreInv, LoadedWasStored
    <2> QED BY <2>1, <2>2
  <1>3. ASSUME NEW s \in Savers, NEW ok \in BOOLEAN, RenameTemp(s, ok)
        PROVE  WalletStoreInv'
    <2>1. /\ saver[s].pc = "removed" /\ saver' = [saver EXCEPT ![s] = AtRest]
          /\ UNCHANGED <<orphans, loaded, savesBegun, walletCrashes>>
      BY <1>3 DEF RenameTemp
    <2>2. /\ saver' \in [Savers -> SaverType]
          /\ ~diskFailed => \A q \in Savers : saver'[q].pc # "idle" => saver'[q].temp.whole
      BY <1>0, <2>1 DEF WalletStoreInv, WalletStoreTypeOK
    <2>3. PICK f \in Files : f = saver[s].temp
      BY DEF WalletStoreInv, WalletStoreTypeOK
    <2>4. CASE ok
      <3>1. /\ aliasFile' = f /\ stored' = stored \cup {[seed |-> f.seed, pass |-> f.pass]}
            /\ present' = TRUE /\ UNCHANGED diskFailed
        BY <1>3, <2>3, <2>4 DEF RenameTemp
      <3>2. [seed |-> f.seed, pass |-> f.pass] \in Loads
        BY <2>3 DEF Files, Loads
      <3>3. WalletStoreTypeOK'
        BY <2>1, <2>2, <3>1, <3>2 DEF WalletStoreInv, WalletStoreTypeOK
      <3>4. ~diskFailed => f.whole
        BY <2>1, <2>3 DEF WalletStoreInv
      <3> QED BY <2>1, <2>2, <3>1, <3>3, <3>4 DEF WalletStoreInv, LoadedWasStored
    <2>5. CASE ~ok
      <3>1. diskFailed' = TRUE /\ UNCHANGED <<aliasFile, stored, present>>
        BY <1>3, <2>5 DEF RenameTemp
      <3> QED BY <2>1, <2>2, <3>1 DEF WalletStoreInv, WalletStoreTypeOK, LoadedWasStored
    <2> QED BY <2>4, <2>5
  <1>4. ASSUME NEW s \in Savers, RemoveWallet(s)
        PROVE  WalletStoreInv'
    <2>1. /\ aliasFile' = NoPayloadFile /\ present' = FALSE
          /\ UNCHANGED <<saver, orphans, stored, diskFailed, loaded, savesBegun, walletCrashes>>
      BY <1>4 DEF RemoveWallet
    <2> QED BY <1>0, <2>1 DEF WalletStoreInv, WalletStoreTypeOK, LoadedWasStored
  <1>5. ASSUME NEW s \in Savers, CrashSaver(s)
        PROVE  WalletStoreInv'
    <2>1. /\ saver[s].pc # "idle" /\ walletCrashes' = walletCrashes + 1
          /\ orphans' = orphans \cup {saver[s].temp} /\ saver' = [saver EXCEPT ![s] = AtRest]
          /\ UNCHANGED <<aliasFile, stored, present, diskFailed, loaded, savesBegun>>
      BY <1>5 DEF CrashSaver
    <2>2. /\ saver' \in [Savers -> SaverType]
          /\ ~diskFailed => \A q \in Savers : saver'[q].pc # "idle" => saver'[q].temp.whole
          /\ \A q \in Savers : q # s /\ saver[q].pc = "removed" => saver'[q].pc = "removed"
      BY <1>0, <2>1 DEF WalletStoreInv, WalletStoreTypeOK
    <2>3. saver[s].temp \in Files /\ saver[s].temp \in orphans'
      BY <2>1 DEF WalletStoreInv, WalletStoreTypeOK
    <2>4. WalletStoreTypeOK'
      BY <2>1, <2>2, <2>3 DEF WalletStoreInv, WalletStoreTypeOK
    <2>5. ~diskFailed => saver[s].temp.whole
      BY <2>1 DEF WalletStoreInv
    <2> QED BY <2>1, <2>2, <2>3, <2>4, <2>5 DEF WalletStoreInv, LoadedWasStored
  <1>6. ASSUME NEW v \in {2, 3}, NEW p \in Passphrases, LoadWallet(v, p)
        PROVE  WalletStoreInv'
    <2>1. DecryptSeedHex(p) = aliasFile.seed /\ aliasFile.pass = p
      BY <1>6 DEF LoadWallet, DecryptSeedHex
    <2>2. /\ aliasFile.whole /\ loaded' = [seed |-> aliasFile.seed, pass |-> aliasFile.pass]
          /\ UNCHANGED <<aliasFile, saver, orphans, stored, present, diskFailed, savesBegun, walletCrashes>>
      BY <1>6, <2>1 DEF LoadWallet
    <2>3. loaded' \in stored
      BY <2>2 DEF WalletStoreInv
    <2> QED BY <2>2, <2>3 DEF WalletStoreInv, WalletStoreTypeOK, LoadedWasStored
  <1>7. CASE UNCHANGED walletStoreVars
    BY <1>7 DEF walletStoreVars, WalletStoreInv, WalletStoreTypeOK, LoadedWasStored
  <1> QED BY <1>1, <1>2, <1>3, <1>4, <1>5, <1>6, <1>7 DEF WalletStoreNext

(* A wallet that is kept is whole in its file or in a temporary one. *)
LEMMA WalletStoreKeeps == ASSUME WalletStoreInv PROVE WalletKept /\ LoadedWasStored
  BY DEF WalletStoreInv, WalletStoreTypeOK, WalletKept
-----------------------------------------------------------------------------
(* The wallet object and its file.                                         *)
AddressType == [seed : Nat, kind : {"shield-addr", "dust", "addr"}]
WalletType == [seed : Nat, addresses : Seq(AddressType)]
WalletFileType == [form : {"absent", "empty", "short", "raw", "encrypted"}, seed : Nat,
                   addresses : Seq(AddressType), pass : FilePasswords \cup {""}]

WalletObjectInv ==
    /\ wallet \in WalletType /\ walletFile \in WalletFileType
    /\ writing \in BOOLEAN /\ rawLoad \in BOOLEAN
    /\ AddressesOfSeed

LEMMA EmptyWallet ==
    /\ NoSeed \in WalletType /\ NoSeed.seed = Unset
    /\ NoWalletFile \in WalletFileType
  <1>1. << >> \in Seq(AddressType)
    OBVIOUS
  <1> QED BY <1>1 DEF NoSeed, NoWalletFile, WalletType, WalletFileType, Noise, Unset

LEMMA EmptyFile ==
    ASSUME NEW f \in {"empty", "short"} PROVE [NoWalletFile EXCEPT !.form = f] \in WalletFileType
  <1>1. PICK r \in WalletFileType : r = NoWalletFile
    BY EmptyWallet
  <1>2. PICK q : q = [r EXCEPT !.form = f]
    OBVIOUS
  <1>3. q \in WalletFileType
    BY <1>1, <1>2 DEF WalletFileType
  <1> QED BY <1>1, <1>2, <1>3

LEMMA RawFile ==
    ASSUME NEW z \in Nat PROVE [NoWalletFile EXCEPT !.form = "raw", !.seed = z] \in WalletFileType
  <1>1. PICK r \in WalletFileType, f \in {"raw"} : r = NoWalletFile /\ f = "raw"
    BY EmptyWallet
  <1>2. PICK q : q = [r EXCEPT !.form = f, !.seed = z]
    OBVIOUS
  <1>3. q \in WalletFileType
    BY <1>1, <1>2 DEF WalletFileType
  <1> QED BY <1>1, <1>2, <1>3

LEMMA WalletObjectInitial == WalletInit => WalletObjectInv
  BY EmptyWallet DEF WalletInit, WalletObjectInv, AddressesOfSeed

LEMMA DerivedKey ==
    ASSUME NEW seed \in Nat, NEW role \in {0, 2, 3}
    PROVE  DeriveKey(seed, role) \in AddressType /\ DeriveKey(seed, role).seed = seed
  BY DEF DeriveKey, RoleToHrp, AddressType

LEMMA WalletObjectStep ==
    ASSUME WalletObjectInv, WalletNext \/ UNCHANGED walletVars
    PROVE  WalletObjectInv'
  <1>0. /\ wallet.seed \in Nat /\ wallet.addresses \in Seq(AddressType) /\ walletFile.seed \in Nat
        /\ walletFile.addresses \in Seq(AddressType)
    BY DEF WalletObjectInv, WalletType, WalletFileType
  <1>1. ASSUME NEW seed \in Seeds, Create(seed)
        PROVE  WalletObjectInv'
    <2>1. seed \in Nat
      BY BlockchainWalletAssumption
    <2>2. PICK a \in AddressType : a = DeriveKey(seed, 0) /\ a.seed = seed
      BY <2>1, DerivedKey
    <2>3. PICK q \in Seq(AddressType) : q = <<a>> /\ Len(q) = 1 /\ q[1] = a
      <3>1. <<a>> \in Seq(AddressType)
        BY <2>2
      <3>2. Len(<<a>>) = 1 /\ <<a>>[1] = a
        OBVIOUS
      <3> QED BY <3>1, <3>2
    <2>4. wallet' = [seed |-> seed, addresses |-> q] /\ rawLoad' = FALSE /\ UNCHANGED <<walletFile, writing>>
      BY <1>1, <2>2, <2>3 DEF Create
    <2>5. wallet' \in WalletType
      BY <2>1, <2>3, <2>4 DEF WalletType
    <2>6. AddressesOfSeed'
      BY <2>2, <2>3, <2>4 DEF AddressesOfSeed
    <2> QED BY <2>4, <2>5, <2>6 DEF WalletObjectInv
  <1>2. ASSUME NEW role \in {0, 2, 3}, GenerateAddress(role)
        PROVE  WalletObjectInv'
    <2>1. PICK a \in AddressType : a = DeriveKey(wallet.seed, role) /\ a.seed = wallet.seed
      BY <1>0, DerivedKey
    <2>2. PICK q \in Seq(AddressType) :
              /\ q = Append(wallet.addresses, a) /\ Len(q) = Len(wallet.addresses) + 1
              /\ \A i \in 1..Len(q) : q[i] = IF i \in 1..Len(wallet.addresses) THEN wallet.addresses[i] ELSE a
      <3>1. PICK w \in Seq(AddressType) : w = wallet.addresses
        BY <1>0
      <3>2. Append(w, a) \in Seq(AddressType) /\ Len(Append(w, a)) = Len(w) + 1
        BY <2>1
      <3>3. \A i \in 1..Len(Append(w, a)) : Append(w, a)[i] = IF i \in 1..Len(w) THEN w[i] ELSE a
        BY <2>1
      <3> QED BY <3>1, <3>2, <3>3
    <2>3. wallet' = [wallet EXCEPT !.addresses = q] /\ UNCHANGED <<walletFile, writing, rawLoad>>
      BY <1>2, <2>1, <2>2 DEF GenerateAddress
    <2>4. wallet' \in WalletType /\ wallet'.seed = wallet.seed /\ wallet'.addresses = q
      BY <2>3 DEF WalletObjectInv, WalletType
    <2>5. AddressesOfSeed'
      BY <2>1, <2>2, <2>3, <2>4 DEF WalletObjectInv, AddressesOfSeed
    <2> QED BY <2>3, <2>4, <2>5 DEF WalletObjectInv
  <1>3. ASSUME SaveOpens
        PROVE  WalletObjectInv'
    BY <1>3, EmptyFile DEF SaveOpens, WalletObjectInv, AddressesOfSeed
  <1>4. ASSUME NEW p \in FilePasswords, NEW short \in BOOLEAN, SaveWrites(p, short)
        PROVE  WalletObjectInv'
    <2>1. writing' = FALSE /\ UNCHANGED <<wallet, rawLoad>>
      BY <1>4 DEF SaveWrites
    <2>2. walletFile' \in WalletFileType
      <3>1. CASE short
        BY <1>4, <3>1, EmptyFile DEF SaveWrites
      <3>2. CASE ~short /\ p # ""
        <4>1. walletFile' = [form |-> "encrypted", seed |-> wallet.seed, addresses |-> wallet.addresses, pass |-> p]
          BY <1>4, <3>2 DEF SaveWrites, Sealed
        <4> QED BY <1>0, <4>1 DEF WalletFileType
      <3>3. CASE ~short /\ p = ""
        BY <1>0, <1>4, <3>3, RawFile DEF SaveWrites
      <3> QED BY <3>1, <3>2, <3>3
    <2> QED BY <2>1, <2>2 DEF WalletObjectInv, AddressesOfSeed
  <1>5. ASSUME LoadRaw
        PROVE  WalletObjectInv'
    <2>1. PICK z \in Nat : z = IF walletFile.form = "raw" THEN walletFile.seed ELSE Noise
      BY <1>0 DEF Noise
    <2>2. wallet' = [wallet EXCEPT !.seed = z] /\ rawLoad' = TRUE /\ UNCHANGED <<walletFile, writing>>
      BY <1>5, <2>1 DEF LoadRaw
    <2> QED BY <2>2 DEF WalletObjectInv, WalletType, AddressesOfSeed
  <1>6. ASSUME NEW p \in FilePasswords, LoadEncrypted(p)
        PROVE  WalletObjectInv'
    <2>1. /\ wallet' = [seed |-> walletFile.seed, addresses |-> walletFile.addresses]
          /\ rawLoad' = \E i \in 1..Len(walletFile.addresses) : walletFile.addresses[i].seed # walletFile.seed
          /\ UNCHANGED <<walletFile, writing>>
      BY <1>6 DEF LoadEncrypted
    <2>2. wallet' \in WalletType /\ rawLoad' \in BOOLEAN
      BY <1>0, <2>1 DEF WalletType
    <2>3. AddressesOfSeed'
      BY <2>1 DEF AddressesOfSeed
    <2> QED BY <2>1, <2>2, <2>3 DEF WalletObjectInv
  <1>7. CASE EndWalletProcess
    BY <1>7, EmptyWallet DEF EndWalletProcess, WalletObjectInv, AddressesOfSeed
  <1>8. CASE UNCHANGED walletVars
    BY <1>8 DEF walletVars, WalletObjectInv, AddressesOfSeed
  <1> QED BY <1>1, <1>2, <1>3, <1>4, <1>5, <1>6, <1>7, <1>8 DEF WalletNext

(* Secrets, private states and the contexts built from them.  What a name  *)
(* is sealed to is what was stored under it, whatever key it was sealed    *)
(* with.                                                                   *)
PrivateInv ==
    /\ secrets \in [SecretNames -> [key : Nat, name : SecretNames \cup {"none"}, value : SecretValues \cup {0}]]
    /\ states \in [Addresses -> [known : BOOLEAN, own : BOOLEAN, local : SecretValues \cup {0}, height : Nat]]
    /\ lastStored \in [SecretNames -> SecretValues \cup {0}]
    /\ lastSynced \in [Addresses -> Nat] /\ lastLocal \in [Addresses -> SecretValues \cup {0}]
    /\ masterKey \in Nat
    /\ \A n \in SecretNames : secrets[n].value = lastStored[n]
    /\ \A a \in Addresses : states[a].height = lastSynced[a] /\ states[a].local = lastLocal[a]
    /\ WitnessFaithful

LEMMA PrivateInitial == PrivateInit => PrivateInv
  <1> SUFFICES ASSUME PrivateInit PROVE PrivateInv
    OBVIOUS
  <1>1. masterKey \in Nat
    BY PrivateStateAssumption DEF PrivateInit
  <1>2. /\ NoSecret \in [key : Nat, name : SecretNames \cup {"none"}, value : SecretValues \cup {0}] /\ NoSecret.value = 0
        /\ NoState \in [known : BOOLEAN, own : BOOLEAN, local : SecretValues \cup {0}, height : Nat]
        /\ NoState.height = 0 /\ NoState.local = 0
    BY DEF NoSecret, NoState
  <1>3. ~witness.built
    BY DEF PrivateInit, NoWitness
  <1> QED BY <1>1, <1>2, <1>3 DEF PrivateInit, PrivateInv, WitnessFaithful

LEMMA PrivateStep ==
    ASSUME PrivateInv, PrivateNext \/ UNCHANGED privateVars
    PROVE  PrivateInv'
  <1> DEFINE Boxes  == [key : Nat, name : SecretNames \cup {"none"}, value : SecretValues \cup {0}]
             States == [known : BOOLEAN, own : BOOLEAN, local : SecretValues \cup {0}, height : Nat]
  <1>0. /\ NoSecret \in Boxes /\ NoSecret.value = 0
        /\ NoState \in States /\ NoState.height = 0 /\ NoState.local = 0
        /\ ~NoWitness.built
    BY DEF NoSecret, NoState, NoWitness
  <1>1. CASE ForgetWitness
    BY <1>0, <1>1 DEF ForgetWitness, PrivateInv, WitnessFaithful
  <1>2. ASSUME NEW a \in Addresses, NEW required \in SUBSET SecretNames, BuildFromManagers(a, required)
        PROVE  PrivateInv'
    <2>1. UNCHANGED <<masterKey, secrets, states, lastStored, lastSynced, lastLocal>>
      BY <1>2 DEF BuildFromManagers
    <2>2. CASE \E n \in Present(required) : ~Unseals(n, secrets[n])
      <3>1. ~witness'.built
        BY <1>2, <2>2 DEF BuildFromManagers, NoWitness
      <3> QED BY <2>1, <3>1 DEF PrivateInv, WitnessFaithful
    <2>3. CASE ~\E n \in Present(required) : ~Unseals(n, secrets[n])
      <3>1. witness' = [built |-> TRUE, thrown |-> FALSE, address |-> a, state |-> states[a],
                        data |-> [n \in Present(required) |-> secrets[n].value]]
        BY <1>2, <2>3 DEF BuildFromManagers
      <3>2. Present(required) \subseteq SecretNames
        BY DEF Present
      <3>3. /\ DOMAIN witness'.data = Present(required)
            /\ \A n \in Present(required) : witness'.data[n] = secrets[n].value
            /\ witness'.state = states[a] /\ witness'.address = a
        BY <3>1
      <3>4. WitnessFaithful'
        BY <2>1, <3>2, <3>3 DEF WitnessFaithful, PrivateInv
      <3> QED BY <2>1, <3>4 DEF PrivateInv
    <2> QED BY <2>2, <2>3
  <1>3. ASSUME witness = NoWitness, witness' = witness
        PROVE  WitnessFaithful'
    BY <1>0, <1>3 DEF WitnessFaithful
  <1>4. ASSUME NEW k \in {0} \cup MasterKeys, witness = NoWitness, ChangeEnvironment(k)
        PROVE  PrivateInv'
    <2>1. k \in Nat
      BY PrivateStateAssumption
    <2>2. masterKey' = k /\ UNCHANGED <<secrets, states, witness, lastStored, lastSynced, lastLocal>>
      BY <1>4 DEF ChangeEnvironment
    <2> QED BY <1>3, <1>4, <2>1, <2>2 DEF PrivateInv
  <1>5. ASSUME NEW n \in SecretNames, witness = NoWitness, RemoveSecret(n)
        PROVE  PrivateInv'
    <2>1. /\ secrets' = [secrets EXCEPT ![n] = NoSecret] /\ lastStored' = [lastStored EXCEPT ![n] = 0]
          /\ UNCHANGED <<masterKey, states, witness, lastSynced, lastLocal>>
      BY <1>5 DEF RemoveSecret
    <2> QED BY <1>0, <1>3, <1>5, <2>1 DEF PrivateInv
  <1>6. ASSUME NEW n \in SecretNames, NEW v \in SecretValues, witness = NoWitness, StoreSecret(n, v)
        PROVE  PrivateInv'
    <2>1. PICK b \in Boxes : b = Seal(n, v) /\ b.value = v
      <3>1. [key |-> masterKey, name |-> n, value |-> v] \in Boxes
        BY DEF PrivateInv
      <3> QED BY <3>1 DEF Seal
    <2>2. /\ secrets' = [secrets EXCEPT ![n] = b] /\ lastStored' = [lastStored EXCEPT ![n] = v]
          /\ UNCHANGED <<masterKey, states, witness, lastSynced, lastLocal>>
      BY <1>6, <2>1 DEF StoreSecret
    <2> QED BY <1>3, <1>6, <2>1, <2>2 DEF PrivateInv
  <1>7. ASSUME witness = NoWitness, ClearSecrets
        PROVE  PrivateInv'
    <2>1. /\ secrets' = [n \in SecretNames |-> NoSecret] /\ lastStored' = [n \in SecretNames |-> 0]
          /\ UNCHANGED <<masterKey, states, witness, lastSynced, lastLocal>>
      BY <1>7 DEF ClearSecrets
    <2> QED BY <1>0, <1>3, <1>7, <2>1 DEF PrivateInv
  <1>8. ASSUME witness = NoWitness, ClearStates
        PROVE  PrivateInv'
    <2>1. /\ states' = [a \in Addresses |-> NoState] /\ lastSynced' = [a \in Addresses |-> 0]
          /\ lastLocal' = [a \in Addresses |-> 0]
          /\ UNCHANGED <<masterKey, secrets, witness, lastStored>>
      BY <1>8 DEF ClearStates
    <2> QED BY <1>0, <1>3, <1>8, <2>1 DEF PrivateInv
  <1>9. ASSUME NEW a \in Addresses, NEW h \in 1..MaxHeight, witness = NoWitness, SyncState(a, h)
        PROVE  PrivateInv'
    <2>1. h \in Nat
      BY PrivateStateAssumption
    <2>2. PICK s \in States : s = [states[a] EXCEPT !.known = TRUE, !.height = h] /\ s.height = h /\ s.local = states[a].local
      <3>1. PICK r \in States, b \in BOOLEAN : r = states[a] /\ b = TRUE
        BY DEF PrivateInv
      <3>2. PICK s : s = [r EXCEPT !.known = b, !.height = h]
        OBVIOUS
      <3>3. s \in States /\ s.height = h /\ s.local = r.local
        BY <2>1, <3>1, <3>2
      <3> QED BY <3>1, <3>2, <3>3
    <2>3. /\ states' = [states EXCEPT ![a] = s] /\ lastSynced' = [lastSynced EXCEPT ![a] = h]
          /\ UNCHANGED <<masterKey, secrets, witness, lastStored, lastLocal>>
      BY <1>9, <2>2 DEF SyncState
    <2> QED BY <1>3, <1>9, <2>1, <2>2, <2>3 DEF PrivateInv
  <1>10. ASSUME NEW a \in Addresses, NEW h \in 1..MaxHeight, NEW v \in SecretValues, witness = NoWitness,
                UpdatePrivateState(a, v, h)
         PROVE  PrivateInv'
    <2>1. h \in Nat
      BY PrivateStateAssumption
    <2>2. PICK s \in States : s = [known |-> TRUE, own |-> TRUE, local |-> v, height |-> h] /\ s.height = h /\ s.local = v
      <3>1. [known |-> TRUE, own |-> TRUE, local |-> v, height |-> h] \in States
        BY <2>1
      <3> QED BY <3>1
    <2>3. /\ states' = [states EXCEPT ![a] = s] /\ lastSynced' = [lastSynced EXCEPT ![a] = h]
          /\ lastLocal' = [lastLocal EXCEPT ![a] = v]
          /\ UNCHANGED <<masterKey, secrets, witness, lastStored>>
      BY <1>10, <2>2 DEF UpdatePrivateState
    <2> QED BY <1>3, <1>10, <2>1, <2>2, <2>3 DEF PrivateInv
  <1>11. CASE UNCHANGED privateVars
    BY <1>11 DEF privateVars, PrivateInv, WitnessFaithful
  <1> QED BY <1>1, <1>2, <1>4, <1>5, <1>6, <1>7, <1>8, <1>9, <1>10, <1>11 DEF PrivateNext
-----------------------------------------------------------------------------
(* The artifacts.  A cleanup that has decided to remove a directory may    *)
(* have been overtaken by a save; remove() then refuses.                   *)
DiskOK ==
    /\ DOMAIN disk = Dirs
    /\ \A d \in Dirs :
          /\ disk[d] = [exists |-> disk[d].exists, touched |-> disk[d].touched, files |-> disk[d].files]
          /\ ~disk[d].exists => disk[d].files = {}

SavesOK ==
    /\ DOMAIN saves = ArtifactSavers
    /\ \A s \in ArtifactSavers :
          /\ saves[s] = [pc |-> saves[s].pc, dir |-> saves[s].dir, left |-> saves[s].left, listed |-> saves[s].listed]
          /\ saves[s].dir \in Dirs

ArtifactInv == clock \in 0..MaxTick /\ cleaner.at \in Dirs /\ DiskOK /\ SavesOK /\ ArtifactsKept

LEMMA StampsAreDirs == ASSUME NEW t \in 0..MaxTick PROVE Stamp(t) \in Dirs
  BY DEF Dirs

LEMMA ArtifactInitial == ArtifactInit => ArtifactInv
  <1> SUFFICES ASSUME ArtifactInit PROVE ArtifactInv
    OBVIOUS
  <1>1. Stamp(0) \in Dirs /\ 0 \in 0..MaxTick
    BY StampsAreDirs, ArtifactAssumption
  <1>2. PICK gone \in SUBSET {HashDir(h) : h \in Hashes} :
            disk = [d \in Dirs |-> IF d \in gone THEN [NoDir EXCEPT !.exists = TRUE] ELSE NoDir]
    BY DEF ArtifactInit
  <1>3. PICK r : r = [NoDir EXCEPT !.exists = TRUE]
    OBVIOUS
  <1>4. r = [exists |-> r.exists, touched |-> r.touched, files |-> r.files] /\ r.exists
    BY <1>3 DEF NoDir
  <1>5. NoDir = [exists |-> NoDir.exists, touched |-> NoDir.touched, files |-> NoDir.files] /\ NoDir.files = {}
    BY DEF NoDir
  <1>6. DiskOK
    BY <1>2, <1>3, <1>4, <1>5 DEF DiskOK
  <1>7. saves = [s \in ArtifactSavers |-> NoSave] /\ cleaner = Resting /\ clock = 0
    BY DEF ArtifactInit
  <1>8. /\ NoSave = [pc |-> NoSave.pc, dir |-> NoSave.dir, left |-> NoSave.left, listed |-> NoSave.listed]
        /\ NoSave.dir \in Dirs /\ NoSave.listed = {}
    BY <1>1 DEF NoSave
  <1> QED BY <1>1, <1>6, <1>7, <1>8 DEF ArtifactInv, ArtifactsKept, SavesOK, Resting

(* A step of one saver. *)
LEMMA SaverSteps ==
    ASSUME ArtifactInv, NEW s \in ArtifactSavers, NEW p, NEW d \in Dirs, NEW files, NEW listed,
           saves' = [saves EXCEPT ![s] = [pc |-> p, dir |-> d, left |-> files, listed |-> listed]],
           DiskOK', \A e \in Dirs : disk[e].files \subseteq disk'[e].files,
           listed \subseteq disk'[d].files, UNCHANGED <<clock, enabled, cleaner>>
    PROVE  ArtifactInv'
  <1>0. PICK r : r = [pc |-> p, dir |-> d, left |-> files, listed |-> listed]
    OBVIOUS
  <1>1. /\ r = [pc |-> r.pc, dir |-> r.dir, left |-> r.left, listed |-> r.listed]
        /\ r.dir = d /\ r.listed = listed
    BY <1>0
  <1>2. saves' = [saves EXCEPT ![s] = r]
    BY <1>0
  <1>3. /\ DOMAIN saves' = ArtifactSavers
        /\ \A q \in ArtifactSavers : saves'[q] = IF q = s THEN r ELSE saves[q]
    BY <1>2 DEF ArtifactInv, SavesOK
  <1>4. SavesOK'
    BY <1>1, <1>3 DEF ArtifactInv, SavesOK
  <1>5. ArtifactsKept'
    BY <1>1, <1>3 DEF ArtifactInv, SavesOK, ArtifactsKept
  <1> QED BY <1>4, <1>5 DEF ArtifactInv

LEMMA SaverMoves ==
    ASSUME ArtifactInv, NEW s \in ArtifactSavers, NEW p
    PROVE  [saves EXCEPT ![s].pc = p]
             = [saves EXCEPT ![s] = [pc |-> p, dir |-> saves[s].dir, left |-> saves[s].left, listed |-> saves[s].listed]]
  <1>1. PICK r : r = saves[s] /\ r = [pc |-> r.pc, dir |-> r.dir, left |-> r.left, listed |-> r.listed]
    BY DEF ArtifactInv, SavesOK
  <1>2. [r EXCEPT !.pc = p] = [pc |-> p, dir |-> r.dir, left |-> r.left, listed |-> r.listed]
    BY <1>1
  <1> QED BY <1>1, <1>2

LEMMA SaverStays ==
    ASSUME ArtifactInv, NEW s \in ArtifactSavers, NEW p, saves' = [saves EXCEPT ![s].pc = p],
           DiskOK', \A e \in Dirs : disk[e].files \subseteq disk'[e].files,
           UNCHANGED <<clock, enabled, cleaner>>
    PROVE  ArtifactInv'
  <1>1. PICK d, f, listed : d = saves[s].dir /\ f = saves[s].left /\ listed = saves[s].listed
    OBVIOUS
  <1>2. d \in Dirs /\ listed \subseteq disk'[d].files
    BY <1>1 DEF ArtifactInv, SavesOK, ArtifactsKept
  <1>3. saves' = [saves EXCEPT ![s] = [pc |-> p, dir |-> d, left |-> f, listed |-> listed]]
    BY <1>1, SaverMoves
  <1>4. /\ DiskOK' /\ \A e \in Dirs : disk[e].files \subseteq disk'[e].files
        /\ UNCHANGED <<clock, enabled, cleaner>> /\ ArtifactInv /\ s \in ArtifactSavers
    OBVIOUS
  <1> QED BY ONLY <1>2, <1>3, <1>4, SaverSteps

(* The directory of a save gets a file, or is made. *)
LEMMA DirectoryWritten ==
    ASSUME ArtifactInv, NEW d \in Dirs, NEW files, disk[d].files \subseteq files,
           disk' = [disk EXCEPT ![d] = [exists |-> TRUE, touched |-> clock, files |-> files]]
    PROVE  DiskOK' /\ disk'[d].files = files /\ \A e \in Dirs : disk[e].files \subseteq disk'[e].files
  <1>0. PICK r : r = [exists |-> TRUE, touched |-> clock, files |-> files]
    OBVIOUS
  <1>1. /\ r = [exists |-> r.exists, touched |-> r.touched, files |-> r.files]
        /\ r.exists /\ r.files = files
    BY <1>0
  <1>2. disk' = [disk EXCEPT ![d] = r]
    BY <1>0
  <1>3. DOMAIN disk' = Dirs /\ \A e \in Dirs : disk'[e] = IF e = d THEN r ELSE disk[e]
    BY <1>2 DEF ArtifactInv, DiskOK
  <1> QED BY <1>1, <1>3 DEF ArtifactInv, DiskOK

LEMMA ArtifactStep ==
    ASSUME ArtifactInv, ArtifactNext \/ UNCHANGED artifactVars
    PROVE  ArtifactInv'
  <1>1. CASE ClockTicks
    <2>1. clock' = clock + 1 /\ clock < MaxTick /\ UNCHANGED <<enabled, disk, saves, cleaner>>
      BY <1>1 DEF ClockTicks
    <2> QED BY <2>1, ArtifactAssumption DEF ArtifactInv, DiskOK, SavesOK, ArtifactsKept
  <1>2. ASSUME NEW s \in ArtifactSavers, NEW d \in Dirs, NEW files, BeginSave(s, d, files)
        PROVE  ArtifactInv'
    <2>1. UNCHANGED <<clock, enabled, disk, cleaner>>
      BY <1>2 DEF BeginSave
    <2>2. DiskOK' /\ \A e \in Dirs : disk[e].files \subseteq disk'[e].files
      BY <2>1 DEF ArtifactInv, DiskOK
    <2>3. CASE enabled
      <3>1. saves' = [saves EXCEPT ![s] = [pc |-> "mkdir", dir |-> d, left |-> files, listed |-> {}]]
        BY <1>2, <2>3 DEF BeginSave
      <3>2. PICK p, listed : p = "mkdir" /\ listed = {}
        OBVIOUS
      <3>3. saves' = [saves EXCEPT ![s] = [pc |-> p, dir |-> d, left |-> files, listed |-> listed]] /\ listed \subseteq disk'[d].files
        BY <3>1, <3>2
      <3> QED BY <2>1, <2>2, <3>3, SaverSteps
    <2>4. CASE ~enabled
      <3>0. PICK r : r = NoSave
        OBVIOUS
      <3>1. r = NoSave /\ r = [pc |-> r.pc, dir |-> r.dir, left |-> r.left, listed |-> r.listed]
        BY <3>0 DEF NoSave
      <3>2. r.dir = Stamp(0) /\ r.listed = {}
        BY <3>0 DEF NoSave
      <3>3. PICK p : p = "saved"
        OBVIOUS
      <3>4. [r EXCEPT !.pc = p] = [pc |-> p, dir |-> r.dir, left |-> r.left, listed |-> r.listed]
        BY <3>1
      <3>5. saves' = [saves EXCEPT ![s] = [pc |-> p, dir |-> r.dir, left |-> r.left, listed |-> r.listed]]
        BY <1>2, <2>4, <3>1, <3>3, <3>4 DEF BeginSave
      <3>6. Stamp(0) \in Dirs
        BY StampsAreDirs, ArtifactAssumption
      <3> QED BY <2>1, <2>2, <3>2, <3>5, <3>6, SaverSteps
    <2> QED BY <2>3, <2>4
  <1>3. \A s \in ArtifactSavers : \A files : BeginSave(s, Stamp(clock), files) => ArtifactInv'
    BY <1>2, StampsAreDirs DEF ArtifactInv
  <1>4. ASSUME NEW s \in ArtifactSavers, CreateOperationDir(s)
        PROVE  ArtifactInv'
    <2>1. saves[s].dir \in Dirs /\ saves[s].listed \subseteq disk[saves[s].dir].files
      BY DEF ArtifactInv, SavesOK, ArtifactsKept
    <2>2. DiskOK' /\ \A e \in Dirs : disk[e].files \subseteq disk'[e].files
      <3>1. CASE disk[saves[s].dir].exists
        <4>1. disk' = disk
          BY <1>4, <3>1 DEF CreateOperationDir
        <4> QED BY <4>1 DEF ArtifactInv, DiskOK
      <3>2. CASE ~disk[saves[s].dir].exists
        <4>1. disk' = [disk EXCEPT ![saves[s].dir] = [exists |-> TRUE, touched |-> clock, files |-> {}]]
          BY <1>4, <3>2 DEF CreateOperationDir
        <4>2. disk[saves[s].dir].files = {}
          BY <2>1, <3>2 DEF ArtifactInv, DiskOK
        <4> QED BY <2>1, <4>1, <4>2, DirectoryWritten
      <3> QED BY <3>1, <3>2
    <2>3. saves' = [saves EXCEPT ![s].pc = "write"] /\ UNCHANGED <<clock, enabled, cleaner>>
      BY <1>4 DEF CreateOperationDir
    <2>4. saves[s].listed \subseteq disk'[saves[s].dir].files
      BY <2>1, <2>2
    <2>5. PICK p : p = "write"
      OBVIOUS
    <2> QED BY <2>1, <2>2, <2>3, <2>4, <2>5, SaverStays
  <1>5. ASSUME NEW s \in ArtifactSavers, WriteNext(s)
        PROVE  ArtifactInv'
    <2>1. PICK d, f, more : d = saves[s].dir /\ f = Head(saves[s].left) /\ more = disk[d].files \cup {f}
      OBVIOUS
    <2>2. d \in Dirs /\ saves[s].listed \subseteq disk[d].files
      BY <2>1 DEF ArtifactInv, SavesOK, ArtifactsKept
    <2>3. disk' = [disk EXCEPT ![d] = [exists |-> TRUE, touched |-> clock, files |-> more]]
      BY <1>5, <2>1, <2>2 DEF WriteNext
    <2>4. DiskOK' /\ disk'[d].files = more /\ \A e \in Dirs : disk[e].files \subseteq disk'[e].files
      <3>1. disk[d].files \subseteq more
        BY <2>1
      <3> QED BY <2>2, <2>3, <3>1, DirectoryWritten
    <2>5. PICK r : r = saves[s] /\ r = [pc |-> r.pc, dir |-> r.dir, left |-> r.left, listed |-> r.listed]
      BY DEF ArtifactInv, SavesOK
    <2>6. saves' = [saves EXCEPT ![s] = [r EXCEPT !.left = Tail(r.left), !.listed = r.listed \cup {f}]]
      BY <1>5, <2>1, <2>5 DEF WriteNext
    <2>7. PICK tail, all : tail = Tail(r.left) /\ all = r.listed \cup {f}
      OBVIOUS
    <2>8. [[r EXCEPT !.left = tail] EXCEPT !.listed = all] = [pc |-> r.pc, dir |-> r.dir, left |-> tail, listed |-> all]
      <3>1. PICK q : q = [r EXCEPT !.left = tail]
        OBVIOUS
      <3>2. q = [pc |-> r.pc, dir |-> r.dir, left |-> tail, listed |-> r.listed]
        BY <2>5, <3>1
      <3>3. [q EXCEPT !.listed = all] = [pc |-> r.pc, dir |-> r.dir, left |-> tail, listed |-> all]
        BY <3>2
      <3> QED BY <3>1, <3>3
    <2>9. [r EXCEPT !.left = tail, !.listed = all] = [[r EXCEPT !.left = tail] EXCEPT !.listed = all]
      OBVIOUS
    <2>10. saves' = [saves EXCEPT ![s] = [pc |-> r.pc, dir |-> d, left |-> tail, listed |-> all]]
      BY <2>1, <2>5, <2>6, <2>7, <2>8, <2>9
    <2>11. all \subseteq disk'[d].files /\ UNCHANGED <<clock, enabled, cleaner>>
      BY <1>5, <2>1, <2>2, <2>4, <2>5, <2>7 DEF WriteNext
    <2> QED BY <2>2, <2>4, <2>10, <2>11, SaverSteps
  <1>6. ASSUME NEW s \in ArtifactSavers, SaveFails(s) \/ SaveEnds(s)
        PROVE  ArtifactInv'
    <2>1. UNCHANGED <<clock, enabled, disk, cleaner>>
      BY <1>6 DEF SaveFails, SaveEnds
    <2>2. DiskOK' /\ \A e \in Dirs : disk[e].files \subseteq disk'[e].files
      BY <2>1 DEF ArtifactInv, DiskOK
    <2>3. saves[s].dir \in Dirs /\ saves[s].listed \subseteq disk'[saves[s].dir].files
      BY <2>1 DEF ArtifactInv, SavesOK, ArtifactsKept
    <2>4. PICK p : saves' = [saves EXCEPT ![s].pc = p]
      BY <1>6 DEF SaveFails, SaveEnds
    <2> QED BY <2>1, <2>2, <2>3, <2>4, SaverStays
  <1>7. CASE CleanupBegins
    <2>1. cleaner' = [pc |-> "walk", todo |-> {d \in Dirs : disk[d].exists}, at |-> Stamp(0)] /\ UNCHANGED <<clock, enabled, disk, saves>>
      BY <1>7 DEF CleanupBegins
    <2>2. cleaner'.at = Stamp(0)
      BY <2>1
    <2> QED BY <2>1, <2>2, StampsAreDirs, ArtifactAssumption DEF ArtifactInv, DiskOK, SavesOK, ArtifactsKept
  <1>8. ASSUME NEW d \in Dirs, CleanupLooks(d)
        PROVE  ArtifactInv'
    <2>1. cleaner'.at = d /\ UNCHANGED <<clock, enabled, disk, saves>>
      BY <1>8 DEF CleanupLooks
    <2> QED BY <2>1 DEF ArtifactInv, DiskOK, SavesOK, ArtifactsKept
  <1>9. CASE CleanupRemoves
    <2>1. UNCHANGED <<clock, enabled, saves>>
      BY <1>9 DEF CleanupRemoves
    <2>2. CASE disk[cleaner.at].files = {}
      <3>1. disk' = [disk EXCEPT ![cleaner.at] = NoDir] /\ cleaner' = [cleaner EXCEPT !.pc = "walk"]
        BY <1>9, <2>2 DEF CleanupRemoves
      <3>2. cleaner'.at = cleaner.at
        BY <3>1
      <3>3. NoDir = [exists |-> NoDir.exists, touched |-> NoDir.touched, files |-> NoDir.files] /\ NoDir.files = {}
        BY DEF NoDir
      <3>4. DOMAIN disk' = Dirs /\ \A e \in Dirs : disk'[e] = IF e = cleaner.at THEN NoDir ELSE disk[e]
        BY <3>1 DEF ArtifactInv, DiskOK
      <3>5. DiskOK'
        BY <3>3, <3>4 DEF ArtifactInv, DiskOK
      <3>6. ArtifactsKept'
        BY <2>1, <2>2, <3>3, <3>4 DEF ArtifactInv, SavesOK, ArtifactsKept
      <3> QED BY <2>1, <3>2, <3>5, <3>6 DEF ArtifactInv, SavesOK
    <2>3. CASE disk[cleaner.at].files # {}
      <3>1. cleaner' = Resting /\ disk' = disk
        BY <1>9, <2>3 DEF CleanupRemoves
      <3>2. cleaner'.at = Stamp(0)
        BY <3>1 DEF Resting
      <3> QED BY <2>1, <3>1, <3>2, StampsAreDirs, ArtifactAssumption DEF ArtifactInv, DiskOK, SavesOK, ArtifactsKept
    <2> QED BY <2>2, <2>3
  <1>10. CASE CleanupEnds
    <2>1. cleaner'.at = Stamp(0) /\ UNCHANGED <<clock, enabled, disk, saves>>
      BY <1>10 DEF CleanupEnds, Resting
    <2> QED BY <2>1, StampsAreDirs, ArtifactAssumption DEF ArtifactInv, DiskOK, SavesOK, ArtifactsKept
  <1>11. CASE UNCHANGED artifactVars
    BY <1>11 DEF artifactVars, ArtifactInv, DiskOK, SavesOK, ArtifactsKept
  <1>12. ASSUME NEW s \in ArtifactSavers,
                \/ WriteText(s) \/ (\E have \in {{}, {"ledger.log", "copies"}} : SaveIntentResult(s, have))
                \/ \E d \in Dirs, have \in {{}, {"transaction.mn", "transaction.hex"}} : SaveBuildResult(s, d, have)
         PROVE  ArtifactInv'
    <2>1. CASE WriteText(s)
      BY <1>3, <2>1 DEF WriteText
    <2>2. ASSUME NEW have, SaveIntentResult(s, have) PROVE ArtifactInv'
      BY <1>3, <2>2 DEF SaveIntentResult
    <2>3. ASSUME NEW d \in Dirs, NEW have, SaveBuildResult(s, d, have) PROVE ArtifactInv'
      BY <1>2, <2>3 DEF SaveBuildResult
    <2> QED BY <1>12, <2>1, <2>2, <2>3
  <1> QED BY <1>1, <1>4, <1>5, <1>6, <1>7, <1>8, <1>9, <1>10, <1>11, <1>12 DEF ArtifactNext
-----------------------------------------------------------------------------
(* The gRPC server.                                                        *)
BlockIds == Nat \X Nat
Statuses == {"none", "OK", "FAILED_PRECONDITION", "INVALID_ARGUMENT", "INTERNAL"}
AnswerType == [status : Statuses, success : BOOLEAN, height : Nat, hash : BlockIds, count : Nat]
ServerOps == Locked \cup Unlocked \cup Streams \cup {"none"}
Phases == {"free", "waiting", "submitting", "sleeping", "answered"}
HandlerType == [phase : Phases, op : ServerOps, arg : Nat, answer : AnswerType, told : SUBSET {GrpcTx}]

ServerInv ==
    /\ best \in Seq(Nat) /\ seen \in Nat /\ held \in BOOLEAN
    /\ handler \in [Handlers -> HandlerType]
    /\ \A h \in Handlers : handler[h].phase = "submitting" => handler[h].op \in Unlocked
    /\ GrpcAnswersTrue /\ ShutdownMeansQuiet

(* An answer to op that may be given when the node holds GrpcTx or not.    *)
AnswerFits(a, op, has) ==
    /\ a.hash # NoBlock => a.hash[1] = a.height \/ (op = "GetBlockByHash" /\ a.height = 0)
    /\ a.success /\ op \in {"SubmitTransaction"} \cup Unlocked => has

HandlerFits(r, has) ==
    AnswerFits(r.answer, r.op, has) /\ (r.op = "WatchTransactions" => r.answer.count = Cardinality(r.told))

LEMMA AnswersTrueByRecord == GrpcAnswersTrue <=> \A h \in Handlers : HandlerFits(handler[h], held)
  BY DEF GrpcAnswersTrue, HandlerFits, AnswerFits

(* The answers the handlers start from.                                    *)
Plain(a) == a \in AnswerType /\ a.hash = NoBlock /\ a.success = FALSE /\ a.count = 0 /\ a.height = 0

LEMMA PlainAnswers == Plain(Unasked) /\ Plain(Ok) /\ Plain(Refused)
  <1>1. NoBlock \in BlockIds
    BY DEF NoBlock, BlockIds
  <1>2. PICK z \in BlockIds : z = NoBlock
    BY <1>1
  <1>3. PICK b \in BOOLEAN : b = FALSE
    OBVIOUS
  <1>4. "none" \in Statuses /\ "OK" \in Statuses /\ "FAILED_PRECONDITION" \in Statuses
    BY DEF Statuses
  <1>5. PICK u : u = [status |-> "none", success |-> b, height |-> 0, hash |-> z, count |-> 0]
    OBVIOUS
  <1>6. u = Unasked
    BY <1>2, <1>3, <1>5 DEF Unasked
  <1>7. Plain(u)
    BY <1>2, <1>3, <1>4, <1>5 DEF Plain, AnswerType
  <1>8. ASSUME NEW t \in Statuses
        PROVE  Plain([u EXCEPT !.status = t])
    BY <1>2, <1>3, <1>5, <1>7 DEF Plain, AnswerType
  <1>9. Plain([u EXCEPT !.status = "OK"]) /\ Plain([u EXCEPT !.status = "FAILED_PRECONDITION"])
    BY <1>4, <1>8
  <1> QED BY <1>6, <1>7, <1>9 DEF Ok, Refused

LEMMA HandlerChanged ==
    ASSUME NEW r \in HandlerType, NEW p \in Phases, NEW a \in AnswerType, NEW t \in SUBSET {GrpcTx}, NEW q
    PROVE  /\ q = [r EXCEPT !.phase = p] =>
                 q \in HandlerType /\ q.phase = p /\ q.op = r.op /\ q.answer = r.answer /\ q.told = r.told
           /\ q = [r EXCEPT !.phase = p, !.answer = a] =>
                 q \in HandlerType /\ q.phase = p /\ q.op = r.op /\ q.answer = a /\ q.told = r.told
           /\ q = [r EXCEPT !.phase = p, !.told = t, !.answer = a] =>
                 q \in HandlerType /\ q.phase = p /\ q.op = r.op /\ q.answer = a /\ q.told = t
  BY DEF HandlerType

LEMMA FreeHandler ==
    /\ Free \in HandlerType /\ Free.phase = "free" /\ Free.op = "none" /\ Free.answer = Unasked /\ Free.told = {}
    /\ \A has : HandlerFits(Free, has)
  <1>1. PICK a \in AnswerType : a = Unasked
    BY PlainAnswers DEF Plain
  <1>2. Free = [phase |-> "free", op |-> "none", arg |-> 0, answer |-> a, told |-> {}]
    BY <1>1 DEF Free
  <1>3. Free.phase = "free" /\ Free.op = "none" /\ Free.answer = Unasked /\ Free.told = {}
    BY <1>1, <1>2
  <1>4. Free \in HandlerType
    BY <1>2 DEF HandlerType, Phases, ServerOps
  <1> QED BY <1>3, <1>4, PlainAnswers DEF HandlerFits, AnswerFits, Plain, Unlocked

LEMMA HashIsOfHeight ==
    ASSUME best \in Seq(Nat), NEW h \in Nat
    PROVE  Hash(h) \in BlockIds /\ (Hash(h) # NoBlock => Hash(h)[1] = h)
  BY DEF Hash, NoBlock, BlockIds

(* What the handlers that ask the node or the indexer may answer.          *)
LEMMA ServedAnswers ==
    ASSUME best \in Seq(Nat), seen \in Nat, held \in BOOLEAN, NEW op \in Locked, NEW arg \in Nat,
           NEW pair \in Answers(op, arg)
    PROVE  pair[1] \in AnswerType /\ pair[2] \in BOOLEAN /\ (held => pair[2]) /\ AnswerFits(pair[1], op, pair[2])
  <1> DEFINE Fits(a) == a \in AnswerType /\ AnswerFits(a, op, held)
  <1>0. PICK ok \in AnswerType : ok = Ok /\ Plain(ok)
    BY PlainAnswers DEF Plain
  <1>1. Fits(Ok) /\ Fits(Refused)
    BY PlainAnswers DEF Plain, AnswerFits
  <1>2. ASSUME op # "SubmitTransaction", NEW a, Fits(a), pair = <<a, held>>
        PROVE  pair[1] \in AnswerType /\ pair[2] \in BOOLEAN /\ (held => pair[2]) /\ AnswerFits(pair[1], op, pair[2])
    BY <1>2
  <1>3. op \notin Unlocked
    BY DEF Locked, Unlocked
  <1>4. ASSUME op # "SubmitTransaction", NEW a, a \in AnswerType, a.hash = NoBlock
        PROVE  Fits(a)
    BY <1>3, <1>4 DEF AnswerFits
  <1> DEFINE Block(h, z) == [[ok EXCEPT !.height = h] EXCEPT !.hash = z]
  <1>5. ASSUME op # "SubmitTransaction", NEW h \in Nat, NEW z \in BlockIds,
               z # NoBlock => z[1] = h \/ (op = "GetBlockByHash" /\ h = 0)
        PROVE  Fits(Block(h, z)) /\ Block(h, z).height = h /\ Block(h, z).hash = z /\ Block(h, z).success = FALSE
    <2>0. PICK q : q = [ok EXCEPT !.height = h]
      OBVIOUS
    <2>1. q \in AnswerType /\ q.height = h /\ q.success = FALSE
      BY <1>0, <2>0 DEF Plain, AnswerType
    <2>2. PICK a : a = Block(h, z)
      OBVIOUS
    <2>3. a \in AnswerType /\ a.height = h /\ a.hash = z /\ a.success = FALSE
      BY <2>0, <2>1, <2>2 DEF AnswerType
    <2>4. Fits(a)
      BY <1>5, <2>3 DEF AnswerFits
    <2> QED BY <2>2, <2>3, <2>4
  <1>6. \A h, z : [Ok EXCEPT !.height = h, !.hash = z] = Block(h, z)
    BY <1>0
  <1> HIDE DEF Block
  <1>7. CASE op = "SubmitTransaction"
    <2>1. PICK b \in BOOLEAN : b = TRUE
      OBVIOUS
    <2>0. PICK a : a = [ok EXCEPT !.success = b]
      OBVIOUS
    <2>2. a \in AnswerType /\ a = [Ok EXCEPT !.success = TRUE] /\ a.hash = NoBlock
      BY <1>0, <2>0, <2>1 DEF Plain, AnswerType
    <2>3. pair \in {<<Ok, held>>, <<a, TRUE>>, <<Ok, TRUE>>}
      BY <1>7, <2>2 DEF Answers, SubmitTransaction
    <2>4. CASE pair = <<a, TRUE>>
      BY <2>2, <2>4 DEF AnswerFits
    <2>5. CASE pair = <<Ok, held>>
      BY <1>1, <2>5
    <2>6. CASE pair = <<Ok, TRUE>>
      BY <1>0, <2>6 DEF AnswerFits, Plain
    <2> QED BY <2>3, <2>4, <2>5, <2>6
  <1>8. CASE op = "QueryTransaction"
    <2>1. PICK a \in QueryTransaction : pair = <<a, held>>
      BY <1>8 DEF Answers
    <2>2. ASSUME NEW h \in 1..seen, a = [Ok EXCEPT !.height = h, !.hash = Hash(h), !.success = TRUE]
          PROVE  Fits(a)
      <3>1. h \in Nat
        OBVIOUS
      <3>2. PICK z \in BlockIds : z = Hash(h) /\ (z # NoBlock => z[1] = h)
        BY <3>1, HashIsOfHeight
      <3>3. PICK q : q = Block(h, z)
        OBVIOUS
      <3>4. q \in AnswerType /\ q.height = h /\ q.hash = z
        <4>1. op # "SubmitTransaction" /\ (z # NoBlock => z[1] = h \/ (op = "GetBlockByHash" /\ h = 0))
          BY <1>8, <3>2
        <4> QED BY <1>5, <3>1, <3>3, <4>1 DEF AnswerFits
      <3>5. PICK b \in BOOLEAN : b = TRUE
        OBVIOUS
      <3>6. a = [q EXCEPT !.success = b]
        <4>1. [Ok EXCEPT !.height = h, !.hash = z, !.success = b] = [[Ok EXCEPT !.height = h, !.hash = z] EXCEPT !.success = b]
          OBVIOUS
        <4> QED BY <1>6, <2>2, <3>2, <3>3, <3>5, <4>1
      <3>7. a \in AnswerType /\ a.height = h /\ a.hash = z
        BY <3>4, <3>6 DEF AnswerType, Plain
      <3> QED BY <1>3, <1>8, <3>2, <3>7 DEF AnswerFits
    <2>3. a = Ok \/ \E h \in 1..seen : a = [Ok EXCEPT !.height = h, !.hash = Hash(h), !.success = TRUE]
      BY <2>1 DEF QueryTransaction
    <2>4. Fits(a)
      BY <1>1, <2>2, <2>3
    <2> QED BY <1>2, <1>8, <2>1, <2>4
  <1>9. CASE op = "QueryUTXOs"
    <2>1. PICK a \in QueryUTXOs : pair = <<a, held>>
      BY <1>9 DEF Answers
    <2>2p. PICK c : c = [ok EXCEPT !.count = 1]
      OBVIOUS
    <2>2. c = [ok EXCEPT !.count = 1] /\ c \in AnswerType /\ c.hash = NoBlock
      BY <1>0, <2>2p DEF AnswerType, Plain
    <2>3. a = Ok \/ a = c
      BY <1>0, <2>1, <2>2 DEF QueryUTXOs
    <2>4. Fits(a)
      BY <1>1, <1>4, <1>9, <2>2, <2>3
    <2> QED BY <1>2, <1>9, <2>1, <2>4
  <1>10. CASE op \in {"GetProtocolParams", "GetNodeInfo"}
    <2>1. PICK a \in NodeFacts : pair = <<a, held>>
      BY <1>10 DEF Answers
    <2>2. PICK b \in BOOLEAN : b = TRUE
      OBVIOUS
    <2>3p. PICK c : c = [ok EXCEPT !.success = b]
      OBVIOUS
    <2>3. c = [ok EXCEPT !.success = b] /\ c \in AnswerType /\ c.hash = NoBlock
      BY <1>0, <2>3p DEF AnswerType, Plain
    <2>4. a = Ok \/ a = c
      BY <1>0, <2>1, <2>2, <2>3 DEF NodeFacts
    <2>5. Fits(a)
      BY <1>1, <1>4, <1>10, <2>3, <2>4
    <2> QED BY <1>2, <1>10, <2>1, <2>5
  <1>11. CASE op = "GetBalance"
    <2>1. PICK a \in GetBalance : pair = <<a, held>>
      BY <1>11 DEF Answers
    <2>2. PICK n \in Nat : n = IF held THEN 1 ELSE 0
      OBVIOUS
    <2>3. PICK b \in BOOLEAN : b = TRUE
      OBVIOUS
    <2>4p. PICK c : c = [ok EXCEPT !.count = n]
      OBVIOUS
    <2>4. c = [ok EXCEPT !.count = n] /\ c \in AnswerType /\ c.hash = NoBlock
      BY <1>0, <2>4p DEF AnswerType, Plain
    <2>5p. PICK e : e = [c EXCEPT !.success = b]
      OBVIOUS
    <2>5. e = [c EXCEPT !.success = b] /\ e \in AnswerType /\ e.hash = NoBlock
      BY <2>4, <2>5p DEF AnswerType, Plain
    <2>6. a = Refused \/ a = [ok EXCEPT !.count = n, !.success = b]
      BY <1>0, <2>1, <2>2, <2>3 DEF GetBalance
    <2>7. [ok EXCEPT !.count = n, !.success = b] = e
      BY <2>4, <2>5
    <2>8. Fits(a)
      BY <1>1, <1>4, <1>11, <2>5, <2>6, <2>7
    <2> QED BY <1>2, <1>11, <2>1, <2>8
  <1>12. CASE op \in {"GetBlockByHeight", "GetBlockByHash", "GetBlock"}
    <2>1. PICK a \in GetBlock(op, arg) : pair = <<a, held>>
      BY <1>12 DEF Answers
    <2>2. ASSUME NEW h \in Nat, NEW e, e = FromIndexer(h)
          PROVE  Fits(e) /\ e.height \in Nat /\ e.hash \in BlockIds /\ (e.hash # NoBlock => h \in 1..seen /\ e.hash[1] = h)
      <3>1. PICK x \in Nat, z \in BlockIds :
                /\ x = IF h \in 1..seen THEN h ELSE 0
                /\ z = IF h \in 1..seen THEN Hash(h) ELSE NoBlock
                /\ z # NoBlock => h \in 1..seen /\ z[1] = x /\ z[1] = h
        <4>1. CASE h \in 1..seen
          BY <4>1, HashIsOfHeight
        <4>2. CASE h \notin 1..seen
          <5>1. PICK x \in Nat : x = 0
            OBVIOUS
          <5>2. PICK z \in BlockIds : z = NoBlock
            BY <1>0 DEF Plain, AnswerType
          <5> QED BY <4>2, <5>1, <5>2
        <4> QED BY <4>1, <4>2
      <3>2. e = Block(x, z)
        BY <1>6, <2>2, <3>1 DEF FromIndexer
      <3> QED BY <1>5, <1>12, <3>1, <3>2, ZenonT(60)
    <2>3. ASSUME NEW h \in Nat, NEW e, e = [Ok EXCEPT !.height = h, !.hash = Hash(h)]
          PROVE  Fits(e)
      <3>1. PICK z \in BlockIds : z = Hash(h) /\ (z # NoBlock => z[1] = h)
        BY HashIsOfHeight
      <3>2. e = Block(h, z)
        BY <1>6, <2>3, <3>1
      <3> QED BY <1>5, <1>12, <3>1, <3>2
    <2>4. ASSUME NEW e, e = BlockByHeight(arg)
          PROVE  Fits(e)
      <3>1. CASE "indexer" \notin deps
        BY <2>3, <2>4, <3>1 DEF BlockByHeight
      <3>2. CASE "indexer" \in deps /\ arg = 0
        BY <2>2, <2>4, <3>2 DEF BlockByHeight
      <3>3. CASE "indexer" \in deps /\ arg # 0
        <4>1. PICK f \in AnswerType : f = FromIndexer(arg) /\ (f.hash # NoBlock => f.hash[1] = arg) /\ f.hash \in BlockIds
          BY <2>2
        <4>2. e = [f EXCEPT !.height = arg]
          BY <2>4, <3>3, <4>1 DEF BlockByHeight
        <4>3. e \in AnswerType /\ e.height = arg /\ e.hash = f.hash
          BY <4>2 DEF AnswerType, Plain
        <4> QED BY <1>3, <1>12, <4>1, <4>3 DEF AnswerFits
      <3> QED BY <3>1, <3>2, <3>3
    <2>5. ASSUME op = "GetBlockByHash", NEW e, e = BlockByHash(arg)
          PROVE  Fits(e)
      <3>1. CASE "indexer" \in deps /\ arg \in 1..seen
        BY <2>2, <2>5, <3>1 DEF BlockByHash
      <3>2. CASE ~("indexer" \in deps /\ arg \in 1..seen)
        <4>1. PICK z \in BlockIds : z = Hash(arg)
          BY HashIsOfHeight
        <4>2. e = [ok EXCEPT !.hash = z]
          BY <1>0, <2>5, <3>2, <4>1 DEF BlockByHash
        <4>3. e \in AnswerType /\ e.height = 0
          BY <1>0, <4>2 DEF AnswerType, Plain
        <4> QED BY <1>3, <2>5, <4>3 DEF AnswerFits
      <3> QED BY <3>1, <3>2
    <2>6. ASSUME NEW e, e = TipBlock
          PROVE  Fits(e)
      <3>1. Len(best) \in Nat
        OBVIOUS
      <3> QED BY <2>2, <2>3, <2>6, <3>1 DEF TipBlock
    <2>7. \/ a = Ok \/ a = BlockByHeight(arg) \/ a = TipBlock
          \/ op = "GetBlockByHash" /\ a = BlockByHash(arg)
      BY <2>1 DEF GetBlock
    <2>8. Fits(a)
      BY <1>1, <2>4, <2>5, <2>6, <2>7
    <2> QED BY <1>2, <1>12, <2>1, <2>8
  <1> QED BY <1>7, <1>8, <1>9, <1>10, <1>11, <1>12 DEF Locked

LEMMA ServerInitial == GrpcServerInit => ServerInv
  <1> SUFFICES ASSUME GrpcServerInit PROVE ServerInv
    OBVIOUS
  <1>1. best \in Seq(Nat) /\ seen \in Nat /\ held \in BOOLEAN
    <2>1. <<1>> \in Seq(Nat)
      OBVIOUS
    <2> QED BY <2>1 DEF GrpcServerInit
  <1>2. handler = [h \in Handlers |-> Free] /\ server = "new"
    BY DEF GrpcServerInit
  <1>3. \A h \in Handlers : HandlerFits(handler[h], held)
    BY <1>2, FreeHandler
  <1> QED BY <1>1, <1>2, <1>3, FreeHandler, AnswersTrueByRecord DEF ServerInv, ShutdownMeansQuiet

(* A step of one handler, by which the node may come to hold GrpcTx.       *)
LEMMA HandlerMoves ==
    ASSUME ServerInv, NEW h \in Handlers, NEW r \in HandlerType, handler' = [handler EXCEPT ![h] = r],
           held' \in BOOLEAN, held => held', HandlerFits(r, held'),
           UNCHANGED <<best, seen, server>>, server = "down" => r.phase = "free",
           r.phase = "submitting" => r.op \in Unlocked
    PROVE  ServerInv'
  <1>1. /\ handler' \in [Handlers -> HandlerType]
        /\ \A g \in Handlers : handler'[g] = IF g = h THEN r ELSE handler[g]
    BY DEF ServerInv
  <1>2. \A g \in Handlers : HandlerFits(handler[g], held)
    BY AnswersTrueByRecord DEF ServerInv
  <1>3. \A g \in Handlers : HandlerFits(handler'[g], held')
    BY <1>1, <1>2 DEF HandlerFits, AnswerFits
  <1>4. GrpcAnswersTrue'
    BY <1>3 DEF GrpcAnswersTrue, HandlerFits, AnswerFits
  <1>5. ShutdownMeansQuiet'
    BY <1>1 DEF ServerInv, ShutdownMeansQuiet
  <1> QED BY <1>1, <1>4, <1>5 DEF ServerInv

LEMMA ChainGrows ==
    ASSUME best \in Seq(Nat), seen \in Nat, GrpcChainMoves
    PROVE  best' \in Seq(Nat) /\ seen' \in Nat
  <1>1. CASE best' = Append(best, 1) /\ seen' = seen
    BY <1>1
  <1>2. CASE seen < Len(best) /\ best' = [best EXCEPT ![Len(best)] = @ + 1] /\ seen' = seen
    <2>1. Len(best) \in 1..Len(best)
      BY <1>2
    <2>2. best[Len(best)] + 1 \in Nat
      BY <2>1
    <2>3. PICK n \in Nat : n = best[Len(best)] + 1
      BY <2>2
    <2>4. best' = [best EXCEPT ![Len(best)] = n]
      BY <1>2, <2>3
    <2> QED BY <1>2, <2>1, <2>4
  <1>3. CASE seen' = seen + 1 /\ best' = best
    BY <1>3
  <1> QED BY <1>1, <1>2, <1>3 DEF GrpcChainMoves

LEMMA CoinsAdded ==
    ASSUME NEW told \in SUBSET {GrpcTx}, NEW new \in {{}, {GrpcTx} \ told}
    PROVE  /\ told \cup new \in SUBSET {GrpcTx} /\ Cardinality(told) \in Nat /\ Cardinality(new) \in Nat
           /\ Cardinality(told \cup new) = Cardinality(told) + Cardinality(new)
  <1>1. Cardinality({}) = 0 /\ Cardinality({GrpcTx}) = 1
    BY FS_EmptySet, FS_Singleton
  <1>2. CASE told = {}
    <2>1. new = {} \/ new = {GrpcTx}
      BY <1>2
    <2> QED BY <1>1, <1>2, <2>1
  <1>3. CASE told = {GrpcTx}
    <2>1. new = {}
      BY <1>3
    <2> QED BY <1>1, <1>3, <2>1
  <1> QED BY <1>2, <1>3

(* The steps of one handler.                                               *)
LEMMA HandlerStepKeeps ==
    ASSUME ServerInv, NEW h \in Handlers, HandlerStep(h)
    PROVE  ServerInv'
  <1>1. PICK r \in HandlerType : r = handler[h]
    BY DEF ServerInv
  <1>2. /\ r.phase \in Phases /\ r.op \in ServerOps /\ r.arg \in Nat /\ r.answer \in AnswerType
        /\ r.told \in SUBSET {GrpcTx} /\ HandlerFits(r, held)
    BY <1>1, AnswersTrueByRecord DEF ServerInv, HandlerType
  <1>3. server = "down" => r.phase = "free"
    BY <1>1 DEF ServerInv, ShutdownMeansQuiet
  <1>4. /\ best \in Seq(Nat) /\ seen \in Nat /\ held \in BOOLEAN /\ handler \in [Handlers -> HandlerType]
    BY DEF ServerInv
  <1>0. r.phase = "submitting" => r.op \in Unlocked
    BY <1>1 DEF ServerInv
  <1>6. CASE Serve(h)
    <2>1. PICK pair \in Answers(r.op, r.arg) :
              /\ handler' = [handler EXCEPT ![h].phase = "answered", ![h].answer = pair[1]]
              /\ held' = pair[2]
      BY <1>1, <1>6 DEF Serve
    <2>2. r.phase = "waiting" /\ r.op \in Locked /\ UNCHANGED <<best, seen, server>>
      BY <1>1, <1>6 DEF Serve
    <2>3. pair[1] \in AnswerType /\ pair[2] \in BOOLEAN /\ (held => pair[2]) /\ AnswerFits(pair[1], r.op, pair[2])
      BY <1>2, <1>4, <2>2, ServedAnswers
    <2>4. PICK a \in AnswerType, p \in Phases : a = pair[1] /\ p = "answered"
      BY <2>3 DEF Phases
    <2>5. PICK q : q = [r EXCEPT !.phase = p, !.answer = a]
      OBVIOUS
    <2>6. q \in HandlerType /\ q.phase = p /\ q.op = r.op /\ q.answer = a /\ q.told = r.told
      BY <2>5 DEF HandlerType
    <2>7. handler' = [handler EXCEPT ![h] = q]
      <3>1. handler' = [handler EXCEPT ![h].phase = p, ![h].answer = a]
        BY <2>1, <2>4
      <3> QED BY <1>1, <1>4, <2>5, <3>1
    <2>8. q.op # "WatchTransactions"
      BY <2>2, <2>6 DEF Locked
    <2>9. HandlerFits(q, held') /\ q.phase # "submitting"
      BY <2>1, <2>3, <2>4, <2>6, <2>8 DEF HandlerFits
    <2>10. server # "down" /\ held' \in BOOLEAN /\ (held => held')
      BY <1>3, <2>1, <2>2, <2>3
    <2> QED BY <2>2, <2>6, <2>7, <2>9, <2>10, HandlerMoves
  <1>7. CASE Returns(h)
    <2>1. handler' = [handler EXCEPT ![h] = Free] /\ UNCHANGED <<best, seen, server>> /\ held' = held
      BY <1>7 DEF Returns, chainVars
    <2> QED BY <1>4, <2>1, FreeHandler, HandlerMoves
  <1>8. CASE StreamWakes(h) \/ StreamCancelled(h)
    <2>1. PICK p \in Phases : p # "submitting" /\ handler' = [handler EXCEPT ![h].phase = p]
      BY <1>8 DEF StreamWakes, StreamCancelled, Phases
    <2>2. r.phase = "sleeping" /\ UNCHANGED <<best, seen, server>> /\ held' = held
      BY <1>1, <1>8 DEF StreamWakes, StreamCancelled, chainVars
    <2>3. PICK q : q = [r EXCEPT !.phase = p]
      OBVIOUS
    <2>4. q \in HandlerType /\ q.phase = p /\ q.op = r.op /\ q.answer = r.answer /\ q.told = r.told
      BY <2>3 DEF HandlerType
    <2>5. handler' = [handler EXCEPT ![h] = q] /\ held' = held
      BY <1>1, <2>1, <2>2, <2>3
    <2>6. HandlerFits(q, held')
      BY <1>2, <2>4, <2>5 DEF HandlerFits
    <2>7. server # "down" /\ held' \in BOOLEAN
      BY <1>3, <1>4, <2>2, <2>5
    <2>8. q.phase # "submitting" /\ (held => held') /\ HandlerFits(q, held')
      BY <2>1, <2>2, <2>4, <2>6
    <2>9. handler' = [handler EXCEPT ![h] = q] /\ UNCHANGED <<best, seen, server>>
      BY <2>2, <2>5
    <2> QED BY <2>4, <2>7, <2>8, <2>9, HandlerMoves
  <1>9. CASE CheckContract(h)
    <2>1. r.phase = "waiting" /\ r.op \in Unlocked /\ UNCHANGED <<best, seen, server>> /\ held' = held
      BY <1>1, <1>9 DEF CheckContract, chainVars
    <2>2. PICK b \in AnswerType : b = [Unasked EXCEPT !.status = "INVALID_ARGUMENT"] /\ Plain(b)
      <3>1. PICK u \in AnswerType : u = Unasked /\ Plain(u)
        BY PlainAnswers DEF Plain
      <3>2. PICK t \in Statuses : t = "INVALID_ARGUMENT"
        BY DEF Statuses
      <3>3. PICK b : b = [u EXCEPT !.status = t]
        OBVIOUS
      <3>4. Plain(b)
        BY <3>1, <3>3 DEF Plain, AnswerType
      <3> QED BY <3>1, <3>2, <3>3, <3>4 DEF Plain
    <2>3. PICK a \in AnswerType, p \in Phases :
              /\ handler' = [handler EXCEPT ![h] = [r EXCEPT !.phase = p, !.answer = a]]
              /\ Plain(a) \/ a = r.answer
      <3>1. CASE "manager" \notin deps
        BY <1>1, <1>9, <3>1, PlainAnswers DEF CheckContract, Phases, Plain
      <3>2. CASE "manager" \in deps /\ r.arg = 0
        BY <1>1, <1>9, <2>2, <3>2 DEF CheckContract, Phases
      <3>3. CASE "manager" \in deps /\ r.arg # 0
        <4>1. handler' = [handler EXCEPT ![h] = [r EXCEPT !.phase = "submitting"]]
          BY <1>1, <1>9, <3>3 DEF CheckContract
        <4>2. PICK p \in Phases : p = "submitting"
          BY DEF Phases
        <4>3. [r EXCEPT !.phase = p] = [r EXCEPT !.phase = p, !.answer = r.answer]
          BY DEF HandlerType
        <4> QED BY <1>2, <4>1, <4>2, <4>3
      <3> QED BY <3>1, <3>2, <3>3
    <2>4. PICK q : q = [r EXCEPT !.phase = p, !.answer = a]
      OBVIOUS
    <2>5. q \in HandlerType /\ q.op = r.op /\ q.answer = a /\ q.told = r.told /\ q.op \in Unlocked
      BY <2>1, <2>4 DEF HandlerType
    <2>6. q.op # "WatchTransactions"
      BY <2>1, <2>5 DEF Unlocked
    <2>7. held' = held /\ HandlerFits(q, held')
      BY <1>2, <2>1, <2>3, <2>5, <2>6 DEF HandlerFits, AnswerFits, Plain
    <2>8. server # "down" /\ held' \in BOOLEAN /\ (held => held') /\ HandlerFits(q, held')
      BY <1>3, <1>4, <2>1, <2>7
    <2>9. handler' = [handler EXCEPT ![h] = q] /\ UNCHANGED <<best, seen, server>>
      BY <2>1, <2>3, <2>4
    <2> QED BY <2>5, <2>8, <2>9, HandlerMoves
  <1>10. CASE SubmitContract(h)
    <2>1. PICK ok \in BOOLEAN :
              /\ held' \in IF ok THEN {TRUE} ELSE {held, TRUE}
              /\ handler' = [handler EXCEPT ![h].phase = "answered",
                                ![h].answer = [Unasked EXCEPT !.success = ok, !.status = IF ok THEN "OK" ELSE "INTERNAL"]]
      BY <1>10 DEF SubmitContract
    <2>2. r.phase = "submitting" /\ UNCHANGED <<best, seen, server>>
      BY <1>1, <1>10 DEF SubmitContract
    <2>3. PICK t \in Statuses : t = IF ok THEN "OK" ELSE "INTERNAL"
      BY DEF Statuses
    <2>4. PICK u \in AnswerType : u = Unasked /\ Plain(u)
      BY PlainAnswers DEF Plain
    <2>5. PICK v : v = [u EXCEPT !.success = ok]
      OBVIOUS
    <2>6. v \in AnswerType /\ v.success = ok /\ v.hash = NoBlock /\ v.count = 0
      BY <2>4, <2>5 DEF AnswerType, Plain
    <2>7. PICK a : a = [v EXCEPT !.status = t]
      OBVIOUS
    <2>8. a \in AnswerType /\ a.success = ok /\ a.hash = NoBlock /\ a.count = 0
      BY <2>6, <2>7 DEF AnswerType
    <2>9. a = [Unasked EXCEPT !.success = ok, !.status = IF ok THEN "OK" ELSE "INTERNAL"]
      <3>1. [u EXCEPT !.success = ok, !.status = t] = [[u EXCEPT !.success = ok] EXCEPT !.status = t]
        OBVIOUS
      <3> QED BY <2>3, <2>4, <2>5, <2>7, <3>1
    <2>10. PICK p \in Phases : p = "answered"
      BY DEF Phases
    <2>11. PICK q : q = [r EXCEPT !.phase = p, !.answer = a]
      OBVIOUS
    <2>12. q \in HandlerType /\ q.phase = p /\ q.op = r.op /\ q.answer = a /\ q.told = r.told
      BY <2>8, <2>11 DEF HandlerType
    <2>13. handler' = [handler EXCEPT ![h] = q]
      <3>1. handler' = [handler EXCEPT ![h].phase = p, ![h].answer = a]
        BY <2>1, <2>9, <2>10
      <3> QED BY <1>1, <1>4, <2>11, <3>1
    <2>14. held' \in BOOLEAN /\ (held => held') /\ (ok => held')
      BY <1>4, <2>1
    <2>15. q.op # "WatchTransactions" /\ q.phase # "submitting"
      BY <1>0, <2>2, <2>10, <2>12 DEF Unlocked
    <2>16. HandlerFits(q, held')
      BY <2>8, <2>12, <2>14, <2>15 DEF HandlerFits, AnswerFits
    <2>17. server # "down"
      BY <1>3, <2>2
    <2> QED BY <2>2, <2>12, <2>13, <2>14, <2>15, <2>16, <2>17, HandlerMoves
  <1>11. CASE StreamTip(h)
    <2>1. /\ r.phase = "waiting" /\ r.op = "SubscribeBlocks" /\ UNCHANGED <<best, seen, server>> /\ held' = held
      BY <1>1, <1>11 DEF StreamTip, chainVars
    <2>2. PICK n \in Nat, z \in BlockIds : n = Len(best) /\ z = Hash(Len(best)) /\ (z # NoBlock => z[1] = n)
      BY <1>4, HashIsOfHeight
    <2>3. PICK ok \in AnswerType : ok = Ok /\ Plain(ok)
      BY PlainAnswers DEF Plain
    <2>4. PICK t : t = [ok EXCEPT !.height = n]
      OBVIOUS
    <2>5. PICK u : u = [t EXCEPT !.hash = z]
      OBVIOUS
    <2>6. t \in AnswerType /\ t.height = n /\ t.success = FALSE
      BY <2>3, <2>4 DEF AnswerType, Plain
    <2>7. u \in AnswerType /\ u.height = n /\ u.hash = z /\ u.success = FALSE
      BY <2>5, <2>6 DEF AnswerType
    <2>8. u = [Ok EXCEPT !.height = Len(best), !.hash = Hash(Len(best))]
      <3>1. [ok EXCEPT !.height = n, !.hash = z] = [[ok EXCEPT !.height = n] EXCEPT !.hash = z]
        OBVIOUS
      <3> QED BY <2>2, <2>3, <2>4, <2>5, <3>1
    <2>9. AnswerFits(u, r.op, held)
      BY <2>1, <2>2, <2>7 DEF AnswerFits
    <2>10. PICK a \in AnswerType, p \in Phases :
              /\ p = "sleeping" /\ AnswerFits(a, r.op, held)
              /\ handler' = [handler EXCEPT ![h].phase = p, ![h].answer = a]
      <3>0. PICK p \in Phases : p = "sleeping"
        BY DEF Phases
      <3>1. CASE "node" \in deps
        <4>1. handler' = [handler EXCEPT ![h].phase = p, ![h].answer = u]
          BY <1>11, <2>8, <3>0, <3>1 DEF StreamTip
        <4> QED BY <2>7, <2>9, <3>0, <4>1
      <3>2. CASE "node" \notin deps
        <4>1. handler' = [handler EXCEPT ![h].phase = p, ![h].answer = @]
          BY <1>11, <3>0, <3>2 DEF StreamTip
        <4>2. handler' = [handler EXCEPT ![h].phase = p, ![h].answer = r.answer]
          BY <1>1, <1>4, <4>1 DEF HandlerType
        <4> QED BY <1>2, <3>0, <4>2 DEF HandlerFits
      <3> QED BY <3>1, <3>2
    <2>11. PICK q : q = [r EXCEPT !.phase = p, !.answer = a]
      OBVIOUS
    <2>12. q \in HandlerType /\ q.phase = p /\ q.op = r.op /\ q.answer = a /\ q.told = r.told
      BY <2>11 DEF HandlerType
    <2>13. HandlerFits(q, held') /\ q.phase # "submitting" /\ server # "down" /\ held' \in BOOLEAN /\ (held => held')
      BY <1>3, <1>4, <2>1, <2>10, <2>12 DEF HandlerFits
    <2>14. handler' = [handler EXCEPT ![h] = q]
      BY <1>1, <1>4, <2>10, <2>11
    <2>15. UNCHANGED <<best, seen, server>>
      BY <2>1
    <2> QED BY <2>12, <2>13, <2>14, <2>15, HandlerMoves
  <1>12. CASE StreamCoins(h)
    <2>1. /\ r.phase = "waiting" /\ r.op = "WatchTransactions" /\ UNCHANGED <<best, seen, server>> /\ held' = held
      BY <1>1, <1>12 DEF StreamCoins, chainVars
    <2>2. PICK new \in {{}, {GrpcTx} \ r.told} :
              handler' = [handler EXCEPT ![h].phase = "sleeping", ![h].told = @ \cup new,
                                         ![h].answer.count = @ + Cardinality(new)]
      BY <1>1, <1>12 DEF StreamCoins
    <2>3. /\ r.told \cup new \in SUBSET {GrpcTx} /\ Cardinality(r.told) \in Nat /\ Cardinality(new) \in Nat
          /\ Cardinality(r.told \cup new) = Cardinality(r.told) + Cardinality(new)
      BY <1>2, CoinsAdded
    <2>4. PICK c \in Nat : c = r.answer.count + Cardinality(new)
      BY <1>2, <2>3 DEF AnswerType
    <2>5. PICK t \in SUBSET {GrpcTx}, p \in Phases : t = r.told \cup new /\ p = "sleeping"
      BY <2>3 DEF Phases
    <2>6. PICK b \in AnswerType : b = r.answer
      BY <1>2
    <2>7. PICK a : a = [b EXCEPT !.count = c]
      OBVIOUS
    <2>8. a \in AnswerType /\ a.count = c /\ a.hash = b.hash /\ a.height = b.height /\ a.success = b.success
      BY <2>7 DEF AnswerType
    <2>9. PICK f : f = [r EXCEPT !.phase = p]
      OBVIOUS
    <2>9a. f \in HandlerType /\ f.phase = p /\ f.op = r.op /\ f.told = r.told /\ f.answer = b
      BY <2>6, <2>9 DEF HandlerType
    <2>9b. PICK g : g = [f EXCEPT !.told = t]
      OBVIOUS
    <2>9c. g \in HandlerType /\ g.phase = p /\ g.op = r.op /\ g.told = t /\ g.answer = b
      BY <2>9a, <2>9b DEF HandlerType
    <2>10. PICK q : q = [g EXCEPT !.answer = a]
      OBVIOUS
    <2>11. q \in HandlerType /\ q.phase = p /\ q.op = r.op /\ q.answer = a /\ q.told = t
      BY <2>8, <2>9c, <2>10 DEF HandlerType
    <2>12. AnswerFits(q.answer, q.op, held')
      BY <1>2, <2>1, <2>6, <2>8, <2>11 DEF HandlerFits, AnswerFits
    <2>13. q.answer.count = Cardinality(q.told)
      BY <1>2, <2>1, <2>3, <2>4, <2>5, <2>8, <2>11 DEF HandlerFits
    <2>14. HandlerFits(q, held') /\ q.phase # "submitting" /\ server # "down" /\ held' \in BOOLEAN /\ (held => held')
      BY <1>3, <1>4, <2>1, <2>5, <2>11, <2>12, <2>13 DEF HandlerFits
    <2>15. handler' = [handler EXCEPT ![h] = q] /\ UNCHANGED <<best, seen, server>>
      <3>1. PICK one : one = [handler EXCEPT ![h].phase = p]
        OBVIOUS
      <3>2. one \in [Handlers -> HandlerType] /\ one = [handler EXCEPT ![h] = f] /\ one[h] = f
        BY <1>1, <1>4, <2>9, <2>9a, <3>1
      <3>3. PICK two : two = [one EXCEPT ![h].told = @ \cup new]
        OBVIOUS
      <3>4. two \in [Handlers -> HandlerType] /\ two = [handler EXCEPT ![h] = g] /\ two[h] = g
        BY <1>4, <2>5, <2>9a, <2>9b, <2>9c, <3>2, <3>3
      <3>5. PICK three : three = [two EXCEPT ![h].answer.count = @ + Cardinality(new)]
        OBVIOUS
      <3>6. three = [two EXCEPT ![h].answer = [b EXCEPT !.count = b.count + Cardinality(new)]]
        BY <2>9c, <3>4, <3>5
      <3>7. three = [handler EXCEPT ![h] = q]
        BY <1>4, <2>4, <2>6, <2>7, <2>10, <3>4, <3>6
      <3>8. handler' = three
        BY <2>2, <2>5, <3>1, <3>3, <3>5
      <3> QED BY <2>1, <3>7, <3>8
    <2> QED BY <2>11, <2>14, <2>15, HandlerMoves
  <1> QED BY <1>6, <1>7, <1>8, <1>9, <1>10, <1>11, <1>12 DEF HandlerStep

LEMMA ServerStep ==
    ASSUME ServerInv, GrpcServerNext \/ UNCHANGED grpcServerVars
    PROVE  ServerInv'
  <1>1. ASSUME best' \in Seq(Nat), seen' \in Nat, UNCHANGED <<held, handler>>,
               server' = "down" => server = "down" \/ \A h \in Handlers : handler[h].phase = "free"
        PROVE  ServerInv'
    <2>1. GrpcAnswersTrue'
      BY <1>1 DEF ServerInv, GrpcAnswersTrue
    <2>2. ShutdownMeansQuiet'
      BY <1>1 DEF ServerInv, ShutdownMeansQuiet
    <2> QED BY <1>1, <2>1, <2>2 DEF ServerInv
  <1>2. best \in Seq(Nat) /\ seen \in Nat /\ held \in BOOLEAN
    BY DEF ServerInv
  <1>3. CASE GrpcChainMoves
    <2>1. UNCHANGED <<held, server, handler>>
      BY <1>3 DEF GrpcChainMoves
    <2> QED BY <1>1, <1>2, <1>3, <2>1, ChainGrows
  <1>4. CASE StartServer
    BY <1>1, <1>2, <1>4 DEF StartServer, chainVars
  <1>5. CASE ShutdownServer \/ ShutdownRefuses
    BY <1>1, <1>2, <1>5 DEF ShutdownServer, ShutdownRefuses, chainVars
  <1>6. CASE ShutdownReturns
    BY <1>1, <1>2, <1>6 DEF ShutdownReturns, chainVars
  <1>7. ASSUME NEW dep, Inject(dep)
        PROVE  ServerInv'
    BY <1>1, <1>2, <1>7 DEF Inject, chainVars
  <1>8. ASSUME NEW h \in Handlers, NEW op \in Locked \cup Unlocked \cup Streams, NEW arg \in 0..TopBlock, Accept(h, op, arg)
        PROVE  ServerInv'
    <2>1. op \in ServerOps /\ arg \in Nat
      BY GrpcServerAssumption DEF ServerOps
    <2>2. handler' = [handler EXCEPT ![h] = [Free EXCEPT !.phase = "waiting", !.op = op, !.arg = arg]]
      BY <1>8 DEF Accept
    <2>3. PICK f \in HandlerType : f = Free
      BY FreeHandler
    <2>4. PICK p \in Phases : p = "waiting"
      BY DEF Phases
    <2>5. PICK q : q = [f EXCEPT !.phase = p, !.op = op, !.arg = arg]
      OBVIOUS
    <2>6. q \in HandlerType /\ q.phase = p /\ q.op = op /\ q.answer = f.answer /\ q.told = f.told
      BY <2>1, <2>5 DEF HandlerType
    <2>7. handler' = [handler EXCEPT ![h] = q]
      BY <2>2, <2>3, <2>4, <2>5
    <2>8. Plain(q.answer) /\ q.told = {}
      BY <2>3, <2>6, FreeHandler, PlainAnswers
    <2>9. Cardinality({}) = 0
      BY FS_EmptySet
    <2>10. HandlerFits(q, held') /\ (held => held') /\ held' \in BOOLEAN
      BY <1>2, <1>8, <2>8, <2>9 DEF HandlerFits, AnswerFits, Plain, Accept, chainVars
    <2>11. server # "down" /\ UNCHANGED <<best, seen, server>> /\ q.phase # "submitting"
      BY <1>8, <2>4, <2>6 DEF Accept, chainVars
    <2> QED BY <2>6, <2>7, <2>10, <2>11, HandlerMoves
  <1>9. ASSUME NEW h \in Handlers, HandlerStep(h)
        PROVE  ServerInv'
    BY <1>9, HandlerStepKeeps
  <1>10. CASE UNCHANGED grpcServerVars
    BY <1>1, <1>2, <1>10 DEF grpcServerVars
  <1> QED BY <1>3, <1>4, <1>5, <1>6, <1>7, <1>8, <1>9, <1>10 DEF GrpcServerNext
-----------------------------------------------------------------------------
(* The gRPC client.  A reader that is not there, or that has cleaned up,   *)
(* leaves no call open; one between its first step and its last has the    *)
(* context of its subscription, which only a join destroys.                *)
ClientInv ==
    /\ stream = [open |-> stream.open, cancelled |-> stream.cancelled, items |-> stream.items]
    /\ reader \in {"none", "ending", "over"} => ~stream.open
    /\ reader \in {"opening", "testing", "reading", "calling", "cleaning"} => kind \in contexts
    /\ CancelledMeansOver /\ ClientAnswersHonest

LEMMA ClientInitial == GrpcClientInit => ClientInv
  <1> SUFFICES ASSUME GrpcClientInit PROVE ClientInv
    OBVIOUS
  <1>1. /\ reader = "none" /\ app = "idle" /\ stream = NoStream /\ result.op = "none"
    BY DEF GrpcClientInit
  <1> QED BY <1>1 DEF ClientInv, NoStream, CancelledMeansOver, ClientAnswersHonest

LEMMA ClientStep ==
    ASSUME ClientInv, GrpcClientNext \/ UNCHANGED grpcClientVars
    PROVE  ClientInv'
  <1> USE DEF ClientInv, CancelledMeansOver, ClientAnswersHonest
  <1>1. ASSUME NEW op, Call(op)
        PROVE  ClientInv'
    <2>1. PICK status \in {"ok", "refused", "failed"}, acted \in BOOLEAN :
              /\ status = "ok" => acted
              /\ result' = [op |-> op, acted |-> acted, value |-> Returned(op, status)]
              /\ app' \in {"recording", "idle"}
              /\ UNCHANGED <<mu, streaming, reader, stream, contexts, kind, lastError>>
      BY <1>1 DEF Call
    <2>2. result'.op = op /\ result'.acted = acted /\ result'.value = Returned(op, status)
      BY <2>1
    <2>3. Returned("submit_transaction", status) = "response" => acted
      BY <2>1 DEF Returned
    <2> QED BY <2>1, <2>2, <2>3
  <1>2. CASE RecordError
    BY <1>2 DEF RecordError
  <1>3. ASSUME NEW k \in {"block", "tx"}, Subscribe(k)
        PROVE  ClientInv'
    <2>1. stream' \in {stream, NoStream} /\ NoStream = [open |-> FALSE, cancelled |-> FALSE, items |-> 0]
      BY <1>3 DEF Subscribe, NoStream
    <2>2. stream' = [open |-> stream'.open, cancelled |-> stream'.cancelled, items |-> stream'.items] /\ (stream'.open => stream.open)
      BY <2>1
    <2> QED BY <1>3, <2>2 DEF Subscribe
  <1>4. CASE Cancel
    <2>1. PICK c : stream' = [stream EXCEPT !.cancelled = c]
      BY <1>4 DEF Cancel
    <2>2. stream' = [open |-> stream.open, cancelled |-> c, items |-> stream.items]
      BY <2>1
    <2>3. stream' = [open |-> stream'.open, cancelled |-> stream'.cancelled, items |-> stream'.items] /\ stream'.open = stream.open
      BY <2>2
    <2> QED BY <1>4, <2>3 DEF Cancel
  <1>5. CASE Join
    BY <1>5 DEF Join
  <1>6. CASE Resume
    BY <1>6 DEF Resume
  <1>7. CASE ReaderOpens
    <2>1. PICK r : r = NoStream
      OBVIOUS
    <2>2. PICK o : stream' = [r EXCEPT !.open = o]
      BY <1>7, <2>1 DEF ReaderOpens
    <2>3. r = [open |-> r.open, cancelled |-> r.cancelled, items |-> r.items]
      BY <2>1 DEF NoStream
    <2>4. stream' = [open |-> o, cancelled |-> r.cancelled, items |-> r.items]
      BY <2>2, <2>3
    <2>5. stream' = [open |-> stream'.open, cancelled |-> stream'.cancelled, items |-> stream'.items]
      BY <2>4
    <2> QED BY <1>7, <2>5 DEF ReaderOpens
  <1>8. CASE ReaderTests
    BY <1>8 DEF ReaderTests
  <1>9. CASE ReaderReads
    <2>1. CASE /\ stream' = [stream EXCEPT !.items = @ + 1] /\ reader' = "calling"
      <3>1. PICK n : n = stream.items + 1
        OBVIOUS
      <3>2. stream' = [open |-> stream.open, cancelled |-> stream.cancelled, items |-> n]
        BY <2>1, <3>1
      <3>3. stream' = [open |-> stream'.open, cancelled |-> stream'.cancelled, items |-> stream'.items]
        BY <3>2
      <3> QED BY <1>9, <2>1, <3>3 DEF ReaderReads
    <2>2. CASE stream' = [stream EXCEPT !.open = FALSE] /\ reader' = "cleaning"
      <3>1. stream' = [open |-> FALSE, cancelled |-> stream.cancelled, items |-> stream.items]
        BY <2>2
      <3>2. stream' = [open |-> stream'.open, cancelled |-> stream'.cancelled, items |-> stream'.items]
        BY <3>1
      <3> QED BY <1>9, <2>2, <3>2 DEF ReaderReads
    <2> QED BY <1>9, <2>1, <2>2 DEF ReaderReads
  <1>10. CASE ReaderCallsBack
    BY <1>10 DEF ReaderCallsBack
  <1>11. CASE ReaderCleansUp
    <2>1. stream' = [open |-> FALSE, cancelled |-> FALSE, items |-> 0]
      BY <1>11 DEF ReaderCleansUp, NoStream
    <2>2. stream' = [open |-> stream'.open, cancelled |-> stream'.cancelled, items |-> stream'.items] /\ ~stream'.open
      BY <2>1
    <2> QED BY <1>11, <2>2 DEF ReaderCleansUp
  <1>12. CASE ReaderEnds
    BY <1>12 DEF ReaderEnds
  <1>13. CASE UNCHANGED grpcClientVars
    BY <1>13 DEF grpcClientVars
  <1> QED BY <1>1, <1>2, <1>3, <1>4, <1>5, <1>6, <1>7, <1>8, <1>9, <1>10, <1>11, <1>12, <1>13 DEF GrpcClientNext
-----------------------------------------------------------------------------
(* The observers of the CoAP client.  A socket that is not open can always *)
(* be had, because finitely many are.                                      *)
CoapInv == DOMAIN observers = Uris /\ IsFiniteSet(sockets) /\ SocketsOwned

LEMMA FreshSocketIsFresh ==
    ASSUME NEW open, IsFiniteSet(open)
    PROVE  FreshSocket(open) # 0 /\ FreshSocket(open) \notin open
  <1>1. PICK c \in Nat : c = Cardinality(open)
    BY FS_CardinalityType
  <1>2. IsFiniteSet(1..(c + 1)) /\ Cardinality(1..(c + 1)) = c + 1
    BY FS_Interval
  <1>3. ASSUME 1..(c + 1) \subseteq open
        PROVE  FALSE
    <2>1. Cardinality(1..(c + 1)) <= Cardinality(open)
      BY <1>3, FS_Subset
    <2> QED BY <1>1, <1>2, <2>1
  <1>4. \E n \in 1..(c + 1) : n \notin open
    BY <1>3
  <1>5. FreshSocket(open) \in 1..(c + 1) /\ FreshSocket(open) \notin open
    BY <1>1, <1>4 DEF FreshSocket
  <1> QED BY <1>5

LEMMA CoapInitial == CoapInit => CoapInv
  BY FS_EmptySet DEF CoapInit, CoapInv, SocketsOwned

LEMMA CoapStep ==
    ASSUME CoapInv, CoapNext \/ UNCHANGED coapVars
    PROVE  CoapInv'
  <1>1. ASSUME UNCHANGED <<observers, sockets>>
        PROVE  CoapInv'
    BY <1>1 DEF CoapInv, SocketsOwned
  <1>2. ASSUME NEW u \in Uris, NEW left, left = sockets \ {observers[u]}
        PROVE  IsFiniteSet(left)
    BY <1>2, FS_Difference DEF CoapInv
  <1>3. ASSUME NEW u \in Uris, observers' = [observers EXCEPT ![u] = 0], sockets' = sockets \ {observers[u]}
        PROVE  CoapInv'
    <2>1. IsFiniteSet(sockets')
      BY <1>2, <1>3
    <2>2. DOMAIN observers' = Uris /\ \A v \in Uris : observers'[v] = IF v = u THEN 0 ELSE observers[v]
      BY <1>3 DEF CoapInv
    <2> QED BY <1>3, <2>1, <2>2 DEF CoapInv, SocketsOwned
  <1>4. ASSUME NEW u \in Uris, Observe(u)
        PROVE  CoapInv'
    <2>1. PICK left : left = sockets \ {observers[u]}
      OBVIOUS
    <2>2. PICK n : n = FreshSocket(left) /\ n # 0 /\ n \notin left
      BY <1>2, <2>1, FreshSocketIsFresh
    <2>3. CASE observers' = [observers EXCEPT ![u] = n] /\ sockets' = left \cup {n}
      <3>1. IsFiniteSet(sockets')
        BY <1>2, <2>1, <2>3, FS_AddElement
      <3>2. DOMAIN observers' = Uris /\ \A v \in Uris : observers'[v] = IF v = u THEN n ELSE observers[v]
        BY <2>3 DEF CoapInv
      <3>3. \A v \in Uris : v # u /\ observers[v] # 0 => observers[v] \in left
        BY <2>1 DEF CoapInv, SocketsOwned
      <3>4. \A x \in left : \E v \in Uris : v # u /\ observers[v] = x /\ x # 0
        BY <2>1 DEF CoapInv, SocketsOwned
      <3>5. sockets' = {observers'[v] : v \in Uris} \ {0}
        BY <2>2, <2>3, <3>2, <3>3, <3>4
      <3>6. \A v, w \in Uris : observers'[v] = observers'[w] /\ observers'[v] # 0 => v = w
        BY <2>2, <3>2, <3>3 DEF CoapInv, SocketsOwned
      <3> QED BY <3>1, <3>2, <3>5, <3>6 DEF CoapInv, SocketsOwned
    <2>4. CASE observers' = [observers EXCEPT ![u] = 0] /\ sockets' = left
      BY <1>3, <2>1, <2>4
    <2> QED BY <1>4, <2>1, <2>2, <2>3, <2>4 DEF Observe
  <1>5. ASSUME NEW u \in Uris, StopObserve(u)
        PROVE  CoapInv'
    BY <1>3, <1>5 DEF StopObserve
  <1>6. CASE StopAll
    <2>1. DOMAIN observers' = Uris /\ (\A v \in Uris : observers'[v] = 0) /\ sockets' = {}
      BY <1>6 DEF StopAll
    <2> QED BY <2>1, FS_EmptySet DEF CoapInv, SocketsOwned
  <1>7. ASSUME NEW path, NEW payload, NEW method, SendRequest(method, path, payload)
        PROVE  CoapInv'
    BY <1>1, <1>7 DEF SendRequest
  <1>8. ASSUME NEW code, NEW values, NEW payload, DecodeResponse(code, values, payload)
        PROVE  CoapInv'
    BY <1>1, <1>8 DEF DecodeResponse
  <1>9. CASE UNCHANGED coapVars
    BY <1>1, <1>9 DEF coapVars
  <1> QED BY <1>4, <1>5, <1>6, <1>7, <1>8, <1>9 DEF CoapNext
-----------------------------------------------------------------------------
(* Where the transports send a request.  A URL and the parts of it are     *)
(* sequences of numbers.                                                   *)
FirstAt(url, token, i) == i \in 1..Len(url) /\ url[i] = token /\ \A j \in 1..(i - 1) : url[j] # token

LEMMA FindFacts ==
    ASSUME NEW url \in Seq(Int), NEW token
    PROVE  /\ Find(url, token) \in 0..Len(url)
           /\ Find(url, token) # 0 => FirstAt(url, token, Find(url, token))
           /\ Find(url, token) = 0 => \A i \in 1..Len(url) : url[i] # token
  <1>1. Len(url) \in Nat
    OBVIOUS
  <1>2. CASE \E i \in 1..Len(url) : url[i] = token
    <2> DEFINE T == {i \in 1..Len(url) : url[i] = token}
    <2>1. PICK i \in T : \A j \in T : i <= j
      <3>1. T \subseteq Nat /\ T # {}
        BY <1>1, <1>2
      <3> HIDE DEF T
      <3> QED BY <3>1, LeastElement
    <2>2. i \in 1..Len(url) /\ url[i] = token /\ \A j \in 1..(i - 1) : url[j] # token
      BY <1>1, <2>1
    <2>3. Find(url, token) = CHOOSE k \in 1..Len(url) : url[k] = token /\ \A j \in 1..(k - 1) : url[j] # token
      BY <1>2 DEF Find
    <2>4. Find(url, token) \in 1..Len(url) /\ url[Find(url, token)] = token
          /\ \A j \in 1..(Find(url, token) - 1) : url[j] # token
      BY <2>2, <2>3
    <2> QED BY <1>1, <2>4 DEF FirstAt
  <1>3. CASE ~ \E i \in 1..Len(url) : url[i] = token
    BY <1>1, <1>3 DEF Find
  <1> QED BY <1>2, <1>3

(* Found before the first slash, a colon is where it is in the whole.      *)
EndOfHost(url) == IF Find(url, Slash) = 0 THEN Len(url) ELSE Find(url, Slash) - 1

StartsLike(url, hostPort) ==
    /\ hostPort \in Seq(Int) /\ Len(hostPort) = EndOfHost(url)
    /\ \A i \in 1..EndOfHost(url) : hostPort[i] = url[i]
    /\ Find(hostPort, Colon) = IF Find(url, Slash) # 0 /\ Find(url, Slash) < Find(url, Colon) THEN 0 ELSE Find(url, Colon)

LEMMA FoundInHostPort ==
    ASSUME NEW url \in Seq(Int)
    PROVE  StartsLike(url, SubSeq(url, 1, EndOfHost(url)))
  <1>1. PICK slash, colon, hostPort : /\ slash = Find(url, Slash) /\ colon = Find(url, Colon)
                                      /\ hostPort = SubSeq(url, 1, EndOfHost(url))
    OBVIOUS
  <1>2. slash \in Nat /\ colon \in Nat
    BY <1>1, FindFacts
  <1>3. EndOfHost(url) = IF slash = 0 THEN Len(url) ELSE slash - 1
    BY <1>1 DEF EndOfHost
  <1> DEFINE end == IF slash = 0 THEN Len(url) ELSE slash - 1
  <1>4. Len(url) \in Nat /\ end \in 0..Len(url)
    BY <1>1, FindFacts
  <1>5. hostPort \in Seq(Int) /\ Len(hostPort) = end /\ \A i \in 1..end : hostPort[i] = url[i]
    BY <1>4, <1>1, <1>3
  <1> HIDE DEF end
  <1>6. /\ slash \in 0..Len(url) /\ (slash # 0 => FirstAt(url, Slash, slash))
        /\ colon \in 0..Len(url) /\ (colon # 0 => FirstAt(url, Colon, colon))
        /\ (colon = 0 => \A i \in 1..Len(url) : url[i] # Colon)
    BY <1>1, FindFacts
  <1>7. PICK found : found = Find(hostPort, Colon)
    OBVIOUS
  <1>8. /\ found \in 0..end /\ (found # 0 => FirstAt(hostPort, Colon, found))
        /\ (found = 0 => \A i \in 1..end : hostPort[i] # Colon)
    BY <1>5, <1>7, FindFacts
  <1>9. Find(hostPort, Colon) = IF slash # 0 /\ slash < colon THEN 0 ELSE colon
    <2>1. CASE slash # 0 /\ slash < colon
      <3>1. \A i \in 1..end : url[i] # Colon
        BY <1>4, <1>6, <2>1 DEF FirstAt, end
      <3>2. found = 0
        BY <1>4, <1>5, <1>8, <3>1 DEF FirstAt
      <3> QED BY <1>7, <2>1, <3>2
    <2>2. CASE ~(slash # 0 /\ slash < colon) /\ colon # 0
      <3>1. slash # colon
        BY <1>6, <2>2 DEF FirstAt, Slash, Colon
      <3>5. colon \in 1..end
        BY <1>4, <1>6, <2>2, <3>1 DEF FirstAt, end
      <3>6. url[colon] = Colon /\ \A j \in 1..(colon - 1) : url[j] # Colon
        BY <1>6, <2>2 DEF FirstAt
      <3>2. hostPort[colon] = Colon /\ \A j \in 1..(colon - 1) : hostPort[j] # Colon
        <4>1. colon \in Int /\ hostPort[colon] = url[colon]
          BY <1>5, <3>5
        <4>2. ASSUME NEW j \in 1..(colon - 1) PROVE hostPort[j] # Colon
          <5>1. j \in 1..end
            BY <1>4, <3>5, <4>1
          <5> QED BY <1>5, <3>6, <5>1
        <4> QED BY <3>6, <4>1, <4>2
      <3>3. found # 0
        BY <1>8, <3>2, <3>5
      <3>7. found \in Nat /\ found # 0 /\ hostPort[found] = Colon /\ \A j \in 1..(found - 1) : hostPort[j] # Colon
        BY <1>4, <1>8, <3>3 DEF FirstAt
      <3>4. ~(found < colon) /\ ~(colon < found)
        <4>1. colon \in Nat /\ colon # 0
          BY <1>4, <3>5
        <4>2. found < colon => found \in 1..(colon - 1)
          BY <3>7, <4>1
        <4>3. colon < found => colon \in 1..(found - 1)
          BY <3>7, <4>1
        <4> QED BY <3>2, <3>7, <4>2, <4>3
      <3>8. found = colon
        BY <1>2, <3>4, <3>7
      <3> QED BY <1>7, <2>2, <3>8
    <2>3. CASE colon = 0
      <3>1. found = 0
        <4>1. \A i \in 1..end : url[i] # Colon
          BY <1>4, <1>6, <2>3
        <4> QED BY <1>4, <1>5, <1>8, <4>1 DEF FirstAt
      <3> QED BY <1>6, <1>7, <2>3, <3>1
    <2> QED BY <2>1, <2>2, <2>3
  <1> QED BY <1>5, <1>9, <1>1, <1>3 DEF StartsLike, end

LEMMA NumberFacts ==
    ASSUME NEW text \in Seq(Int), Number(text) # 0
    PROVE  text # << >> /\ Number(text) = text[1]
  BY DEF Number

LEMMA NetworkEndpoint ==
    ASSUME NEW scheme, NEW url \in Seq(Int), ~parse_url(scheme, url).thrown
    PROVE  LET colon == Find(url, Colon) slash == Find(url, Slash)
               n == parse_url(scheme, url)
           IN  /\ n.path = IF slash = 0 THEN << >> ELSE SubSeq(url, slash, Len(url))
               /\ n.port \notin {80, 443} => \E i \in 1..Len(url) : url[i] = n.port
  <1> DEFINE colon == Find(url, Colon)
             slash == Find(url, Slash)
             port == IF Secure(scheme) THEN 443 ELSE 80
             end == IF slash = 0 THEN Len(url) ELSE slash - 1
             path == IF slash = 0 THEN << >> ELSE SubSeq(url, slash, Len(url))
             text == SubSeq(url, colon + 1, end)
  <1>1. /\ Len(url) \in Nat /\ colon \in 0..Len(url) /\ slash \in 0..Len(url) /\ end \in 0..Len(url)
    BY FindFacts
  <1>2. parse_url(scheme, url) =
           IF colon = 0 \/ (slash # 0 /\ slash < colon) THEN Endpoint(SubSeq(url, 1, end), port, path)
           ELSE IF Number(text) = 0 THEN Thrown
           ELSE Endpoint(SubSeq(url, 1, colon - 1), Number(text), path)
    BY DEF parse_url
  <1>3. Thrown.thrown
    BY DEF Thrown
  <1>4. port \in {80, 443}
    OBVIOUS
  <1>5. Number(text) # 0 /\ colon # 0 => \E i \in 1..Len(url) : url[i] = Number(text)
    <2> SUFFICES ASSUME Number(text) # 0, colon # 0 PROVE \E i \in 1..Len(url) : url[i] = Number(text)
      OBVIOUS
    <2>1. text \in Seq(Int)
      BY <1>1
    <2> HIDE DEF end
    <2>2. colon + 1 \in 1..Len(url) /\ colon + 1 <= end
      <3>1. text # << >>
        BY <2>1, NumberFacts
      <3>2. Len(text) # 0
        BY <2>1, <3>1
      <3>3. DOMAIN text = 1..(1 + end - (colon + 1)) /\ DOMAIN text = 1..Len(text)
        BY <2>1 DEF SubSeq
      <3>4. Len(text) \in Nat /\ 1 \in 1..Len(text)
        BY <2>1, <3>2
      <3> HIDE DEF text, colon
      <3>5. 1 \in 1..(1 + end - (colon + 1))
        BY <3>3, <3>4
      <3> QED BY <1>1, <3>5
    <2>3. text[1] = url[colon + 1]
      BY <1>1, <2>2
    <2> QED BY <2>1, <2>2, <2>3, NumberFacts
  <1> HIDE DEF colon, slash, port, end, path, text
  <1>6. PICK n : n = parse_url(scheme, url)
    OBVIOUS
  <1>7. n.path = path /\ (n.port = port \/ (Number(text) # 0 /\ colon # 0 /\ n.port = Number(text)))
    BY <1>2, <1>3, <1>6 DEF Endpoint
  <1>8. n.port \notin {80, 443} => \E i \in 1..Len(url) : url[i] = n.port
    BY <1>4, <1>5, <1>7
  <1> QED BY <1>6, <1>7, <1>8 DEF path, slash

LEMMA HostsAgree ==
    ASSUME NEW scheme, NEW url \in Seq(Int)
    PROVE  LET n == parse_url(scheme, url) h == http_endpoint(scheme, url) c == coap_endpoint(url)
           IN  /\ ~n.thrown /\ ~h.thrown => n.host = h.host
               /\ ~n.thrown /\ ~c.thrown => n.host = c.host
               /\ ~n.thrown /\ ~h.thrown /\ n.path # << >> /\ scheme \notin {"ws", "wss"} => n.port = h.port
  <1> DEFINE colon == Find(url, Colon)
             slash == Find(url, Slash)
             port == IF Secure(scheme) THEN 443 ELSE 80
             httpPort == IF scheme = "https" THEN 443 ELSE 80
             end == IF slash = 0 THEN Len(url) ELSE slash - 1
             path == IF slash = 0 THEN << >> ELSE SubSeq(url, slash, Len(url))
             httpPath == IF slash = 0 THEN <<Slash>> ELSE SubSeq(url, slash, Len(url))
             number == Number(SubSeq(url, colon + 1, end))
             hostPort == SubSeq(url, 1, end)
             host == SubSeq(url, 1, colon - 1)
             bare == colon = 0 \/ (slash # 0 /\ slash < colon)
             coapColon == Find(hostPort, Colon)
             coapHost == IF coapColon = 0 THEN hostPort ELSE SubSeq(hostPort, 1, coapColon - 1)
             coapNumber == IF coapColon = 0 THEN 0 ELSE Number(SubSeq(hostPort, coapColon + 1, Len(hostPort)))
  <1>1. /\ Len(url) \in Nat /\ colon \in 0..Len(url) /\ slash \in 0..Len(url) /\ end \in 0..Len(url)
        /\ (slash # 0 => FirstAt(url, Slash, slash)) /\ (colon # 0 => FirstAt(url, Colon, colon))
    BY FindFacts
  <1>2. parse_url(scheme, url) =
           IF bare THEN Endpoint(hostPort, port, path)
           ELSE IF number = 0 THEN Thrown ELSE Endpoint(host, number, path)
    BY DEF parse_url
  <1>3. http_endpoint(scheme, url) =
           IF bare THEN Endpoint(hostPort, httpPort, httpPath)
           ELSE IF slash = 0 THEN Endpoint(host, httpPort, httpPath)
           ELSE IF number = 0 THEN Thrown ELSE Endpoint(host, number, httpPath)
    BY DEF http_endpoint
  <1>4. coap_endpoint(url) =
           IF coapHost = << >> THEN Thrown
           ELSE Endpoint(coapHost, IF coapNumber = 0 THEN 5683 ELSE coapNumber, httpPath)
    BY DEF coap_endpoint
  <1>5. /\ Len(hostPort) = end /\ hostPort \in Seq(Int) /\ (\A i \in 1..end : hostPort[i] = url[i])
        /\ coapColon = IF slash # 0 /\ slash < colon THEN 0 ELSE colon
    <2>1. slash \in Nat /\ colon \in Nat
      BY <1>1
    <2>2. /\ hostPort \in Seq(Int) /\ Len(hostPort) = end
          /\ \A i \in 1..end : hostPort[i] = url[i]
          /\ Find(hostPort, Colon) = IF slash # 0 /\ slash < colon THEN 0 ELSE colon
      <3>1. end = EndOfHost(url)
        BY DEF EndOfHost
      <3> QED BY <2>1, <3>1, FoundInHostPort DEF StartsLike
    <2> QED BY <2>2
  <1>6. bare => coapHost = hostPort
    BY <1>5
  <1>7. ~bare => coapHost = host
    <2> SUFFICES ASSUME ~bare PROVE coapHost = host
      OBVIOUS
    <2>1. coapColon = colon /\ colon # 0 /\ colon - 1 \in 0..end /\ colon - 1 <= Len(url)
      <3> HIDE DEF coapColon, hostPort, slash, colon
      <3>1. colon # 0 /\ coapColon = colon /\ colon \in 1..Len(url) /\ url[colon] = Colon
        BY <1>1, <1>5 DEF FirstAt
      <3>2. slash # 0 => slash \in Nat /\ url[slash] = Slash /\ ~(slash < colon)
        BY <1>1 DEF FirstAt
      <3>3. slash # colon
        BY <3>1, <3>2 DEF Slash, Colon
      <3> QED BY <1>1, <3>1, <3>2, <3>3
    <2>2. coapHost = SubSeq(hostPort, 1, colon - 1)
      BY <2>1
    <2> HIDE DEF coapHost, coapColon, colon, end, slash
    <2>3. SubSeq(hostPort, 1, colon - 1) = [i \in 1..(colon - 1) |-> hostPort[i]]
      BY <1>5, <2>1 DEF SubSeq
    <2>4. host = [i \in 1..(colon - 1) |-> url[i]]
      BY <1>1, <2>1 DEF SubSeq
    <2>5. \A i \in 1..(colon - 1) : hostPort[i] = url[i]
      BY <1>1, <1>5, <2>1
    <2> QED BY <2>2, <2>3, <2>4, <2>5
  <1>8. scheme \notin {"ws", "wss"} => port = httpPort
    BY DEF Secure
  <1> HIDE DEF colon, slash, port, httpPort, end, path, httpPath, number, hostPort, host, bare, coapColon, coapHost, coapNumber
  <1>9. PICK n, h, c : n = parse_url(scheme, url) /\ h = http_endpoint(scheme, url) /\ c = coap_endpoint(url)
    OBVIOUS
  <1>10. Thrown.thrown
    BY DEF Thrown
  <1>11. ~n.thrown => n.host = (IF bare THEN hostPort ELSE host) /\ n.port = (IF bare THEN port ELSE number) /\ n.path = path
    BY <1>2, <1>9, <1>10 DEF Endpoint
  <1>12. ~h.thrown => /\ h.host = (IF bare THEN hostPort ELSE host)
                      /\ slash # 0 => h.port = (IF bare THEN httpPort ELSE number)
    BY <1>3, <1>9, <1>10 DEF Endpoint
  <1>13. ~c.thrown => c.host = coapHost
    BY <1>4, <1>9, <1>10 DEF Endpoint
  <1>14. path # << >> => slash # 0
    BY DEF path
  <1>15. ~n.thrown /\ ~h.thrown => n.host = h.host
    BY <1>11, <1>12
  <1>16. ~n.thrown /\ ~c.thrown => n.host = c.host
    BY <1>6, <1>7, <1>11, <1>13
  <1>17. ~n.thrown /\ ~h.thrown /\ n.path # << >> /\ scheme \notin {"ws", "wss"} => n.port = h.port
    BY <1>8, <1>11, <1>12, <1>14
  <1> QED BY <1>9, <1>15, <1>16, <1>17

(* A string is trimmed at its end only. *)
LEMMA TrimmedIsPrefix ==
    ASSUME NEW prefix \in Seq(Int)
    PROVE  /\ Trimmed(prefix) \in Seq(Int) /\ Len(Trimmed(prefix)) <= Len(prefix)
           /\ \A i \in 1..Len(Trimmed(prefix)) : Trimmed(prefix)[i] = prefix[i]
           /\ Trimmed(prefix) = << >> => prefix = << >>
  <1>1. Len(prefix) \in Nat
    OBVIOUS
  <1>2. ASSUME NEW k \in 0..Len(prefix)
        PROVE  /\ SubSeq(prefix, 1, k) \in Seq(Int) /\ Len(SubSeq(prefix, 1, k)) = k
               /\ \A i \in 1..k : SubSeq(prefix, 1, k)[i] = prefix[i]
    BY <1>1
  <1>3. CASE \A i \in 1..Len(prefix) : prefix[i] = Slash
    <2>1. PICK k : k = IF prefix = << >> THEN 0 ELSE 1
      OBVIOUS
    <2>2. Trimmed(prefix) = SubSeq(prefix, 1, k)
      BY <1>3, <2>1 DEF Trimmed
    <2>3. k \in 0..Len(prefix) /\ (k = 0 => prefix = << >>)
      BY <1>1, <2>1
    <2>4. Len(SubSeq(prefix, 1, k)) = k
      BY <1>2, <2>3
    <2> QED BY <1>1, <1>2, <2>2, <2>3, <2>4, SMTT(30)
  <1>4. CASE ~ \A i \in 1..Len(prefix) : prefix[i] = Slash
    <2> DEFINE EndsAt(i) == prefix[i] # Slash /\ \A j \in (i + 1)..Len(prefix) : prefix[j] = Slash
               T == {d \in 0..Len(prefix) : Len(prefix) - d \in 1..Len(prefix) /\ prefix[Len(prefix) - d] # Slash}
    <2>1. \E i \in 1..Len(prefix) : EndsAt(i)
      <3>1. PICK x \in 1..Len(prefix) : prefix[x] # Slash
        BY <1>4
      <3>2. Len(prefix) - x \in 0..Len(prefix) /\ Len(prefix) - (Len(prefix) - x) = x
        BY <1>1
      <3>3. Len(prefix) - x \in T
        BY <3>1, <3>2
      <3>4. T \subseteq Nat /\ T # {}
        <4>1. 0..Len(prefix) \subseteq Nat
          BY <1>1
        <4> QED BY <3>3, <4>1
      <3>5. PICK d \in T : \A e \in T : d <= e
        <4> HIDE DEF T
        <4> QED BY <3>4, LeastElement
      <3>6. PICK i \in 1..Len(prefix) : i = Len(prefix) - d
        BY <3>5
      <3>7. prefix[i] # Slash /\ d \in Nat
        BY <1>1, <3>5, <3>6
      <3>8. ASSUME NEW j \in (i + 1)..Len(prefix) PROVE prefix[j] = Slash
        <4> SUFFICES ASSUME prefix[j] # Slash PROVE FALSE
          OBVIOUS
        <4>1. j \in 1..Len(prefix) /\ Len(prefix) - j \in 0..Len(prefix) /\ Len(prefix) - (Len(prefix) - j) = j
          BY <1>1, <3>6
        <4>2. Len(prefix) - j \in T
          BY <4>1
        <4>3. d <= Len(prefix) - j
          BY <3>5, <4>2
        <4> QED BY <1>1, <3>6, <3>7, <4>1, <4>3
      <3> QED BY <3>7, <3>8
    <2>2. PICK k \in 1..Len(prefix) : Trimmed(prefix) = SubSeq(prefix, 1, k)
      <3>1. PICK k : k = CHOOSE i \in 1..Len(prefix) : prefix[i] # Slash /\ \A j \in (i + 1)..Len(prefix) : prefix[j] = Slash
        OBVIOUS
      <3>2. k \in 1..Len(prefix)
        BY <2>1, <3>1
      <3> QED BY <1>4, <3>1, <3>2 DEF Trimmed
    <2>3. k \in 0..Len(prefix) /\ k # 0
      BY <1>1
    <2>4. Len(SubSeq(prefix, 1, k)) = k
      BY <1>2, <2>3
    <2> QED BY <1>1, <1>2, <2>2, <2>3, <2>4
  <1> QED BY <1>3, <1>4

(* Two slashes in a row in what is asked for were two in a row in the path *)
(* of the base URL.                                                        *)
LEMMA NoNewDoubleSlash ==
    ASSUME NEW prefix \in Seq(Int), NEW path \in {<< >>, <<Slash>>, <<Word>>, <<Slash, Word>>},
           NEW i \in 1..(Len(join_request_path(prefix, path)) - 1),
           join_request_path(prefix, path)[i] = Slash, join_request_path(prefix, path)[i + 1] = Slash
    PROVE  i \in 1..(Len(prefix) - 1) /\ prefix[i] = Slash /\ prefix[i + 1] = Slash
  <1>1. PICK p, target : p = Trimmed(prefix) /\ target = join_request_path(prefix, path)
    OBVIOUS
  <1>2. /\ p \in Seq(Int) /\ Len(p) \in Nat /\ Len(p) <= Len(prefix) /\ (\A j \in 1..Len(p) : p[j] = prefix[j])
        /\ Len(prefix) \in Nat
    BY <1>1, TrimmedIsPrefix, SMTT(30)
  <1>3. Slash # Word /\ Slash \in Int /\ Word \in Int
    BY DEF Slash, Word
  <1>4. /\ i \in 1..(Len(target) - 1) /\ target[i] = Slash /\ target[i + 1] = Slash
    BY <1>1
  <1>5. target =
          IF p = << >> THEN IF path = << >> THEN <<Slash>> ELSE path
          ELSE IF path \in {<< >>, <<Slash>>} THEN p
          ELSE IF p[Len(p)] = Slash /\ Head(path) = Slash THEN p \o Tail(path)
          ELSE IF p[Len(p)] # Slash /\ Head(path) # Slash THEN p \o <<Slash>> \o path
          ELSE p \o path
    BY <1>1 DEF join_request_path
  <1>11. << >> \in Seq(Int) /\ <<Slash>> \in Seq(Int) /\ <<Word>> \in Seq(Int) /\ <<Slash, Word>> \in Seq(Int)
    BY <1>3
  <1>12. path \in Seq(Int) /\ (path # << >> => Tail(path) \in Seq(Int))
    <2>1. path \in Seq(Int)
      BY <1>11
    <2>2. Tail(<<Slash>>) = << >> /\ Tail(<<Word>>) = << >> /\ Tail(<<Slash, Word>>) = <<Word>>
      OBVIOUS
    <2>3. path # << >> => Tail(path) \in {<< >>, <<Word>>}
      BY <2>2
    <2> QED BY <1>11, <2>1, <2>3
  <1>13. ASSUME NEW q \in Seq(Int), NEW more \in Seq(Int)
         PROVE  /\ q \o more \in Seq(Int) /\ Len(q \o more) = Len(q) + Len(more)
                /\ \A j \in 1..Len(q) : (q \o more)[j] = q[j]
    OBVIOUS
  <1>14. \A j \in 1..Len(p) : target[j] = p[j]
    <2>1. CASE p = << >>
      BY <2>1
    <2>2. CASE target = p
      BY <2>2
    <2>3. CASE (target = p \o Tail(path) /\ path # << >>) \/ target = p \o path
      BY <1>2, <1>12, <1>13, <2>3
    <2>4. CASE target = p \o <<Slash>> \o path
      <3>1. PICK q : q = p \o <<Slash>>
        OBVIOUS
      <3>2. q \in Seq(Int) /\ Len(q) = Len(p) + 1 /\ \A j \in 1..Len(p) : q[j] = p[j]
        BY <1>2, <1>11, <1>13, <3>1
      <3>3. target = q \o path
        BY <2>4, <3>1
      <3>4. \A j \in 1..Len(q) : target[j] = q[j]
        BY <1>12, <1>13, <3>2, <3>3
      <3>5. \A j \in 1..Len(p) : j \in 1..Len(q)
        BY <1>2, <3>2
      <3> QED BY <3>2, <3>4, <3>5
    <2> QED BY <1>5, <2>1, <2>2, <2>3, <2>4
  <1>6. SUFFICES i + 1 <= Len(p)
    <2>1. ASSUME i + 1 <= Len(p)
          PROVE  i \in 1..Len(p) /\ i + 1 \in 1..Len(p) /\ i \in 1..(Len(prefix) - 1)
      <3>1. i \in Nat /\ i # 0
        OBVIOUS
      <3> QED BY <1>2, <2>1, <3>1, SMTT(30)
    <2> QED BY <1>2, <1>4, <1>14, <2>1
  <1> SUFFICES ASSUME i + 1 > Len(p) PROVE FALSE
    BY <1>2
  <1>7. CASE p = << >>
    <2>1. target \in {<<Slash>>, <<Word>>, <<Slash, Word>>}
      BY <1>5, <1>7
    <2> QED BY <1>3, <1>4, <2>1
  <1>8. CASE p # << >> /\ path \in {<< >>, <<Slash>>}
    <2>1. target = p
      BY <1>5, <1>8
    <2> QED BY <1>2, <1>4, <2>1
  <1>9. CASE p # << >> /\ path = <<Word>>
    <2>1. path # << >> /\ path # <<Slash>> /\ Head(path) = Word
      BY <1>3, <1>9
    <2>2. CASE p[Len(p)] = Slash
      <3>1. target = p \o <<Word>>
        BY <1>3, <1>5, <1>9, <2>1, <2>2
      <3>2. Len(target) = Len(p) + 1 /\ target[Len(p) + 1] = Word
        BY <1>2, <1>3, <3>1
      <3> QED BY <1>2, <1>3, <1>4, <3>2
    <2>3. CASE p[Len(p)] # Slash
      <3>1. target = p \o <<Slash>> \o <<Word>>
        BY <1>3, <1>5, <1>9, <2>1, <2>3
      <3>2. p \o <<Slash>> \in Seq(Int) /\ Len(p \o <<Slash>>) = Len(p) + 1
            /\ \A j \in 1..Len(p) : (p \o <<Slash>>)[j] = p[j]
        BY <1>2, <1>3
      <3>3. Len(target) = Len(p) + 2 /\ target[Len(p) + 2] = Word /\ \A j \in 1..Len(p) : target[j] = p[j]
        BY <1>2, <1>3, <3>1, <3>2
      <3>4. Len(p) \in 1..Len(p)
        BY <1>2, <1>9
      <3>5. i = Len(p) \/ i = Len(p) + 1
        BY <1>2, <1>4, <3>3
      <3>6. i # Len(p)
        BY <1>4, <2>3, <3>3, <3>4
      <3>7. i # Len(p) + 1
        BY <1>2, <1>3, <1>4, <3>3
      <3> QED BY <3>5, <3>6, <3>7
    <2> QED BY <2>2, <2>3
  <1>10. CASE p # << >> /\ path = <<Slash, Word>>
    <2>1. path # << >> /\ path # <<Slash>> /\ Head(path) = Slash /\ Tail(path) = <<Word>>
      BY <1>3, <1>10
    <2>2. CASE p[Len(p)] = Slash
      <3>1. target = p \o <<Word>>
        BY <1>3, <1>5, <1>10, <2>1, <2>2
      <3>2. Len(target) = Len(p) + 1 /\ target[Len(p) + 1] = Word
        BY <1>2, <1>3, <3>1
      <3> QED BY <1>2, <1>3, <1>4, <3>2
    <2>3. CASE p[Len(p)] # Slash
      <3>1. target = p \o <<Slash, Word>>
        BY <1>3, <1>5, <1>10, <2>1, <2>3
      <3>2. Len(target) = Len(p) + 2 /\ target[Len(p) + 2] = Word /\ \A j \in 1..Len(p) : target[j] = p[j]
        BY <1>2, <1>3, <3>1
      <3>3. Len(p) \in 1..Len(p)
        BY <1>2, <1>10
      <3>4. i = Len(p) \/ i = Len(p) + 1
        BY <1>2, <1>4, <3>2
      <3>5. i # Len(p)
        BY <1>4, <2>3, <3>2, <3>3
      <3>6. i # Len(p) + 1
        BY <1>2, <1>3, <1>4, <3>2
      <3> QED BY <3>4, <3>5, <3>6
    <2> QED BY <2>2, <2>3
  <1> QED BY <1>7, <1>8, <1>9, <1>10

LEMMA EndpointInitial == EndpointInit => TransportsAgree
  BY DEF EndpointInit, NothingAsked, Thrown, TransportsAgree

LEMMA AskAgrees ==
    ASSUME NEW scheme \in Schemes, NEW url \in Urls, NEW path \in {<< >>, <<Slash>>, <<Word>>, <<Slash, Word>>},
           Ask(scheme, url, path)
    PROVE  TransportsAgree'
  <1>1. url \in Seq(Int)
    <2>1. Tokens \subseteq Int
      BY EndpointsAssumption DEF Tokens, Colon, Slash, Word
    <2>2. PICK m \in 0..MaxTokens : url \in [1..m -> Tokens]
      BY DEF Urls
    <2>3. m \in Nat
      BY EndpointsAssumption
    <2>4. \A i \in 1..m : url[i] \in Int
      BY <2>1, <2>2
    <2>5. url \in [1..m -> Int]
      BY <2>2, <2>4
    <2> QED BY <2>3, <2>5
  <1>2. PICK n, h, c, target :
           /\ n = parse_url(scheme, url) /\ h = http_endpoint(scheme, url) /\ c = coap_endpoint(url)
           /\ target = join_request_path(n.path, path)
    OBVIOUS
  <1>3. asked' = [scheme |-> scheme, url |-> url, network |-> n, http |-> h, coap |-> c, target |-> target]
    BY <1>2 DEF Ask
  <1>4. /\ ~n.thrown /\ ~h.thrown => n.host = h.host
        /\ ~n.thrown /\ ~c.thrown => n.host = c.host
        /\ ~n.thrown /\ ~h.thrown /\ n.path # << >> /\ scheme \notin {"ws", "wss"} => n.port = h.port
    BY <1>1, <1>2, HostsAgree
  <1>5. ~n.thrown /\ n.port \notin {80, 443} => \E i \in 1..Len(url) : url[i] = n.port
    BY <1>1, <1>2, NetworkEndpoint
  <1>6. ASSUME NEW i \in 1..(Len(target) - 1), target[i] = Slash, target[i + 1] = Slash
        PROVE  \E j \in 1..(Len(url) - 1) : url[j] = Slash /\ url[j + 1] = Slash
    <2>1. PICK slash : slash = Find(url, Slash)
      OBVIOUS
    <2>2. slash \in 0..Len(url) /\ Len(url) \in Nat
      BY <1>1, <2>1, FindFacts
    <2>8. ~n.thrown
      <3> SUFFICES ASSUME n.thrown PROVE FALSE
        OBVIOUS
      <3>1. n.path = << >>
        <4>1. n = Thrown
          BY <1>2 DEF parse_url, Endpoint
        <4> QED BY <4>1 DEF Thrown
      <3>2. n.path \in Seq(Int) /\ Len(n.path) = 0
        BY <3>1
      <3>3. i \in 1..(Len(n.path) - 1)
        <4>1. /\ i \in 1..(Len(join_request_path(n.path, path)) - 1)
              /\ join_request_path(n.path, path)[i] = Slash /\ join_request_path(n.path, path)[i + 1] = Slash
          BY <1>2, <1>6
        <4> QED BY <3>2, <4>1, NoNewDoubleSlash, ZenonT(60)
      <3> QED BY <3>2, <3>3
    <2>3. n.path = IF slash = 0 THEN << >> ELSE SubSeq(url, slash, Len(url))
      BY <1>1, <1>2, <2>1, <2>8, NetworkEndpoint
    <2>4. n.path \in Seq(Int)
      BY <1>1, <2>2, <2>3
    <2>5. i \in 1..(Len(n.path) - 1) /\ n.path[i] = Slash /\ n.path[i + 1] = Slash
      BY <1>2, <1>6, <2>4, NoNewDoubleSlash
    <2>6. slash # 0 /\ n.path = SubSeq(url, slash, Len(url)) /\ Len(n.path) = Len(url) - slash + 1
      BY <1>1, <2>2, <2>3, <2>5
    <2>7. url[slash + i - 1] = Slash /\ url[slash + i] = Slash /\ slash + i - 1 \in 1..(Len(url) - 1)
      BY <1>1, <2>2, <2>5, <2>6
    <2> QED BY <2>2, <2>7
  <1> QED BY <1>3, <1>4, <1>5, <1>6 DEF TransportsAgree

LEMMA EndpointStep ==
    ASSUME TransportsAgree, EndpointNext \/ UNCHANGED endpointVars
    PROVE  TransportsAgree'
  <1>1. UNCHANGED asked => TransportsAgree'
    BY DEF TransportsAgree
  <1>2. CASE \E scheme \in Schemes, url \in Urls, path \in {<< >>, <<Slash>>, <<Word>>, <<Slash, Word>>} :
                Ask(scheme, url, path)
    BY <1>2, AskAgrees
  <1>3. CASE UNCHANGED asked
    BY <1>1, <1>3
  <1> QED BY <1>2, <1>3 DEF EndpointNext, endpointVars, BeginRequest, SetHeader, ClearHeaders, EndRequest
-----------------------------------------------------------------------------
(* SCALE.  What any reader of the bytes needs: which bytes of a buffer a   *)
(* value's encoding carries, and that shifting a number back gives it.     *)
Octet == 0..255
Octets8 == [1..8 -> Octet]

LEMMA FunctionIsSeq ==
    ASSUME NEW n \in Nat, NEW S, NEW f \in [1..n -> S]
    PROVE  f \in Seq(S) /\ Len(f) = n
  OBVIOUS

LEMMA OctetBits ==
    ASSUME NEW x \in 0..255
    PROVE  /\ (x * 4) % 256 = 4 * (x % 64) /\ x % 64 \in 0..63
           /\ x \div 64 \in 0..3 /\ x = (x \div 64) * 64 + (x % 64)
  <1> DEFINE q == x \div 64
             y == x % 64
  <1>1. q \in 0..3 /\ y \in 0..63 /\ x = q * 64 + y
    OBVIOUS
  <1> HIDE DEF q, y
  <1>2. x * 4 = 256 * q + 4 * y /\ 4 * y \in 0..255
    BY <1>1
  <1>3. (x * 4) % 256 = 4 * y
    BY <1>1, <1>2
  <1> QED BY <1>1, <1>3 DEF q, y

(* The bytes of a shifted number: their upper six bits and lower two.      *)
IsShifted(s, v, n, mode) ==
    /\ s \in [1..n -> Octet] /\ Len(s) = n /\ s[1] % 4 = mode
    /\ \A i \in 1..n : s[i] \div 4 = v[i] % 64
    /\ \A i \in 2..n : s[i] % 4 = v[i - 1] \div 64

LEMMA ShiftedFacts ==
    ASSUME NEW v \in Octets8, NEW n \in 1..4, NEW mode \in 0..2
    PROVE  IsShifted(Shifted(v, n, mode), v, n, mode)
  <1> DEFINE s == Shifted(v, n, mode)
             low(i) == IF i = 1 THEN mode ELSE v[i - 1] \div 64
  <1>1. \A i \in 1..n : v[i] \in 0..255 /\ (i # 1 => v[i - 1] \in 0..255)
    BY DEF Octets8, Octet
  <1>2. \A i \in 1..n : low(i) \in 0..3
    BY <1>1, OctetBits, SMTT(40)
  <1>3. \A i \in 1..n : s[i] = 4 * (v[i] % 64) + low(i)
    BY <1>1, OctetBits, SMTT(40) DEF Shifted
  <1>4. \A i \in 1..n : v[i] % 64 \in 0..63
    BY <1>1, OctetBits, SMTT(40)
  <1>5. \A x \in 0..63, y \in 0..3 : 4 * x + y \in 0..255 /\ (4 * x + y) \div 4 = x /\ (4 * x + y) % 4 = y
    OBVIOUS
  <1>6. s = [i \in 1..n |-> s[i]] /\ Len(s) = n
    BY DEF Shifted
  <1>7. \A i \in 1..n : s[i] \in Octet /\ s[i] \div 4 = v[i] % 64 /\ s[i] % 4 = low(i)
    <2> HIDE DEF low, s
    <2> QED BY <1>2, <1>3, <1>4, <1>5 DEF Octet
  <1> HIDE DEF s
  <1>8. s \in [1..n -> Octet]
    BY <1>6, <1>7
  <1>9. s[1] % 4 = mode
    BY <1>7
  <1>10. \A i \in 2..n : s[i] % 4 = v[i - 1] \div 64
    BY <1>7
  <1>11. IsShifted(s, v, n, mode)
    BY <1>6, <1>7, <1>8, <1>9, <1>10 DEF IsShifted
  <1> QED BY <1>11 DEF s

(* What is shifted up in n bytes and down again is what it was.            *)
LEMMA ShiftsBack ==
    ASSUME NEW v \in Octets8, NEW n \in {1, 2, 4}, NEW mode \in 0..2,
           NEW bytes, bytes = Shifted(v, n, mode), Zeros(v, n + 1), v[n] < 64
    PROVE  Unshifted(bytes) = v
  <1> DEFINE down == [i \in 1..Len(bytes) |-> bytes[i] \div 4 + (IF i < Len(bytes) THEN (bytes[i + 1] % 4) * 64 ELSE 0)]
  <1>0. n \in 1..4
    OBVIOUS
  <1>a. IsShifted(bytes, v, n, mode)
    BY <1>0, ShiftedFacts, Zenon
  <1>1. IsShifted(bytes, v, n, mode) /\ Len(bytes) = n
    BY <1>a DEF IsShifted
  <1>2. \A i \in 1..n : v[i] \in 0..255
    BY <1>0 DEF Octets8, Octet
  <1>3. \A i \in 1..n : down[i] = v[i]
    <2> SUFFICES ASSUME NEW i \in 1..n PROVE down[i] = v[i]
      OBVIOUS
    <2>1. bytes[i] \div 4 = v[i] % 64
      BY <1>1 DEF IsShifted
    <2>2. CASE i < n
      <3>1. i + 1 \in 2..n /\ (i + 1) - 1 = i
        BY <1>1, <2>2
      <3>2. bytes[i + 1] % 4 = v[i] \div 64
        BY <1>1, <3>1 DEF IsShifted
      <3>3. down[i] = (v[i] % 64) + (v[i] \div 64) * 64
        BY <1>1, <2>1, <2>2, <3>2
      <3> HIDE DEF down
      <3>4. v[i] \in 0..255
        BY <1>2
      <3>5. v[i] = (v[i] \div 64) * 64 + (v[i] % 64)
        BY <3>4, OctetBits
      <3>6. v[i] \div 64 \in 0..3 /\ v[i] % 64 \in 0..63
        BY <3>4, OctetBits
      <3> QED BY ONLY <3>3, <3>5, <3>6
    <2>3. CASE i = n
      <3>1. down[i] = (v[i] % 64) + 0
        BY <1>1, <2>1, <2>3
      <3> HIDE DEF down
      <3>2. v[i] \in 0..255
        BY <1>2
      <3>3. v[i] % 64 \in Nat
        BY ONLY <3>2
      <3> QED BY <1>2, <2>3, <3>1, <3>3, SMTT(40)
    <2> QED BY <1>1, <2>2, <2>3
  <1>4. Len(down) = n
    BY <1>1
  <1>5. Unshifted(bytes) = [i \in 1..8 |-> IF i <= Len(down) THEN down[i] ELSE 0]
    BY DEF Unshifted, Wide
  <1> HIDE DEF down
  <1>6. \A i \in 1..8 : (IF i <= Len(down) THEN down[i] ELSE 0) = v[i]
    <2> SUFFICES ASSUME NEW i \in 1..8 PROVE (IF i <= Len(down) THEN down[i] ELSE 0) = v[i]
      OBVIOUS
    <2>1. CASE i <= n
      BY <1>1, <1>3, <1>4, <2>1
    <2>2. CASE i > n
      BY <1>1, <1>4, <2>2 DEF Zeros
    <2> QED BY <1>1, <2>1, <2>2
  <1>7. v = [i \in 1..8 |-> v[i]]
    BY DEF Octets8
  <1> QED BY <1>5, <1>6, <1>7

-----------------------------------------------------------------------------
(* data carries e behind its first at bytes, as far as data goes.          *)
Carries(data, at, e) == \A i \in 1..Len(e) : at + i <= Len(data) => data[at + i] = e[i]

LEMMA CarriedWhole ==
    ASSUME NEW data \in Seq(Octet), NEW at \in Nat, NEW e \in Seq(Octet),
           Carries(data, at, e), at + Len(e) <= Len(data)
    PROVE  SubSeq(data, at + 1, at + Len(e)) = e
  <1> DEFINE n == Len(e)
             s == SubSeq(data, at + 1, at + n)
  <1>1. n \in Nat /\ e = [i \in 1..n |-> e[i]]
    OBVIOUS
  <1>2. s = [i \in 1..n |-> data[at + i]]
    <2>1. s = [i \in 1..((at + n) - (at + 1) + 1) |-> data[i + (at + 1) - 1]]
      BY DEF SubSeq
    <2>2. (at + n) - (at + 1) + 1 = n
      BY <1>1
    <2>3. \A i \in 1..n : i + (at + 1) - 1 = at + i
      BY <1>1
    <2> HIDE DEF n, s
    <2> QED BY <2>1, <2>2, <2>3
  <1>3. \A i \in 1..n : data[at + i] = e[i]
    BY DEF Carries
  <1> HIDE DEF n, s
  <1>4. s = e
    BY <1>1, <1>2, <1>3
  <1> QED BY <1>4 DEF s, n

(* decode_raw() gives what data carries, if all of it is there.            *)
LEMMA RawReads ==
    ASSUME NEW data \in Seq(Octet), NEW at \in Nat, NEW e \in Seq(Octet), Carries(data, at, e)
    PROVE  decode_raw(data, at, Len(e)) = IF at + Len(e) <= Len(data) THEN Read(TRUE, e, at + Len(e)) ELSE Unreadable(at)
  BY CarriedWhole DEF decode_raw, check_remaining

(* The modes of encode_compact(): so many bytes of which the last fits.    *)
Narrow(v, n, mode) == /\ n \in {1, 2, 4} /\ mode \in 0..2 /\ n = (IF mode = 0 THEN 1 ELSE IF mode = 1 THEN 2 ELSE 4)
                      /\ Zeros(v, n + 1) /\ v[n] < 64 /\ encode_compact(v) = Shifted(v, n, mode)
Big(v, needed) == /\ needed \in 4..8 /\ Zeros(v, needed + 1) /\ ~ (Zeros(v, 5) /\ v[4] < 64)
                  /\ encode_compact(v) = <<(needed - 4) * 4 + 3>> \o SubSeq(v, 1, needed)

LEMMA BiggestOf ==
    ASSUME NEW S \in SUBSET (1..8), S # {}
    PROVE  Biggest(S) \in S /\ \A j \in S : j <= Biggest(S)
  <1> SUFFICES \E i \in S : \A j \in S : j <= i
    BY DEF Biggest
  <1> DEFINE m == IF 8 \in S THEN 8 ELSE IF 7 \in S THEN 7 ELSE IF 6 \in S THEN 6 ELSE IF 5 \in S THEN 5
                  ELSE IF 4 \in S THEN 4 ELSE IF 3 \in S THEN 3 ELSE IF 2 \in S THEN 2 ELSE 1
  <1>1. \A x \in S : x \in {1, 2, 3, 4, 5, 6, 7, 8}
    OBVIOUS
  <1>2. m \in S
    BY <1>1
  <1>3. \A j \in S : j <= m
    BY <1>1
  <1> QED BY <1>2, <1>3

LEMMA CompactModes ==
    ASSUME NEW v \in Octets8
    PROVE  (\E n, mode : Narrow(v, n, mode)) \/ (\E needed : Big(v, needed))
  <1>0. \A i \in 1..8 : v[i] \in 0..255
    BY DEF Octets8, Octet
  <1>1. CASE Zeros(v, 2) /\ v[1] < 64
    <2>1. Narrow(v, 1, 0)
      BY <1>1 DEF Narrow, encode_compact
    <2> QED BY <2>1
  <1>2. CASE ~ (Zeros(v, 2) /\ v[1] < 64) /\ Zeros(v, 3) /\ v[2] < 64
    <2>1. Narrow(v, 2, 1)
      BY <1>2 DEF Narrow, encode_compact
    <2> QED BY <2>1
  <1>3. CASE ~ (Zeros(v, 2) /\ v[1] < 64) /\ ~ (Zeros(v, 3) /\ v[2] < 64) /\ Zeros(v, 5) /\ v[4] < 64
    <2>1. Narrow(v, 4, 2)
      BY <1>3 DEF Narrow, encode_compact
    <2> QED BY <2>1
  <1>4. CASE ~ (Zeros(v, 2) /\ v[1] < 64) /\ ~ (Zeros(v, 3) /\ v[2] < 64) /\ ~ (Zeros(v, 5) /\ v[4] < 64)
    <2> DEFINE S == {4} \cup {i \in 1..8 : v[i] # 0}
               needed == Biggest(S)
    <2>1. S \in SUBSET (1..8) /\ S # {} /\ 4 \in S
      OBVIOUS
    <2>2. needed \in S /\ \A j \in S : j <= needed
      BY <2>1, BiggestOf
    <2>3. encode_compact(v) = <<(needed - 4) * 4 + 3>> \o SubSeq(v, 1, needed)
      BY <1>4 DEF encode_compact
    <2>4. needed \in 4..8
      <3> HIDE DEF needed
      <3> QED BY <2>1, <2>2
    <2>5. \A i \in (needed + 1)..8 : v[i] = 0
      <3> SUFFICES ASSUME NEW i \in (needed + 1)..8, v[i] # 0 PROVE FALSE
        OBVIOUS
      <3> HIDE DEF needed
      <3>1. i \in 1..8 /\ ~ (i <= needed)
        BY <2>4
      <3>2. i \in S
        BY <3>1
      <3> QED BY <2>2, <3>1, <3>2
    <2> HIDE DEF needed
    <2>6. Big(v, needed)
      BY <1>4, <2>3, <2>4, <2>5 DEF Big, Zeros
    <2> QED BY <2>6
  <1> QED BY <1>1, <1>2, <1>3, <1>4

LEMMA NarrowReads ==
    ASSUME NEW v \in Octets8, NEW n, NEW mode, Narrow(v, n, mode),
           NEW data \in Seq(Octet), NEW at \in Nat, Carries(data, at, encode_compact(v))
    PROVE  /\ encode_compact(v) \in Seq(Octet) /\ Len(encode_compact(v)) = n
           /\ decode_compact(data, at) = {IF at + n <= Len(data) THEN Read(TRUE, v, at + n) ELSE Unreadable(at)}
  <1> DEFINE e == Shifted(v, n, mode)
  <1>1. /\ n \in {1, 2, 4} /\ mode \in 0..2 /\ n = (IF mode = 0 THEN 1 ELSE IF mode = 1 THEN 2 ELSE 4)
        /\ Zeros(v, n + 1) /\ v[n] < 64 /\ encode_compact(v) = e
    BY DEF Narrow
  <1>2. n \in 1..4
    BY <1>1
  <1>3. e \in [1..n -> Octet] /\ Len(e) = n /\ e[1] % 4 = mode
    <2>1. mode \in 0..2
      BY <1>1
    <2>2. IsShifted(e, v, n, mode)
      BY <1>2, <2>1, ShiftedFacts
    <2> QED BY <2>2 DEF IsShifted
  <1>4. Unshifted(e) = v
    BY <1>1, ShiftsBack
  <1> HIDE DEF e
  <1>5. e \in Seq(Octet)
    BY <1>2, <1>3
  <1>6. CASE ~ (at + 1 <= Len(data))
    <2>1. ~ (at + n <= Len(data))
      BY <1>2, <1>6
    <2>2. decode_compact(data, at) = {Unreadable(at)}
      BY <1>6 DEF decode_compact, check_remaining
    <2> QED BY <1>1, <1>3, <1>5, <2>1, <2>2
  <1>7. CASE at + 1 <= Len(data)
    <2>1. data[at + 1] = e[1]
      BY <1>1, <1>2, <1>3, <1>7 DEF Carries
    <2> DEFINE length == IF mode = 0 THEN 1 ELSE IF mode = 1 THEN 2 ELSE 4
    <2>2. decode_compact(data, at) = {IF check_remaining(data, at, length)
             THEN Read(TRUE, Unshifted(SubSeq(data, at + 1, at + length)), at + length) ELSE Unreadable(at)}
      <3>1. data[at + 1] % 4 = mode /\ mode < 3
        BY <1>1, <1>3, <2>1
      <3> QED BY <1>7, <3>1 DEF decode_compact, check_remaining
    <2>3. length = n
      BY <1>1
    <2> HIDE DEF length
    <2>4. ASSUME at + n <= Len(data) PROVE decode_compact(data, at) = {Read(TRUE, v, at + n)}
      <3>1. SubSeq(data, at + 1, at + n) = e
        BY <1>1, <1>3, <1>5, <2>4, CarriedWhole
      <3> QED BY <1>4, <2>2, <2>3, <2>4, <3>1 DEF check_remaining
    <2>5. ASSUME ~ (at + n <= Len(data)) PROVE decode_compact(data, at) = {Unreadable(at)}
      BY <2>2, <2>3, <2>5 DEF check_remaining
    <2>6. decode_compact(data, at) = {IF at + n <= Len(data) THEN Read(TRUE, v, at + n) ELSE Unreadable(at)}
      BY <2>4, <2>5
    <2> QED BY <1>1, <1>3, <1>5, <2>6
  <1> QED BY <1>1, <1>3, <1>5, <1>6, <1>7

(* A big integer that lacks its last byte, and only that one, is read all  *)
(* the same, as something else.                                            *)
LEMMA BigReads ==
    ASSUME NEW v \in Octets8, NEW needed, Big(v, needed),
           NEW data \in Seq(Octet), NEW at \in Nat, Carries(data, at, encode_compact(v))
    PROVE  /\ encode_compact(v) \in Seq(Octet) /\ Len(encode_compact(v)) = needed + 1
           /\ \A o \in decode_compact(data, at) :
                /\ at + needed + 1 <= Len(data) => o.ok
                /\ o.ok => o.at = at + needed + 1 /\ (o.value = v \/ o.at = Len(data) + 1)
  <1> DEFINE e == <<(needed - 4) * 4 + 3>> \o SubSeq(v, 1, needed)
             read(past) == Wide([i \in 1..needed |-> IF at + 1 + i <= Len(data) THEN data[at + 1 + i] ELSE past])
  <1>1. needed \in 4..8 /\ Zeros(v, needed + 1) /\ encode_compact(v) = e
    BY DEF Big
  <1>2. v \in Seq(Octet) /\ Len(v) = 8
    BY FunctionIsSeq DEF Octets8
  <1>3. e \in Seq(Octet) /\ Len(e) = needed + 1 /\ e[1] = (needed - 4) * 4 + 3 /\ \A i \in 1..needed : e[1 + i] = v[i]
    <2> DEFINE f == (needed - 4) * 4 + 3
               t == SubSeq(v, 1, needed)
    <2>1. f \in Octet
      BY <1>1 DEF Octet
    <2>2. t \in Seq(Octet) /\ Len(t) = needed /\ \A i \in 1..needed : t[i] = v[i]
      <3>1. t = [i \in 1..needed |-> v[i]]
        BY <1>1, <1>2 DEF SubSeq
      <3>2. \A i \in 1..needed : v[i] \in Octet
        BY <1>1 DEF Octets8
      <3> HIDE DEF t
      <3>3. t \in [1..needed -> Octet]
        BY <3>1, <3>2
      <3> QED BY <1>1, <3>1, <3>3
    <2> HIDE DEF f, t
    <2>3. <<f>> \o t \in Seq(Octet) /\ Len(<<f>> \o t) = needed + 1 /\ (<<f>> \o t)[1] = f
          /\ \A i \in 1..needed : (<<f>> \o t)[1 + i] = t[i]
      BY <1>1, <2>1, <2>2
    <2> QED BY <2>2, <2>3 DEF f, t
  <1> HIDE DEF e
  <1>4. ASSUME at + 1 + needed <= Len(data), NEW past PROVE read(past) = v
    <2>1. \A i \in 1..needed : at + 1 + i <= Len(data) /\ data[at + 1 + i] = v[i]
      <3> SUFFICES ASSUME NEW i \in 1..needed PROVE at + 1 + i <= Len(data) /\ data[at + 1 + i] = v[i]
        OBVIOUS
      <3>1. 1 + i \in 1..Len(e) /\ at + (1 + i) <= Len(data) /\ at + (1 + i) = at + 1 + i
        BY <1>1, <1>3, <1>4
      <3>2. data[at + (1 + i)] = e[1 + i]
        BY <1>1, <3>1 DEF Carries
      <3> QED BY <1>3, <3>1, <3>2
    <2>2. [i \in 1..needed |-> IF at + 1 + i <= Len(data) THEN data[at + 1 + i] ELSE past] = [i \in 1..needed |-> v[i]]
      BY <2>1
    <2>3. Wide([i \in 1..needed |-> v[i]]) = v
      <3>1. Wide([i \in 1..needed |-> v[i]]) = [i \in 1..8 |-> IF i <= needed THEN v[i] ELSE 0]
        BY <1>1 DEF Wide
      <3>2. \A i \in 1..8 : (IF i <= needed THEN v[i] ELSE 0) = v[i]
        BY <1>1 DEF Zeros
      <3>3. v = [i \in 1..8 |-> v[i]]
        BY DEF Octets8
      <3> QED BY <3>1, <3>2, <3>3
    <2> QED BY <2>2, <2>3
  <1> HIDE DEF read
  <1>5. CASE ~ (at + 1 <= Len(data))
    <2>1. ~ (at + needed + 1 <= Len(data))
      BY <1>1, <1>5
    <2>2. decode_compact(data, at) = {Unreadable(at)}
      BY <1>5 DEF decode_compact, check_remaining
    <2> QED BY <1>1, <1>3, <2>1, <2>2 DEF Unreadable, Read
  <1>6. CASE at + 1 <= Len(data)
    <2>1. data[at + 1] = (needed - 4) * 4 + 3
      BY <1>1, <1>3, <1>6 DEF Carries
    <2>2. data[at + 1] % 4 = 3 /\ data[at + 1] \div 4 + 4 = needed
      BY <1>1, <2>1
    <2>3. ~ (data[at + 1] % 4 < 3) /\ check_remaining(data, at, 1)
      BY <1>6, <2>2 DEF check_remaining
    <2>4. CASE ~ (at + needed <= Len(data))
      <3>1. decode_compact(data, at) = {Unreadable(at)}
        <4>1. ~ check_remaining(data, at, data[at + 1] \div 4 + 4)
          BY <2>2, <2>4 DEF check_remaining
        <4> QED BY <2>3, <4>1 DEF decode_compact
      <3> QED BY <1>1, <1>3, <2>4, <3>1 DEF Unreadable, Read
    <2>5. CASE at + needed <= Len(data)
      <3>1. ASSUME NEW o \in decode_compact(data, at)
            PROVE  o.ok /\ o.at = at + needed + 1 /\ (o.value = v \/ o.at = Len(data) + 1)
        <4>1. PICK past \in {0, 255} : o = Read(TRUE, read(past), at + 1 + needed)
          <5>1. check_remaining(data, at, data[at + 1] \div 4 + 4)
            BY <2>2, <2>5 DEF check_remaining
          <5>2. \E past \in {0, 255} : o = Read(TRUE,
                   Wide([i \in 1..(data[at + 1] \div 4 + 4) |-> IF at + 1 + i <= Len(data) THEN data[at + 1 + i] ELSE past]),
                   at + 1 + (data[at + 1] \div 4 + 4))
            BY <2>3, <3>1, <5>1 DEF decode_compact
          <5> QED BY ONLY <2>2, <5>2 DEF read
        <4>2. o.ok = TRUE /\ o.at = at + 1 + needed /\ o.value = read(past)
          BY <4>1 DEF Read
        <4>3. at + 1 + needed = at + needed + 1
          BY <1>1
        <4>4. CASE at + 1 + needed <= Len(data)
          BY <1>4, <4>2, <4>3, <4>4
        <4>5. CASE ~ (at + 1 + needed <= Len(data))
          <5>1. at + needed + 1 = Len(data) + 1
            BY <1>1, <2>5, <4>5
          <5> QED BY <4>2, <4>3, <5>1
        <4> QED BY <4>4, <4>5
      <3> QED BY <1>1, <1>3, <3>1
    <2> QED BY <2>4, <2>5
  <1> QED BY <1>5, <1>6

(* What reading a value v from its encoding e behind at bytes may give:    *)
(* v, if all of e is there; and never anything else, except when what was  *)
(* read reaches one byte past the end.                                     *)
ReadsAs(outcomes, v, e, data, at) ==
    /\ e \in Seq(Octet)
    /\ \A o \in outcomes :
         /\ at + Len(e) <= Len(data) => o.ok
         /\ o.ok => o.at = at + Len(e) /\ (o.value = v \/ o.at = Len(data) + 1)

LEMMA CompactReads ==
    ASSUME NEW v \in Octets8, NEW data \in Seq(Octet), NEW at \in Nat, Carries(data, at, encode_compact(v))
    PROVE  ReadsAs(decode_compact(data, at), v, encode_compact(v), data, at)
  <1>1. CASE \E n, mode : Narrow(v, n, mode)
    <2>1. PICK n, mode : Narrow(v, n, mode)
      BY <1>1
    <2>2. /\ encode_compact(v) \in Seq(Octet) /\ Len(encode_compact(v)) = n
          /\ decode_compact(data, at) = {IF at + n <= Len(data) THEN Read(TRUE, v, at + n) ELSE Unreadable(at)}
      BY <2>1, NarrowReads
    <2> QED BY <2>2 DEF ReadsAs, Read, Unreadable
  <1>2. CASE \E needed : Big(v, needed)
    <2>1. PICK needed : Big(v, needed)
      BY <1>2
    <2>2. /\ encode_compact(v) \in Seq(Octet) /\ Len(encode_compact(v)) = needed + 1
          /\ \A o \in decode_compact(data, at) :
               /\ at + needed + 1 <= Len(data) => o.ok
               /\ o.ok => o.at = at + needed + 1 /\ (o.value = v \/ o.at = Len(data) + 1)
      BY <2>1, BigReads
    <2>3. needed \in 4..8
      BY <2>1 DEF Big
    <2>4. at + (needed + 1) = at + needed + 1
      BY <2>3
    <2> QED BY <2>2, <2>4 DEF ReadsAs
  <1> QED BY <1>1, <1>2, CompactModes

(* Three bytes of a length, and the length of three bytes.                 *)
LEMMA TwoBytes == ASSUME NEW a \in 0..255, NEW b \in 0..255 PROVE 256 * b + a < 65536
  OBVIOUS
LEMMA ThreeBytes == ASSUME NEW a \in Nat, NEW b \in Nat, NEW z \in Nat PROVE 256 * (256 * z + b) + a = 65536 * z + (256 * b + a) 
  OBVIOUS
LEMMA ThirdByte == ASSUME NEW r \in Nat, r < 65536, NEW z \in Nat PROVE (65536 * z + r) \div 65536 = z
  OBVIOUS
TakenFrom(n, a, b, c) == a = n % 256 /\ b = (n \div 256) % 256 /\ c = (n \div 65536) % 256
MakeUp(n, a, b, c) == a \in 0..255 /\ b \in 0..255 /\ c \in 0..255 /\ a + 256 * b + 65536 * c = n

LEMMA ThreeBytesMakeUp ==
    ASSUME NEW n \in Nat, n < TooLong, NEW a, NEW b, NEW c, TakenFrom(n, a, b, c)
    PROVE  MakeUp(n, a, b, c)
  <1> DEFINE x == n \div 256
             z == x \div 256
  <1>1. x \in Nat /\ a \in 0..255 /\ n = 256 * x + a
    BY DEF TakenFrom
  <1>2. c \in 0..255
    BY DEF TakenFrom
  <1>3. b = x % 256
    BY DEF TakenFrom
  <1> HIDE DEF x
  <1>4. z \in Nat /\ b \in 0..255 /\ x = 256 * z + b
    BY <1>1, <1>3
  <1> HIDE DEF z
  <1>5. n = 256 * (256 * z + b) + a
    BY ONLY <1>1, <1>4
  <1>a. a \in Nat /\ b \in Nat
    BY ONLY <1>1, <1>4
  <1>6. n = 65536 * z + (256 * b + a)
    <2>1. 256 * (256 * z + b) + a = 65536 * z + (256 * b + a)
      BY ONLY <1>4, <1>a, ThreeBytes
    <2> QED BY ONLY <1>5, <2>1
  <1> DEFINE r == 256 * b + a
  <1>7. r \in Nat
    BY ONLY <1>a
  <1>b. r < 65536
    BY ONLY <1>1, <1>4, TwoBytes
  <1> HIDE DEF r
  <1>8. n = 65536 * z + r
    BY ONLY <1>6 DEF r
  <1>9. n \div 65536 = z
    <2>1. (65536 * z + r) \div 65536 = z
      BY ONLY <1>4, <1>7, <1>b, ThirdByte
    <2> QED BY ONLY <1>8, <2>1
  <1>10. z < 256
    <2>1. n < 16777216
      BY DEF TooLong
    <2> QED BY ONLY <1>4, <1>7, <1>8, <2>1
  <1>11. z % 256 = z
    BY ONLY <1>4, <1>10
  <1>12. c = z
    BY ONLY <1>9, <1>11, TakenFrom(n, a, b, c) DEF TakenFrom
  <1>13. a + 256 * b + 65536 * z = n
    BY ONLY <1>a, <1>4, <1>6
  <1> QED BY ONLY <1>1, <1>2, <1>4, <1>12, <1>13 DEF MakeUp

(* The length of a vector, in 8 bytes and back.                            *)
LEMMA LengthBytesOf ==
    ASSUME NEW n \in Nat, n < TooLong
    PROVE  /\ U64(n) \in Octets8 /\ Value(U64(n)) = n /\ Short(U64(n))
           /\ \A needed : ~ Big(U64(n), needed)
  <1> DEFINE a == n % 256
             b == (n \div 256) % 256
             c == (n \div 65536) % 256
  <1>0. TakenFrom(n, a, b, c)
    BY DEF TakenFrom
  <1> HIDE DEF a, b, c
  <1>w. MakeUp(n, a, b, c)
    BY <1>0, ThreeBytesMakeUp
  <1>1. a \in 0..255 /\ b \in 0..255 /\ c \in 0..255 /\ a + 256 * b + 65536 * c = n
    BY ONLY <1>w DEF MakeUp
  <1>2. a + 256 * b + 65536 * c = n
    BY ONLY <1>1
  <1>3. U64(n) = <<a, b, c, 0, 0, 0, 0, 0>>
    BY <1>0 DEF U64, TakenFrom
  <1> DEFINE u == <<a, b, c, 0, 0, 0, 0, 0>>
  <1>4. u \in Octets8
    BY <1>1 DEF Octets8, Octet
  <1>5. u[1] = a /\ u[2] = b /\ u[3] = c /\ \A i \in 4..8 : u[i] = 0
    OBVIOUS
  <1> HIDE DEF u
  <1>6. Zeros(u, 4) /\ Zeros(u, 5) /\ u[4] < 64
    BY <1>5 DEF Zeros
  <1>7. Value(u) = n /\ Short(u) /\ \A needed : ~ Big(u, needed)
    BY <1>2, <1>5, <1>6 DEF Value, Short, Big
  <1> QED BY <1>3, <1>4, <1>7 DEF u

IsField(f) ==
    \/ f.kind \in {"compact", "fixed"} /\ f.value \in Octets8
    \/ f.kind = "bytes" /\ f.value \in Seq(Octet) /\ Len(f.value) < TooLong

LEMMA SplitCarries ==
    ASSUME NEW data \in Seq(Octet), NEW at \in Nat, NEW a \in Seq(Octet), NEW b \in Seq(Octet), Carries(data, at, a \o b)
    PROVE  Carries(data, at, a) /\ Carries(data, at + Len(a), b)
  <1>1. Len(a) \in Nat /\ Len(b) \in Nat /\ Len(a \o b) = Len(a) + Len(b)
        /\ (\A i \in 1..Len(a) : (a \o b)[i] = a[i]) /\ \A i \in 1..Len(b) : (a \o b)[Len(a) + i] = b[i]
    <2>1. Len(a) \in Nat /\ Len(b) \in Nat /\ Len(a \o b) = Len(a) + Len(b)
      OBVIOUS
    <2>2. \A i \in 1..Len(a) : (a \o b)[i] = a[i]
      BY SMTT(30)
    <2>3. \A i \in 1..Len(b) : (a \o b)[Len(a) + i] = b[i]
      BY SMTT(30)
    <2> QED BY <2>1, <2>2, <2>3
  <1>2. Carries(data, at, a)
    BY <1>1 DEF Carries
  <1>3. Carries(data, at + Len(a), b)
    <2> SUFFICES ASSUME NEW i \in 1..Len(b), (at + Len(a)) + i <= Len(data) PROVE data[(at + Len(a)) + i] = b[i]
      BY DEF Carries
    <2>1. Len(a) + i \in 1..Len(a \o b) /\ at + (Len(a) + i) = (at + Len(a)) + i
      BY <1>1
    <2> HIDE <1>1
    <2>2. data[at + (Len(a) + i)] = (a \o b)[Len(a) + i]
      BY <2>1 DEF Carries
    <2> QED BY <1>1, <2>1, <2>2
  <1> QED BY <1>2, <1>3

LEMMA BytesRead ==
    ASSUME NEW b \in Seq(Octet), Len(b) < TooLong, NEW data \in Seq(Octet), NEW at \in Nat,
           Carries(data, at, EncodedField("bytes", b))
    PROVE  ReadsAs(decode_bytes(data, at), b, EncodedField("bytes", b), data, at)
  <1> DEFINE n == Len(b)
             u == U64(n)
             head == encode_compact(u)
             e == head \o b
  <1>1. n \in Nat /\ u \in Octets8 /\ Value(u) = n /\ Short(u) /\ \A needed : ~ Big(u, needed)
    BY LengthBytesOf
  <1>2. EncodedField("bytes", b) = e
    BY DEF EncodedField
  <1>3. PICK m, mode : Narrow(u, m, mode)
    BY <1>1, CompactModes
  <1>4. m \in {1, 2, 4}
    BY <1>3 DEF Narrow
  <1> HIDE DEF u
  <1>a. Carries(<< >>, 0, head) /\ << >> \in Seq(Octet)
    BY DEF Carries
  <1>5. head \in Seq(Octet) /\ Len(head) = m
    BY <1>1, <1>3, <1>a, NarrowReads
  <1> HIDE DEF head
  <1>6. e \in Seq(Octet) /\ Len(e) = m + n
    BY <1>5 DEF n
  <1>7. Carries(data, at, head) /\ Carries(data, at + m, b)
    <2>1. Carries(data, at, head \o b)
      BY <1>2
    <2>2. Carries(data, at, head) /\ Carries(data, at + Len(head), b)
      BY <1>5, <2>1, SplitCarries
    <2> QED BY <1>5, <2>2
  <1> HIDE DEF e, n
  <1>9. decode_compact(data, at) = {IF at + m <= Len(data) THEN Read(TRUE, u, at + m) ELSE Unreadable(at)}
    BY <1>1, <1>3, <1>7, NarrowReads DEF head
  <1>10. CASE ~ (at + m <= Len(data))
    <2>1. decode_bytes(data, at) = {Unreadable(at)}
      BY <1>9, <1>10 DEF decode_bytes, Unreadable, Read
    <2>2. ~ (at + Len(e) <= Len(data))
      BY <1>1, <1>4, <1>6, <1>10
    <2> QED BY <1>2, <1>6, <2>1, <2>2 DEF ReadsAs, Unreadable, Read
  <1>11. CASE at + m <= Len(data)
    <2>1. decode_compact(data, at) = {Read(TRUE, u, at + m)}
      BY <1>9, <1>11
    <2>2. decode_bytes(data, at) = {decode_raw(data, at + m, n)}
      BY <1>1, <2>1 DEF decode_bytes, Read
    <2>3. decode_raw(data, at + m, n) =
            IF at + m + n <= Len(data) THEN Read(TRUE, b, at + m + n) ELSE Unreadable(at + m)
      <3>1. at + m \in Nat
        BY <1>4
      <3> QED BY <1>7, <3>1, RawReads DEF n
    <2>4. at + Len(e) = at + m + n
      BY <1>1, <1>4, <1>6
    <2> QED BY <1>2, <1>6, <2>2, <2>3, <2>4 DEF ReadsAs, Unreadable, Read
  <1> QED BY <1>10, <1>11

LEMMA FieldReads ==
    ASSUME NEW f, IsField(f), NEW data \in Seq(Octet), NEW at \in Nat, Carries(data, at, EncodedField(f.kind, f.value))
    PROVE  ReadsAs(Decoded(f.kind, Len(f.value), data, at), f.value, EncodedField(f.kind, f.value), data, at)
  <1>1. CASE f.kind = "compact" /\ f.value \in Octets8
    BY <1>1, CompactReads DEF EncodedField, Decoded
  <1>2. CASE f.kind = "fixed" /\ f.value \in Octets8
    <2>1. f.value \in Seq(Octet) /\ EncodedField(f.kind, f.value) = f.value
      BY <1>2, FunctionIsSeq DEF Octets8, EncodedField
    <2>2. Decoded(f.kind, Len(f.value), data, at) = {decode_raw(data, at, Len(f.value))}
      BY <1>2 DEF Decoded
    <2>3. decode_raw(data, at, Len(f.value)) =
            IF at + Len(f.value) <= Len(data) THEN Read(TRUE, f.value, at + Len(f.value)) ELSE Unreadable(at)
      BY <2>1, RawReads
    <2> QED BY <2>1, <2>2, <2>3 DEF ReadsAs, Read, Unreadable
  <1>3. CASE f.kind = "bytes" /\ f.value \in Seq(Octet) /\ Len(f.value) < TooLong
    <2>1. Carries(data, at, EncodedField("bytes", f.value))
      BY <1>3
    <2>2. ReadsAs(decode_bytes(data, at), f.value, EncodedField("bytes", f.value), data, at)
      BY <1>3, <2>1, BytesRead
    <2>3. Decoded(f.kind, Len(f.value), data, at) = decode_bytes(data, at)
      BY <1>3 DEF Decoded
    <2> QED BY <1>3, <2>2, <2>3
  <1> QED BY <1>1, <1>2, <1>3 DEF IsField

(* Where the fields of a message begin and end: ends[i] is the number of   *)
(* bytes of the first i.  The decoder is always at such a place.           *)
Fields == [kind : {"compact", "fixed"}, value : Octets8]
          \cup [kind : {"bytes"}, value : {b \in Seq(Octet) : Len(b) < TooLong}]
Bytes(f) == EncodedField(f.kind, f.value)
Laid(ends, fs, data, lost) ==
    /\ ends \in [0..Len(fs) -> Nat] /\ ends[0] = 0
    /\ \A i \in 1..Len(fs) : ends[i] = ends[i - 1] + Len(Bytes(fs[i])) /\ Carries(data, ends[i - 1], Bytes(fs[i]))
    /\ \A i \in 0..Len(fs) : ends[i] <= Len(data) + lost
    /\ Len(data) + lost = ends[Len(fs)]
AtEnd(ends, d) == d.ok => d.at = ends[d.field]

ScaleInv ==
    /\ fields \in Seq(Fields) /\ buffer \in Seq(Octet) /\ cut \in Nat
    /\ decoder.field \in 0..Len(fields)
    /\ \E ends : Laid(ends, fields, buffer, cut) /\ AtEnd(ends, decoder)
    /\ cut = 0 => decoder.ok
    /\ decoder.field > 0 /\ decoder.ok => decoder.value = fields[decoder.field].value \/ decoder.at = Len(buffer) + 1

LEMMA ScaleInitial == ScaleInit => ScaleInv
  <1> SUFFICES ASSUME ScaleInit PROVE ScaleInv
    OBVIOUS
  <1> USE DEF ScaleInit, Start
  <1>1. Laid([i \in {0} |-> 0], fields, buffer, cut) /\ AtEnd([i \in {0} |-> 0], decoder)
    BY DEF Laid, AtEnd
  <1>2. fields \in Seq(Fields) /\ buffer \in Seq(Octet)
    OBVIOUS
  <1> QED BY <1>1, <1>2 DEF ScaleInv

LEMMA FieldsAre ==
    ASSUME NEW f \in Fields
    PROVE  IsField(f) /\ Bytes(f) \in Seq(Octet)
  <1>1. IsField(f)
    BY DEF Fields, IsField
  <1>2. Carries(<< >>, 0, Bytes(f)) /\ << >> \in Seq(Octet)
    BY DEF Carries
  <1>3. ReadsAs(Decoded(f.kind, Len(f.value), << >>, 0), f.value, Bytes(f), << >>, 0)
    BY <1>1, <1>2, FieldReads DEF Bytes
  <1> QED BY <1>1, <1>3 DEF ReadsAs

LEMMA EncodeKeeps ==
    ASSUME ScaleInv, NEW f \in Fields, Encode(f.kind, f.value)
    PROVE  ScaleInv'
  <1> DEFINE n == Len(fields)
             e == Bytes(f)
  <1>1. PICK ends : Laid(ends, fields, buffer, cut) /\ AtEnd(ends, decoder)
    BY DEF ScaleInv
  <1>2. /\ cut = 0 /\ cut' = 0 /\ decoder = Start /\ decoder' = Start
        /\ fields' = Append(fields, f) /\ buffer' = buffer \o e
    <2>1. f = [kind |-> f.kind, value |-> f.value]
      BY DEF Fields
    <2> QED BY <2>1 DEF Encode, Bytes
  <1>3. e \in Seq(Octet) /\ fields \in Seq(Fields) /\ buffer \in Seq(Octet)
    BY FieldsAre DEF ScaleInv
  <1> HIDE DEF e
  <1>4. /\ fields' \in Seq(Fields) /\ Len(fields') = n + 1 /\ fields'[n + 1] = f /\ \A i \in 1..n : fields'[i] = fields[i]
        /\ buffer' \in Seq(Octet) /\ Len(buffer') = Len(buffer) + Len(e)
        /\ \A i \in 1..Len(buffer) : buffer'[i] = buffer[i]
        /\ \A i \in 1..Len(e) : buffer'[Len(buffer) + i] = e[i]
    BY <1>2, <1>3
  <1>5. n \in Nat /\ Len(buffer) \in Nat /\ Len(e) \in Nat
    BY <1>3
  <1>6. Len(buffer) = ends[n] /\ \A i \in 0..n : ends[i] \in Nat /\ ends[i] <= Len(buffer)
    BY <1>1, <1>2, <1>5 DEF Laid
  <1> DEFINE new == [i \in 0..(n + 1) |-> IF i <= n THEN ends[i] ELSE Len(buffer')]
  <1>7. new \in [0..(n + 1) -> Nat] /\ new[n + 1] = Len(buffer') /\ \A i \in 0..n : new[i] = ends[i]
    BY <1>4, <1>5, <1>6
  <1> HIDE DEF new
  <1>8. ASSUME NEW i \in 1..(n + 1)
        PROVE  new[i] = new[i - 1] + Len(Bytes(fields'[i])) /\ Carries(buffer', new[i - 1], Bytes(fields'[i]))
    <2>1. CASE i \in 1..n
      <3>1. new[i] = ends[i] /\ new[i - 1] = ends[i - 1] /\ fields'[i] = fields[i]
        BY <1>4, <1>5, <1>7, <2>1
      <3>2. ends[i] = ends[i - 1] + Len(Bytes(fields[i])) /\ Carries(buffer, ends[i - 1], Bytes(fields[i]))
        BY <1>1, <2>1 DEF Laid
      <3>3. Bytes(fields[i]) \in Seq(Octet)
        BY <1>3, <2>1, FieldsAre
      <3>4. Carries(buffer', ends[i - 1], Bytes(fields[i]))
        <4> SUFFICES ASSUME NEW j \in 1..Len(Bytes(fields[i])) PROVE buffer'[ends[i - 1] + j] = Bytes(fields[i])[j]
          BY DEF Carries
        <4>1. ends[i - 1] + j \in 1..Len(buffer)
          BY <1>5, <1>6, <2>1, <3>2, <3>3, SMTT(40)
        <4>2. buffer[ends[i - 1] + j] = Bytes(fields[i])[j]
          BY <3>2, <4>1 DEF Carries
        <4> QED BY <1>4, <4>1, <4>2
      <3> QED BY <3>1, <3>2, <3>4
    <2>2. CASE i = n + 1
      <3>1. new[i - 1] = Len(buffer) /\ fields'[i] = f /\ new[i] = Len(buffer) + Len(e)
        BY <1>4, <1>5, <1>6, <1>7, <2>2
      <3>2. Carries(buffer', Len(buffer), e)
        BY <1>4 DEF Carries
      <3> QED BY <3>1, <3>2 DEF e
    <2> QED BY <1>5, <2>1, <2>2
  <1>9. Laid(new, fields', buffer', cut') /\ AtEnd(new, decoder')
    <2>1. \A i \in 0..(n + 1) : new[i] <= Len(buffer') + cut'
      <3> SUFFICES ASSUME NEW i \in 0..(n + 1) PROVE new[i] <= Len(buffer') + cut'
        OBVIOUS
      <3>1. CASE i \in 0..n
        <4>1. new[i] = ends[i] /\ ends[i] <= Len(buffer) /\ ends[i] \in Nat
          BY <1>6, <1>7, <3>1
        <4> QED BY <1>2, <1>4, <1>5, <4>1
      <3>2. CASE i = n + 1
        BY <1>2, <1>4, <1>5, <1>7, <3>2
      <3> QED BY <1>5, <3>1, <3>2
    <2>2. new[0] = 0
      BY <1>1, <1>5, <1>7 DEF Laid
    <2>3. Len(buffer') + cut' = new[n + 1]
      BY <1>2, <1>4, <1>5, <1>7
    <2>4. decoder'.at = new[decoder'.field]
      BY <1>2, <2>2 DEF Start
    <2> QED BY <1>4, <1>7, <1>8, <2>1, <2>2, <2>3, <2>4 DEF Laid, AtEnd
  <1>10. \E w : Laid(w, fields', buffer', cut') /\ AtEnd(w, decoder')
    BY ONLY <1>9
  <1> QED BY <1>2, <1>4, <1>5, <1>10 DEF ScaleInv, Start

LEMMA TruncateKeeps ==
    ASSUME ScaleInv, NEW n \in Nat, Truncate(n)
    PROVE  ScaleInv'
  <1>1. PICK ends : Laid(ends, fields, buffer, cut) /\ AtEnd(ends, decoder)
    BY DEF ScaleInv
  <1>2. /\ cut = 0 /\ cut' = n /\ n \in 1..Len(buffer) /\ decoder = Start /\ decoder' = Start /\ fields' = fields
        /\ buffer' = SubSeq(buffer, 1, Len(buffer) - n) /\ buffer \in Seq(Octet) /\ fields \in Seq(Fields)
    BY DEF Truncate, ScaleInv
  <1>3. buffer' \in Seq(Octet) /\ Len(buffer') = Len(buffer) - n /\ \A i \in 1..Len(buffer') : buffer'[i] = buffer[i]
    BY <1>2
  <1>4. Laid(ends, fields', buffer', cut') /\ AtEnd(ends, decoder')
    <2>1. Len(buffer') + cut' = Len(buffer) + cut /\ Len(buffer') <= Len(buffer)
      BY <1>2, <1>3
    <2>2. ASSUME NEW i \in 1..Len(fields) PROVE Carries(buffer', ends[i - 1], Bytes(fields[i]))
      <3>1. Bytes(fields[i]) \in Seq(Octet) /\ Carries(buffer, ends[i - 1], Bytes(fields[i])) /\ ends[i - 1] \in Nat
        <4>1. fields[i] \in Fields
          BY <1>2
        <4>2. i - 1 \in 0..Len(fields)
          BY <1>2
        <4> QED BY <1>1, <4>1, <4>2, FieldsAre DEF Laid
      <3> SUFFICES ASSUME NEW j \in 1..Len(Bytes(fields[i])), ends[i - 1] + j <= Len(buffer')
                   PROVE  buffer'[ends[i - 1] + j] = Bytes(fields[i])[j]
        BY DEF Carries
      <3>2. ends[i - 1] + j \in 1..Len(buffer') /\ ends[i - 1] + j <= Len(buffer)
        BY <1>2, <1>3, <3>1, SMTT(40)
      <3> QED BY <1>3, <3>1, <3>2 DEF Carries
    <2> QED BY <1>1, <1>2, <2>1, <2>2 DEF Laid, AtEnd, Start
  <1>5. \E w : Laid(w, fields', buffer', cut') /\ AtEnd(w, decoder')
    BY <1>4
  <1> QED BY <1>2, <1>3, <1>5 DEF ScaleInv, Start

LEMMA DecodeKeeps ==
    ASSUME ScaleInv, NEW o, Decode(o)
    PROVE  ScaleInv'
  <1> DEFINE k == decoder.field + 1
             f == fields[k]
  <1>1. PICK ends : Laid(ends, fields, buffer, cut) /\ AtEnd(ends, decoder)
    BY DEF ScaleInv
  <1>2. /\ decoder.ok /\ k \in 1..Len(fields) /\ k - 1 = decoder.field /\ f \in Fields
        /\ UNCHANGED <<fields, buffer, cut>> /\ buffer \in Seq(Octet) /\ cut \in Nat
    BY DEF Decode, ScaleInv
  <1>3. o \in Decoded(f.kind, Len(f.value), buffer, decoder.at)
        /\ decoder' = [at |-> o.at, field |-> k, ok |-> o.ok, value |-> o.value]
    BY DEF Decode
  <1> HIDE DEF k
  <1>4. /\ decoder.at = ends[k - 1] /\ ends[k - 1] \in Nat /\ ends[k] = ends[k - 1] + Len(Bytes(f))
        /\ Carries(buffer, ends[k - 1], Bytes(f)) /\ ends[k] <= Len(buffer) + cut
    BY <1>1, <1>2 DEF Laid, AtEnd
  <1> HIDE DEF f
  <1>5. IsField(f)
    BY <1>2, FieldsAre
  <1>6. ReadsAs(Decoded(f.kind, Len(f.value), buffer, decoder.at), f.value, Bytes(f), buffer, decoder.at)
    BY <1>2, <1>4, <1>5, FieldReads DEF Bytes
  <1>7. /\ decoder.at + Len(Bytes(f)) <= Len(buffer) => o.ok
        /\ o.ok => o.at = decoder.at + Len(Bytes(f)) /\ (o.value = f.value \/ o.at = Len(buffer) + 1)
    BY <1>3, <1>6 DEF ReadsAs
  <1>8. o.ok => o.at = ends[k]
    BY <1>4, <1>7
  <1>9. decoder'.at = o.at /\ decoder'.field = k /\ (decoder'.ok <=> o.ok) /\ decoder'.value = o.value
    BY <1>3, Zenon
  <1>10. Laid(ends, fields', buffer', cut') /\ AtEnd(ends, decoder')
    BY <1>1, <1>2, <1>8, <1>9 DEF AtEnd
  <1>11. \E w : Laid(w, fields', buffer', cut') /\ AtEnd(w, decoder')
    BY <1>10
  <1>12. cut' = 0 => decoder'.ok
    BY <1>2, <1>4, <1>7, <1>9
  <1>13. decoder'.ok => decoder'.value = fields'[decoder'.field].value \/ decoder'.at = Len(buffer') + 1
    BY <1>2, <1>7, <1>9 DEF f
  <1> QED BY <1>2, <1>9, <1>11, <1>12, <1>13 DEF ScaleInv

LEMMA ScaleStep ==
    ASSUME ScaleInv, CodecFieldsNext \/ ExtrinsicNext \/ UNCHANGED scaleVars
    PROVE  ScaleInv'
  <1>1. CASE UNCHANGED <<fields, buffer, cut, decoder>>
    <2>1. fields' = fields /\ buffer' = buffer /\ cut' = cut /\ decoder' = decoder
      BY <1>1
    <2> QED BY <2>1 DEF ScaleInv
  <1>2. ASSUME NEW v \in Numbers, NEW k \in {"compact", "fixed"}, Encode(k, v) PROVE ScaleInv'
    <2> DEFINE f == [kind |-> k, value |-> v]
    <2>1. f \in Fields /\ f.kind = k /\ f.value = v
      BY ScaleAssumption DEF Fields, Octets8, Octet
    <2> HIDE DEF f
    <2>2. Encode(f.kind, f.value)
      BY <1>2, <2>1
    <2> QED BY <2>1, <2>2, EncodeKeeps
  <1>3. ASSUME NEW b \in Blobs, Encode("bytes", b) PROVE ScaleInv'
    <2> DEFINE f == [kind |-> "bytes", value |-> b]
    <2>0. b \in Seq(Octet) /\ Len(b) < TooLong
      <3>1. b \in Seq(Octet) /\ Len(b) + 64 < TooLong
        BY ScaleAssumption DEF Octet
      <3>2. Len(b) \in Nat /\ TooLong \in Nat
        BY <3>1 DEF TooLong
      <3> QED BY ONLY <3>1, <3>2, SMT
    <2>1. f \in Fields /\ f.kind = "bytes" /\ f.value = b
      BY <2>0 DEF Fields
    <2> HIDE DEF f
    <2>2. Encode(f.kind, f.value)
      BY <1>3, <2>1
    <2> QED BY <2>1, <2>2, EncodeKeeps
  <1>4. CASE CodecFieldsNext
    BY <1>2, <1>3, <1>4, TruncateKeeps, DecodeKeeps DEF CodecFieldsNext
  <1>5. CASE ExtrinsicNext
    BY <1>1, <1>5 DEF ExtrinsicNext, BuildSigned, BuildUnsigned
  <1>6. CASE UNCHANGED scaleVars
    BY <1>1, <1>6 DEF scaleVars
  <1> QED BY <1>4, <1>5, <1>6

LEMMA ScaleInvSays == ScaleInv => ScaleReadsBack
  BY DEF ScaleInv, ScaleReadsBack

(* Division with remainder, for any divisor.                               *)
Divided(a, p, k, r) == a = p * k + r /\ k \in Nat /\ r \in 0..(p - 1)

LEMMA DivisionUnique ==
    ASSUME NEW p \in Nat \ {0}, NEW k, NEW r, NEW a, Divided(a, p, k, r)
    PROVE  a \div p = k /\ a % p = r
  <1> DEFINE d == a \div p
  <1>0. a = p * k + r /\ k \in Nat /\ r \in 0..(p - 1)
    BY DEF Divided
  <1>1. a \in Nat /\ d \in Int
    BY <1>0
  <1>2. a = p * d + (a % p) /\ a % p \in 0..(p - 1)
    BY <1>1
  <1> HIDE DEF d
  <1>3. d <= k
    <2> SUFFICES ASSUME d >= k + 1 PROVE FALSE
      BY <1>0, <1>1
    <2>1. p * d >= p * (k + 1)
      BY <1>0, <1>1
    <2> QED BY <1>0, <1>1, <1>2, <2>1
  <1>4. d >= k
    <2> SUFFICES ASSUME d <= k - 1 PROVE FALSE
      BY <1>0, <1>1
    <2>1. p * d <= p * (k - 1)
      BY <1>0, <1>1
    <2> QED BY <1>0, <1>1, <1>2, <2>1
  <1>5. d = k
    BY <1>0, <1>1, <1>3, <1>4
  <1> QED BY <1>0, <1>1, <1>2, <1>5 DEF d

LEMMA DivisionExists ==
    ASSUME NEW a \in Nat, NEW p \in Nat \ {0}
    PROVE  Divided(a, p, a \div p, a % p)
  BY DEF Divided

Fits(e, period) == (Powers[e] >= period \/ e = 16) /\ \A y \in 2..(e - 1) : Powers[y] < period
Exponent(period) == CHOOSE e \in 2..16 : Fits(e, period)
QuantumOf(p) == IF p > 4096 THEN p \div 4096 ELSE 1
Quantum(e) == QuantumOf(Powers[e])
EraPhases == 0..4095
Phase(block, e) == (block % Powers[e]) \div Quantum(e)

Quantised(p, q) ==
    /\ p \in Nat \ {0} /\ q \in Nat \ {0}
    /\ p > 4096 => p = 4096 * q
    /\ ~ (p > 4096) => q = 1

LEMMA PowersAre ==
    ASSUME NEW e \in 2..16
    PROVE  Quantised(Powers[e], Quantum(e))
  <1>1. Powers[e] \in Nat \ {0} /\ (Powers[e] > 4096 => \E q \in {2, 4, 8, 16} : Powers[e] = 4096 * q)
    BY DEF Powers
  <1> QED BY <1>1 DEF Quantum, QuantumOf, Quantised

LEMMA ExponentExists ==
    ASSUME NEW period \in Nat
    PROVE  Exponent(period) \in 2..16
  <1> DEFINE S == {e \in 2..16 : Powers[e] >= period \/ e = 16}
  <1>1. \E e \in S : \A y \in S : e <= y
    <2> DEFINE m == IF 2 \in S THEN 2 ELSE IF 3 \in S THEN 3 ELSE IF 4 \in S THEN 4 ELSE IF 5 \in S THEN 5
                    ELSE IF 6 \in S THEN 6 ELSE IF 7 \in S THEN 7 ELSE IF 8 \in S THEN 8 ELSE IF 9 \in S THEN 9
                    ELSE IF 10 \in S THEN 10 ELSE IF 11 \in S THEN 11 ELSE IF 12 \in S THEN 12 ELSE IF 13 \in S THEN 13
                    ELSE IF 14 \in S THEN 14 ELSE IF 15 \in S THEN 15 ELSE 16
    <2>1. 16 \in S /\ \A y \in S : y \in 2..16
      OBVIOUS
    <2> HIDE DEF S
    <2>2. m \in S
      BY <2>1
    <2>3. \A y \in S : m <= y
      BY <2>1
    <2> QED BY <2>2, <2>3
  <1>2. PICK e \in S : \A y \in S : e <= y
    BY <1>1
  <1>3. \A y \in 2..(e - 1) : Powers[y] < period
    <2> SUFFICES ASSUME NEW y \in 2..(e - 1) PROVE Powers[y] < period
      OBVIOUS
    <2>1. y \in 2..16 /\ ~ (e <= y)
      BY <1>2
    <2>2. ~ (Powers[y] >= period)
      BY <1>2, <2>1
    <2> QED BY <2>1, <2>2, PowersAre DEF Quantised
  <1>4. e \in 2..16 /\ Fits(e, period)
    BY <1>2, <1>3 DEF Fits
  <1> QED BY <1>4 DEF Exponent

(* The phase fits 12 bits, and is less than one quantum short.             *)
Phased(e, block, f, r) ==
    /\ f \in EraPhases /\ f * Quantum(e) <= r /\ r - f * Quantum(e) < Quantum(e) /\ r \in Nat /\ r < Powers[e]
    /\ Divided(block, Powers[e], block \div Powers[e], r)

LEMMA PhaseFacts ==
    ASSUME NEW e \in 2..16, NEW block \in Nat
    PROVE  Phased(e, block, Phase(block, e), block % Powers[e])
  <1> DEFINE p == Powers[e]
             q == Quantum(e)
             r == block % p
             f == Phase(block, e)
  <1>1. p \in Nat \ {0} /\ q \in Nat \ {0} /\ (p > 4096 => p = 4096 * q) /\ (~ (p > 4096) => q = 1)
    BY PowersAre DEF Quantised
  <1>3. f = r \div q
    BY DEF Phase
  <1> HIDE DEF p, q, f
  <1>2. Divided(block, p, block \div p, r)
    BY <1>1, DivisionExists
  <1> HIDE DEF r
  <1>a. r \in Nat /\ r < p
    BY <1>1, <1>2 DEF Divided
  <1>b. Divided(r, q, f, r % q)
    BY <1>1, <1>3, <1>a, DivisionExists
  <1>4. r = q * f + (r % q) /\ r % q \in 0..(q - 1) /\ f \in Nat
    BY <1>b DEF Divided
  <1>5. f <= 4095
    <2>1. CASE p > 4096
      <3> SUFFICES ASSUME f >= 4096 PROVE FALSE
        BY <1>4
      <3>1. q * f >= q * 4096
        BY <1>1, <1>4
      <3> QED BY <1>1, <1>a, <1>4, <2>1, <3>1
    <2>2. CASE ~ (p > 4096)
      BY <1>1, <1>a, <1>4, <2>2
    <2> QED BY <2>1, <2>2
  <1>6. f * q = q * f
    BY <1>1, <1>4
  <1>7. f * q <= r /\ r - f * q < q
    BY <1>1, <1>a, <1>4, <1>6
  <1>8. f \in EraPhases
    BY <1>4, <1>5 DEF EraPhases
  <1> QED BY <1>2, <1>a, <1>7, <1>8 DEF p, q, r, f, Phased

Coded(c, x, y) ==
    c % 16 = x /\ c \div 16 = y /\ c % 256 # 0 /\ c % 256 \in Octet /\ c \div 256 \in Octet

LEMMA CodeFacts ==
    ASSUME NEW x \in 1..15, NEW y \in EraPhases
    PROVE  Coded(x + 16 * y, x, y)
  <1> DEFINE c == x + 16 * y
  <1>1. Divided(c, 16, y, x)
    BY DEF Divided, EraPhases
  <1>2. c % 16 = x /\ c \div 16 = y
    BY <1>1, DivisionUnique
  <1>3. c \in Nat /\ c < 256 * 256
    BY DEF EraPhases
  <1> HIDE DEF c
  <1>4. c % 256 # 0
    <2>1. (c % 256) % 16 = c % 16
      BY <1>3
    <2> QED BY <1>2, <2>1
  <1>5. c % 256 \in Octet /\ c \div 256 \in Octet
    BY <1>3 DEF Octet
  <1>6. Coded(c, x, y)
    BY <1>2, <1>4, <1>5 DEF Coded
  <1> QED BY <1>6 DEF c

LEMMA EraEncoded ==
    ASSUME NEW block, NEW period
    PROVE  LET e == Exponent(period)
               f == Phase(block, e)
           IN  encode_era_mortal(block, period) = <<((e - 1) + 16 * (IF f > 4095 THEN 4095 ELSE f)) % 256,
                                                    ((e - 1) + 16 * (IF f > 4095 THEN 4095 ELSE f)) \div 256>>
  BY SMTT(60) DEF encode_era_mortal, Exponent, Fits, Phase, Quantum, QuantumOf

LEMMA EraReads ==
    ASSUME NEW block \in Nat, NEW period \in Nat, NEW data \in Seq(Octet), NEW at \in Nat,
           Carries(data, at, encode_era_mortal(block, period)), at + 2 <= Len(data)
    PROVE  LET era == NodeEra(data, at) birth == Birth(era, block) IN
           /\ era.mortal /\ era.at = at + 2
           /\ birth <= block /\ (block - birth) * 4096 < (IF era.period > 4096 THEN era.period ELSE 4096)
  <1> DEFINE e == Exponent(period)
             f == Phase(block, e)
             code == (e - 1) + 16 * f
             p == Powers[e]
             q == Quantum(e)
             k == block \div p
             r == block % p
             birth == Birth([mortal |-> TRUE, period |-> p, phase |-> f * q, at |-> at + 2], block)
  <1>1. e \in 2..16
    BY ExponentExists
  <1>2. encode_era_mortal(block, period) = <<((e - 1) + 16 * (IF f > 4095 THEN 4095 ELSE f)) % 256,
                                             ((e - 1) + 16 * (IF f > 4095 THEN 4095 ELSE f)) \div 256>>
    BY EraEncoded
  <1> HIDE DEF e
  <1>a. Phased(e, block, f, r)
    BY <1>1, PhaseFacts
  <1>3. f \in EraPhases /\ f * q <= r /\ r - f * q < q /\ r < p /\ r \in Nat /\ k \in Nat /\ Divided(block, p, k, r)
    BY <1>a DEF Phased, Divided
  <1>b. block = p * k + r
    BY <1>3 DEF Divided
  <1>4. p \in Nat \ {0} /\ q \in Nat \ {0} /\ (p > 4096 => p = 4096 * q) /\ (~ (p > 4096) => q = 1)
    <2>1. Quantised(Powers[e], Quantum(e))
      BY <1>1, PowersAre
    <2> QED BY <2>1 DEF Quantised
  <1> HIDE DEF f, q, p, k, r
  <1>5. encode_era_mortal(block, period) = <<code % 256, code \div 256>>
    BY <1>2, <1>3 DEF EraPhases
  <1>6. code \in Nat /\ code % 256 # 0 /\ code % 16 = e - 1 /\ code \div 16 = f
    <2>1. e - 1 \in 1..15
      BY <1>1
    <2>2. f \in EraPhases
      BY <1>3
    <2>3. code \in Nat
      BY ONLY <2>1, <2>2, SMTT(30) DEF EraPhases
    <2> HIDE DEF f
    <2>4. code % 256 # 0 /\ code % 16 = e - 1 /\ code \div 16 = f
      <3>1. Coded((e - 1) + 16 * f, e - 1, f)
        BY ONLY <2>1, <2>2, CodeFacts, Zenon
      <3> QED BY <3>1 DEF Coded
    <2> QED BY <2>3, <2>4
  <1> HIDE DEF code
  <1>7. data[at + 1] = code % 256 /\ data[at + 2] = code \div 256
    BY <1>5 DEF Carries
  <1>8. data[at + 1] + 256 * data[at + 2] = code /\ data[at + 1] # 0
    BY <1>6, <1>7
  <1>9. NodeEra(data, at) = [mortal |-> TRUE, period |-> p, phase |-> f * q, at |-> at + 2]
    <2>1. NodeEra(data, at) = [mortal |-> TRUE, period |-> Powers[(code % 16) + 1],
               phase |-> (code \div 16) * QuantumOf(Powers[(code % 16) + 1]), at |-> at + 2]
      <3> DEFINE c == data[at + 1] + 256 * data[at + 2]
      <3>1. NodeEra(data, at) = [mortal |-> TRUE, period |-> Powers[(c % 16) + 1],
               phase |-> (c \div 16) * QuantumOf(Powers[(c % 16) + 1]), at |-> at + 2]
        BY ONLY <1>8 DEF NodeEra, QuantumOf
      <3>2. c = code
        BY <1>8
      <3> HIDE DEF c
      <3> QED BY ONLY <3>1, <3>2
    <2>2. (code % 16) + 1 = e
      BY <1>1, <1>6
    <2>3. NodeEra(data, at) = [mortal |-> TRUE, period |-> Powers[e],
               phase |-> f * QuantumOf(Powers[e]), at |-> at + 2]
      <3>1. Powers[(code % 16) + 1] = Powers[e] /\ code \div 16 = f
        BY <1>6, <2>2
      <3> QED BY ONLY <2>1, <3>1, Zenon
    <2> QED BY <2>3 DEF p, q, Quantum
  <1>10. birth = p * k + f * q
    <2> DEFINE ph == f * q
    <2>1. ph \in Nat /\ ph <= block /\ r - ph \in 0..(p - 1)
      <3>1. ph \in Nat /\ p * k \in Nat
        BY <1>3, <1>4 DEF EraPhases
      <3>2. ph <= r /\ r - ph < q /\ q <= p
        BY <1>3, <1>4 DEF EraPhases
      <3> HIDE DEF ph
      <3> QED BY <1>3, <1>4, <1>b, <3>1, <3>2
    <2>2. birth = (((IF block > ph THEN block ELSE ph) - ph) \div p) * p + ph
      BY DEF Birth
    <2> HIDE DEF ph, birth
    <2>3. (IF block > ph THEN block ELSE ph) = block
      BY <2>1
    <2>4. block - ph = p * k + (r - ph)
      <3>1. p * k \in Nat
        BY <1>3, <1>4 DEF EraPhases
      <3> QED BY <1>3, <1>b, <2>1, <3>1
    <2>7. Divided(block - ph, p, k, r - ph)
      BY <1>3, <2>1, <2>4 DEF Divided
    <2>5. (block - ph) \div p = k
      BY <1>4, <2>7, DivisionUnique
    <2>6. birth = k * p + ph
      BY <2>2, <2>3, <2>5
    <2> QED BY <1>3, <1>4, <2>6 DEF ph, EraPhases
  <1>11. p * k \in Nat /\ f * q \in Nat
    BY <1>3, <1>4 DEF EraPhases
  <1> HIDE DEF birth
  <1>12. birth <= block /\ block - birth = r - f * q /\ r - f * q \in Nat
    <2> DEFINE x == p * k
               y == f * q
    <2>1. x \in Nat /\ y \in Nat /\ birth = x + y /\ block = x + r /\ y <= r /\ r \in Nat
      BY <1>3, <1>b, <1>10, <1>11
    <2> HIDE DEF x, y
    <2>2. birth <= block /\ block - birth = r - y /\ r - y \in Nat
      BY <2>1
    <2> QED BY <2>2 DEF y
  <1>13. (r - f * q) * 4096 < (IF p > 4096 THEN p ELSE 4096)
    <2> DEFINE x == r - f * q
    <2>1. x \in Nat /\ x < q
      BY <1>3, <1>12
    <2> HIDE DEF x
    <2>2. CASE p > 4096
      BY <1>4, <2>1, <2>2 DEF x
    <2>3. CASE ~ (p > 4096)
      BY <1>4, <2>1, <2>3 DEF x
    <2> QED BY <2>2, <2>3
  <1> QED BY <1>9, <1>12, <1>13 DEF birth

(* A decoder's answer: this value, and on from there.                      *)
IsRead(o, v, next) == o.value = v /\ o.at = next

LEMMA OnlyCompact ==
    ASSUME NEW v \in Octets8, NEW data \in Seq(Octet), NEW at \in Nat,
           Carries(data, at, encode_compact(v)), at + Len(encode_compact(v)) <= Len(data)
    PROVE  IsRead(Only(decode_compact(data, at)), v, at + Len(encode_compact(v)))
  <1> DEFINE S == decode_compact(data, at)
             e == encode_compact(v)
  <1>1. ReadsAs(S, v, e, data, at)
    BY CompactReads
  <1>2. S # {}
    BY DEF decode_compact
  <1> HIDE DEF S
  <1>3. Only(S) \in S
    BY <1>2 DEF Only
  <1> HIDE DEF e
  <1>4. \A o \in S : o.at = at + Len(e) /\ (o.value = v \/ o.at = Len(data) + 1) /\ Len(e) \in Nat
    BY <1>1 DEF ReadsAs, e
  <1>5. \A o \in S : IsRead(o, v, at + Len(e))
    BY <1>4 DEF IsRead, e
  <1> QED BY <1>3, <1>5 DEF S, e

LEMMA Joined ==
    ASSUME NEW a \in Seq(Octet), NEW b \in Seq(Octet)
    PROVE  a \o b \in Seq(Octet) /\ Len(a \o b) = Len(a) + Len(b) /\ Len(a) \in Nat /\ Len(b) \in Nat
  OBVIOUS

Regrouped(a, b, c) == a \o (b \o c) = (a \o b) \o c

LEMMA Associative ==
    ASSUME NEW a \in Seq(Octet), NEW b \in Seq(Octet), NEW c \in Seq(Octet)
    PROVE  Regrouped(a, b, c)
  BY DEF Regrouped

LEMMA CompactLength ==
    ASSUME NEW v \in Octets8
    PROVE  encode_compact(v) \in Seq(Octet) /\ Len(encode_compact(v)) \in 1..9
  <1>1. Carries(<< >>, 0, encode_compact(v)) /\ << >> \in Seq(Octet)
    BY DEF Carries
  <1>2. CASE \E n, mode : Narrow(v, n, mode)
    <2>1. PICK n, mode : Narrow(v, n, mode)
      BY <1>2
    <2>2. encode_compact(v) \in Seq(Octet) /\ Len(encode_compact(v)) = n
      BY <1>1, <2>1, NarrowReads
    <2>3. n \in {1, 2, 4}
      BY <2>1 DEF Narrow
    <2> QED BY <2>2, <2>3
  <1>3. CASE \E needed : Big(v, needed)
    <2>1. PICK needed : Big(v, needed)
      BY <1>3
    <2>2. encode_compact(v) \in Seq(Octet) /\ Len(encode_compact(v)) = needed + 1
      BY <1>1, <2>1, BigReads
    <2> QED BY <2>1, <2>2 DEF Big
  <1> QED BY <1>2, <1>3, CompactModes

(* The era in front of the rest of the extra data.                         *)
EraBytes(p) == IF p.mortal THEN encode_era_mortal(p.era_block, p.era_period) ELSE <<0>>

EraRight(era, p, next) ==
    /\ era.mortal = p.mortal /\ era.at = next
    /\ p.mortal => AnchoredAt(era, p.era_block)

LEMMA EraLength ==
    ASSUME NEW p \in Params
    PROVE  EraBytes(p) \in Seq(Octet) /\ Len(EraBytes(p)) \in 1..2
  <1>1. p.era_block \in Nat /\ p.era_period \in Nat /\ p.mortal \in BOOLEAN
    BY ScaleAssumption DEF Params
  <1>2. CASE p.mortal
    <2> DEFINE e == Exponent(p.era_period)
               f == Phase(p.era_block, e)
    <2>1. e \in 2..16
      BY <1>1, ExponentExists
    <2>2. EraBytes(p) = <<((e - 1) + 16 * (IF f > 4095 THEN 4095 ELSE f)) % 256,
                          ((e - 1) + 16 * (IF f > 4095 THEN 4095 ELSE f)) \div 256>>
      BY <1>2, EraEncoded DEF EraBytes
    <2> HIDE DEF e
    <2>3. Phased(e, p.era_block, f, p.era_block % Powers[e])
      BY <1>1, <2>1, PhaseFacts
    <2> HIDE DEF f
    <2>4. f \in EraPhases
      BY <2>3 DEF Phased
    <2>5. e - 1 \in 1..15
      BY <2>1
    <2>6. Coded((e - 1) + 16 * f, e - 1, f)
      BY ONLY <2>4, <2>5, CodeFacts, Zenon
    <2> DEFINE c == (e - 1) + 16 * f
    <2>7. c % 256 \in Octet /\ c \div 256 \in Octet
      BY <2>6 DEF Coded
    <2>8. EraBytes(p) = <<c % 256, c \div 256>>
      BY <2>2, <2>4 DEF EraPhases
    <2> HIDE DEF c
    <2> QED BY <2>7, <2>8
  <1>3. CASE ~ p.mortal
    <2>1. EraBytes(p) = <<0>>
      BY <1>3 DEF EraBytes
    <2> QED BY <2>1 DEF Octet
  <1> QED BY <1>2, <1>3

LEMMA EraRead ==
    ASSUME NEW p \in Params, NEW data \in Seq(Octet), NEW at \in Nat,
           Carries(data, at, EraBytes(p)), at + Len(EraBytes(p)) <= Len(data)
    PROVE  EraRight(NodeEra(data, at), p, at + Len(EraBytes(p)))
  <1>1. p.era_block \in Nat /\ p.era_period \in Nat /\ p.mortal \in BOOLEAN
    BY ScaleAssumption DEF Params
  <1>2. CASE p.mortal
    <2>a. EraBytes(p) = encode_era_mortal(p.era_block, p.era_period)
      BY <1>2 DEF EraBytes
    <2>b. Len(encode_era_mortal(p.era_block, p.era_period)) = 2
      BY DEF encode_era_mortal
    <2>1. EraBytes(p) = encode_era_mortal(p.era_block, p.era_period) /\ Len(EraBytes(p)) = 2
      BY <2>a, <2>b
    <2> DEFINE era == NodeEra(data, at)
               birth == Birth(era, p.era_block)
    <2>2. /\ era.mortal /\ era.at = at + 2
          /\ birth <= p.era_block /\ (p.era_block - birth) * 4096 < (IF era.period > 4096 THEN era.period ELSE 4096)
      BY <1>1, <2>1, EraReads
    <2> QED BY <1>2, <2>1, <2>2 DEF EraRight, AnchoredAt
  <1>3. CASE ~ p.mortal
    <2>1. EraBytes(p) = <<0>> /\ Len(EraBytes(p)) = 1
      BY <1>3 DEF EraBytes
    <2>2. data[at + 1] = 0
      BY <2>1 DEF Carries
    <2>3. NodeEra(data, at) = [mortal |-> FALSE, period |-> 0, phase |-> 0, at |-> at + 1]
      BY <2>2 DEF NodeEra
    <2>4. NodeEra(data, at).mortal = FALSE /\ NodeEra(data, at).at = at + 1
      BY <2>3
    <2>5. p.mortal = FALSE
      BY <1>1, <1>3
    <2> QED BY <2>1, <2>4, <2>5 DEF EraRight
  <1> QED BY <1>2, <1>3

LEMMA ExtraFacts ==
    ASSUME NEW p \in Params
    PROVE  /\ p.nonce \in Octets8 /\ p.tip \in Octets8
           /\ encode_extra(p) = (EraBytes(p) \o encode_compact(p.nonce)) \o encode_compact(p.tip)
           /\ encode_extra(p) \in Seq(Octet) /\ Len(encode_extra(p)) \in 0..20
           /\ Len(encode_extra(p)) = (Len(EraBytes(p)) + Len(encode_compact(p.nonce))) + Len(encode_compact(p.tip))
  <1>1. p.nonce \in Octets8
    BY ScaleAssumption DEF Params, Octets8, Octet
  <1>2. p.tip \in Octets8
    <2>1. p.tip = U64(0)
      BY DEF Params
    <2>2. 0 \in Nat /\ 0 < TooLong
      BY DEF TooLong
    <2> QED BY <2>1, <2>2, LengthBytesOf
  <1>3. encode_extra(p) = (EraBytes(p) \o encode_compact(p.nonce)) \o encode_compact(p.tip)
    BY DEF encode_extra, EraBytes
  <1> DEFINE a == EraBytes(p)
             b == encode_compact(p.nonce)
             c == encode_compact(p.tip)
  <1>4. a \in Seq(Octet) /\ Len(a) \in 1..2 /\ b \in Seq(Octet) /\ Len(b) \in 1..9 /\ c \in Seq(Octet) /\ Len(c) \in 1..9
    BY <1>1, <1>2, EraLength, CompactLength
  <1> HIDE DEF a, b, c
  <1>5. (a \o b) \o c \in Seq(Octet) /\ Len((a \o b) \o c) = (Len(a) + Len(b)) + Len(c) /\ Len((a \o b) \o c) \in 0..20
    <2>1. a \o b \in Seq(Octet) /\ Len(a \o b) = Len(a) + Len(b)
      BY <1>4, Joined
    <2> DEFINE d == a \o b
    <2> HIDE DEF d
    <2>2. d \o c \in Seq(Octet) /\ Len(d \o c) = Len(d) + Len(c)
      BY <1>4, <2>1, Joined DEF d
    <2>3. Len(d \o c) = (Len(a) + Len(b)) + Len(c)
      BY <2>1, <2>2 DEF d
    <2>4. Len(d \o c) \in 0..20
      <3> DEFINE i == Len(a)
                 j == Len(b)
                 k == Len(c)
                 l == Len(d \o c)
      <3>1. i \in 1..2 /\ j \in 1..9 /\ k \in 1..9 /\ l = (i + j) + k
        BY <1>4, <2>3
      <3> HIDE DEF i, j, k, l
      <3>2. l \in 0..20
        BY ONLY <3>1
      <3> QED BY <3>2 DEF l
    <2> QED BY <2>2, <2>3, <2>4 DEF d
  <1> QED BY <1>1, <1>2, <1>3, <1>5 DEF a, b, c

LEMMA CallFacts ==
    ASSUME NEW call \in Calls
    PROVE  encode_call(call) \in Seq(Octet) /\ Len(encode_call(call)) + 40 < TooLong
  <1> DEFINE d == call.data
             n == Len(d)
             w == IF call.wrapped THEN EncodedField("bytes", d) ELSE d
  <1>1. d \in Seq(Octet) /\ n + 64 < TooLong /\ n \in Nat
    BY ScaleAssumption DEF Calls, Octet
  <1>2. call.index \in Seq(Octet) /\ Len(call.index) = 2
    <2>1. call.index \in {<<0, 0>>, <<5, 0>>}
      BY DEF Calls
    <2>2. CASE call.index = <<0, 0>>
      BY <2>2 DEF Octet
    <2>3. CASE call.index = <<5, 0>>
      BY <2>3 DEF Octet
    <2> QED BY <2>1, <2>2, <2>3
  <1>3. encode_call(call) = call.index \o w
    BY DEF encode_call
  <1>4. EncodedField("bytes", d) = encode_compact(U64(n)) \o d
    BY DEF EncodedField
  <1> HIDE DEF d
  <1>a. TooLong \in Nat
    BY DEF TooLong
  <1>b. n < TooLong
    BY <1>1, <1>a
  <1>5. U64(n) \in Octets8
    BY <1>1, <1>b, LengthBytesOf
  <1> DEFINE h == encode_compact(U64(n))
  <1>6. h \in Seq(Octet) /\ Len(h) \in 1..9
    BY <1>5, CompactLength
  <1> HIDE DEF h, n
  <1>7. h \o d \in Seq(Octet) /\ Len(h \o d) = Len(h) + n
    BY <1>1, <1>6 DEF n
  <1>8. w \in Seq(Octet) /\ Len(w) \in Nat /\ Len(w) <= n + 9
    <2>1. CASE call.wrapped
      <3>1. w = h \o d
        BY <1>4, <2>1 DEF h, n
      <3> HIDE DEF w
      <3>2. Len(h) \in 0..9
        BY <1>6
      <3> DEFINE i == Len(h)
                 l == Len(w)
      <3>3. i \in 0..9 /\ l = i + n /\ n \in Nat
        BY <1>1, <1>7, <3>1, <3>2
      <3> HIDE DEF i, l
      <3>4. l \in Nat /\ l <= n + 9
        BY ONLY <3>3
      <3> QED BY <1>7, <3>1, <3>4 DEF l
    <2>2. CASE ~ call.wrapped
      <3>1. w = d
        BY <2>2
      <3> HIDE DEF w
      <3> QED BY <1>1, <3>1 DEF n
    <2> QED BY <2>1, <2>2
  <1> HIDE DEF w
  <1>9. call.index \o w \in Seq(Octet) /\ Len(call.index \o w) = 2 + Len(w)
    BY <1>2, <1>8, Joined
  <1>10. (2 + Len(w)) + 40 < TooLong
    BY <1>1, <1>8, <1>a
  <1> QED BY <1>3, <1>9, <1>10

Head5 == (<<132>> \o <<0, Signer>>) \o <<0, SignatureByte>>
Envelope(call, p) == (((<<132>> \o <<0, Signer>>) \o <<0, SignatureByte>>) \o encode_extra(p)) \o encode_call(call)

LEMMA EnvelopeFacts ==
    ASSUME NEW call \in Calls, NEW p \in Params
    PROVE  /\ build_signed(call, p) = encode_compact(U64(Len(Envelope(call, p)))) \o Envelope(call, p)
           /\ Envelope(call, p) = (Head5 \o encode_extra(p)) \o encode_call(call)
           /\ Envelope(call, p) \in Seq(Octet) /\ Head5 \in Seq(Octet) /\ Len(Head5) = 5
           /\ Len(Envelope(call, p)) = (5 + Len(encode_extra(p))) + Len(encode_call(call))
           /\ Len(Envelope(call, p)) < TooLong
  <1> DEFINE x == encode_extra(p)
             c == encode_call(call)
             five == Head5
  <1>1. build_signed(call, p) = encode_compact(U64(Len(Envelope(call, p)))) \o Envelope(call, p)
    BY DEF build_signed, finalize_with_length, encode_multi_address_id, Envelope
  <1>2. x \in Seq(Octet) /\ Len(x) \in 0..20 /\ c \in Seq(Octet) /\ Len(c) \in Nat /\ Len(c) + 40 < TooLong
    BY ExtraFacts, CallFacts
  <1>4. Envelope(call, p) = (five \o x) \o c
    BY DEF Envelope, Head5
  <1>5. five \in Seq(Octet) /\ Len(five) = 5
    <2> DEFINE a == <<132>>
               b == <<0, Signer>>
               d == <<0, SignatureByte>>
    <2>1. a \in Seq(Octet) /\ Len(a) = 1 /\ b \in Seq(Octet) /\ Len(b) = 2 /\ d \in Seq(Octet) /\ Len(d) = 2
      BY DEF Octet, Signer, SignatureByte
    <2> HIDE DEF a, b, d
    <2>a. a \o b \in Seq(Octet) /\ Len(a \o b) = Len(a) + Len(b)
      BY <2>1, Joined
    <2>2. a \o b \in Seq(Octet) /\ Len(a \o b) = 3
      BY ONLY <2>1, <2>a
    <2> DEFINE f == a \o b
    <2> HIDE DEF f
    <2>b. f \in Seq(Octet) /\ Len(f) = 3
      BY <2>2 DEF f
    <2>c. f \o d \in Seq(Octet) /\ Len(f \o d) = Len(f) + Len(d)
      BY <2>1, <2>b, Joined
    <2>3. f \o d \in Seq(Octet) /\ Len(f \o d) = 5
      BY ONLY <2>1, <2>b, <2>c
    <2> QED BY <2>3 DEF a, b, d, f, Head5
  <1> HIDE DEF x, c, five
  <1>6. (five \o x) \o c \in Seq(Octet) /\ Len((five \o x) \o c) = (5 + Len(x)) + Len(c)
    <2>1. five \o x \in Seq(Octet) /\ Len(five \o x) = 5 + Len(x)
      BY <1>2, <1>5, Joined
    <2> DEFINE d == five \o x
    <2> HIDE DEF d
    <2>2. d \o c \in Seq(Octet) /\ Len(d \o c) = Len(d) + Len(c)
      BY <1>2, <2>1, Joined DEF d
    <2> QED BY <2>1, <2>2 DEF d
  <1>7. TooLong \in Nat
    BY DEF TooLong
  <1>8. (5 + Len(x)) + Len(c) < TooLong
    <2> DEFINE i == Len(x)
               j == Len(c)
    <2>1. i \in 0..20 /\ j \in Nat /\ j + 40 < TooLong /\ TooLong \in Nat
      BY <1>2, <1>7
    <2> HIDE DEF i, j
    <2>2. (5 + i) + j < TooLong
      BY <2>1
    <2> QED BY <2>2 DEF i, j
  <1> QED BY <1>1, <1>4, <1>5, <1>6, <1>8 DEF x, c, five

(* The payload a node arrives at is the one that was signed.               *)
SamePayload(c, x, v, g, w) == (c \o x) \o ((v \o <<g>>) \o <<w>>) = (((c \o x) \o v) \o <<g>>) \o <<w>>

LEMMA PayloadTheSame ==
    ASSUME NEW c \in Seq(Octet), NEW x \in Seq(Octet), NEW v \in Seq(Octet), NEW g \in Octet, NEW w \in Octet
    PROVE  SamePayload(c, x, v, g, w)
  <1> DEFINE a == c \o x
             y == <<g>>
             z == <<w>>
  <1>1. a \in Seq(Octet) /\ y \in Seq(Octet) /\ z \in Seq(Octet)
    OBVIOUS
  <1> HIDE DEF a, y, z
  <1>2. v \o y \in Seq(Octet)
    BY <1>1
  <1>a. Regrouped(a, v \o y, z) /\ Regrouped(a, v, y)
    BY <1>1, <1>2, Associative
  <1>3. a \o ((v \o y) \o z) = (a \o (v \o y)) \o z
    BY ONLY <1>a DEF Regrouped
  <1>4. a \o (v \o y) = (a \o v) \o y
    BY ONLY <1>a DEF Regrouped
  <1>5. a \o ((v \o y) \o z) = ((a \o v) \o y) \o z
    BY ONLY <1>3, <1>4
  <1> QED BY <1>5 DEF a, y, z, SamePayload

(* Where the parts of a signed extrinsic are: the length, five bytes, the  *)
(* era, nonce, tip and the call, the last three at q1, q2 and q3.          *)
Placed(b, call, p, q0, q1, q2, q3) ==
    /\ b \in Seq(Octet) /\ q0 \in Nat /\ q1 \in Nat /\ q2 \in Nat /\ q3 \in Nat
    /\ q1 = q0 + Len(EraBytes(p)) /\ q2 = q1 + Len(encode_compact(p.nonce)) /\ q3 = q2 + Len(encode_compact(p.tip))
    /\ q3 = q0 + Len(encode_extra(p)) /\ Len(b) = q3 + Len(encode_call(call))
    /\ q1 <= Len(b) /\ q2 <= Len(b) /\ q3 <= Len(b)
    /\ Carries(b, q0, EraBytes(p)) /\ Carries(b, q1, encode_compact(p.nonce)) /\ Carries(b, q2, encode_compact(p.tip))
    /\ Carries(b, q0, encode_extra(p)) /\ Carries(b, q3, encode_call(call))

LEMMA SignedPlaced ==
    ASSUME NEW call \in Calls, NEW p \in Params, NEW b, b = build_signed(call, p)
    PROVE  \E m, q1, q2, q3 :
              /\ m \in Nat /\ Placed(b, call, p, m + 5, q1, q2, q3)
              /\ IsRead(Only(decode_compact(b, 0)), U64(Len(b) - m), m) /\ Len(b) - m \in Nat /\ Len(b) - m < TooLong
  <1> DEFINE v == Envelope(call, p)
             n == Len(v)
             h == encode_compact(U64(n))
             m == Len(h)
             X == encode_extra(p)
             C == encode_call(call)
             E == EraBytes(p)
             N == encode_compact(p.nonce)
             T == encode_compact(p.tip)
             q0 == m + 5
             q1 == q0 + Len(E)
             q2 == q1 + Len(N)
             q3 == q2 + Len(T)
  <1>1. b = h \o v /\ v = (Head5 \o X) \o C /\ v \in Seq(Octet) /\ Head5 \in Seq(Octet) /\ Len(Head5) = 5
        /\ n = (5 + Len(X)) + Len(C) /\ n < TooLong
    BY EnvelopeFacts
  <1>2. X = (E \o N) \o T /\ X \in Seq(Octet) /\ Len(X) = (Len(E) + Len(N)) + Len(T) /\ p.nonce \in Octets8 /\ p.tip \in Octets8
    BY ExtraFacts
  <1>3. C \in Seq(Octet)
    BY CallFacts
  <1>4. E \in Seq(Octet) /\ N \in Seq(Octet) /\ T \in Seq(Octet)
    BY <1>2, EraLength, CompactLength
  <1> HIDE DEF v
  <1>5. n \in Nat /\ U64(n) \in Octets8
    BY <1>1, LengthBytesOf
  <1>6. h \in Seq(Octet)
    BY <1>5, CompactLength
  <1> HIDE DEF h, X, C, E, N, T, n
  <1>7. m \in Nat /\ Len(X) \in Nat /\ Len(C) \in Nat /\ Len(E) \in Nat /\ Len(N) \in Nat /\ Len(T) \in Nat
    BY <1>2, <1>3, <1>4, <1>6
  <1>8. b \in Seq(Octet) /\ Len(b) = m + n
    BY <1>1, <1>6, Joined DEF n
  <1> HIDE DEF m
  <1>9. q0 \in Nat /\ q1 \in Nat /\ q2 \in Nat /\ q3 \in Nat /\ q3 = q0 + Len(X) /\ Len(b) = q3 + Len(C)
        /\ q1 <= Len(b) /\ q2 <= Len(b) /\ q3 <= Len(b) /\ q0 <= Len(b) /\ m <= Len(b)
    BY <1>1, <1>2, <1>7, <1>8
  <1>10. Carries(b, 0, h) /\ Carries(b, m, v)
    <2>1. Carries(b, 0, h \o v)
      BY <1>1, <1>8 DEF Carries
    <2>2. Carries(b, 0, h) /\ Carries(b, 0 + Len(h), v)
      BY <1>1, <1>6, <1>8, <2>1, SplitCarries
    <2>3. 0 + Len(h) = m
      BY <1>7 DEF m
    <2> QED BY <2>2, <2>3
  <1>11. Carries(b, q3, C) /\ Carries(b, q0, X)
    <2>1. Head5 \o X \in Seq(Octet) /\ Len(Head5 \o X) = Len(Head5) + Len(X)
      BY <1>1, <1>2, Joined
    <2>2. Carries(b, m, (Head5 \o X) \o C)
      BY <1>1, <1>10
    <2>3. Carries(b, m, Head5 \o X) /\ Carries(b, m + Len(Head5 \o X), C)
      BY <1>3, <1>7, <1>8, <2>1, <2>2, SplitCarries
    <2>4. m + Len(Head5 \o X) = q3
      BY <1>1, <1>2, <1>7, <2>1
    <2>5. Carries(b, m + Len(Head5), X)
      BY <1>1, <1>2, <1>7, <1>8, <2>3, SplitCarries
    <2>6. m + Len(Head5) = q0
      BY <1>1
    <2> HIDE DEF q0, q3
    <2> QED BY <2>3, <2>4, <2>5, <2>6
  <1> HIDE DEF q0
  <1>12. Carries(b, q0, E) /\ Carries(b, q1, N) /\ Carries(b, q2, T)
    <2>1. E \o N \in Seq(Octet) /\ Len(E \o N) = Len(E) + Len(N)
      BY <1>4, Joined
    <2>2. Carries(b, q0, (E \o N) \o T)
      BY <1>2, <1>11
    <2>3. Carries(b, q0, E \o N) /\ Carries(b, q0 + Len(E \o N), T)
      BY <1>4, <1>8, <1>9, <2>1, <2>2, SplitCarries
    <2>4. q0 + Len(E \o N) = q2
      BY <1>7, <1>9, <2>1
    <2>5. Carries(b, q0, E) /\ Carries(b, q0 + Len(E), N)
      BY <1>4, <1>8, <1>9, <2>3, SplitCarries
    <2> HIDE DEF q2
    <2> QED BY <2>3, <2>4, <2>5
  <1> HIDE DEF q1, q2, q3
  <1>13. IsRead(Only(decode_compact(b, 0)), U64(n), m)
    <2>1. 0 + Len(h) = m /\ m <= Len(b) /\ 0 + Len(h) <= Len(b)
      BY <1>7, <1>9 DEF m
    <2>2. IsRead(Only(decode_compact(b, 0)), U64(n), 0 + Len(encode_compact(U64(n))))
      BY <1>5, <1>8, <1>10, <2>1, OnlyCompact DEF h
    <2> QED BY <2>1, <2>2 DEF h
  <1>14. Len(b) - m = n
    BY <1>5, <1>7, <1>8
  <1>15. Placed(b, call, p, q0, q1, q2, q3)
    <2>1. q1 = q0 + Len(E) /\ q2 = q1 + Len(N) /\ q3 = q2 + Len(T)
      BY DEF q1, q2, q3
    <2> QED BY <1>8, <1>9, <1>11, <1>12, <2>1 DEF Placed, X, C, E, N, T
  <1>16. Placed(b, call, p, m + 5, q1, q2, q3)
    BY <1>15 DEF q0
  <1>17. m \in Nat /\ n \in Nat /\ n < TooLong
    BY <1>1, <1>5, <1>7
  <1> QED BY <1>13, <1>14, <1>16, <1>17

LEMMA SignedReads ==
    ASSUME NEW call \in Calls, NEW p \in Params, NEW signed,
           signed = [bytes |-> build_signed(call, p), call |-> call, params |-> <<p>>, signed |-> build_signing_payload(call, p)]
    PROVE  ReadAsBuilt(signed)
  <1> DEFINE b == build_signed(call, p)
             X == encode_extra(p)
             C == encode_call(call)
             N == encode_compact(p.nonce)
             T == encode_compact(p.tip)
             length == Only(decode_compact(b, 0))
             era == NodeEra(b, length.at + 5)
             nonce == Only(decode_compact(b, era.at))
             tip == Only(decode_compact(b, nonce.at))
             rest == SubSeq(b, tip.at + 1, Len(b))
             middle == SubSeq(b, length.at + 6, tip.at)
             w == IF era.mortal THEN p.block_hash ELSE p.genesis_hash
             payload == rest \o middle \o p.versions \o <<p.genesis_hash>> \o <<w>>
  <1>1. PICK m, q1, q2, q3 :
              /\ m \in Nat /\ Placed(b, call, p, m + 5, q1, q2, q3)
              /\ IsRead(Only(decode_compact(b, 0)), U64(Len(b) - m), m) /\ Len(b) - m \in Nat /\ Len(b) - m < TooLong
    BY SignedPlaced
  <1>2. p.nonce \in Octets8 /\ p.tip \in Octets8 /\ X \in Seq(Octet) /\ C \in Seq(Octet)
    BY ExtraFacts, CallFacts
  <1> HIDE DEF b
  <1>3. /\ b \in Seq(Octet) /\ m + 5 \in Nat /\ q1 \in Nat /\ q2 \in Nat /\ q3 \in Nat
        /\ q1 = (m + 5) + Len(EraBytes(p)) /\ q2 = q1 + Len(N) /\ q3 = q2 + Len(T) /\ q3 = (m + 5) + Len(X) /\ Len(b) = q3 + Len(C)
        /\ q1 <= Len(b) /\ q2 <= Len(b) /\ q3 <= Len(b)
        /\ Carries(b, m + 5, EraBytes(p)) /\ Carries(b, q1, N) /\ Carries(b, q2, T)
        /\ Carries(b, m + 5, X) /\ Carries(b, q3, C)
    BY <1>1, Zenon DEF Placed
  <1>4. length.value = U64(Len(b) - m) /\ length.at = m
    BY <1>1 DEF IsRead
  <1>5. Value(length.value) = Len(b) - length.at
    BY <1>1, <1>4, LengthBytesOf
  <1> HIDE DEF length
  <1>6. EraRight(era, p, q1)
    BY <1>3, <1>4, EraRead
  <1> HIDE DEF era
  <1>7. era.at = q1 /\ era.mortal = p.mortal
    BY <1>6 DEF EraRight
  <1>8. nonce.value = p.nonce /\ nonce.at = q2
    <2>1. Carries(b, q1, encode_compact(p.nonce)) /\ q1 + Len(encode_compact(p.nonce)) <= Len(b)
      BY ONLY <1>3
    <2>2. IsRead(Only(decode_compact(b, q1)), p.nonce, q1 + Len(encode_compact(p.nonce)))
      BY <1>2, <1>3, <2>1, OnlyCompact
    <2>3. nonce = Only(decode_compact(b, q1))
      BY <1>7
    <2>4. q1 + Len(encode_compact(p.nonce)) = q2
      BY ONLY <1>3
    <2> HIDE DEF nonce
    <2> QED BY ONLY <2>2, <2>3, <2>4 DEF IsRead
  <1> HIDE DEF nonce
  <1>9. tip.value = p.tip /\ tip.at = q3
    <2>1. Carries(b, q2, encode_compact(p.tip)) /\ q2 + Len(encode_compact(p.tip)) <= Len(b)
      BY ONLY <1>3
    <2>2. IsRead(Only(decode_compact(b, q2)), p.tip, q2 + Len(encode_compact(p.tip)))
      BY <1>2, <1>3, <2>1, OnlyCompact
    <2>3. tip = Only(decode_compact(b, q2))
      BY <1>8
    <2>4. q2 + Len(encode_compact(p.tip)) = q3
      BY ONLY <1>3
    <2> HIDE DEF tip
    <2> QED BY ONLY <2>2, <2>3, <2>4 DEF IsRead
  <1> HIDE DEF tip, X, C
  <1>10. rest = C
    <2>0. q3 + Len(C) <= Len(b)
      BY ONLY <1>3
    <2>1. SubSeq(b, q3 + 1, q3 + Len(C)) = C
      BY <1>2, <1>3, <2>0, CarriedWhole
    <2>2. tip.at + 1 = q3 + 1 /\ Len(b) = q3 + Len(C)
      BY ONLY <1>3, <1>9
    <2> QED BY <2>1, <2>2
  <1>11. middle = X
    <2>1. SubSeq(b, (m + 5) + 1, (m + 5) + Len(X)) = X
      BY <1>2, <1>3, CarriedWhole
    <2>2. (m + 5) + 1 = length.at + 6
      BY <1>1, <1>4
    <2> QED BY <1>3, <1>9, <2>1, <2>2
  <1>12. p.versions \in Seq(Octet) /\ p.genesis_hash \in Octet /\ p.block_hash \in Octet /\ p.mortal \in BOOLEAN
    <2>1. p.versions = <<22, 1>> /\ p.genesis_hash = 1 /\ p.block_hash = 2 /\ p.mortal \in BOOLEAN
      BY DEF Params
    <2> QED BY <2>1 DEF Octet
  <1> HIDE DEF rest, middle
  <1>13. signed.signed[2] = payload
    <2> DEFINE u == IF p.mortal THEN p.block_hash ELSE p.genesis_hash
    <2>1. signed.signed[2] = (C \o X) \o ((p.versions \o <<p.genesis_hash>>) \o <<u>>)
      BY DEF build_signing_payload, encode_additional, X, C
    <2>2. u = w /\ u \in Octet
      BY <1>7, <1>12
    <2> HIDE DEF u, w
    <2>3. SamePayload(C, X, p.versions, p.genesis_hash, u)
      BY <1>2, <1>12, <2>2, PayloadTheSame
    <2> QED BY ONLY <1>10, <1>11, <2>1, <2>2, <2>3 DEF SamePayload, payload
  <1>14. p.mortal => AnchoredAt(era, p.era_block)
    BY <1>6 DEF EraRight
  <1>15. signed.params[1] = p /\ signed.bytes = b /\ signed.call = call
    BY DEF b
  <1> HIDE DEF payload
  <1>16. Recovered(signed, length, era, nonce, tip)
    <2>1. SubSeq(signed.bytes, tip.at + 1, Len(signed.bytes)) = encode_call(signed.call)
      BY <1>10, <1>15 DEF rest, C
    <2>2. signed.signed[2] = ((((SubSeq(signed.bytes, tip.at + 1, Len(signed.bytes)) \o SubSeq(signed.bytes, length.at + 6, tip.at)) \o signed.params[1].versions)
             \o <<signed.params[1].genesis_hash>>) \o <<IF era.mortal THEN signed.params[1].block_hash ELSE signed.params[1].genesis_hash>>)
      BY <1>13, <1>15 DEF payload, rest, middle
    <2>3. Value(length.value) = Len(signed.bytes) - length.at
      BY ONLY <1>5, <1>15
    <2>4. nonce.value = signed.params[1].nonce /\ tip.value = signed.params[1].tip /\ era.mortal = signed.params[1].mortal
      BY ONLY <1>7, <1>8, <1>9, <1>15, Zenon
    <2>5. signed.params[1].mortal => AnchoredAt(era, signed.params[1].era_block)
      BY ONLY <1>14, <1>15, Zenon
    <2> QED BY ONLY <2>1, <2>2, <2>3, <2>4, <2>5, Zenon DEF Recovered
  <1> QED BY <1>15, <1>16 DEF ReadAsBuilt, length, era, nonce, tip

LEMMA ExtrinsicStep ==
    ASSUME ExtrinsicsReadAsBuilt, CodecFieldsNext \/ ExtrinsicNext \/ UNCHANGED scaleVars
    PROVE  ExtrinsicsReadAsBuilt'
  <1>1. CASE UNCHANGED built
    BY <1>1 DEF ExtrinsicsReadAsBuilt
  <1>2. ASSUME NEW call \in Calls, BuildUnsigned(call) PROVE ExtrinsicsReadAsBuilt'
    BY <1>2 DEF BuildUnsigned, ExtrinsicsReadAsBuilt
  <1>3. ASSUME NEW call \in Calls, NEW p \in Params, BuildSigned(call, p) PROVE ExtrinsicsReadAsBuilt'
    <2>1. ReadAsBuilt(built')
      BY <1>3, SignedReads DEF BuildSigned
    <2> QED BY <2>1 DEF ExtrinsicsReadAsBuilt
  <1>4. CASE CodecFieldsNext
    BY <1>1, <1>4 DEF CodecFieldsNext, Encode, Truncate, Decode
  <1>5. CASE ExtrinsicNext
    BY <1>2, <1>3, <1>5 DEF ExtrinsicNext
  <1> QED BY <1>1, <1>4, <1>5 DEF scaleVars
-----------------------------------------------------------------------------
(* The edges together.  A step is a step of one part, the others stay.     *)
EdgeInv ==
    /\ WalletStoreInv /\ WalletObjectInv /\ PrivateInv /\ ArtifactInv
    /\ ServerInv /\ ClientInv /\ CoapInv /\ TransportsAgree
    /\ ScaleInv /\ ExtrinsicsReadAsBuilt

LEMMA EdgeInitial == Init => EdgeInv
  <1> SUFFICES ASSUME Init PROVE EdgeInv
    OBVIOUS
  <1>1. /\ ArtifactInit /\ WalletStoreInit /\ WalletInit /\ PrivateInit
        /\ GrpcServerInit /\ GrpcClientInit /\ CoapInit /\ EndpointInit /\ ScaleInit
    BY DEF Init
  <1>2. ExtrinsicsReadAsBuilt
    BY <1>1 DEF ScaleInit, NothingBuilt, ExtrinsicsReadAsBuilt
  <1> QED BY <1>1, <1>2, ArtifactInitial, WalletStoreInitial, WalletObjectInitial, PrivateInitial,
             ServerInitial, ClientInitial, CoapInitial, EndpointInitial, ScaleInitial DEF EdgeInv

LEMMA EdgeStep == EdgeInv /\ [Next]_edgeVars => EdgeInv'
  <1> SUFFICES ASSUME EdgeInv, [Next]_edgeVars PROVE EdgeInv'
    OBVIOUS
  <1>1. /\ ArtifactNext \/ UNCHANGED artifactVars
        /\ WalletStoreNext \/ UNCHANGED walletStoreVars
        /\ WalletNext \/ UNCHANGED walletVars
        /\ PrivateNext \/ UNCHANGED privateVars
        /\ GrpcServerNext \/ UNCHANGED grpcServerVars
        /\ GrpcClientNext \/ UNCHANGED grpcClientVars
        /\ CoapNext \/ UNCHANGED coapVars
        /\ EndpointNext \/ UNCHANGED endpointVars
        /\ CodecFieldsNext \/ ExtrinsicNext \/ UNCHANGED scaleVars
    BY DEF Next, edgeVars, storeVars, wireVars, encodingVars, ArtifactsNext, WalletFilesNext, WalletObjectNext, PrivateStateNext,
           ServerNext, ClientNext, PacketsNext, MessagesNext, UrlNext, AddressNext, ScaleNext
  <1> QED BY <1>1, ArtifactStep, WalletStoreStep, WalletObjectStep, PrivateStep,
             ServerStep, ClientStep, CoapStep, EndpointStep, ScaleStep, ExtrinsicStep DEF EdgeInv

LEMMA EdgeInvariant == Spec => []EdgeInv
  BY EdgeInitial, EdgeStep, PTL DEF Spec

(* FilesKept: whatever number of savers, of crashes and of cleanups that   *)
(* overtake a save, a wallet file or an artifact whose save succeeded is   *)
(* there, and what is loaded was once stored (wallet_manager.cpp,          *)
(* artifact_manager.cpp).                                                  *)
THEOREM FilesCorrect == Spec => []FilesKept
  <1>1. EdgeInv => FilesKept
    BY WalletStoreKeeps DEF EdgeInv, ArtifactInv, FilesKept
  <1> QED BY <1>1, EdgeInvariant, PTL

(* SecretsFaithful: for every set of seeds, passwords, secrets and         *)
(* contracts, a witness context carries what was last stored and synced    *)
(* (private_state.cpp), and the addresses of a wallet, created, restored,  *)
(* saved or loaded, come from the one seed it holds (wallet.cpp).          *)
THEOREM SecretsCorrect == Spec => []SecretsFaithful
  <1>1. EdgeInv => SecretsFaithful
    BY DEF EdgeInv, WalletObjectInv, PrivateInv, SecretsFaithful
  <1> QED BY <1>1, EdgeInvariant, PTL

(* AnswersTrue: for every number of handlers and calls and every height    *)
(* and retraction of the chain, what the gRPC server answers was so on the *)
(* chain it asked, and what the client returns is what it was sent or its  *)
(* documented default (grpc_server.cpp, grpc_client.cpp).                  *)
THEOREM AnswersCorrect == Spec => []AnswersTrue
  <1>1. EdgeInv => AnswersTrue
    BY DEF EdgeInv, ServerInv, ClientInv, AnswersTrue
  <1> QED BY <1>1, EdgeInvariant, PTL

(* StoppedMeansOver: for every number of handlers, items and observed      *)
(* resources, after shutdown() and cancel_subscriptions() return nothing   *)
(* of what they ended runs on, and every CoAP socket has its one owner     *)
(* (grpc_server.cpp:118-134, grpc_client.cpp:472-489, coap_client.cpp).    *)
THEOREM StoppedCorrect == Spec => []StoppedMeansOver
  <1>1. EdgeInv => StoppedMeansOver
    BY DEF EdgeInv, ServerInv, ClientInv, CoapInv, StoppedMeansOver
  <1> QED BY <1>1, EdgeInvariant, PTL

(* TransportsAgree: for URLs of any length and any ports, NetworkClient,   *)
(* HttpClient and CoapClient send to the same host, NetworkClient and      *)
(* HttpClient to the same port where both know the scheme, and joining a   *)
(* path to that of the base URL makes no double slash                      *)
(* (network_client.cpp, http_client.cpp, coap_client.cpp).                 *)
THEOREM TransportsCorrect == Spec => []TransportsAgree
  <1>1. EdgeInv => TransportsAgree
    BY DEF EdgeInv
  <1> QED BY <1>1, EdgeInvariant, PTL

(* ScaleReadsBack: for any numbers, any byte vectors shorter than 16 MB    *)
(* and any number of fields in any order, the decoder gets back what was   *)
(* encoded, field by field and in whatever mode each number was written;   *)
(* and of a message that lost its end it gets nothing else, except a big   *)
(* integer that lacks exactly its last byte (scale_codec.cpp).             *)
THEOREM ScaleCorrect == Spec => []ScaleReadsBack
  <1>1. EdgeInv => ScaleReadsBack
    BY ScaleInvSays DEF EdgeInv
  <1> QED BY <1>1, EdgeInvariant, PTL

(* ExtrinsicsReadAsBuilt: for any call data, nonce, block and period of    *)
(* the era, a node reads from a signed extrinsic the call, nonce and tip   *)
(* it was built from, arrives at the payload that was signed, and gets an  *)
(* era born less than one quantum before the block it was anchored at      *)
(* (extrinsic_builder.cpp).                                                *)
THEOREM ExtrinsicsCorrect == Spec => []ExtrinsicsReadAsBuilt
  <1>1. EdgeInv => ExtrinsicsReadAsBuilt
    BY DEF EdgeInv
  <1> QED BY <1>1, EdgeInvariant, PTL
=============================================================================
