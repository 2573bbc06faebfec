----------------------------- MODULE ScaleCodec -----------------------------
(***************************************************************************)
(* ScaleEncoder and ScaleDecoder (scale_codec.cpp) byte for byte, on       *)
(* messages that may arrive truncated, and the extrinsics ExtrinsicBuilder *)
(* (extrinsic_builder.cpp) puts together from them, as a node reads them.  *)
(* A 64-bit number is the sequence of its 8 bytes, lowest first.           *)
(***************************************************************************)
EXTENDS Naturals, Sequences

CONSTANTS
    Numbers,      \* 64-bit numbers to encode
    Blobs,        \* byte vectors to encode
    EraBlocks,    \* block numbers an era may be anchored at
    EraPeriods,   \* periods asked for
    MaxFields,    \* bound: fields of a message
    HashedAbove   \* payload length above which the payload is hashed (256)

TooLong == 256 * 256 * 256   \* 16 MB: lengths have three bytes here

ASSUME ScaleAssumption == /\ Numbers \subseteq [1..8 -> 0..255] /\ MaxFields \in Nat /\ HashedAbove \in Nat
                          /\ \A b \in Blobs : b \in Seq(0..255) /\ Len(b) + 64 < TooLong
                          /\ EraBlocks \subseteq Nat /\ EraPeriods \subseteq Nat

VARIABLES
    fields,     \* what was encoded, in order: [kind, value]
    buffer,     \* the encoder's bytes, then the decoder's
    cut,        \* bytes lost at the end of it
    decoder,     \* the decoder: [at, field, ok, value]
    built       \* the last extrinsic: [bytes, call, params, signed]

scaleVars == <<fields, buffer, cut, decoder, built>>

Biggest(S) == CHOOSE i \in S : \A j \in S : j <= i
Zeros(v, from) == \A i \in from..8 : v[i] = 0
U64(n) == <<n % 256, (n \div 256) % 256, (n \div 65536) % 256, 0, 0, 0, 0, 0>>   \* for lengths below TooLong
-----------------------------------------------------------------------------
(* (v << 2 | mode) in n bytes *)
Shifted(v, n, mode) == [i \in 1..n |-> ((v[i] * 4) % 256) + (IF i = 1 THEN mode ELSE v[i - 1] \div 64)]

(* Faulty variant: the two-byte mode is chosen one bit too late. *)
encode_compact_late(v) ==
    IF Zeros(v, 2) /\ v[1] < 128 THEN Shifted(v, 1, 0)
    ELSE IF Zeros(v, 3) /\ v[2] < 64 THEN Shifted(v, 2, 1)
    ELSE IF Zeros(v, 5) /\ v[4] < 64 THEN Shifted(v, 4, 2)
    ELSE LET needed == Biggest({4} \cup {i \in 1..8 : v[i] # 0})
         IN  <<(needed - 4) * 4 + 3>> \o SubSeq(v, 1, needed)

encode_compact(v) ==
    IF Zeros(v, 2) /\ v[1] < 64 THEN Shifted(v, 1, 0)
    ELSE IF Zeros(v, 3) /\ v[2] < 64 THEN Shifted(v, 2, 1)
    ELSE IF Zeros(v, 5) /\ v[4] < 64 THEN Shifted(v, 4, 2)
    ELSE LET needed == Biggest({4} \cup {i \in 1..8 : v[i] # 0})
         IN  <<(needed - 4) * 4 + 3>> \o SubSeq(v, 1, needed)

(* encode_u8() to encode_u128_le() and encode_raw() write bytes as they    *)
(* are; bytes and strings come behind their length, a bool is one byte.    *)
EncodedField(kind, v) ==
    IF kind = "compact" THEN encode_compact(v)
    ELSE IF kind = "bytes" THEN encode_compact(U64(Len(v))) \o v
    ELSE v

finalize_with_length(bytes) == encode_compact(U64(Len(bytes))) \o bytes
-----------------------------------------------------------------------------
(* ScaleDecoder on data at offset at: the set of possible outcomes.        *)
Read(ok, v, at) == [ok |-> ok, value |-> v, at |-> at]
Unreadable(at) == Read(FALSE, << >>, at)
check_remaining(data, at, needed) == at + needed <= Len(data)

Wide(bytes) == [i \in 1..8 |-> IF i <= Len(bytes) THEN bytes[i] ELSE 0]
Unshifted(bytes) == Wide([i \in 1..Len(bytes) |-> bytes[i] \div 4 + (IF i < Len(bytes) THEN (bytes[i + 1] % 4) * 64 ELSE 0)])

decode_raw(data, at, n) == IF check_remaining(data, at, n) THEN Read(TRUE, SubSeq(data, at + 1, at + n), at + n) ELSE Unreadable(at)

(* decode_compact().  In the big-integer mode the bytes are counted without*)
(* the prefix byte, so one that lacks its last byte passes the check; what *)
(* is read there is any byte.                                              *)
decode_compact(data, at) ==
    IF ~check_remaining(data, at, 1) THEN {Unreadable(at)}
    ELSE LET first == data[at + 1]
             mode == first % 4
             length == IF mode = 0 THEN 1 ELSE IF mode = 1 THEN 2 ELSE 4
             needed == first \div 4 + 4
         IN  IF mode < 3
             THEN {IF check_remaining(data, at, length)
                   THEN Read(TRUE, Unshifted(SubSeq(data, at + 1, at + length)), at + length) ELSE Unreadable(at)}
             ELSE IF ~check_remaining(data, at, needed) THEN {Unreadable(at)}
             ELSE {Read(TRUE, Wide([i \in 1..needed |-> IF at + 1 + i <= Len(data) THEN data[at + 1 + i] ELSE past]), at + 1 + needed)
                     : past \in {0, 255}}

(* decode_bytes(): a length past the end, or one that wraps, is refused.   *)
Short(v) == Zeros(v, 4)
Value(v) == v[1] + 256 * v[2] + 65536 * v[3]

decode_bytes(data, at) ==
    {IF ~len.ok \/ ~Short(len.value) THEN Unreadable(len.at) ELSE decode_raw(data, len.at, Value(len.value)) : len \in decode_compact(data, at)}

Decoded(kind, n, data, at) ==
    IF kind = "compact" THEN decode_compact(data, at)
    ELSE IF kind = "bytes" THEN decode_bytes(data, at)
    ELSE {decode_raw(data, at, n)}
-----------------------------------------------------------------------------
Start == [at |-> 0, field |-> 0, ok |-> TRUE, value |-> << >>]
NothingBuilt == [bytes |-> << >>, call |-> << >>, params |-> << >>, signed |-> << >>]

ScaleInit == fields = << >> /\ buffer = << >> /\ cut = 0 /\ decoder = Start /\ built = NothingBuilt

Encode(kind, v) ==
    /\ Len(fields) < MaxFields /\ cut = 0 /\ decoder = Start
    /\ fields' = Append(fields, [kind |-> kind, value |-> v])
    /\ buffer' = buffer \o EncodedField(kind, v)
    /\ UNCHANGED <<cut, decoder, built>>

(* External: the end of the message does not arrive.                       *)
Truncate(n) ==
    /\ cut = 0 /\ n \in 1..Len(buffer) /\ decoder = Start
    /\ cut' = n /\ buffer' = SubSeq(buffer, 1, Len(buffer) - n)
    /\ UNCHANGED <<fields, decoder, built>>

Decode(outcome) ==
    /\ decoder.field < Len(fields) /\ decoder.ok
    /\ LET f == fields[decoder.field + 1] IN outcome \in Decoded(f.kind, Len(f.value), buffer, decoder.at)
    /\ decoder' = [at |-> outcome.at, field |-> decoder.field + 1, ok |-> outcome.ok, value |-> outcome.value]
    /\ UNCHANGED <<fields, buffer, cut, built>>

Outcomes == IF decoder.field < Len(fields) /\ decoder.ok
            THEN LET f == fields[decoder.field + 1] IN Decoded(f.kind, Len(f.value), buffer, decoder.at) ELSE {}

CodecFieldsNext ==
    \/ \E v \in Numbers : Encode("compact", v) \/ Encode("fixed", v)
    \/ \E b \in Blobs : Encode("bytes", b)
    \/ \E n \in 1..3 : Truncate(n)
    \/ \E outcome \in Outcomes : Decode(outcome)
-----------------------------------------------------------------------------
(* encode_era_mortal(): the period is rounded up to a power of two between *)
(* 4 and 65536, the phase quantised to 12 bits.                            *)
Powers == <<2, 4, 8, 16, 32, 64, 128, 256, 512, 1024, 2048, 4096, 8192, 16384, 32768, 65536>>

(* Faulty variant: the phase is not quantised. *)
encode_era_mortal_unquantised(block, period) ==
    LET e == CHOOSE x \in 2..16 : (Powers[x] >= period \/ x = 16) /\ \A y \in 2..(x - 1) : Powers[y] < period
        phase == block % Powers[e]
        code == (e - 1) + 16 * (IF phase > 4095 THEN 4095 ELSE phase)
    IN  <<code % 256, code \div 256>>

encode_era_mortal(block, period) ==
    LET e == CHOOSE x \in 2..16 : (Powers[x] >= period \/ x = 16) /\ \A y \in 2..(x - 1) : Powers[y] < period
        quantize == IF Powers[e] > 4096 THEN Powers[e] \div 4096 ELSE 1
        phase == (block % Powers[e]) \div quantize
        code == (e - 1) + 16 * (IF phase > 4095 THEN 4095 ELSE phase)
    IN  <<code % 256, code \div 256>>

(* PalletCall, encode_call(), encode_extra(), encode_additional(): hashes  *)
(* are single bytes here.                                                  *)
encode_call(call) == call.index \o (IF call.wrapped THEN EncodedField("bytes", call.data) ELSE call.data)
encode_extra(p) == (IF p.mortal THEN encode_era_mortal(p.era_block, p.era_period) ELSE <<0>>) \o encode_compact(p.nonce) \o encode_compact(p.tip)

(* Faulty variant: the checkpoint of an immortal extrinsic is the block. *)
encode_additional_block(p) == p.versions \o <<p.genesis_hash>> \o <<p.block_hash>>

encode_additional(p) == p.versions \o <<p.genesis_hash>> \o <<IF p.mortal THEN p.block_hash ELSE p.genesis_hash>>

build_signing_payload(call, p) ==
    LET payload == encode_call(call) \o encode_extra(p) \o encode_additional(p)
    IN  IF Len(payload) > HashedAbove THEN <<"blake2b", payload>> ELSE <<"plain", payload>>

Signer == 7          \* the one byte that stands for a public key
SignatureByte == 9   \* and for a signature; what it signs is kept beside the bytes

encode_multi_address_id(account) == <<0, account>>

build_signed(call, p) ==
    finalize_with_length(<<132>> \o encode_multi_address_id(Signer) \o <<0, SignatureByte>> \o encode_extra(p) \o encode_call(call))
build_unsigned(call) == finalize_with_length(<<4>> \o encode_call(call))

(* Empty transaction bytes are refused by midnight_send_mn_transaction().  *)
Calls == {c \in [index : {<<0, 0>>, <<5, 0>>}, data : Blobs, wrapped : BOOLEAN] : c.index = <<5, 0>> => c.data # << >>}
Params == [mortal : BOOLEAN, era_block : EraBlocks, era_period : EraPeriods, nonce : Numbers, tip : {U64(0)},
           versions : {<<22, 1>>}, genesis_hash : {1}, block_hash : {2}]

BuildSigned(call, p) ==
    /\ built' = [bytes |-> build_signed(call, p), call |-> call, params |-> <<p>>, signed |-> build_signing_payload(call, p)]
    /\ UNCHANGED <<fields, buffer, cut, decoder>>
BuildUnsigned(call) ==
    /\ built' = [bytes |-> build_unsigned(call), call |-> call, params |-> << >>, signed |-> << >>]
    /\ UNCHANGED <<fields, buffer, cut, decoder>>

ExtrinsicNext ==
    /\ built = NothingBuilt
    /\ \E call \in Calls : BuildUnsigned(call) \/ \E p \in Params : BuildSigned(call, p)
-----------------------------------------------------------------------------
(* Everything that was encoded decodes to itself, field by field, whatever *)
(* mode each number takes.  When the end is missing, no field decodes to   *)
(* anything else, except a big integer that lacks exactly its last byte    *)
(* (scale_codec.cpp:319), after which nothing more can be read.            *)
ScaleReadsBack ==
    decoder.field > 0 =>
        LET f == fields[decoder.field] IN
        /\ cut = 0 => decoder.ok
        /\ decoder.ok => \/ decoder.value = f.value
                        \/ decoder.at = Len(buffer) + 1

(* External: how a node reads an extrinsic.                                *)
Only(S) == CHOOSE x \in S : TRUE
NodeEra(bytes, at) ==
    IF bytes[at + 1] = 0 THEN [mortal |-> FALSE, period |-> 0, phase |-> 0, at |-> at + 1]
    ELSE LET code == bytes[at + 1] + 256 * bytes[at + 2]
             period == Powers[(code % 16) + 1]
             quantize == IF period > 4096 THEN period \div 4096 ELSE 1
         IN  [mortal |-> TRUE, period |-> period, phase |-> (code \div 16) * quantize, at |-> at + 2]
Birth(era, now) == LET from == IF now > era.phase THEN now ELSE era.phase
                   IN  ((from - era.phase) \div era.period) * era.period + era.phase

(* Born at the block, or less than one quantum before it. *)
AnchoredAt(era, block) ==
    LET birth == Birth(era, block)
    IN  birth <= block /\ (block - birth) * 4096 < (IF era.period > 4096 THEN era.period ELSE 4096)

(* What a node makes of a signed extrinsic, and that it is what was built. *)
Recovered(signed, length, era, nonce, tip) ==
    LET p == signed.params[1]
        b == signed.bytes
        rest == SubSeq(b, tip.at + 1, Len(b))
        payload == rest \o SubSeq(b, length.at + 6, tip.at) \o p.versions
                     \o <<p.genesis_hash>> \o <<IF era.mortal THEN p.block_hash ELSE p.genesis_hash>>
    IN  /\ Value(length.value) = Len(b) - length.at
        /\ nonce.value = p.nonce /\ tip.value = p.tip
        /\ rest = encode_call(signed.call)
        /\ signed.signed[2] = payload
        /\ era.mortal = p.mortal
        /\ p.mortal => AnchoredAt(era, p.era_block)

ReadAsBuilt(signed) ==
    LET length == Only(decode_compact(signed.bytes, 0))
        era == NodeEra(signed.bytes, length.at + 5)
        nonce == Only(decode_compact(signed.bytes, era.at))
        tip == Only(decode_compact(signed.bytes, nonce.at))
    IN  Recovered(signed, length, era, nonce, tip)

(* A signed extrinsic gives the node the call, nonce and tip it was built  *)
(* from and nothing behind them; the node, which takes the checkpoint of   *)
(* an immortal extrinsic to be the genesis block, arrives at the payload   *)
(* that was signed; and a mortal era is born at the block it was anchored  *)
(* at, or less than one quantum before it.                                 *)
ExtrinsicsReadAsBuilt == built.params # << >> => ReadAsBuilt(built)
=============================================================================
