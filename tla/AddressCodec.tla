---------------------------- MODULE AddressCodec ----------------------------
(***************************************************************************)
(* Bech32m addresses, which the code has twice: wallet/bech32m.cpp, and    *)
(* util::bech32m with MidnightBlockchain::validate_address().  A register  *)
(* of the checksum is the set of its bits that are 1, so that exclusive or *)
(* is symmetric difference.  A human-readable part is a character for the  *)
(* kind and one for the network, the mainnet having none.                  *)
(***************************************************************************)
EXTENDS Naturals, Sequences, SequencesExt, FiniteSets

CONSTANTS
    AddressKeys,    \* keys to encode: sequences of KeySize bytes
    KeySize,        \* 32 in the code
    Networks,       \* character codes of the networks; Mainnet is one of them
    Deltas          \* bound: what a slip of the pen changes a character by

VARIABLES decoded   \* the last address given to both decoders and what they said

codecVars == <<decoded>>

Mainnet == 0
Kinds == {"addr", "shield-addr", "dust"}
KindChar(kind) == CASE kind = "addr" -> 97 [] kind = "shield-addr" -> 115 [] kind = "dust" -> 100
Underscore == 95
BadAddress == << >>

NothingDecoded == [kind |-> "addr", network |-> Mainnet, key |-> << >>, slip |-> "none", data |-> << >>, valid |-> FALSE]
CodecInit == decoded = NothingDecoded
-----------------------------------------------------------------------------
Bits(n, width) == {i \in 0..(width - 1) : (n \div 2^i) % 2 = 1}
WordValue(bits, low, width) == FoldLeft(LAMBDA acc, i : acc + IF low + i - 1 \in bits THEN 2^(i - 1) ELSE 0, 0, [i \in 1..width |-> i])
Xor(a, b) == (a \ b) \cup (b \ a)

Generator == [i \in 0..4 |-> Bits(<<996825010, 642813549, 513874426, 1027748829, 705979059>>[i + 1], 30)]
BECH32M_CONST == Bits(734539939, 30)

(* Faulty variant: the generator of the top bit is left out. *)
PolymodShort(values) ==
    FoldLeft(LAMBDA c, v : FoldLeft(LAMBDA acc, i : IF 25 + i \in c THEN Xor(acc, Generator[i]) ELSE acc,
                                    Xor({b + 5 : b \in {x \in c : x < 25}}, Bits(v, 5)), <<0, 1, 2>>),
             {0}, values)

polymod(values) ==
    FoldLeft(LAMBDA c, v : FoldLeft(LAMBDA acc, i : IF 25 + i \in c THEN Xor(acc, Generator[i]) ELSE acc,
                                    Xor({b + 5 : b \in {x \in c : x < 25}}, Bits(v, 5)), <<0, 1, 2, 3, 4>>),
             {0}, values)

expand_hrp(hrp) == [i \in 1..Len(hrp) |-> hrp[i] \div 32] \o <<0>> \o [i \in 1..Len(hrp) |-> hrp[i] % 32]

create_checksum(hrp, values) ==
    LET mod == Xor(polymod(expand_hrp(hrp) \o values \o <<0, 0, 0, 0, 0, 0>>), BECH32M_CONST)
    IN  [i \in 1..6 |-> WordValue(mod, 5 * (6 - i), 5)]

verify_checksum(hrp, values) == polymod(expand_hrp(hrp) \o values) = BECH32M_CONST

(* Regrouping: the bits of the input, most significant first, dealt out in *)
(* groups of another width; to_words() pads the last group with zeros and  *)
(* from_words() leaves off what does not fill a byte, whatever it is.      *)
Regroup(s, from, to, pad) ==
    LET n == Len(s) * from
        bit(k) == IF k > n THEN 0 ELSE (s[((k - 1) \div from) + 1] \div 2^(from - 1 - ((k - 1) % from))) % 2
        groups == IF pad THEN (n + to - 1) \div to ELSE n \div to
    IN  [g \in 1..groups |-> FoldLeft(LAMBDA acc, k : 2 * acc + bit((g - 1) * to + k), 0, [k \in 1..to |-> k])]

to_words(data) == Regroup(data, 8, 5, TRUE)
from_words(words) == Regroup(words, 5, 8, FALSE)

get_hrp(kind, network) ==
    IF network = Mainnet THEN <<KindChar(kind)>> ELSE <<KindChar(kind), Underscore, network>>

(* An address: its human-readable part, its words and how it is written.   *)
encode(hrp, data) ==
    LET values == to_words(data)
    IN  [hrp |-> hrp, words |-> values \o create_checksum(hrp, values), case |-> "lower"]

(* Faulty variant: a short string is looked at before it is measured. *)
DecodeUnchecked(a) == from_words(SubSeq(a.words, 1, Len(a.words) - 6))

decode(a) ==
    IF a.case = "mixed" \/ Len(a.words) < 6 \/ ~verify_checksum(a.hrp, a.words)
    THEN BadAddress
    ELSE from_words(SubSeq(a.words, 1, Len(a.words) - 6))

(* What the three kinds carry: one key, two keys, or a SCALE prefix whose  *)
(* low byte of (size - 4) * 4 + 3 goes with the key.                       *)
PayloadOf(kind, key) ==
    IF kind = "addr" THEN key
    ELSE IF kind = "shield-addr" THEN key \o Reverse(key)
    ELSE <<((KeySize + 60) * 4 + 3) % 256>> \o key

(* decode_unshielded(), decode_shielded(), decode_dust(): the kind is      *)
(* looked for at the front of the human-readable part, the network is not. *)
DecodeAs(kind, a) ==
    LET data == decode(a)
    IN  IF a.hrp[1] # KindChar(kind) THEN BadAddress
        ELSE IF kind = "dust" THEN IF Len(data) < KeySize + 1 THEN BadAddress ELSE Tail(data)
        ELSE IF Len(data) = KeySize * (IF kind = "addr" THEN 1 ELSE 2) THEN data ELSE BadAddress

(* bech32m_validate_address(): only a human-readable part with a network.  *)
ValidateAddress(a) ==
    /\ a.case # "mixed" /\ Len(a.words) >= 6
    /\ Len(a.hrp) > 1
    /\ verify_checksum(a.hrp, a.words)
-----------------------------------------------------------------------------
(* The slips an address may suffer before it is read back. *)
Slips(a) ==
    {[slip |-> "none", address |-> [a EXCEPT !.case = c]] : c \in {"lower", "upper"}}
    \cup {[slip |-> "case", address |-> [a EXCEPT !.case = "mixed"]]}
    \cup {[slip |-> "character", address |-> [a EXCEPT !.words[i] = (@ + d) % 32]] : i \in 1..Len(a.words), d \in Deltas}
    \cup {[slip |-> "swap", address |-> [a EXCEPT !.words[i] = a.words[i + 1], !.words[i + 1] = a.words[i]]] :
            i \in {j \in 1..(Len(a.words) - 1) : a.words[j] # a.words[j + 1]}}
    \cup {[slip |-> "cut", address |-> [a EXCEPT !.words = SubSeq(@, 1, n)]] : n \in 0..(Len(a.words) - 1)}
    \cup {[slip |-> "network", address |-> [a EXCEPT !.hrp = <<a.hrp[1], Underscore, n>>]] :
            n \in {m \in Networks \ {Mainnet} : a.hrp # <<a.hrp[1], Underscore, m>>}}

ReadBack(kind, network, key) ==
    /\ decoded = NothingDecoded
    /\ \E s \in Slips(encode(get_hrp(kind, network), PayloadOf(kind, key))) :
        decoded' = [kind |-> kind, network |-> network, key |-> key, slip |-> s.slip,
                    data |-> DecodeAs(kind, s.address), valid |-> ValidateAddress(s.address)]

CodecNext == \E kind \in Kinds, network \in Networks, key \in AddressKeys : ReadBack(kind, network, key)
-----------------------------------------------------------------------------
(* An address comes back as what was encoded; one with a wrong character,  *)
(* two characters exchanged, its end cut off, letters of both cases or     *)
(* another network's name is refused by both decoders.  The two agree on   *)
(* every other address except those of the mainnet, which                  *)
(* MidnightBlockchain::validate_address() refuses (bech32m.cpp:44-206,     *)
(* midnight_adapter.cpp:72-146).                                           *)
AddressesReadBack ==
    decoded # NothingDecoded =>
        IF decoded.slip = "none"
        THEN /\ decoded.data = (IF decoded.kind = "shield-addr" THEN decoded.key \o Reverse(decoded.key) ELSE decoded.key)
             /\ decoded.valid <=> decoded.network # Mainnet
        ELSE decoded.data = BadAddress /\ ~decoded.valid
=============================================================================
