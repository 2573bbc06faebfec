------------------------------- MODULE Base64 -------------------------------
(***************************************************************************)
(* Base64 as WalletFacade writes an encrypted state and as it and          *)
(* WalletManager read one (wallet_facade.cpp, wallet_manager.cpp).  Text   *)
(* is a sequence of character codes.                                       *)
(***************************************************************************)
EXTENDS Naturals, Sequences

Padding == 61

(* b64_chars and b64_table: the letters, the digits, + and /. *)
CharOf(v) ==
    IF v < 26 THEN 65 + v
    ELSE IF v < 52 THEN 71 + v
    ELSE IF v < 62 THEN v - 4
    ELSE IF v = 62 THEN 43 ELSE 47

Table == [c \in {CharOf(v) : v \in 0..63} |-> CHOOSE v \in 0..63 : CharOf(v) = c]

(* The four 6-bit groups of three bytes, and the three bytes of four. *)
Sextets(b) == <<b[1] \div 4, (b[1] % 4) * 16 + b[2] \div 16, (b[2] % 16) * 4 + b[3] \div 64, b[3] % 64>>
Octets(v) == <<v[1] * 4 + v[2] \div 16, (v[2] % 16) * 16 + v[3] \div 4, (v[3] % 4) * 64 + v[4]>>

(* Faulty variant: a group that is not full is not flushed. *)
base64_encode_full_groups(data) ==
    [k \in 1..(4 * ((Len(data) - 1) \div 3)) |->
        LET g == (k - 1) \div 4 IN CharOf(Sextets(<<data[3 * g + 1], data[3 * g + 2], data[3 * g + 3]>>)[((k - 1) % 4) + 1])]

(* i bytes in the last group are i + 1 characters and 3 - i paddings. *)
base64_encode(data) ==
    LET byte(k) == IF k > Len(data) THEN 0 ELSE data[k]
    IN  [k \in 1..(4 * ((Len(data) + 2) \div 3)) |->
            LET g == (k - 1) \div 4
                j == ((k - 1) % 4) + 1
            IN  IF 3 * g + j - 1 > Len(data) THEN Padding
                ELSE CharOf(Sextets(<<byte(3 * g + 1), byte(3 * g + 2), byte(3 * g + 3)>>)[j])]

(* Full groups of four characters are looked up in the table; those of a   *)
(* last group that is not full are not: their codes are shifted into       *)
(* place themselves, each with two bits of the next.                       *)
base64_decode(text) ==
    LET ends == {k \in 1..Len(text) : text[k] = Padding}
        n    == IF ends = {} THEN Len(text) ELSE (CHOOSE k \in ends : \A e \in ends : k <= e) - 1
        full == n \div 4
        rest == n % 4
        raw(k) == text[4 * full + k]
    IN  [k \in 1..(3 * full) |->
            LET g == (k - 1) \div 3
            IN  Octets([j \in 1..4 |-> Table[text[4 * g + j]]])[((k - 1) % 3) + 1]]
        \o [k \in 1..(IF rest = 0 THEN 0 ELSE rest - 1) |-> (4 * raw(k) + ((raw(k + 1) \div 16) % 4)) % 256]
=============================================================================
