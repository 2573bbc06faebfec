----------------------------- MODULE MqttPackets -----------------------------
(***************************************************************************)
(* The MQTT codec (mqtt_protocol.cpp) and the framing of                   *)
(* MqttConnection::receive_packet(): packets are built, written to a byte  *)
(* stream one after the other and read back from it.                       *)
(***************************************************************************)
EXTENDS Integers, Sequences

CONSTANTS
    Topics,        \* topics, as byte sequences
    PayloadSizes,  \* sizes of published payloads
    PacketIds,     \* 16-bit packet identifiers
    MaxOnWire      \* bound: packets on the wire

ASSUME MqttPacketsAssumption == PayloadSizes \subseteq Nat /\ PacketIds \subseteq 0..65535 /\ MaxOnWire \in Nat

VARIABLES
    wire,     \* bytes written and not yet read
    sent,     \* packets written and not yet read
    got       \* the last packet read, with the one it should be

mqttVars == <<wire, sent, got>>

CONNECT == 1
PUBLISH == 3
PUBACK == 4
PUBREC == 5
PUBREL == 6
PUBCOMP == 7
SUBSCRIBE == 8
UNSUBSCRIBE == 10
PINGREQ == 12
DISCONNECT == 14
-----------------------------------------------------------------------------
(* The remaining length, 7 bits a byte, least significant first.           *)
remaining_length[n \in Nat] ==
    IF n < 128 THEN <<n>> ELSE <<128 + (n % 128)>> \o remaining_length[n \div 128]

encode_be16(n) == <<(n \div 256) % 256, n % 256>>
decode_be16(b) == b[1] * 256 + b[2]
encode_utf8_string(str) == encode_be16(Len(str) % 65536) \o str

(* decode_utf8_string(): the string, and what follows it. *)
decode_utf8_string(b) ==
    IF Len(b) < 2 THEN <<<< >>, b>>
    ELSE LET n == decode_be16(b) rest == SubSeq(b, 3, Len(b)) IN
         IF n > Len(rest) THEN <<<< >>, rest>> ELSE <<SubSeq(rest, 1, n), SubSeq(rest, n + 1, Len(rest))>>

Packet(type, flags, body) == <<type * 16 + flags>> \o remaining_length[Len(body)] \o body

(* The flags and the optional fields of CONNECT. *)
ConnectBody(c) ==
    LET bit(b, n) == IF b THEN n ELSE 0
        optional(str) == IF str = << >> THEN << >> ELSE encode_utf8_string(str)
        will == c.will # << >>
    IN  <<0, 4, 77, 81, 84, 84, 4>>
        \o <<bit(c.clean, 2) + bit(will, 4) + bit(will, c.willQos * 8) + bit(will /\ c.retain, 32)
             + bit(c.username # << >>, 128) + bit(c.password # << >>, 64)>>
        \o encode_be16(c.keepAlive) \o encode_utf8_string(c.client)
        \o (IF will THEN encode_utf8_string(c.will) \o encode_utf8_string(c.will) ELSE << >>)
        \o optional(c.username) \o optional(c.password)

build_connect_packet(c) == Packet(CONNECT, 0, ConnectBody(c))

(* Faulty variant: the packet identifier is not counted in the length. *)
build_publish_packet_short(p) ==
    LET body == encode_utf8_string(p.topic) \o p.payload
    IN  <<PUBLISH * 16 + (IF p.dup THEN 8 ELSE 0) + p.qos * 2 + (IF p.retain THEN 1 ELSE 0)>> \o remaining_length[Len(body)]
        \o encode_utf8_string(p.topic) \o (IF p.qos = 0 THEN << >> ELSE encode_be16(p.id)) \o p.payload

build_publish_packet(p) ==
    Packet(PUBLISH, (IF p.dup THEN 8 ELSE 0) + p.qos * 2 + (IF p.retain THEN 1 ELSE 0),
           encode_utf8_string(p.topic) \o (IF p.qos = 0 THEN << >> ELSE encode_be16(p.id)) \o p.payload)

(* PUBACK, PUBREC, PUBREL and PUBCOMP carry the identifier only.           *)
build_ack_packet(type, id) == Packet(type, IF type = PUBREL THEN 2 ELSE 0, encode_be16(id))
build_subscribe_packet(id, topic, qos) == Packet(SUBSCRIBE, 2, encode_be16(id) \o encode_utf8_string(topic) \o <<qos>>)
build_unsubscribe_packet(id, topic) == Packet(UNSUBSCRIBE, 2, encode_be16(id) \o encode_utf8_string(topic))
build_empty_packet(type) == <<type * 16, 0>>
-----------------------------------------------------------------------------
(* receive_packet(): the multiplier of the length digits has 8 bits, so    *)
(* it is 1, 128 and then 0: the third digit of a length is lost.  The      *)
(* result is the frame, and the bytes left on the socket.                  *)
Multiplier(i) == IF i = 1 THEN 1 ELSE IF i = 2 THEN 128 ELSE 0

LengthBytes(b) == CHOOSE n \in 1..4 : b[1 + n] < 128 /\ \A i \in 1..(n - 1) : b[1 + i] >= 128

receive_packet(b) ==
    LET n == LengthBytes(b)
        size == LET Digit(i) == IF i > n THEN 0 ELSE (b[1 + i] % 128) * Multiplier(i) IN Digit(1) + Digit(2) + Digit(3) + Digit(4)
    IN  <<SubSeq(b, 1, 1 + n + size), SubSeq(b, 2 + n + size, Len(b))>>

(* decode_remaining_length() *)
decode_remaining_length(b) ==
    LET Digit(i) == IF i > LengthBytes(b) THEN 0 ELSE b[1 + i] % 128
    IN  Digit(1) + 128 * (Digit(2) + 128 * (Digit(3) + 128 * Digit(4)))

(* parse_packet(): a frame shorter than its own length is an error.        *)
parse_packet(b) ==
    LET header == 1 + LengthBytes(b) size == decode_remaining_length(b) IN
    IF Len(b) < 2 \/ header + size > Len(b) THEN [error |-> TRUE, type |-> 0, flags |-> 0, payload |-> << >>]
    ELSE [error |-> FALSE, type |-> b[1] \div 16, flags |-> b[1] % 16, payload |-> SubSeq(b, header + 1, header + size)]

(* Faulty variant: the identifier is left in the payload. *)
parse_publish_keeping_id(pkt) ==
    LET qos == (pkt.flags \div 2) % 4 rest == decode_utf8_string(pkt.payload) IN
    [topic |-> rest[1], qos |-> qos, dup |-> pkt.flags >= 8, retain |-> pkt.flags % 2 = 1, id |-> 0, payload |-> rest[2]]

parse_publish(pkt) ==
    LET qos == (pkt.flags \div 2) % 4
        rest == decode_utf8_string(pkt.payload)
        hasId == qos # 0 /\ Len(rest[2]) >= 2
    IN  [topic |-> rest[1], qos |-> qos, dup |-> pkt.flags >= 8, retain |-> pkt.flags % 2 = 1,
         id |-> IF hasId THEN decode_be16(rest[2]) ELSE 0,
         payload |-> IF hasId THEN SubSeq(rest[2], 3, Len(rest[2])) ELSE rest[2]]

(* parse_puback() serves all four acknowledgements; a short one names 0.   *)
parse_puback(pkt) == IF Len(pkt.payload) < 2 THEN 0 ELSE decode_be16(pkt.payload)

(* parse_connack(): a short CONNACK reads as accepted.                     *)
parse_connack(pkt) ==
    IF Len(pkt.payload) < 2 THEN [session |-> FALSE, code |-> 0] ELSE [session |-> pkt.payload[1] % 2 = 1, code |-> pkt.payload[2]]

parse_suback(pkt) ==
    IF Len(pkt.payload) < 3 THEN [id |-> 0, codes |-> << >>]
    ELSE [id |-> decode_be16(pkt.payload), codes |-> SubSeq(pkt.payload, 3, Len(pkt.payload))]

(* handle_packet(): the reading that belongs to a type. *)
Reading(pkt) ==
    IF pkt.error THEN [kind |-> "error"]
    ELSE IF pkt.type = PUBLISH THEN [kind |-> "publish", data |-> parse_publish(pkt)]
    ELSE IF pkt.type \in PUBACK..PUBCOMP THEN [kind |-> "ack", type |-> pkt.type, data |-> parse_puback(pkt)]
    ELSE IF pkt.type = 2 THEN [kind |-> "connack", data |-> parse_connack(pkt)]
    ELSE IF pkt.type = 9 THEN [kind |-> "suback", data |-> parse_suback(pkt)]
    ELSE [kind |-> "other", type |-> pkt.type]
-----------------------------------------------------------------------------
NothingRead == [kind |-> "none"]

NoneRead == [read |-> NothingRead, meant |-> NothingRead]

MqttInit == wire = << >> /\ sent = << >> /\ got = NoneRead

Write(bytes, reading) ==
    /\ Len(sent) < MaxOnWire
    /\ wire' = wire \o bytes
    /\ sent' = Append(sent, reading)
    /\ got' = NoneRead

WritePublish(topic, size, qos, id) ==
    LET p == [topic |-> topic, qos |-> qos, dup |-> FALSE, retain |-> id # 0, id |-> IF qos = 0 THEN 0 ELSE id, payload |-> [i \in 1..size |-> 48]]
    IN  Write(build_publish_packet(p), [kind |-> "publish", data |-> p])

WriteAck(type, id) == Write(build_ack_packet(type, id), [kind |-> "ack", type |-> type, data |-> id])

WriteConnect(topic, will) ==
    LET c == [clean |-> TRUE, will |-> will, willQos |-> 1, retain |-> FALSE, username |-> topic, password |-> << >>, keepAlive |-> 60, client |-> topic]
    IN  Write(build_connect_packet(c), [kind |-> "other", type |-> CONNECT])

WriteSubscribe(topic, id) ==
    \/ Write(build_subscribe_packet(id, topic, 1), [kind |-> "other", type |-> SUBSCRIBE])
    \/ Write(build_unsubscribe_packet(id, topic), [kind |-> "other", type |-> UNSUBSCRIBE])

WriteEmpty(type) == Write(build_empty_packet(type), [kind |-> "other", type |-> type])

(* External: what only a broker sends. *)
WriteBroker(id, code) ==
    \/ Write(Packet(2, 0, <<1, code>>), [kind |-> "connack", data |-> [session |-> TRUE, code |-> code]])
    \/ Write(Packet(9, 0, encode_be16(id) \o <<code>>), [kind |-> "suback", data |-> [id |-> id, codes |-> <<code>>]])

(* A turn of reader_loop(): receive_packet() and handle_packet().          *)
ReadPacket ==
    /\ sent # << >>
    /\ LET frame == receive_packet(wire) IN
        /\ wire' = frame[2]
        /\ got' = [read |-> Reading(parse_packet(frame[1])), meant |-> Head(sent)]
        /\ sent' = Tail(sent)

MqttNext ==
    \/ \E topic \in Topics, size \in PayloadSizes, qos \in 0..2, id \in PacketIds : WritePublish(topic, size, qos, id)
    \/ \E type \in PUBACK..PUBCOMP, id \in PacketIds : WriteAck(type, id)
    \/ \E topic \in Topics, will \in Topics \cup {<< >>} : WriteConnect(topic, will)
    \/ \E topic \in Topics, id \in PacketIds : WriteSubscribe(topic, id)
    \/ \E type \in {PINGREQ, DISCONNECT} : WriteEmpty(type)
    \/ \E id \in PacketIds, code \in {0, 128} : WriteBroker(id, code)
    \/ ReadPacket
-----------------------------------------------------------------------------
(* Every packet of less than 16384 bytes that a builder of mqtt_protocol   *)
(* writes is read back by receive_packet(), parse_packet() and the parser  *)
(* of its type as it was meant, whatever packets stand before it on the    *)
(* stream: no declared length is a byte too long or too short.             *)
PacketsReadBack == got.read = got.meant
=============================================================================
