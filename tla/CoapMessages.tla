---------------------------- MODULE CoapMessages ----------------------------
(***************************************************************************)
(* The CoAP codec: encode_request(), encode_option() and decode_response() *)
(* of coap_client.cpp, the parsers of coap_message.cpp, and the observers  *)
(* and requests of CoapClient.  A request is sent from one socket and its  *)
(* answer awaited on another, so no answer ever arrives.                   *)
(***************************************************************************)
EXTENDS Integers, Sequences, FiniteSets

CONSTANTS
    Segments,     \* path segments, as byte sequences
    CoapPayloads, \* payloads, as byte sequences
    Uris,         \* resources to observe
    LastMessageId \* 2^16 - 1 in the code: the last message identifier

ASSUME CoapMessagesAssumption == LastMessageId \in Nat \ {0}

VARIABLES
    nextMessageId,  \* next_message_id_
    exchange,       \* the last message built, with what was read back from it
    observers,      \* observers_, uri to socket
    sockets         \* sockets open

coapVars == <<nextMessageId, exchange, observers, sockets>>

URI_PATH == 11
OBSERVE == 6
CONTENT_FORMAT == 12
MARKER == 255
-----------------------------------------------------------------------------
(* The nibble and the extension bytes of an option's number or length.     *)
Nibble(n) == IF n < 13 THEN n ELSE IF n < 269 THEN 13 ELSE 14
Extension(n) ==
    IF n < 13 THEN << >> ELSE IF n < 269 THEN <<n - 13>> ELSE <<(n - 269) \div 256, (n - 269) % 256>>

(* Faulty variant: the length of a long value is not extended. *)
encode_option_short(number, value) ==
    <<Nibble(number) * 16 + Nibble(Len(value))>> \o Extension(number) \o value

(* encode_option(): the delta is always taken from option 0.               *)
encode_option(number, value) ==
    <<Nibble(number) * 16 + Nibble(Len(value))>> \o Extension(number) \o Extension(Len(value)) \o value

Header(type, code, id, token) ==
    <<64 + type * 16 + Len(token), code, (id \div 256) % 256, id % 256>> \o token

Concatenation(seqs) ==
    LET upTo[i \in 0..Len(seqs)] == IF i = 0 THEN << >> ELSE upTo[i - 1] \o seqs[i] IN upTo[Len(seqs)]

RequestOptions(path, payload, observe) ==
    [i \in 1..Len(path) |-> <<URI_PATH, path[i]>>]
    \o (IF observe THEN <<<<OBSERVE, << >>>>>> ELSE << >>)
    \o (IF payload = << >> THEN << >> ELSE <<<<CONTENT_FORMAT, <<48>>>>>>)

Encoded(options) == Concatenation([i \in 1..Len(options) |-> encode_option(options[i][1], options[i][2])])

encode_request(method, path, payload, observe, id, token) ==
    Header(0, method, id, <<token>>) \o Encoded(RequestOptions(path, payload, observe))
    \o (IF payload = << >> THEN << >> ELSE <<MARKER>> \o payload)
-----------------------------------------------------------------------------
(* An option that begins at pos: its number relative to the last, where    *)
(* its value begins and how long that is.                                  *)
Skips(nibble) == IF nibble = 13 THEN 1 ELSE IF nibble = 14 THEN 2 ELSE 0
Extended(b, pos, nibble) ==
    IF nibble = 13 THEN 13 + b[pos] ELSE IF nibble = 14 THEN 269 + b[pos] * 256 + b[pos + 1] ELSE nibble

OptionAt(b, pos) ==
    LET delta == b[pos] \div 16
        size == b[pos] % 16
        afterDelta == pos + 1 + Skips(delta)
    IN  [delta |-> Extended(b, pos + 1, delta), length |-> Extended(b, afterDelta, size), value |-> afterDelta + Skips(size)]

(* An option that runs over the end of the message ends the parsing.       *)
Complete(b, o) == o.value + o.length - 1 <= Len(b)

(* parse_options(): numbers add up, starting from 0. *)
parse_options(b) ==
    LET first == 5 + (b[1] % 16)
        more(pos) == pos <= Len(b) /\ b[pos] # MARKER
        from[at \in (1..(Len(b) + 1)) \X Nat] ==
            IF ~more(at[1]) THEN << >>
            ELSE LET o == OptionAt(b, at[1])
                     number == (at[2] + o.delta) % 65536
                 IN  IF ~Complete(b, o) THEN << >>
                     ELSE <<<<number, SubSeq(b, o.value, o.value + o.length - 1)>>>> \o from[<<o.value + o.length, number>>]
    IN  from[<<first, 0>>]

(* decode_response(): success 2.xx, an empty acknowledgement, or an error; *)
(* the options are skipped by their lengths.                               *)
decode_response(b) ==
    LET class == b[2] \div 32
        end[pos \in 1..(Len(b) + 1)] ==
            IF pos > Len(b) \/ b[pos] = MARKER THEN pos ELSE LET o == OptionAt(b, pos) IN IF Complete(b, o) THEN end[o.value + o.length] ELSE o.value
        at == end[5 + (b[1] % 16)]
    IN  IF Len(b) < 4 \/ b[1] \div 64 # 1 THEN [ok |-> FALSE, payload |-> << >>]
        ELSE IF class # 2 THEN [ok |-> b[2] = 0, payload |-> << >>]
        ELSE [ok |-> TRUE, payload |-> SubSeq(b, IF at <= Len(b) /\ b[at] = MARKER THEN at + 1 ELSE at, Len(b))]

(* validate_response() *)
validate_response(code) == code \div 32 = 2 \/ code = 0
-----------------------------------------------------------------------------
NoExchange == [kind |-> "none", payload |-> << >>, read |-> << >>, options |-> << >>, parsed |-> << >>, ok |-> TRUE]

CoapInit ==
    /\ nextMessageId = 0 /\ exchange = NoExchange
    /\ observers = [u \in Uris |-> 0] /\ sockets = {}

(* The identifier is incremented before use; 0 is avoided for the next one *)
(* only, so the wrapped one is 0.                                          *)
NextId == (nextMessageId + 1) % (LastMessageId + 1)
AfterId(id) == IF id = 0 THEN 1 ELSE id

(* send_request(): the caller always gets the empty string, for want of an *)
(* address, of a socket, or of an answer.                                  *)
SendRequest(method, path, payload) ==
    LET b == encode_request(method, path, payload, FALSE, NextId, 7)
        options == RequestOptions(path, payload, FALSE)
    IN  /\ nextMessageId' = AfterId(NextId)
        /\ exchange' = [kind |-> "request", payload |-> payload, read |-> << >>, options |-> options,
                        parsed |-> parse_options(b), ok |-> FALSE]
        /\ UNCHANGED <<observers, sockets>>

(* External: a response of a server that numbers its options correctly.    *)
Response(code, values, payload) ==
    Header(2, code, 1, <<7>>) \o Encoded([i \in 1..Len(values) |-> <<IF i = 1 THEN 4 ELSE 0, values[i]>>])
    \o (IF payload = << >> THEN << >> ELSE <<MARKER>> \o payload)

DecodeResponse(code, values, payload) ==
    LET r == decode_response(Response(code, values, payload)) IN
    /\ exchange' = [kind |-> "response", payload |-> IF code \div 32 = 2 THEN payload ELSE << >>, read |-> r.payload,
                    options |-> << >>, parsed |-> << >>, ok |-> r.ok = validate_response(code)]
    /\ UNCHANGED <<nextMessageId, observers, sockets>>

(* observe(): the old socket of the resource is closed, a new one opened;  *)
(* nothing is sent and nobody reads the socket, so no callback ever runs.  *)
FreshSocket(open) == CHOOSE n \in 1..(Cardinality(open) + 1) : n \notin open

(* Faulty variant: the old observer is replaced without being stopped. *)
ObserveOver(u) ==
    /\ exchange' = NoExchange
    /\ \/ /\ observers' = [observers EXCEPT ![u] = FreshSocket(sockets)]
          /\ sockets' = sockets \cup {FreshSocket(sockets)}
       \/ UNCHANGED <<observers, sockets>>
    /\ UNCHANGED nextMessageId

Observe(u) ==
    /\ exchange' = NoExchange
    /\ LET left == sockets \ {observers[u]} IN
       \/ /\ observers' = [observers EXCEPT ![u] = FreshSocket(left)]
          /\ sockets' = left \cup {FreshSocket(left)}
       \/ observers' = [observers EXCEPT ![u] = 0] /\ sockets' = left
    /\ UNCHANGED nextMessageId

StopObserve(u) ==
    /\ exchange' = NoExchange
    /\ sockets' = sockets \ {observers[u]}
    /\ observers' = [observers EXCEPT ![u] = 0]
    /\ UNCHANGED nextMessageId

StopAll ==
    /\ exchange' = NoExchange
    /\ sockets' = {} /\ observers' = [u \in Uris |-> 0]
    /\ UNCHANGED nextMessageId

Paths == {<< >>} \cup {<<a>> : a \in Segments} \cup {<<a, b>> : a, b \in Segments}

CoapNext ==
    \/ \E path \in Paths, payload \in CoapPayloads, method \in {1, 2} : SendRequest(method, path, payload)
    \/ \E code \in {0, 69, 132}, values \in Paths, payload \in CoapPayloads : DecodeResponse(code, values, payload)
    \/ \E u \in Uris : Observe(u) \/ StopObserve(u)
    \/ StopAll
-----------------------------------------------------------------------------
(* The codec, across all three ways of writing a length: a response's      *)
(* payload is what decode_response() returns, whatever options stand       *)
(* before it; and a request's option values are read back by               *)
(* parse_options() in order, the first under its own number.  (From the    *)
(* second on the numbers are off, since encode_option() takes every delta  *)
(* from 0.)                                                                *)
CoapReadsBack ==
    /\ exchange.kind = "response" => exchange.read = exchange.payload /\ exchange.ok
    /\ exchange.kind = "request" =>
        /\ Len(exchange.parsed) = Len(exchange.options)
        /\ \A i \in 1..Len(exchange.options) : exchange.parsed[i][2] = exchange.options[i][2]
        /\ exchange.options # << >> => exchange.parsed[1][1] = exchange.options[1][1]

(* Each open socket belongs to exactly one observed resource: observing    *)
(* again, a failed socket() and both forms of stop_observe() leak none and *)
(* close none that is in use.                                              *)
SocketsOwned ==
    /\ sockets = {observers[u] : u \in Uris} \ {0}
    /\ \A u, v \in Uris : observers[u] = observers[v] /\ observers[u] # 0 => u = v
=============================================================================
