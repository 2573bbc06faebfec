------------------------------ MODULE Endpoints ------------------------------
(***************************************************************************)
(* Where the three transports send a request: NetworkClient::parse_url()   *)
(* with join_request_path(), the URL parsing of HttpClientImpl and         *)
(* CoapClient::parse_uri(), on URLs as sequences of tokens (a host, a      *)
(* colon, a number, a word, a slash); and what NetworkClient makes of an   *)
(* answer, with headers another thread may be changing.                    *)
(***************************************************************************)
EXTENDS Naturals, Sequences

CONSTANTS
    Ports,       \* numbers that may stand behind a colon
    MaxTokens    \* bound: tokens of a URL

ASSUME EndpointsAssumption == Ports \subseteq Nat \ {0} /\ MaxTokens \in Nat

VARIABLES
    asked,      \* the last URL, and the endpoint each transport made of it
    headers,    \* headers_
    request     \* NetworkClient: a request under way, [phase, sent, answer]

endpointVars == <<asked, headers, request>>

Schemes == {"https", "http", "wss", "ws", "none"}
Secure(scheme) == scheme \in {"https", "wss"}
Colon == 0       \* tokens: a number is itself, the others stand above it
Slash == 100000
Word == 100001
Tokens == {Colon, Slash, Word} \cup Ports

Find(url, token) == IF \E i \in 1..Len(url) : url[i] = token
                    THEN CHOOSE i \in 1..Len(url) : url[i] = token /\ \A j \in 1..(i - 1) : url[j] # token ELSE 0

(* std::stoi() on the text between a colon and the end: it reads a leading *)
(* number and throws without one.                                          *)
Number(text) == IF text # << >> /\ Head(text) \in Ports THEN Head(text) ELSE 0

Endpoint(host, port, path) == [host |-> host, port |-> port, path |-> path, thrown |-> FALSE]
Thrown == [host |-> << >>, port |-> 0, path |-> << >>, thrown |-> TRUE]
-----------------------------------------------------------------------------
(* Faulty variant: a colon inside the path is taken for a port. *)
parse_url_any_colon(scheme, url) ==
    LET colon == Find(url, Colon) slash == Find(url, Slash)
        port == IF Secure(scheme) THEN 443 ELSE 80
        path == IF slash = 0 THEN << >> ELSE SubSeq(url, slash, Len(url))
        end == IF slash = 0 THEN Len(url) ELSE slash - 1
    IN  IF colon = 0 THEN Endpoint(SubSeq(url, 1, end), port, path)
        ELSE IF Number(SubSeq(url, colon + 1, Len(url))) = 0 THEN Thrown
        ELSE Endpoint(SubSeq(url, 1, colon - 1), Number(SubSeq(url, colon + 1, Len(url))), path)

(* NetworkClient::parse_url() *)
parse_url(scheme, url) ==
    LET colon == Find(url, Colon) slash == Find(url, Slash)
        port == IF Secure(scheme) THEN 443 ELSE 80
        path == IF slash = 0 THEN << >> ELSE SubSeq(url, slash, Len(url))
        end == IF slash = 0 THEN Len(url) ELSE slash - 1
    IN  IF colon = 0 \/ (slash # 0 /\ slash < colon) THEN Endpoint(SubSeq(url, 1, end), port, path)
        ELSE IF Number(SubSeq(url, colon + 1, end)) = 0 THEN Thrown
        ELSE Endpoint(SubSeq(url, 1, colon - 1), Number(SubSeq(url, colon + 1, end)), path)

(* join_request_path(): one slash between the prefix of the base URL and   *)
(* the path of the request.                                                *)
Trimmed(prefix) ==
    IF \A i \in 1..Len(prefix) : prefix[i] = Slash THEN SubSeq(prefix, 1, IF prefix = << >> THEN 0 ELSE 1)
    ELSE SubSeq(prefix, 1, CHOOSE i \in 1..Len(prefix) : prefix[i] # Slash /\ \A j \in (i + 1)..Len(prefix) : prefix[j] = Slash)

join_request_path(prefix, path) ==
    LET p == Trimmed(prefix) IN
    IF p = << >> THEN IF path = << >> THEN <<Slash>> ELSE path
    ELSE IF path \in {<< >>, <<Slash>>} THEN p
    ELSE IF p[Len(p)] = Slash /\ Head(path) = Slash THEN p \o Tail(path)
    ELSE IF p[Len(p)] # Slash /\ Head(path) # Slash THEN p \o <<Slash>> \o path
    ELSE p \o path

(* HttpClientImpl::send_request(): a port without a path behind it is      *)
(* dropped; ws and wss are no schemes here.                                *)
http_endpoint(scheme, url) ==
    LET colon == Find(url, Colon) slash == Find(url, Slash)
        port == IF scheme = "https" THEN 443 ELSE 80
        path == IF slash = 0 THEN <<Slash>> ELSE SubSeq(url, slash, Len(url))
        end == IF slash = 0 THEN Len(url) ELSE slash - 1
    IN  IF colon = 0 \/ (slash # 0 /\ slash < colon) THEN Endpoint(SubSeq(url, 1, end), port, path)
        ELSE IF slash = 0 THEN Endpoint(SubSeq(url, 1, colon - 1), port, path)
        ELSE IF Number(SubSeq(url, colon + 1, end)) = 0 THEN Thrown
        ELSE Endpoint(SubSeq(url, 1, colon - 1), Number(SubSeq(url, colon + 1, end)), path)

(* CoapClient::parse_uri(): an unreadable port becomes the default one, an *)
(* empty host is refused.                                                  *)
coap_endpoint(url) ==
    LET slash == Find(url, Slash)
        path == IF slash = 0 THEN <<Slash>> ELSE SubSeq(url, slash, Len(url))
        hostPort == SubSeq(url, 1, IF slash = 0 THEN Len(url) ELSE slash - 1)
        colon == Find(hostPort, Colon)
        host == IF colon = 0 THEN hostPort ELSE SubSeq(hostPort, 1, colon - 1)
        number == IF colon = 0 THEN 0 ELSE Number(SubSeq(hostPort, colon + 1, Len(hostPort)))
    IN  IF host = << >> THEN Thrown ELSE Endpoint(host, IF number = 0 THEN 5683 ELSE number, path)
-----------------------------------------------------------------------------
NothingAsked == [scheme |-> "none", url |-> << >>, network |-> Thrown, http |-> Thrown, coap |-> Thrown, target |-> << >>]
NoRequest == [phase |-> "idle", sent |-> {}, answer |-> "none"]

EndpointInit == asked = NothingAsked /\ headers = {} /\ request = NoRequest

(* ASCII URLs a caller may pass: a host first, then anything.              *)
Urls == {url \in UNION {[1..n -> Tokens] : n \in 0..MaxTokens} : url # << >> => Head(url) \in {Word, Colon, Slash}}

Ask(scheme, url, path) ==
    /\ asked' = [scheme |-> scheme, url |-> url, network |-> parse_url(scheme, url), http |-> http_endpoint(scheme, url),
                 coap |-> coap_endpoint(url), target |-> join_request_path(parse_url(scheme, url).path, path)]
    /\ UNCHANGED <<headers, request>>

(* post_json(), post_bytes(), get_json(), get_text(), is_connected(): the  *)
(* headers are copied under headers_mutex_ before the request is sent.     *)
BeginRequest(op) ==
    /\ (request.phase = "idle" \/ request.answer # "none") /\ asked = NothingAsked
    /\ request' = [phase |-> op, sent |-> headers, answer |-> "none"]
    /\ UNCHANGED <<asked, headers>>

SetHeader(h) == headers' = headers \cup {h} /\ asked = NothingAsked /\ UNCHANGED <<asked, request>>
ClearHeaders == headers' = {} /\ asked = NothingAsked /\ UNCHANGED <<asked, request>>

(* do_post() accepts 200 and 201, do_get() only 200; everything else, and  *)
(* a body that is not JSON, is thrown; is_connected() takes any answer.    *)
Accepted(op) == IF op \in {"post_json", "post_bytes"} THEN {200, 201} ELSE IF op = "is_connected" THEN {200, 201, 500} ELSE {200}

EndRequest(status, isJson) ==
    /\ request.phase # "idle" /\ request.answer = "none"
    /\ request' = [request EXCEPT !.answer =
          IF status \notin Accepted(request.phase) THEN "thrown"
          ELSE IF request.phase \in {"post_json", "get_json"} /\ ~isJson THEN "thrown" ELSE "body"]
    /\ UNCHANGED <<asked, headers>>

EndpointNext ==
    \/ /\ request = NoRequest /\ asked = NothingAsked /\ headers = {}
       /\ \E scheme \in Schemes, url \in Urls, path \in {<< >>, <<Slash>>, <<Word>>, <<Slash, Word>>} : Ask(scheme, url, path)
    \/ \E op \in {"post_json", "post_bytes", "get_json", "get_text", "is_connected"} : BeginRequest(op)
    \/ \E h \in {"a", "b"} : SetHeader(h)
    \/ ClearHeaders
    \/ \E status \in {0, 200, 201, 500}, isJson \in BOOLEAN : EndRequest(status, isJson)
-----------------------------------------------------------------------------
(* The transports reach the same place: on a URL every one of them can     *)
(* read, the hosts are equal; the ports of NetworkClient and HttpClient    *)
(* are, when the URL has a path (without one HttpClient drops the port)    *)
(* and the scheme is one both know; and NetworkClient's port is the one    *)
(* the URL spells.  The path NetworkClient asks for has no double slash    *)
(* that neither part brought along.                                        *)
TransportsAgree ==
    LET n == asked.network h == asked.http c == asked.coap IN
    /\ ~n.thrown /\ ~h.thrown => n.host = h.host
    /\ ~n.thrown /\ ~c.thrown => n.host = c.host
    /\ ~n.thrown /\ ~h.thrown /\ n.path # << >> /\ asked.scheme \notin {"ws", "wss"} => n.port = h.port
    /\ ~n.thrown /\ n.port \notin {80, 443} => \E i \in 1..Len(asked.url) : asked.url[i] = n.port
    /\ \A i \in 1..(Len(asked.target) - 1) : asked.target[i] = Slash /\ asked.target[i + 1] = Slash =>
         \E j \in 1..(Len(asked.url) - 1) : asked.url[j] = Slash /\ asked.url[j + 1] = Slash
=============================================================================
