----------------------------- MODULE HttpExchange -----------------------------
(***************************************************************************)
(* One connection of the subscription proxy: a request is read from a      *)
(* socket that delivers its bytes in pieces, passed on to an upstream, and *)
(* the upstream's answer is written back.  As functions of what the client *)
(* sends, how the socket cuts it, and what the upstream answers.           *)
(*                                                                         *)
(* Byte k of the connection is the number k.  A header is a pair of its    *)
(* name in lower case and the way it is written, "Std" or "low": the maps  *)
(* of the code tell the two apart and its comparisons do not.              *)
(***************************************************************************)
EXTENDS Naturals, Sequences, FiniteSets, FiniteSetsExt

CONSTANTS
    Chunk,       \* bytes of one read of the head, 1024 in the code
    MaxHead,     \* 32 KiB
    MaxBody,     \* 10 MiB
    MaxResponse, \* max_response_bytes of the settings
    Number       \* Number[text]: the number a header's text stands for, if it is one

\* Something is read at a time, and a text that is a number is one.
ASSUME LimitsAssumption ==
    /\ {Chunk, MaxHead, MaxBody, MaxResponse} \subseteq Nat /\ Chunk > 0
    /\ \A text \in DOMAIN Number : Number[text] \in Nat

\* Bytes a+1 to b of the connection.
Bytes(a, b) == [k \in 1..(b - a) |-> a + k]

-----------------------------------------------------------------------------
(* Reading.  The head ends with byte r.head, the client sends r.total bytes *)
(* and then closes or stalls.  `reads' holds the number of bytes that were  *)
(* there after each read; one read brings at most Chunk of them.            *)

Readings(r) ==
    {reads \in SUBSET (1..r.total) :
       \A k \in 0..(r.total - 1) : \E p \in reads : k < p /\ p <= k + Chunk}

\* read_subscription_proxy_http_request_head: all that was read counts as head.
HeadRead(r, reads) ==
    LET ends == {p \in reads : p > MaxHead \/ p >= r.head}
    IN  IF ends = {} \/ Min(ends) > MaxHead THEN 0 ELSE Min(ends)

Lines(r, name) == {r.lines[i].value : i \in {k \in DOMAIN r.lines : r.lines[k].key[1] = name}}

\* request_content_length: lines that agree are one.
Lengths(r) == {Number[v[1]] : v \in {w \in Lines(r, "content-length") : w[1] \in DOMAIN Number}}
LengthsAgree(r) ==
    /\ \A value \in Lines(r, "content-length") : value[1] \in DOMAIN Number
    /\ Cardinality(Lengths(r)) <= 1

\* request_has_chunked_body
Chunked(r) == \E value \in Lines(r, "transfer-encoding") : \E i \in DOMAIN value : value[i] = "chunked"

\* Mutant of ReadRequest: what came with the head is read again.
ReadRequestAgain(r, reads) ==
    LET here == HeadRead(r, reads)
        n == CHOOSE n \in Lengths(r) : TRUE
    IN  IF here = 0 \/ ~LengthsAgree(r) \/ (Lengths(r) = {} /\ Chunked(r)) THEN <<>>
        ELSE IF Lengths(r) = {} THEN Bytes(0, r.head)
        ELSE IF n > MaxBody \/ r.total < here + n THEN <<>>
        ELSE Bytes(0, here + n)

\* read_subscription_proxy_http_request: the bytes of the request, or none when
\* it is refused.  What follows the announced body is left out.
ReadRequest(r, reads) ==
    LET here == HeadRead(r, reads)
        n == CHOOSE n \in Lengths(r) : TRUE
    IN  IF here = 0 \/ ~LengthsAgree(r) \/ (Lengths(r) = {} /\ Chunked(r)) THEN <<>>
        ELSE IF Lengths(r) = {} THEN Bytes(0, r.head)
        ELSE IF n > MaxBody THEN <<>>
        ELSE IF here - r.head > n THEN SubSeq(Bytes(0, here), 1, r.head + n)
        ELSE IF r.total < r.head + n THEN <<>>
        ELSE Bytes(0, here) \o Bytes(here, r.head + n)

\* parse_subscription_proxy_http_request: of lines with one name, written alike,
\* the last counts.
Headers(lines) ==
    LET Of(key) == {i \in DOMAIN lines : lines[i].key = key}
    IN  [key \in {lines[i].key : i \in DOMAIN lines} |-> lines[Max(Of(key))].value]

\* The key of that name in the order of the map, or the standard one.
KeyOf(headers, name) ==
    IF <<name, "Std">> \notin DOMAIN headers /\ <<name, "low">> \in DOMAIN headers
      THEN <<name, "low">> ELSE <<name, "Std">>

ValueOf(headers, key) == IF key \in DOMAIN headers THEN headers[key] ELSE <<>>

Put(headers, key, value) ==
    [k \in DOMAIN headers \cup {key} |-> IF k = key THEN value ELSE headers[k]]

-----------------------------------------------------------------------------
(* Passing on.                                                             *)

HopByHop == {"connection", "keep-alive", "proxy-authenticate", "proxy-authorization", "te",
             "trailer", "transfer-encoding", "upgrade"}

ForwardedHeaders(headers) ==
    [key \in {k \in DOMAIN headers : k[1] \notin HopByHop \cup {"host", "content-length"}}
       |-> headers[key]]

\* append_forwarded_for
AppendForwardedFor(headers, peer) ==
    LET key == KeyOf(headers, "x-forwarded-for")
    IN  IF peer = "" THEN headers ELSE Put(headers, key, Append(ValueOf(headers, key), peer))

\* upstream_forwarded_headers; peer is the client's address, if it is known.
UpstreamHeaders(headers, peer) ==
    LET host == ValueOf(headers, KeyOf(headers, "host"))
        kept == ForwardedHeaders(headers)
        hosted == IF host = <<>> THEN kept ELSE Put(kept, <<"x-forwarded-host", "Std">>, host)
    IN  AppendForwardedFor(Put(hosted, <<"x-forwarded-proto", "Std">>, <<"https">>), peer)

\* plan_subscription_proxy_request: a subscription has no body, nor has a HEAD.
UpstreamRequest(r, raw, route) ==
    [headers |-> UpstreamHeaders(Headers(r.lines), r.peer),
     body |-> IF route = "site" \/ r.method = "HEAD" THEN <<>> ELSE SubSeq(raw, r.head + 1, Len(raw))]

-----------------------------------------------------------------------------
(* Answering.  The upstream's answer `up' announces a length or none, <<>>, *)
(* and has up.size bytes.                                                  *)

Reply(status, headers, size) ==
    [status |-> status, headers |-> headers, lengths |-> {size}, size |-> size]

Plain(status) == Reply(status, [key \in {<<"content-type", "Std">>} |-> <<"text">>], 1)

\* read_limited_upstream_body: one byte more than allowed is asked for.
LimitedBody(size) == Min({size, MaxResponse + 1})

\* fetch_subscription_proxy_upstream_blocking, plan_subscription_proxy_response
UpstreamReply(up, headOnly) ==
    LET body == IF headOnly THEN 0 ELSE LimitedBody(up.size)
        tooLarge == (up.announced # <<>> /\ up.announced[1] > MaxResponse) \/ body > MaxResponse
    IN  IF ~up.reached \/ tooLarge THEN Plain(502)
        ELSE Reply(up.status, ForwardedHeaders(up.headers), body)

\* render_subscription_proxy_http_response: its own Content-Length first, then
\* the headers of the answer.
Render(reply) ==
    LET own == {key \in DOMAIN reply.headers : key[1] = "content-length"}
    IN  [reply EXCEPT !.lengths = @ \cup {Number[reply.headers[key][1]] : key \in own}]

\* serve_subscription_proxy_stream and the handler of the main server.
Serve(r, reads, route, up) ==
    LET raw == ReadRequest(r, reads)
    IN  Render(IF raw = <<>> \/ r.malformed THEN Plain(400)
               ELSE IF route = "site" /\ r.method \notin {"GET", "HEAD"} THEN Plain(405)
               ELSE IF route = "none" THEN Plain(404)
               ELSE UpstreamReply(up, r.method = "HEAD"))

-----------------------------------------------------------------------------
(* Properties, for a request, where it is routed and what is answered.     *)

\* All of the first read after the head is within the limit of the head.
HeadFits(r) == r.head + Min({Chunk - 1, r.total - r.head}) <= MaxHead

\* However the socket cuts the bytes, the upstream gets the announced bytes of
\* the body, each once and none of what follows them, and a whole request within
\* the limits is never refused.  Only where the body that came with the head
\* crosses the limit of the head may the cut decide
\* (read_subscription_proxy_http_request).
BodyExact(r) ==
    LET raws == {ReadRequest(r, reads) : reads \in Readings(r)}
        n == IF Lengths(r) = {} THEN 0 ELSE CHOOSE n \in Lengths(r) : TRUE
    IN  r.total >= r.head =>
          /\ \A raw \in raws \ {<<>>} :
               UpstreamRequest(r, raw, "website").body
                 = (IF r.method = "HEAD" THEN <<>> ELSE Bytes(r.head, r.head + n))
          /\ HeadFits(r) =>
               /\ Cardinality(raws) = 1
               /\ LengthsAgree(r) /\ Lengths(r) # {} /\ n <= MaxBody /\ r.total >= r.head + n
                    => <<>> \notin raws

\* What is passed on belongs to the next connection: no header of this one, and
\* the client's address after those the client names
\* (upstream_forwarded_headers).
HeadersExact(r) ==
    LET sent == UpstreamHeaders(Headers(r.lines), r.peer)
        said == ValueOf(Headers(r.lines), KeyOf(Headers(r.lines), "x-forwarded-for"))
    IN  /\ \A key \in DOMAIN sent : key[1] \notin HopByHop \cup {"host", "content-length"}
        /\ r.peer # "" => \E key \in DOMAIN sent : sent[key] = Append(said, r.peer)

\* What the proxy answers for itself: no request, no such path, not this method,
\* no upstream.
OwnReplies == {Plain(status) : status \in {400, 404, 405, 502}}

\* The proxy answers for itself or passes on a whole answer, and the one
\* Content-Length is the length of the body
\* (plan_subscription_proxy_response, render_subscription_proxy_http_response).
AnswerExact(r, route, up) ==
    \A reads \in Readings(r) :
      LET reply == Serve(r, reads, route, up)
      IN  /\ reply.lengths = {reply.size}
          /\ reply \notin OwnReplies =>
               /\ reply.status = up.status
               /\ IF r.method = "HEAD" THEN reply.size = 0
                  ELSE reply.size = up.size /\ up.size <= MaxResponse

\* The three together: one exchange over one connection.
ExchangeExact(r, routes, ups) ==
    /\ BodyExact(r)
    /\ HeadersExact(r)
    /\ \A route \in routes, up \in ups : AnswerExact(r, route, up)

==============================================================================
