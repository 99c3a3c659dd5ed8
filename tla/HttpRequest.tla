----------------------------- MODULE HttpRequest -----------------------------
(***************************************************************************)
(* Receiving and parsing a request: the loop of                            *)
(* http_session_receive_request, which appends what recv returned to a     *)
(* growing buffer, and the callbacks through which http-parser fills       *)
(* struct http_request.                                                    *)
(*                                                                         *)
(* A request is a sequence of tokens, one per byte that matters here:      *)
(*   "u" path, "?" , "p" query text, "&" (in the query or in the body),    *)
(*   "k" header name, "v" header value, "d" the delimiter that ends a URL, *)
(*   a name or a value, "e" the empty line, "b" the body.                  *)
(* http-parser itself is external.  What matters about it: it may be fed   *)
(* the request in any pieces, and calls a data callback once per piece: at *)
(* the delimiter, or with what there is at the end of the piece.  A piece  *)
(* that starts with the delimiter gives a callback of length 0.            *)
(***************************************************************************)
EXTENDS Integers, Sequences, FiniteSets

CONSTANTS
    Requests,       \* requests a client may send: [text, method, headers], where headers are
                    \* the lengths [key, value] of the headers in the text
    MaxHeaders,     \* HTTP_MAX_HEADER_COUNT
    MaxKey,         \* HTTP_MAX_HEADER_LENGTH
    MaxValue,       \* HTTP_MAX_HEADER_VALUE_LENGTH
    MaxParams,      \* HTTP_MAX_QUERY_PARAM_COUNT
    MaxParamLength, \* HTTP_MAX_QUERY_PARAM_LENGTH
    MaxUrl          \* HTTP_MAX_FULL_URL_LENGTH

VARIABLES
    request,        \* what this client sends
    first,          \* how many bytes the first recv returned, 0 before (history)
    size, address,  \* request_buffer: bytes in it, and which of two addresses it is at
    length_parsed,  \* http_request.length_parsed
    chunk,          \* where the piece being parsed starts
    url,            \* full_url, as a length
    params,         \* query_params, each <<start, length>> in the buffer
    header_count, headers,      \* headers[header_count] is one past the last
    last_was_value, header_end, message_begin, message_end,
    body,           \* the body pointer <<address, offset>>, or NoBody
    body_length, body_length_read,
    rc              \* 0, or -1 after an error

parser == <<url, params, header_count, headers, last_was_value, header_end, message_begin, message_end,
            body_length>>
vars == <<request, first, size, address, length_parsed, chunk, parser, body, body_length_read, rc>>

NoBody == <<0, 0>>

Text == request.text

\* Bytes i .. j-1 of the request, offsets from 0 as in C.
At(i) == Text[i + 1]

UrlText == {"u", "?", "p", "&"}

\* Offset of the empty line; what is before it is the header section.
EmptyLine == CHOOSE i \in 0..(Len(Text) - 1) : At(i) = "e"

InHeader(i) == i <= EmptyLine

Least(S) == CHOOSE i \in S : \A j \in S : i <= j

\* The end of the data that starts at i, within what has been read.
RunEnd(i, kinds) == Least({j \in i..size : j = size \/ At(j) \notin kinds})

\* http-parser has the whole message: it calls on_message_complete before it returns.
Complete == header_end /\ body_length_read = body_length

Lesser(a, b) == IF a < b THEN a ELSE b

Init ==
    /\ request \in Requests /\ first = 0
    /\ size = 0 /\ address = 0 /\ length_parsed = 0 /\ chunk = 0
    /\ url = 0 /\ params = <<>>
    /\ header_count = 0 /\ headers = [i \in 0..MaxHeaders |-> [key |-> 0, value |-> 0]]
    /\ last_was_value = FALSE /\ header_end = FALSE /\ message_begin = FALSE /\ message_end = FALSE
    /\ body = NoBody /\ body_length = 0 /\ body_length_read = 0 /\ rc = 0

-----------------------------------------------------------------------------
(* The receive loop.                                                       *)

\* Mutant: the body pointer is not updated when the buffer moves.
KeepsPointer(new, header_length) == body

\* "Update parser structure if buffer moved".
MovedBody(new, header_length) ==
    IF new = address THEN body ELSE IF header_length > 0 THEN <<new, header_length>> ELSE NoBody

\* recv returned n bytes: they are appended, and the buffer may have to move (it does the first time,
\* when there is none yet).
http_session_receive_request ==
    /\ ~Complete /\ rc = 0 /\ length_parsed = size
    /\ \E n \in 1..(Len(Text) - size) : size' = size + n
    /\ first' = IF size = 0 THEN size' ELSE first
    /\ \E new \in {1, 2} :
         /\ address' = new
         /\ body' = MovedBody(new, size - body_length_read)
    /\ chunk' = size
    /\ UNCHANGED <<request, length_parsed, parser, body_length_read, rc>>

-----------------------------------------------------------------------------
(* The callbacks.                                                          *)

\* http-parser is in the middle of a piece, and this is its next byte.
Parsing == rc = 0 /\ length_parsed < size /\ ~message_end

\* The data of these kinds that the next callback is called with: <<start, length>>, and where the
\* parser continues.  A delimiter in the middle of a piece was consumed with the data before it.
Data(kinds) == <<length_parsed, RunEnd(length_parsed, kinds) - length_parsed>>

After(i) == IF i < size /\ At(i) = "d" THEN i + 1 ELSE i

\* The next callback is for data of these kinds.
Delivers(kinds) ==
    /\ Parsing
    /\ \/ At(length_parsed) \in kinds
       \/ At(length_parsed) = "d" /\ length_parsed = chunk /\ At(length_parsed - 1) \in kinds

Consumed(d) == length_parsed' = After(d[1] + d[2])

http_parser_settings_on_message_begin ==
    /\ Parsing /\ ~message_begin
    /\ message_begin' = TRUE /\ last_was_value' = TRUE
    /\ UNCHANGED <<request, first, size, address, length_parsed, chunk, url, params, header_count, headers,
                   header_end, message_end, body, body_length, body_length_read, rc>>

\* Offsets in i..j-1 of the character c.
Offsets(c, i, j) == {x \in i..(j - 1) : At(x) = c}

\* The parameters that start at prev: strchr looks for the next "&" in the whole buffer, not in the URL.
\* The last one extends to the end of the URL; a negative length is a very large size_t.
RECURSIVE ParamsFrom(_, _, _)
ParamsFrom(prev, end, found) ==
    LET ands == Offsets("&", prev, size)
        Entry(len) == <<prev, Lesser(len, MaxParamLength - 1)>>
        Negative == MaxParamLength
    IN  CASE Len(found) >= MaxParams -> found
          [] Len(found) < MaxParams /\ ands # {} ->
               ParamsFrom(Least(ands) + 1, end, Append(found, Entry(Least(ands) - prev)))
          [] OTHER -> Append(found, Entry(IF end >= prev THEN end - prev ELSE Negative))

QueryParams(d, found) ==
    LET marks == Offsets("?", d[1], d[1] + d[2])
    IN  IF marks = {} THEN found ELSE ParamsFrom(Least(marks) + 1, d[1] + d[2], found)

\* full_url is overwritten by every piece of the URL.
http_parser_settings_on_url ==
    LET d == Data(UrlText)
        marks == Offsets("?", d[1], d[1] + d[2])
        length == IF marks = {} THEN d[2] ELSE Least(marks) - d[1]
    IN
    /\ message_begin /\ InHeader(length_parsed) /\ Delivers(UrlText)
    /\ url' = Lesser(length, MaxUrl - 1)
    /\ params' = QueryParams(d, params)
    /\ Consumed(d)
    /\ UNCHANGED <<request, first, size, address, chunk, header_count, headers, last_was_value, header_end,
                   message_begin, message_end, body, body_length, body_length_read, rc>>

\* Mutant: a name of the maximal length is refused, as a value is.
RefusesMaximum(n) == header_count >= MaxHeaders \/ n >= MaxKey

RefusesName(n) == header_count >= MaxHeaders \/ n > MaxKey

\* A continued name is added to headers[header_count], the entry after the current one.
http_parser_settings_on_header_field ==
    LET d == Data({"k"}) IN
    /\ Delivers({"k"})
    /\ IF last_was_value
       THEN IF RefusesName(d[2])
            THEN rc' = -1 /\ UNCHANGED <<header_count, headers, last_was_value>>
            ELSE /\ header_count' = header_count + 1
                 /\ headers' = [headers EXCEPT ![header_count].key = d[2]]
                 /\ last_was_value' = FALSE
                 /\ UNCHANGED rc
       ELSE IF headers[header_count].key + d[2] > MaxKey
            THEN rc' = -1 /\ UNCHANGED <<header_count, headers, last_was_value>>
            ELSE /\ headers' = [headers EXCEPT ![header_count].key = @ + d[2]]
                 /\ UNCHANGED <<header_count, last_was_value, rc>>
    /\ Consumed(d)
    /\ UNCHANGED <<request, first, size, address, chunk, url, params, header_end, message_begin, message_end,
                   body, body_length, body_length_read>>

\* Mutant: a continued value replaces what was read of it.
ReplacesValue(old, n) == n

\* A continued value is added to the current header.
ContinuedValue(old, n) == old + n

http_parser_settings_on_header_value ==
    LET d == Data({"v"})
        i == header_count - 1
    IN
    /\ Delivers({"v"})
    /\ IF ~last_was_value /\ d[2] >= MaxValue
       THEN rc' = -1 /\ UNCHANGED <<headers, last_was_value>>
       ELSE /\ headers' = [headers EXCEPT ![i].value =
                              IF last_was_value THEN ContinuedValue(@, d[2]) ELSE d[2]]
            /\ last_was_value' = TRUE
            /\ UNCHANGED rc
    /\ Consumed(d)
    /\ UNCHANGED <<request, first, size, address, chunk, url, params, header_count, header_end, message_begin,
                   message_end, body, body_length, body_length_read>>

\* The body of a PUT or a POST has content-length bytes; it is ignored for other methods.
http_parser_settings_on_header_end ==
    /\ Parsing /\ At(length_parsed) = "e"
    /\ header_end' = TRUE
    /\ body_length' = IF request.method = "POST" THEN Len(Text) - EmptyLine - 1 ELSE 0
    /\ length_parsed' = length_parsed + 1
    /\ UNCHANGED <<request, first, size, address, chunk, url, params, header_count, headers, last_was_value,
                   message_begin, message_end, body, body_length_read, rc>>

http_parser_settings_on_body ==
    LET d == Data({"b", "&"}) IN
    /\ Parsing /\ header_end /\ body_length > 0
    /\ IF body = NoBody
       THEN body' = <<address, d[1]>> /\ body_length_read' = d[2]
       ELSE body' = body /\ body_length_read' = body_length_read + d[2]
    /\ Consumed(d)
    /\ UNCHANGED <<request, first, size, address, chunk, url, params, header_count, headers, last_was_value,
                   header_end, message_begin, message_end, body_length, rc>>

http_parser_settings_on_msg_end ==
    /\ rc = 0 /\ ~message_end
    /\ Complete
    /\ message_end' = TRUE
    /\ UNCHANGED <<request, first, size, address, length_parsed, chunk, url, params, header_count, headers,
                   last_was_value, header_end, message_begin, body, body_length, body_length_read, rc>>

Next ==
    \/ http_session_receive_request
    \/ http_parser_settings_on_message_begin
    \/ http_parser_settings_on_url
    \/ http_parser_settings_on_header_field
    \/ http_parser_settings_on_header_value
    \/ http_parser_settings_on_header_end
    \/ http_parser_settings_on_body
    \/ http_parser_settings_on_msg_end

Spec == Init /\ [][Next]_vars

-----------------------------------------------------------------------------
(* What the request says, read off its text.                               *)

UrlEnd == Least({i \in 0..(Len(Text) - 1) : At(i) = "d"})

\* Where the parameters of the URL start.
ParamStarts == {i + 1 : i \in {x \in 0..(UrlEnd - 1) : At(x) \in {"?", "&"}}}

SentParams ==
    {<<x, Lesser(Least({y \in x..UrlEnd : At(y) \in {"&", "d"}}) - x, MaxParamLength - 1)>> :
        x \in {y \in ParamStarts : Cardinality({z \in ParamStarts : z < y}) < MaxParams}}

SentUrl == Lesser(Least({i \in 0..UrlEnd : At(i) \in {"?", "d"}}), MaxUrl - 1)

\* The header section arrived with the first read.
Whole == first > EmptyLine

WithinLimits ==
    /\ Len(request.headers) <= MaxHeaders
    /\ \A i \in 1..Len(request.headers) :
         request.headers[i].key <= MaxKey /\ request.headers[i].value < MaxValue

-----------------------------------------------------------------------------
\* The variables have their types and the arrays are not overrun by the counts.
TypeOK ==
    /\ size \in 0..Len(Text) /\ length_parsed \in 0..size /\ chunk \in 0..size /\ address \in 0..2
    /\ url \in 0..(MaxUrl - 1) /\ Len(params) <= MaxParams
    /\ \A i \in 1..Len(params) : params[i][2] < MaxParamLength
    /\ header_count \in 0..MaxHeaders
    /\ body \in {NoBody} \cup ({1, 2} \X (0..Len(Text)))
    /\ body_length_read \in 0..Len(Text) /\ rc \in {0, -1}

\* A complete request has the headers that were sent, with values of the length that was sent, in
\* however many pieces they arrived (on_header_value continues a value).
ValuesAreWhole ==
    message_end => /\ header_count = Len(request.headers)
                   /\ \A i \in 1..header_count : headers[i - 1].value = request.headers[i].value

\* full_url is the path of the request line.
UrlIsWhole == url = SentUrl

\* The names of the headers have the length that was sent.
KeysAreWhole == \A i \in 1..header_count : headers[i - 1].key = request.headers[i].key

\* The query parameters, which become the arguments of the function, are those of the URL in their order.
\* That is all of them if the first read has no "&" behind the URL.  If it has one, in a header or in the
\* body, on_url takes it for a separator (strchr stops at the end of the buffer, not of the URL): then each
\* parameter of the URL that an "&" of the URL ends is as sent and the last one starts where it should,
\* but it extends to that "&", and what is behind it may become a parameter too.
ParamsAreSent ==
    LET got == {params[i] : i \in 1..Len(params)}
        end(x) == Least({y \in x..UrlEnd : At(y) \in {"&", "d"}})
    IN  /\ \A i, j \in 1..Len(params) : i < j => params[i][1] < params[j][1]
        /\ {q \in SentParams : At(end(q[1])) = "&"} \subseteq got
        /\ {q[1] : q \in SentParams} = {q[1] : q \in got} \cap 0..UrlEnd
        /\ Offsets("&", UrlEnd, first) = {} => got = SentParams

\* The function reads the body from the first byte after the headers.
BodyIsWhereItStarts == body_length > 0 => body = <<address, EmptyLine + 1>>

\* If the header section arrives with the first read, a request is accepted if and only if its headers are
\* within the limits of struct http_request.
LimitsRefuse == Whole => (message_end => WithinLimits) /\ (rc = -1 => ~WithinLimits)

\* If the header section arrives with the first read, what the sandbox gets is what the client sent, in
\* however many pieces the body arrives: the URL, the headers, the body, and the parameters as far as
\* ParamsAreSent says.
ParsedAsSent ==
    Whole /\ message_end => UrlIsWhole /\ KeysAreWhole /\ ValuesAreWhole /\ ParamsAreSent /\ BodyIsWhereItStarts

=============================================================================
