--------------------------- MODULE RequestReading ---------------------------
(***************************************************************************)
(* How a request is read: every read() appends what has arrived to the     *)
(* buffer of the client, and RequestParser starts over on the whole of it, *)
(* down to the chunked body, until it finds the request complete or wrong. *)
(*                                                                         *)
(* What happens at the end of a line, in a chunk size, in a URI, in        *)
(* cookies and in a body is decided character by character; any other      *)
(* header line is one token, since only its verdict matters.               *)
(***************************************************************************)
EXTENDS HTTPRequest

CONSTANTS
    Sent,        \* what clients send: a set of records with a field bytes
    MaxLength,   \* bound on the lengths that headers give
    BUFFER_SIZE, \* the most that one read() returns
    WordSize     \* 2^w, w the width of std::size_t and of unsigned long

ASSUME ReadingAssumption ==
    BUFFER_SIZE \in Nat \ {0} /\ WordSize \in Nat \ {0} /\ MaxLength \in Nat

VARIABLES
    sent,     \* the bytes on the connection, and what the client means by them
    received, \* how many of them are in _requestBuffer
    status,   \* of the last parseRequest()
    target,   \* of the HTTPRequest of the client, which every attempt fills in further:
              \* URI and query string,
    headers,  \* the line that set each header,
    body

vars == <<sent, received, status, target, headers, body>>

\* What reading a body comes to
Outcome(result, b) == [status |-> result, body |-> b]

-----------------------------------------------------------------------------
(* ChunksDecoding *)

KeepExtension(line) == line                                    \* mutation
DropExtension(line) ==
    LET semicolon == First({j \in Positions(line) : At(line, j) = Semicolon})
    IN  IF semicolon = npos THEN line ELSE Substr(line, 0, semicolon)

\* Digits only, at least one, and no ERANGE
IsSize(hex) ==
    /\ hex # <<>> /\ ToSet(hex) \subseteq DOMAIN Digit
    /\ Strtoul(hex) < WordSize

\* The blank line after the last chunk, or after its trailer
FirstLineEnds(d, k) == FindCRLF(d, k) # npos                   \* mutation
BodyEnds(d, k) ==
    IsCRLF(d, k) \/ \E j \in k..Len(d) : IsCRLF(d, j) /\ IsCRLF(d, j + 2)

DataOnly(d, k, size) == k + size > Len(d)                      \* mutation
IsShort(d, k, size)  == (k + size + 2) % WordSize > Len(d)

\* One round of the loop over the chunks: from a position, with what is decoded so far
NextChunk(d, t) ==
    LET crlf == FindCRLF(d, t.pos)
        hex  == DropExtension(Substr(d, t.pos, crlf - t.pos))
        size == Strtoul(hex)
        data == crlf + 2
        end  == (data + size) % WordSize
        Stop(result) == [t EXCEPT !.status = result]
    IN  CASE crlf = npos                   -> Stop("INCOMPLETE")
          [] crlf # npos /\ ~IsSize(hex)   -> Stop("ERROR")
          [] crlf # npos /\ IsSize(hex)    ->
               CASE size = 0 /\ BodyEnds(d, data)       -> Stop("SUCCESS")
                 [] size = 0 /\ ~BodyEnds(d, data)      -> Stop("INCOMPLETE")
                 [] size > 0 /\ IsShort(d, data, size)  -> Stop("INCOMPLETE")
                 [] size > 0 /\ ~IsShort(d, data, size) ->
                      [status  |-> IF IsCRLF(d, end) THEN "READING" ELSE "ERROR",
                       pos     |-> end + 2,
                       decoded |-> t.decoded \o Substr(d, data, size)]

\* A round takes a character at least, unless the position wraps around: a loop that is
\* still reading after one round more than there are characters never ends.
decode(d) ==
    LET round[k \in 0..(Len(d) + 1)] ==
            IF k = 0 THEN [status |-> "READING", pos |-> 0, decoded |-> <<>>]
            ELSE LET t == round[k - 1] IN IF t.status = "READING" THEN NextChunk(d, t) ELSE t
        last == round[Len(d) + 1]
    IN  Outcome(last.status, last.decoded)

-----------------------------------------------------------------------------
(* RequestParser *)

RequestLine == <<"GET", " ", "/", " ", "HTTP/1.1">>
Chunked     == "transfer-encoding: chunked"
OtherCoding == "transfer-encoding: other"
LengthOf(n) == "content-length: " \o ToString(n)
Lengths     == [l \in {LengthOf(n) : n \in 0..MaxLength} |->
                  CHOOSE n \in 0..MaxLength : l = LengthOf(n)]
NoNumber    == "content-length: no number"
ASSUME LengthAssumption == CR \notin DOMAIN Lengths
OtherHeader == "host: any"
Form        == "content-type: form"
QuotedForm  == "content-type: quoted form"
Cookie      == "cookie:"
HeaderLines == {Chunked, OtherCoding, NoNumber, OtherHeader, Form, QuotedForm, Cookie}
               \cup DOMAIN Lengths

\* The headers that are asked for, and the lines that set them
LinesOf == [transferEncoding |-> {Chunked, OtherCoding},
            contentLength    |-> {NoNumber} \cup DOMAIN Lengths,
            contentType      |-> {Form, QuotedForm},
            cookie           |-> {Cookie}]

\* Empty lines are skipped. One without a colon is an error.
HasColon(l)        == l = <<>> \/ ToSet(l) \cap HeaderLines # {}
parseHeaders(text) == \A l \in ToSet(Lines(text)) : HasColon(l)

\* The last line that sets a header, <<>> if there is none. The lines before an error are set.
LineFor(key, text) ==
    LET lines == Lines(text)
        found == {k \in DOMAIN lines : /\ lines[k] # <<>> /\ lines[k][1] \in LinesOf[key]
                                      /\ \A j \in 1..(k - 1) : HasColon(lines[j])}
    IN  IF found = {} THEN <<>> ELSE lines[Max(found)]

\* The map keeps the headers that the text does not set.
KeepFirst(text, held) ==                                       \* mutation
    [key \in DOMAIN LinesOf |-> IF held[key] = <<>> THEN LineFor(key, text) ELSE held[key]]
setHeaders(text, held) ==
    [key \in DOMAIN LinesOf |-> IF LineFor(key, text) = <<>> THEN held[key] ELSE LineFor(key, text)]

\* A line with more than its token says something else; strtoul() reads a number's beginning.
transferEncoding(h) == CASE h.transferEncoding = <<>>        -> ""
                         [] h.transferEncoding = <<Chunked>> -> Chunked
                         [] OTHER                            -> OtherCoding
contentLength(h) == IF h.contentLength = <<>> THEN "" ELSE h.contentLength[1]
contentType(h)   == IF Len(h.contentType) = 1 THEN h.contentType[1] ELSE ""

\* The value, of which cookies are made, and anew for each such header
cookieHeader(h) == IF h.cookie = <<>> THEN <<>> ELSE trimSpaces(Tail(h.cookie))

ByLength(d, n) ==
    IF Len(d) < n THEN Outcome("INCOMPLETE", <<>>)
    ELSE Outcome("SUCCESS", Substr(d, 0, n))

ParseBody(h, d) ==
    LET length == contentLength(h)
    IN  IF transferEncoding(h) = Chunked THEN decode(d)
        ELSE IF length = "" THEN Outcome("SUCCESS", <<>>)
        ELSE IF length = NoNumber THEN Outcome("ERROR", <<>>)
        ELSE ByLength(d, Lengths[length])

\* setQueryString() is not called where there is no question mark.
SetTarget(line, held) ==
    IF Find(Words(line)[2], <<"?">>, 0) = npos THEN [Target(line) EXCEPT !.query = held.query]
    ELSE Target(line)

NoHeaders  == [key \in DOMAIN LinesOf |-> <<>>]
NewRequest == [target |-> NoTarget, headers |-> NoHeaders, body |-> <<>>]

\* The verdict, and what is then in the HTTPRequest: a body is set only with success,
\* and if a header announces one.
parseRequest(raw, request) ==
    LET firstLineEnd == FindCRLF(raw, 0)
        headersEnd   == First({j \in Positions(raw) : IsCRLF(raw, j) /\ IsCRLF(raw, j + 2)})
        firstLine    == Substr(raw, 0, firstLineEnd)
        theHeader    == Substr(raw, firstLineEnd + 2, (headersEnd - firstLineEnd - 2) % WordSize)
        named  == SetTarget(firstLine, request.target)
        told   == setHeaders(theHeader, request.headers)
        read   == ParseBody(told, Substr(raw, headersEnd + 4, Len(raw)))
        hasBody == transferEncoding(told) = Chunked \/ contentLength(told) # ""
        Held(result, t, h, b) == [status |-> result, target |-> t, headers |-> h, body |-> b]
    IN  CASE firstLineEnd = npos ->
               Held("INCOMPLETE", request.target, request.headers, request.body)
          [] firstLineEnd # npos /\ ~parseFirstLine(firstLine) ->
               Held("ERROR", request.target, request.headers, request.body)
          [] OTHER ->
               CASE headersEnd = npos -> Held("INCOMPLETE", named, request.headers, request.body)
                 [] headersEnd # npos /\ ~parseHeaders(theHeader) ->
                      Held("ERROR", named, told, request.body)
                 [] headersEnd # npos /\ parseHeaders(theHeader) ->
                      Held(read.status, named, told,
                           IF read.status = "SUCCESS" /\ hasBody THEN read.body ELSE request.body)

-----------------------------------------------------------------------------
(* EventLoop::handleClientRead, until the events of the client are POLLOUT *)

Init ==
    /\ sent \in Sent
    /\ received = 0
    /\ status = "INCOMPLETE"
    /\ target = NoTarget /\ headers = NoHeaders /\ body = <<>>

Arrived(n)   == n \in 1..Min2(BUFFER_SIZE, Len(sent.bytes) - received)

\* A read() returns n bytes, and all the bytes so far are parsed into the request that
\* the attempts before have left.
Receive(n) ==
    LET request == [target |-> target, headers |-> headers, body |-> body]
        outcome == parseRequest(Substr(sent.bytes, 0, received + n), request)
    IN  /\ status = "INCOMPLETE"
        /\ Arrived(n)
        /\ outcome.status # "READING"   \* or the parser does not return
        /\ received' = received + n
        /\ status' = outcome.status
        /\ target' = outcome.target /\ headers' = outcome.headers /\ body' = outcome.body
        /\ UNCHANGED sent

\* The client waits for its answer, or the server for the rest.
Rest ==
    /\ status # "INCOMPLETE" \/ received = Len(sent.bytes)
    /\ UNCHANGED vars

Next == (\E n \in 1..BUFFER_SIZE : Receive(n)) \/ Rest

Spec == Init /\ [][Next]_vars
=============================================================================
