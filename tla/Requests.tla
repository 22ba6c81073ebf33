------------------------------ MODULE Requests ------------------------------
(***************************************************************************)
(* What clients send, as RFC 9112 writes it, what RequestReading and       *)
(* FormData have to make of it, and what clients have to make of what      *)
(* ResponseBuilder sends back. Their instances for TLC.                    *)
(***************************************************************************)
EXTENDS FormData, ResponseBuilder

CONSTANT MaxBody   \* bound on the length of a body, and of a name

Line(text)       == text \o CRLF
TopOf(lines)      == Line(RequestLine) \o FlattenSeq([k \in DOMAIN lines |-> Line(<<lines[k]>>)])
                    \o CRLF
Size(n)          == <<IF n = 0 THEN "0" ELSE IF n = 1 THEN "1" ELSE "2">>
Chunk(data, ext) == Line(Size(Len(data)) \o ext) \o Line(data)
LastChunk(ext, trailer) == Line(Size(0) \o ext) \o trailer \o CRLF

\* The bodies hold everything that delimits a chunk.
Bodies == BoundedSeq({"x", "0", CR, LF}, MaxBody)

Splits(b) == IF b = <<>> THEN {<<>>}
             ELSE {<<b>>} \cup {<<SubSeq(b, 1, k), SubSeq(b, k + 1, Len(b))>> : k \in 1..(Len(b) - 1)}

Encodings(b) ==
    {FlattenSeq([k \in DOMAIN s |-> Chunk(s[k], ext)]) \o LastChunk(ext, trailer) :
        s \in Splits(b), ext \in {<<>>, <<";", "x">>}, trailer \in {<<>>, Line(<<"x">>)}}

\* A request, and what follows it on the connection
Request(head, encoded, b, next) ==
    [bytes |-> head \o encoded \o next, valid |-> TRUE, encoded |-> encoded, body |-> b,
     length |-> Len(head \o encoded), file |-> NoFile, target |-> Target(RequestLine), session |-> ""]

ByChunks ==
    UNION {{Request(TopOf(h), e, b, next) :
              h \in {<<Chunked>>, <<"content-length: 1", Chunked>>},
              e \in Encodings(b), next \in {<<>>, RequestLine}} : b \in Bodies}

ByLengthHeader ==
    UNION {{Request(TopOf(h), b, b, next) :
              h \in {<<LengthOf(Len(b))>>, <<OtherHeader, LengthOf(Len(b))>>},
              next \in {<<>>, RequestLine}} : b \in Bodies}

\* Without a body. Nothing follows: behind a request without headers it would be
\* parsed as its headers.
Bare == {Request(TopOf(h), <<>>, <<>>, <<>>) : h \in {<<>>, <<OtherHeader>>}}

\* Bytes that mean nothing
Other(bytes) == [bytes |-> bytes, valid |-> FALSE, encoded |-> <<>>, body |-> <<>>, length |-> 0,
                 file |-> NoFile, target |-> NoTarget, session |-> ""]

\* A length that is none, twice a length, a coding that is not known, no colon,
\* a request line that is not one
Confused ==
    {Other(TopOf(h) \o <<"x", "x">>) :
        h \in {<<NoNumber>>, <<NoNumber, "content-length: 2">>, <<"content-length: 1", NoNumber>>,
               <<OtherCoding>>, <<"content-length: 1", OtherCoding>>, <<Chunked, OtherCoding>>,
               <<OtherHeader, "x">>}}
    \cup {Other(Line(line) \o CRLF) :
             line \in {<<"x">>, Front(RequestLine), RequestLine \o <<" ", "x">>, <<"x", " ">> \o RequestLine,
                      <<"GET", " ", "/", " ", "HTTP/2.0">>}}

\* One token of an encoded body lost, or another one in its place. What the
\* client means by it is lost too.
Damaged(r) ==
    LET places == {k \in DOMAIN r.bytes : k > Len(r.bytes) - Len(r.encoded)}
    IN  {Other(RemoveAt(r.bytes, k)) : k \in places}
        \cup {Other(ReplaceAt(r.bytes, k, t)) :
                k \in places, t \in {CR, LF, "0", "1", "2", "x", ";", OtherHeader}}

\* A form with a file, as RFC 7578 writes it, with data that holds all but the
\* delimiter
Delimiter == <<"--", "B">>
Contents  == {d \in BoundedSeq({"x", CR, LF, "--", "B"}, MaxBody) : Find(d, Delimiter, 0) = npos}

Disposition(value) == Line(<<"content-disposition:", "form-data", ";">> \o value)
FileNamed == {Disposition(<<"filename=", "\"", "f", ";", "\"">>), Disposition(<<"filename=", "f", ";", "x">>)}
NameOf(header) == IF "\"" \in ToSet(header) THEN <<"f", ";">> ELSE <<"f">>
PartType  == Line(<<"content-type:", "x">>)

\* around: what may stand before the first and behind the last delimiter
FormBody(lines, data, around) ==
    around \o Line(Delimiter) \o lines \o CRLF \o data \o CRLF \o Delimiter \o <<"--">> \o CRLF \o around

Upload(type, h, lines, data, around) ==
    LET b == FormBody(lines, data, around)
    IN  [Request(TopOf(<<type, LengthOf(Len(b))>>), b, b, <<>>)
           EXCEPT !.file = [filename |-> NameOf(h), data |-> data]]

Uploads ==
    UNION {{Upload(form[1], h, lines, data, form[2]) :
              form \in {<<Form, <<>>>>, <<QuotedForm, Line(<<"x">>)>>},
              lines \in {h, PartType \o h, h \o PartType}, data \in Contents} : h \in FileNamed}

\* A name as RFC 3986 writes it: any of its characters by its code, and those that
\* mean something else always
Codes    == "%" :> <<"%", "2", "5">> @@ "?" :> <<"%", "3", "F">> @@ "2" :> <<"%", "3", "2">>
            @@ "5" :> <<"%", "3", "5">>
Names    == BoundedSeq(DOMAIN Codes, MaxBody + 1)
Writes(c)  == {Codes[c]} \cup (IF c \in {"%", "?"} THEN {} ELSE {<<c>>})
Written(n) == {FlattenSeq(w) : w \in {w \in [DOMAIN n -> UNION {Writes(c) : c \in ToSet(n)}] :
                                         \A k \in DOMAIN n : w[k] \in Writes(n[k])}}

Aimed(line, name, query) ==
    [Request(Line(line) \o CRLF, <<>>, <<>>, <<>>) EXCEPT !.target = [uri |-> <<"/">> \o name, query |-> query]]

ByName ==
    UNION {{Aimed(<<"GET", " ", "/">> \o w \o q \o <<" ", "HTTP/1.0">>, name, IF q = <<>> THEN <<>> ELSE Tail(q)) :
              w \in Written(name), q \in {<<>>, <<"?", "2", "?", "%", "2", "5">>}} : name \in Names}

-----------------------------------------------------------------------------
(* What clients do with what is sent back *)

\* A response as RFC 9112 has it read: up to the blank line its header, and then its
\* body, none, as long as the header says or all there is
Read(bytes) ==
    LET blank == Find(bytes, CRLF \o CRLF, 0)
        lines == Lines(Substr(bytes, 0, blank))
        sizes == LastNamed(lines, "content-length:")
        code  == lines[1][3]
        rest  == Substr(bytes, blank + 4, Len(bytes))
        size  == CASE code \in {"204", "304"} -> 0
                   [] code \notin {"204", "304"} /\ sizes = <<>> -> Len(rest)
                   [] code \notin {"204", "304"} /\ sizes # <<>> ->
                        CHOOSE n \in 0..MaxLength : ToString(n) = sizes[1]
    IN  [code |-> code, lines |-> Tail(lines), body |-> Substr(rest, 0, size), over |-> Len(rest) - size]

\* It keeps the cookies that are set, and sends them back as RFC 6265 writes them, in
\* any order, with others it has.
CookiesIn(answer) ==
    {Substr(Tail(l), 0, Find(Tail(l), <<";">>, 0)) :
        l \in {l \in ToSet(answer.lines) : l[1] = "set-cookie:"}}
OthersSet == {<<"id", "=", "x", "=">>, <<"a", "=">>}
Separated(cookies) ==
    FlattenSeq([k \in DOMAIN cookies |->
                  IF k = 1 THEN cookies[k] ELSE <<";", " ">> \o cookies[k]])

FirstAnswer == Read(build(Response(200, <<SetCookie("s1")>>, <<"page">>)))

Returning ==
    {[Request(TopOf(<<OtherHeader>>), <<>>, <<>>, <<>>) EXCEPT
        !.bytes  = Line(RequestLine) \o Line(<<Cookie, " ">> \o Separated(jar)) \o CRLF,
        !.length = Len(Line(RequestLine) \o Line(<<Cookie, " ">> \o Separated(jar)) \o CRLF),
        !.session = "s1"] :
        jar \in UNION {SetToSeqs(CookiesIn(FirstAnswer) \cup others) : others \in SUBSET OthersSet}}

\* Lines behind a request without headers: as long as they are not all there, each attempt
\* takes what there is of them for its headers.
Followed ==
    {Other(Line(RequestLine) \o CRLF \o FlattenSeq([k \in DOMAIN lines |-> Line(lines[k])])) :
        lines \in {<<<<LengthOf(MaxLength)>>, <<Cookie, "a", "=">>, <<OtherHeader>>>>}}

WellFormed == ByChunks \cup ByLengthHeader \cup Bare \cup ByName \cup Returning
Fragile    == {r \in ByChunks : /\ r.length = Len(r.bytes) /\ ToSet(r.body) \subseteq {"x"}
                              /\ "content-length: 1" \notin ToSet(r.bytes)}
AllSent    == WellFormed \cup Uploads \cup Confused \cup Followed
              \cup UNION {Damaged(r) : r \in Fragile}

-----------------------------------------------------------------------------
\* Types; nothing is read past the end of what was sent, and only a complete
\* request has a body, of bytes that were sent.
TypeOK ==
    /\ received \in 0..Len(sent.bytes)
    /\ status \in {"INCOMPLETE", "SUCCESS", "ERROR"}
    /\ {body, target.query} \subseteq Seq(ToSet(sent.bytes))
    /\ headers \in [DOMAIN LinesOf -> Seq(ToSet(sent.bytes))]
    /\ status = "SUCCESS" \/ body = <<>>

\* What one attempt makes of a text, in an HTTPRequest of its own
Parse(raw) == parseRequest(raw, NewRequest)

\* Every attempt fills the same HTTPRequest, also one that finds the request incomplete or
\* wrong. What it holds is nevertheless what one parse of all that has arrived says: no
\* part of a value that was cut off, and no header or query of an attempt before.
NothingStale ==
    Parse(Substr(sent.bytes, 0, received))
      = [status |-> status, target |-> target, headers |-> headers, body |-> body]

\* However a request is cut into reads, split into chunks and annotated, it is
\* answered with the body its client sent, never with a 400, and what comes
\* behind it on the connection is not part of it.
BodyArrives ==
    sent.valid => status # "ERROR" /\ (status = "SUCCESS" => body = sent.body)

\* The request is complete with its last byte: not before, or a handler would
\* run on half a body, and not later, or both sides would wait.
CompleteInTime ==
    sent.valid => (status = "SUCCESS" <=> received >= sent.length)

\* Bytes behind a head without headers are parsed as headers, as long as they are there.
HeadIsClear(raw) ==
    LET blank == Find(raw, CRLF \o CRLF, 0)
    IN  blank # npos /\ blank = FindCRLF(raw, 0) => Len(raw) = blank + 4

\* Where the reads end makes no difference to a malformed request either: what
\* the parser says of a part of it, it says of the whole, and the page of a 400 is that
\* of the same URI.
SameVerdict ==
    status # "INCOMPLETE" /\ HeadIsClear(sent.bytes) =>
        Parse(sent.bytes)
          = [status |-> status, target |-> target, headers |-> headers, body |-> body]

\* The file of a form is saved under its name and with all its data, whatever
\* line ends and dashes that holds, and however the form was sent.
UploadArrives ==
    sent.file # NoFile /\ status = "SUCCESS" =>
        parseTheThing(MediaType[contentType(headers)], body) = sent.file

\* The URI names what the client names, whatever it has to write with codes: a mark
\* that belongs to the name begins no query, and what looks like a code is none.
TargetArrives == sent.valid /\ status = "SUCCESS" => target = sent.target

\* Who sends back what Set-Cookie gave it is known by its session, whichever other
\* cookies stand around it; otherwise each request would have a new one.
SessionKept ==
    sent.session # "" /\ status = "SUCCESS" =>
        getCookie(cookieHeader(headers), <<"SESSION_ID">>) = <<sent.session>>

\* A script that sends back what it was sent
ScriptHeaders == {<<>>, <<<<"set-cookie:", "x">>>>}
Echo(lines) ==
    LET length == addPostEnv(headers, body)
    IN  FlattenSeq([k \in DOMAIN lines |-> Line(lines[k])]) \o Line(<<"content-type:", "x">>) \o CRLF
        \o Substr(body, 0, IF length = NoLength THEN 0 ELSE length)

\* What a script writes is what the client reads, its headers and its body, though
\* that may look like headers too: down to the body the client sent.
EchoArrives ==
    sent.valid /\ status = "SUCCESS" =>
        \A lines \in ScriptHeaders :
           LET answer == Read(buildCgiResponse(Echo(lines)))
           IN  /\ answer.code = "200" /\ answer.body = sent.body /\ answer.over = 0
               /\ ToSet(lines) \cup {<<"content-type:", "x">>} \subseteq ToSet(answer.lines)

\* Every answer has the body and the headers its handler gave it and ends with them:
\* the file that was uploaded, a redirect, nothing at all.
Answers ==
    {Response(200, <<SetCookie("s1")>>, body),
     Response(301, <<[key |-> "location:", value |-> target.uri], SetCookie("s1")>>, <<"page">>),
     Response(204, <<SetCookie("s1")>>, <<>>), makeError(404)}
AnswerArrives ==
    sent.valid /\ status = "SUCCESS" =>
        \A resp \in Answers :
           LET answer == Read(build(resp))
           IN  /\ answer.code = ToString(resp.statusCode)
               /\ answer.body = resp.body /\ answer.over = 0
               /\ \A h \in ToSet(resp.headers) : ToSet(Lines(<<h.key>> \o h.value)) \subseteq ToSet(answer.lines)
=============================================================================
