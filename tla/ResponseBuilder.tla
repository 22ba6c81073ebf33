-------------------------- MODULE ResponseBuilder ---------------------------
(***************************************************************************)
(* ResponseBuilder: from a Response, or from what a script has written, to *)
(* the bytes that go to the client. With the parts of MethodHandler that   *)
(* fill a Response. Reasons, dates and pages are tokens.                   *)
(***************************************************************************)
EXTENDS Strings

Header(key, value) == <<key>> \o value \o CRLF

\* The status line, Date and Server
Preamble(code) == <<"HTTP/1.0", " ", ToString(code)>> \o CRLF
                  \o Header("date:", <<"now">>) \o Header("server:", <<"webserv/1.0">>)

HasBody(resp) == resp.statusCode \notin {204, 304}

\* The type and the length are written from the Response, not from its map.
OwnHeaders(resp) ==
    FlattenSeq([k \in DOMAIN resp.headers |->
                  IF resp.headers[k].key \in {"content-type:", "content-length:"} THEN <<>>
                  ELSE Header(resp.headers[k].key, resp.headers[k].value)])

SizeAsText(body) == Len(SelectSeq(body, LAMBDA c : c # CR))     \* mutation
SizeOf(body)     == Len(body)

LengthAndType(resp) ==
    IF HasBody(resp)
    THEN (IF resp.contentType = "" THEN <<>> ELSE Header("content-type:", <<resp.contentType>>))
         \o Header("content-length:", <<ToString(SizeOf(resp.body))>>)
    ELSE <<>>

build(resp) ==
    Preamble(resp.statusCode)
    \o OwnHeaders(resp)
    \o LengthAndType(resp)
    \o Header("connection:", <<"close">>)
    \o CRLF
    \o (IF HasBody(resp) THEN resp.body ELSE <<>>)

-----------------------------------------------------------------------------
(* Parts of MethodHandler *)

Response(code, headers, body) ==
    [statusCode |-> code, contentType |-> "text/html", headers |-> headers, body |-> body]

\* The page of the configuration, or the server's own
makeError(code) == Response(code, <<>>, <<"page">>)

\* applySession: the identifier of the session, and cookies for everybody
SetCookie(session) ==
    [key |-> "set-cookie:",
     value |-> <<"SESSION_ID", "=", session, ";", " ", "Path=/">> \o CRLF
               \o <<"set-cookie:", "member1", "=", "ELAMRANI", ";", " ", "Path=/">>]

-----------------------------------------------------------------------------
(* buildCgiResponse *)

BlankLines(result) == {k \in Positions(result) : IsCRLF(result, k) /\ IsCRLF(result, k + 2)}
LastBlankLine(result) == IF BlankLines(result) = {} THEN npos ELSE Max(BlankLines(result)) \* mutation
\* Its headers end where the first blank line is; its body may have others.
Separator(result) == First(BlankLines(result))

\* Line by line; behind a line end at its end there is no other line.
Relay(headersPart) ==
    LET lines == Lines(headersPart)
        kept  == IF Last(lines) = <<>> THEN Front(lines) ELSE lines
    IN  FlattenSeq([k \in DOMAIN kept |-> kept[k] \o CRLF])

buildCgiResponse(result) ==
    LET sep == Separator(result)
    IN  IF sep = npos THEN build(makeError(500))
        ELSE Preamble(200) \o Relay(Substr(result, 0, sep)) \o CRLF
             \o Substr(result, sep + 4, Len(result))
=============================================================================
