------------------------------ MODULE FormData ------------------------------
(***************************************************************************)
(* What is made of the body of a POST that has been read: the file in a    *)
(* form, by FileUpload, and the length a script is told, by CGIHandler.    *)
(* Tokens and positions are those of RequestReading; a delimiter and the   *)
(* lines of a part are sequences of tokens.                                *)
(***************************************************************************)
EXTENDS RequestReading

-----------------------------------------------------------------------------
(* FileUpload *)

\* The value of the header
MediaType == [type \in {Form, QuotedForm} |->
    IF type = Form THEN <<"multipart/form-data; ", "boundary=", "B">>
    ELSE <<"multipart/form-data; ", "boundary=", "\"", "B", "\"">>]

extractBoundary(type) ==
    LET pos == Find(type, <<"boundary=">>, 0)
    IN  IF pos = npos THEN <<>> ELSE Trim(Substr(type, pos + 1, Len(type)), {" ", "\""})

\* Up to the closing quote; without quotes, up to a semicolon or the end
extractAttribute(header, attr) ==
    LET key    == Find(header, <<attr>>, 0)
        quoted == Find(header, <<attr, "\"">>, 0)
        Until(c, k) == Find(header, <<c>>, k)
    IN  IF key = npos THEN <<>>
        ELSE IF quoted # npos
        THEN IF Until("\"", quoted + 2) = npos THEN <<>>
             ELSE Substr(header, quoted + 2, Until("\"", quoted + 2) - quoted - 2)
        ELSE Trim(IF Until(";", key) = npos THEN Substr(header, key + 1, Len(header))
                  ELSE Substr(header, key + 1, Until(";", key) - key - 1), {" ", CR})

\* The line that begins with the name, its last one if it is there twice
PartLines(block) ==
    LET lines == Split(block, {LF}) IN [k \in DOMAIN lines |-> Trim(lines[k], {" ", CR})]

parsePartHeaders(block, name) == LastNamed(PartLines(block), name)

\* A line end, with or without its CR, behind and before a position
SkipLineEnd(d, k) ==
    LET next == IF At(d, k) = CR THEN k + 1 ELSE k
    IN  IF At(d, next) = LF THEN next + 1 ELSE next

WithLineEnd(d, k) == k                                         \* mutation
CutLineEnd(d, k) ==
    IF IsCRLF(d, k - 2) THEN k - 2 ELSE IF At(d, k - 1) = LF THEN k - 1 ELSE k

NoFile == [filename |-> <<>>, data |-> <<>>]

\* What is between the first two delimiters
ParsePart(part) ==
    LET crlf == Find(part, CRLF \o CRLF, 0)
        lf   == Find(part, <<LF, LF>>, 0)
        end  == IF crlf # npos THEN crlf ELSE lf
        data == Substr(part, IF crlf # npos THEN end + 4 ELSE end + 2, Len(part))
        disposition == parsePartHeaders(Substr(part, 0, end), "content-disposition:")
        filename    == extractAttribute(disposition, "filename=")
    IN  IF end = npos \/ filename = <<>> THEN NoFile ELSE [filename |-> filename, data |-> data]

parseTheThing(type, d) ==
    LET boundary  == extractBoundary(type)
        delimiter == <<"--">> \o boundary
        first == Find(d, delimiter, 0)
        pos   == SkipLineEnd(d, first + Len(delimiter))
        next  == Find(d, delimiter, pos)
    IN  IF boundary = <<>> \/ first = npos \/ next = npos THEN NoFile
        ELSE ParsePart(Substr(d, pos, (CutLineEnd(d, next) - pos) % WordSize))

-----------------------------------------------------------------------------
(* CGIHandler *)

NoLength == -1

LengthOfHeader(h, d) ==                                        \* mutation
    IF contentLength(h) # "" THEN Lengths[contentLength(h)] ELSE NoLength

\* CONTENT_LENGTH; a transfer-encoding, any of them, makes the header void.
addPostEnv(h, d) ==
    IF transferEncoding(h) # "" THEN Len(d)
    ELSE IF contentLength(h) # "" THEN Lengths[contentLength(h)] ELSE NoLength
=============================================================================
