--------------------------- MODULE RequestProofs ----------------------------
(***************************************************************************)
(* Theorems of Requests, for all the texts that clients may send. First    *)
(* what the decoder returns, round by round, and the parser, and what they *)
(* return for the beginning of a text; then what a repeated attempt makes  *)
(* of the request that the earlier ones have filled. What is held of a     *)
(* request follows, and at last what is made of texts that are messages,   *)
(* with bodies that RFC 9112 encodes and targets written with codes.       *)
(***************************************************************************)
EXTENDS Requests, SequenceLemmas

-----------------------------------------------------------------------------
(* Words and lines *)

\* A word begins with what is not white, and ends before what is. The next is looked for
\* behind that.
WordBegin(line, k) == First({j \in Positions(line) : j >= k /\ At(line, j) \notin White})
WordEnd(line, k)   == First({j \in Positions(line) : j >= WordBegin(line, k) /\ At(line, j) \in White})
WordsFrom(line, from, k) ==
    LET start == WordBegin(line, k)
        end   == WordEnd(line, k)
    IN  IF start = npos THEN <<>>
        ELSE IF end = npos THEN <<Substr(line, start, Len(line))>>
        ELSE <<Substr(line, start, end - start)>> \o from[end + 1]
AreWords(line, from) ==
    Words(line) = from[0] /\ \A k \in 0..Len(line) : from[k] = WordsFrom(line, from, k)

LEMMA WordsFound ==
    ASSUME NEW S, NEW line \in Seq(S)
    PROVE  \E from \in [0..Len(line) -> Seq(Seq(S))] : AreWords(line, from)
<1> DEFINE n == Len(line)
           T == Seq(Seq(S))
           start(k) == First({j \in Positions(line) : j >= k /\ At(line, j) \notin White})
           end(k)   == First({j \in Positions(line) : j >= start(k) /\ At(line, j) \in White})
           last(k)  == <<Substr(line, start(k), n)>>
           word(k)  == <<Substr(line, start(k), end(k) - start(k))>>
           E == {k \in 0..n : start(k) = npos \/ end(k) = npos}
           a == [k \in 0..n |-> IF start(k) = npos THEN <<>> ELSE IF end(k) = npos THEN last(k) ELSE <<>>]
           next == [k \in 0..n |-> end(k) + 1]
           F == [k \in 0..n |-> [x \in T |-> IF k \in E THEN x ELSE word(k) \o x]]
           Step(f, k) == IF start(k) = npos THEN <<>> ELSE IF end(k) = npos THEN last(k)
                         ELSE word(k) \o f[end(k) + 1]
           Is(f) == f = [k \in 0..n |-> Step(f, k)]
           from  == CHOOSE f : Is(f)
<1>1. n \in Nat
  OBVIOUS
<1>2. ASSUME NEW k \in 0..n
      PROVE  /\ start(k) # npos => start(k) \in k..(n - 1)
             /\ start(k) # npos /\ end(k) # npos => end(k) \in start(k)..(n - 1)
  <2> DEFINE P(m) == {j \in Positions(line) : j >= m /\ At(line, j) \notin White}
             Q(m) == {j \in Positions(line) : j >= m /\ At(line, j) \in White}
  <2>1. \A m : P(m) \in SUBSET Nat /\ Q(m) \in SUBSET Nat
    BY DEF Positions
  <2>2. start(k) # npos => start(k) \in P(k)
    BY <2>1, FirstIsLeast
  <2>3. end(k) # npos => end(k) \in Q(start(k))
    BY <2>1, FirstIsLeast
  <2>4. start(k) # npos => start(k) \in k..(n - 1)
    BY <1>1, <2>2 DEF Positions
  <2>5. start(k) # npos /\ end(k) # npos => end(k) \in start(k)..(n - 1)
    BY <1>1, <2>3, <2>4 DEF Positions
  <2> QED
    BY <2>4, <2>5
<1>3. ASSUME NEW k \in 0..n
      PROVE  /\ start(k) # npos => last(k) \in T
             /\ k \notin E => word(k) \in T
  <2> HIDE DEF start, end
  <2>0. start(k) # npos => start(k) \in 0..n
    BY <1>1, <1>2
  <2>1. start(k) # npos => Substr(line, start(k), n) \in Seq(S)
    BY <1>1, <2>0, SubstrType
  <2>2. k \notin E => start(k) \in 0..n /\ end(k) - start(k) \in Nat
    BY <1>1, <1>2
  <2>3. k \notin E => Substr(line, start(k), end(k) - start(k)) \in Seq(S)
    BY <2>2, SubstrType
  <2> QED
    BY <2>1, <2>3
<1>4. /\ E \in SUBSET (0..n)
      /\ a \in [0..n -> T]
      /\ \A k \in (0..n) \ E : next[k] \in (k + 1)..n
      /\ F \in [0..n -> [T -> T]]
  <2>1. E \in SUBSET (0..n)
    OBVIOUS
  <2>2. \A k \in (0..n) \ E : next[k] \in (k + 1)..n
    <3> SUFFICES ASSUME NEW k \in 0..n, k \notin E PROVE next[k] \in (k + 1)..n
      OBVIOUS
    <3> HIDE DEF start, end
    <3>1. start(k) \in k..(n - 1) /\ end(k) \in start(k)..(n - 1)
      BY <1>2
    <3> QED
      BY <1>1, <3>1
  <2> HIDE DEF start, end, last
  <2>3. a \in [0..n -> T]
    <3>1. <<>> \in T
      OBVIOUS
    <3> HIDE DEF T
    <3> QED
      BY <1>3, <3>1
  <2>4. F \in [0..n -> [T -> T]]
    <3>1. \A k \in 0..n : \A x \in T : k \notin E => word(k) \o x \in T
      BY <1>3, ConcatProperties
    <3> HIDE DEF T, word, E
    <3> QED
      BY <3>1
  <2> QED
    BY <2>1, <2>2, <2>3, <2>4
<1>5. \E f : Is(f)
  <2>1. DefinedBackward(T, n, E, a, next, F)
    <3> HIDE DEF T, n, E, a, next, F
    <3> QED
      BY <1>1, <1>4, BackwardRecursion
  <2>2. PICK f \in [0..n -> T] : \A k \in 0..n : f[k] = IF k \in E THEN a[k] ELSE F[k][f[next[k]]]
    BY <2>1 DEF DefinedBackward
  <2>3. \A k \in 0..n : f[k] = Step(f, k)
    <3> SUFFICES ASSUME NEW k \in 0..n PROVE f[k] = Step(f, k)
      OBVIOUS
    <3>1. CASE k \in E
      <4>1. f[k] = a[k]
        BY <2>2, <3>1
      <4> HIDE DEF start, end, last, word
      <4> QED
        BY <3>1, <4>1
    <3>2. CASE k \notin E
      <4>1. next[k] \in 0..n /\ next[k] = end(k) + 1
        <5>1. next[k] \in (k + 1)..n
          BY <1>4, <3>2
        <5> HIDE DEF start, end
        <5> QED
          BY <1>1, <5>1
      <4>2. f[next[k]] \in T
        BY <4>1
      <4>3. F[k][f[next[k]]] = word(k) \o f[next[k]]
        <5> HIDE DEF T, word, E, next
        <5> QED
          BY <3>2, <4>2
      <4>4. f[k] = word(k) \o f[end(k) + 1]
        BY <2>2, <3>2, <4>1, <4>3
      <4> HIDE DEF start, end, last, word
      <4> QED
        BY <3>2, <4>4
    <3> QED
      BY <3>1, <3>2
  <2>4. Is(f)
    <3> HIDE DEF Step, n
    <3> QED
      BY <2>3
  <2> QED
    BY <2>4
<1>6. Is(from)
  <2> HIDE DEF Is
  <2> QED
    BY <1>5
<1>7. Words(line) = from[0]
  BY DEF Words
<1> HIDE DEF from
<1>8. \A k \in 0..n : from[k] = Step(from, k)
  <2> HIDE DEF Step, n
  <2> QED
    BY <1>6
<1>9. \A k \in 0..n : (\A j \in (k + 1)..n : from[j] \in T) => from[k] \in T
  <2> SUFFICES ASSUME NEW k \in 0..n, \A j \in (k + 1)..n : from[j] \in T
               PROVE  from[k] \in T
    OBVIOUS
  <2> HIDE DEF start, end, last, word
  <2>1. CASE start(k) = npos
    <3>1. from[k] = <<>>
      BY <1>8, <2>1
    <3> QED
      BY <3>1
  <2>2. CASE start(k) # npos /\ end(k) = npos
    BY <1>3, <1>8, <2>2
  <2>3. CASE start(k) # npos /\ end(k) # npos
    <3>1. end(k) + 1 \in (k + 1)..n
      BY <1>1, <1>2, <2>3
    <3>2. from[end(k) + 1] \in T /\ word(k) \in T
      BY <1>3, <2>3, <3>1
    <3>3. word(k) \o from[end(k) + 1] \in T
      BY <3>2, ConcatProperties
    <3> QED
      BY <1>8, <2>3, <3>3
  <2> QED
    BY <2>1, <2>2, <2>3
<1>10. \A k \in 0..n : from[k] \in T
  <2> HIDE DEF T, n
  <2> QED
    BY <1>1, <1>9, BackwardType
<1>11. from \in [0..n -> T]
  <2>1. from = [k \in 0..n |-> Step(from, k)]
    BY <1>6
  <2>2. \A k \in 0..n : Step(from, k) \in T
    BY <1>8, <1>10
  <2> HIDE DEF T, n, Step
  <2> QED
    BY <2>1, <2>2
<1>12. \A k \in 0..n : from[k] = WordsFrom(line, from, k)
  <2>1. \A k : Step(from, k) = WordsFrom(line, from, k)
    BY DEF WordsFrom, WordBegin, WordEnd
  <2> QED
    BY <1>8, <2>1
<1> HIDE DEF T, n
<1>13. AreWords(line, from)
  BY <1>7, <1>12 DEF AreWords, n
<1> QED
  BY <1>11, <1>13 DEF T, n

LEMMA WordsType ==
    ASSUME NEW S, NEW line \in Seq(S)
    PROVE  Words(line) \in Seq(Seq(S))
<1>1. PICK from \in [0..Len(line) -> Seq(Seq(S))] : AreWords(line, from)
  BY WordsFound
<1>2. 0 \in 0..Len(line) /\ Words(line) = from[0]
  BY <1>1 DEF AreWords
<1> QED
  BY <1>2

\* What a text sets, where nothing is set yet
Fields(text) == setHeaders(text, NoHeaders)

LEMMA LineForSays ==
    ASSUME NEW S, NEW text \in Seq(S), NEW key
    PROVE  /\ LineFor(key, text) \in Seq(S)
           /\ LineFor(key, text) # <<>> => LineFor(key, text)[1] \in LinesOf[key]
<1> DEFINE lines == Lines(text)
           found == {k \in DOMAIN lines : /\ lines[k] # <<>> /\ lines[k][1] \in LinesOf[key]
                                         /\ \A j \in 1..(k - 1) : HasColon(lines[j])}
<1>1. lines \in Seq(Seq(S))
  BY LinesType
<1>2. LineFor(key, text) = IF found = {} THEN <<>> ELSE lines[Max(found)]
  BY DEF LineFor
<1> HIDE DEF lines
<1>3. Len(lines) \in Nat /\ found \in SUBSET (0..Len(lines))
  BY <1>1
<1>4. \A k \in found : k \in 1..Len(lines) /\ lines[k][1] \in LinesOf[key]
  BY <1>1
<1> HIDE DEF found
<1>5. found # {} => Max(found) \in found
  <2>1. found # {} => \E m \in found : \A k \in found : m >= k
    BY <1>3, GreatestElement
  <2> QED
    BY <2>1 DEF Max
<1>6. found # {} => lines[Max(found)] \in Seq(S) /\ lines[Max(found)][1] \in LinesOf[key]
  BY <1>1, <1>4, <1>5, ElementOfSeq
<1> QED
  BY <1>2, <1>6

LEMMA FieldsAre ==
    ASSUME NEW text
    PROVE  Fields(text) = [key \in DOMAIN LinesOf |-> LineFor(key, text)]
  BY DEF Fields, setHeaders, NoHeaders

LEMMA KeysAre == DOMAIN LinesOf = {"transferEncoding", "contentLength", "contentType", "cookie"}
  BY DEF LinesOf

LEMMA FieldsType ==
    ASSUME NEW S, NEW text \in Seq(S)
    PROVE  /\ Fields(text) \in [DOMAIN LinesOf -> Seq(S)]
           /\ contentLength(Fields(text)) \in {NoNumber, ""} \cup DOMAIN Lengths
<1> DEFINE line == LineFor("contentLength", text)
<1>1. Fields(text) = [key \in DOMAIN LinesOf |-> LineFor(key, text)]
  BY FieldsAre
<1>2. Fields(text).contentLength = line
  BY <1>1, KeysAre
<1>3. line # <<>> => line[1] \in LinesOf.contentLength
  BY LineForSays
<1>4. LinesOf.contentLength = {NoNumber} \cup DOMAIN Lengths
  BY DEF LinesOf
<1> HIDE DEF line
<1>5. contentLength(Fields(text)) = IF line = <<>> THEN "" ELSE line[1]
  BY <1>2 DEF contentLength
<1>6. \A key \in DOMAIN LinesOf : LineFor(key, text) \in Seq(S)
  BY LineForSays
<1> QED
  BY <1>1, <1>3, <1>4, <1>5, <1>6

-----------------------------------------------------------------------------
(* The chunks of a body *)

\* Nowhere in it is there a chunk size with which a position would wrap around.
Fits(d) ==
    \A j, n \in Nat :
       j + n <= Len(d) /\ IsSize(DropExtension(Substr(d, j, n)))
         => Len(d) + Strtoul(DropExtension(Substr(d, j, n))) + 2 < WordSize

Rounds(S) == [status : {"READING", "INCOMPLETE", "SUCCESS", "ERROR"}, pos : Nat, decoded : Seq(S)]

FirstRound == [status |-> "READING", pos |-> 0, decoded |-> <<>>]
RoundAfter(d, t) == IF t.status = "READING" THEN NextChunk(d, t) ELSE t

LEMMA WordSizeType ==
    /\ WordSize \in Nat /\ WordSize > 0
    /\ \A k \in Int : k % WordSize \in Nat /\ k % WordSize < WordSize
    /\ \A k \in Nat : k < WordSize => k % WordSize = k
<1>1. WordSize \in Nat /\ WordSize > 0
  BY ReadingAssumption
<1> QED
  BY <1>1

LEMMA DropExtensionType ==
    ASSUME NEW S, NEW line \in Seq(S)
    PROVE  DropExtension(line) \in Seq(S)
<1> DEFINE P == {j \in Positions(line) : At(line, j) = Semicolon}
<1>1. P \in SUBSET Nat
  BY DEF Positions
<1>2. First(P) # npos => First(P) \in P
  BY <1>1, FirstIsLeast
<1>3. First(P) # npos => First(P) \in Nat /\ 0 + First(P) <= Len(line)
  BY <1>2 DEF Positions
<1>4. First(P) # npos => Substr(line, 0, First(P)) \in Seq(S)
  BY <1>3, SubstrInside
<1> HIDE DEF P
<1>5. DropExtension(line) = IF First(P) = npos THEN line ELSE Substr(line, 0, First(P))
  BY DEF DropExtension, P
<1> QED
  BY <1>4, <1>5

\* What a round reads of the text
LEMMA ChunkSize ==
    ASSUME NEW S, NEW d \in Seq(S), NEW pos \in Nat, FindCRLF(d, pos) # npos,
           NEW hex, hex = DropExtension(Substr(d, pos, FindCRLF(d, pos) - pos)), IsSize(hex)
    PROVE  /\ Strtoul(hex) \in Nat
           /\ Fits(d) => Len(d) + Strtoul(hex) + 2 < WordSize
<1> DEFINE crlf == FindCRLF(d, pos)
<1>1. crlf \in Nat /\ crlf - pos \in Nat /\ pos + (crlf - pos) <= Len(d)
  <2>1. crlf \in Nat /\ pos <= crlf /\ crlf + 2 <= Len(d)
    BY LineEndFound
  <2> HIDE DEF crlf
  <2> QED
    BY <2>1
<1>2. hex \in Seq(S)
  BY <1>1, SubstrInside, DropExtensionType
<1>3. Strtoul(hex) \in Nat
  BY <1>2, StrtoulType DEF IsSize
<1>4. Fits(d) => Len(d) + Strtoul(hex) + 2 < WordSize
  BY <1>1 DEF Fits
<1> QED
  BY <1>3, <1>4

Stopped(t, result) == [t EXCEPT !.status = result]
WithChunk(d, t, data, size) ==
    [status  |-> IF IsCRLF(d, (data + size) % WordSize) THEN "READING" ELSE "ERROR",
     pos     |-> ((data + size) % WordSize) + 2,
     decoded |-> t.decoded \o Substr(d, data, size)]

\* The outcomes of a round
LEMMA RoundCases ==
    ASSUME NEW S, NEW d \in Seq(S), NEW t \in Rounds(S),
           NEW crlf, crlf = FindCRLF(d, t.pos),
           NEW hex, hex = DropExtension(Substr(d, t.pos, crlf - t.pos)),
           NEW size, size = Strtoul(hex),
           NEW data, data = crlf + 2
    PROVE  /\ crlf = npos => NextChunk(d, t) = Stopped(t, "INCOMPLETE")
           /\ crlf # npos /\ ~IsSize(hex) => NextChunk(d, t) = Stopped(t, "ERROR")
           /\ crlf # npos /\ IsSize(hex) =>
                /\ size \in Nat
                /\ size = 0 /\ BodyEnds(d, data) => NextChunk(d, t) = Stopped(t, "SUCCESS")
                /\ size = 0 /\ ~BodyEnds(d, data) => NextChunk(d, t) = Stopped(t, "INCOMPLETE")
                /\ size > 0 /\ IsShort(d, data, size) => NextChunk(d, t) = Stopped(t, "INCOMPLETE")
                /\ size > 0 /\ ~IsShort(d, data, size) => NextChunk(d, t) = WithChunk(d, t, data, size)
<1>1. CASE crlf = npos
  BY <1>1 DEF NextChunk, Stopped
<1>2. CASE crlf # npos /\ ~IsSize(hex)
  BY <1>2 DEF NextChunk, Stopped
<1>3. CASE crlf # npos /\ IsSize(hex)
  <2>1. t.pos \in Nat
    BY DEF Rounds
  <2>2. size \in Nat /\ (size = 0 => ~(size > 0))
    BY <1>3, <2>1, ChunkSize
  <2>3. CASE size = 0 /\ BodyEnds(d, data)
    BY <1>3, <2>2, <2>3 DEF NextChunk, Stopped
  <2>4. CASE size = 0 /\ ~BodyEnds(d, data)
    BY <1>3, <2>2, <2>4 DEF NextChunk, Stopped
  <2>5. CASE size > 0 /\ IsShort(d, data, size)
    BY <1>3, <2>2, <2>5 DEF NextChunk, Stopped
  <2>6. CASE size > 0 /\ ~IsShort(d, data, size)
    BY <1>3, <2>2, <2>6 DEF NextChunk, WithChunk
  <2> QED
    BY <1>3, <2>2, <2>3, <2>4, <2>5, <2>6
<1> QED
  BY <1>1, <1>2, <1>3

LEMMA RoundType ==
    ASSUME NEW S, NEW d \in Seq(S), NEW t \in Rounds(S)
    PROVE  NextChunk(d, t) \in Rounds(S)
<1> DEFINE crlf == FindCRLF(d, t.pos)
           hex  == DropExtension(Substr(d, t.pos, crlf - t.pos))
           size == Strtoul(hex)
           data == crlf + 2
<1>1. t.pos \in Nat /\ t.decoded \in Seq(S)
  BY DEF Rounds
<1>2. \A result \in {"INCOMPLETE", "SUCCESS", "ERROR"} : Stopped(t, result) \in Rounds(S)
  BY DEF Rounds, Stopped
<1>3. crlf # npos => crlf \in Nat /\ data \in 0..Len(d)
  <2>1. crlf # npos => crlf \in Nat /\ t.pos <= crlf /\ crlf + 2 <= Len(d)
    BY <1>1, LineEndFound
  <2> QED
    BY <2>1
<1>4. /\ crlf = npos => NextChunk(d, t) = Stopped(t, "INCOMPLETE")
      /\ crlf # npos /\ ~IsSize(hex) => NextChunk(d, t) = Stopped(t, "ERROR")
      /\ crlf # npos /\ IsSize(hex) =>
           /\ size \in Nat
           /\ size = 0 /\ BodyEnds(d, data) => NextChunk(d, t) = Stopped(t, "SUCCESS")
           /\ size = 0 /\ ~BodyEnds(d, data) => NextChunk(d, t) = Stopped(t, "INCOMPLETE")
           /\ size > 0 /\ IsShort(d, data, size) => NextChunk(d, t) = Stopped(t, "INCOMPLETE")
           /\ size > 0 /\ ~IsShort(d, data, size) => NextChunk(d, t) = WithChunk(d, t, data, size)
  BY RoundCases
<1> HIDE DEF crlf, hex, size, data
<1>5. crlf # npos /\ IsSize(hex) => WithChunk(d, t, data, size) \in Rounds(S)
  <2> SUFFICES ASSUME crlf # npos /\ IsSize(hex) PROVE WithChunk(d, t, data, size) \in Rounds(S)
    OBVIOUS
  <2>1. data + size \in Int
    BY <1>3, <1>4
  <2>2. (data + size) % WordSize \in Nat
    BY <2>1, WordSizeType
  <2>3. Substr(d, data, size) \in Seq(S)
    BY <1>3, <1>4, SubstrType
  <2>4. t.decoded \o Substr(d, data, size) \in Seq(S)
    BY <1>1, <2>3, ConcatProperties
  <2> QED
    BY <2>2, <2>4 DEF Rounds, WithChunk
<1>6. size \in Nat => size = 0 \/ size > 0
  OBVIOUS
<1> QED
  BY <1>2, <1>4, <1>5, <1>6

\* A round over a part of the text does what it does over the whole, or waits.
LEMMA PartRound ==
    ASSUME NEW S, NEW d \in Seq(S), NEW n \in 0..Len(d), NEW t \in Rounds(S), Fits(d)
    PROVE  \/ NextChunk(Substr(d, 0, n), t) = NextChunk(d, t)
           \/ NextChunk(Substr(d, 0, n), t) = Stopped(t, "INCOMPLETE")
<1> DEFINE p    == Substr(d, 0, n)
           crlf == FindCRLF(d, t.pos)
           hex  == DropExtension(Substr(d, t.pos, crlf - t.pos))
           size == Strtoul(hex)
           data == crlf + 2
<1>1. t.pos \in Nat
  BY DEF Rounds
<1>2. /\ p \in Seq(S) /\ Len(p) = n
      /\ \A k \in Nat : IsCRLF(p, k) <=> k + 2 <= n /\ IsCRLF(d, k)
      /\ \A k, l \in Nat : k + l <= n => Substr(p, k, l) = Substr(d, k, l)
  BY PartSays
<1>3. FindCRLF(p, t.pos) = IF crlf # npos /\ crlf + 2 <= n THEN crlf ELSE npos
  BY <1>1, LineEndInPart
<1> HIDE DEF p
<1>4. CASE ~(crlf # npos /\ crlf + 2 <= n)
  <2>1. FindCRLF(p, t.pos) = npos
    BY <1>3, <1>4
  <2>2. NextChunk(p, t) = Stopped(t, "INCOMPLETE")
    BY <1>2, <2>1, RoundCases
  <2> QED
    BY <2>2 DEF p
<1>5. CASE crlf # npos /\ crlf + 2 <= n
  <2>1. FindCRLF(p, t.pos) = crlf
    BY <1>3, <1>5
  <2>2. crlf \in Nat /\ t.pos <= crlf /\ crlf + 2 <= Len(d)
    BY <1>1, <1>5, LineEndFound
  <2>3. crlf - t.pos \in Nat /\ t.pos + (crlf - t.pos) <= n /\ data \in 0..Len(d)
    <3> HIDE DEF crlf
    <3> QED
      BY <1>1, <1>5, <2>2
  <2>4. Substr(p, t.pos, crlf - t.pos) = Substr(d, t.pos, crlf - t.pos)
    BY <1>1, <1>2, <2>3
  <2>5. hex = DropExtension(Substr(p, t.pos, FindCRLF(p, t.pos) - t.pos))
    BY <2>1, <2>4
  <2>6. IsSize(hex) => size \in Nat /\ Len(d) + size + 2 < WordSize
    BY <1>1, <1>5, ChunkSize
  <2>7. /\ ~IsSize(hex) => NextChunk(d, t) = Stopped(t, "ERROR")
        /\ IsSize(hex) =>
             /\ size \in Nat
             /\ size = 0 /\ BodyEnds(d, data) => NextChunk(d, t) = Stopped(t, "SUCCESS")
             /\ size = 0 /\ ~BodyEnds(d, data) => NextChunk(d, t) = Stopped(t, "INCOMPLETE")
             /\ size > 0 /\ IsShort(d, data, size) => NextChunk(d, t) = Stopped(t, "INCOMPLETE")
             /\ size > 0 /\ ~IsShort(d, data, size) => NextChunk(d, t) = WithChunk(d, t, data, size)
    BY <1>5, RoundCases
  <2>8. /\ ~IsSize(hex) => NextChunk(p, t) = Stopped(t, "ERROR")
        /\ IsSize(hex) =>
             /\ size \in Nat
             /\ size = 0 /\ BodyEnds(p, data) => NextChunk(p, t) = Stopped(t, "SUCCESS")
             /\ size = 0 /\ ~BodyEnds(p, data) => NextChunk(p, t) = Stopped(t, "INCOMPLETE")
             /\ size > 0 /\ IsShort(p, data, size) => NextChunk(p, t) = Stopped(t, "INCOMPLETE")
             /\ size > 0 /\ ~IsShort(p, data, size) => NextChunk(p, t) = WithChunk(p, t, data, size)
    <3> HIDE DEF crlf, hex
    <3> QED
      BY <1>2, <1>5, <2>1, <2>5, RoundCases
  <2> HIDE DEF crlf, hex, size, data
  <2>9. BodyEnds(p, data) => BodyEnds(d, data)
    <3> SUFFICES ASSUME BodyEnds(p, data) PROVE BodyEnds(d, data)
      OBVIOUS
    <3>1. CASE IsCRLF(p, data)
      BY <1>2, <2>3, <3>1 DEF BodyEnds
    <3>2. CASE ~IsCRLF(p, data)
      <4>1. PICK j \in data..Len(p) : IsCRLF(p, j) /\ IsCRLF(p, j + 2)
        BY <3>2 DEF BodyEnds
      <4>2. j \in Nat /\ j + 2 \in Nat /\ j \in data..Len(d)
        BY <1>2, <2>3, <4>1
      <4>3. IsCRLF(d, j) /\ IsCRLF(d, j + 2)
        BY <1>2, <4>1, <4>2
      <4> QED
        BY <4>2, <4>3 DEF BodyEnds
    <3> QED
      BY <3>1, <3>2
  <2>10. CASE IsSize(hex) /\ size > 0
    <3>1. (data + size + 2) % WordSize = data + size + 2 /\ (data + size) % WordSize = data + size
      <4>1. data + size + 2 \in Nat /\ data + size + 2 < WordSize
        <5>1. Len(d) \in Nat
          OBVIOUS
        <5> QED
          BY <5>1, <2>3, <2>6, <2>10, WordSizeType
      <4>2. data + size \in Nat /\ data + size < WordSize
        BY <2>3, <2>6, <2>10, <4>1, WordSizeType
      <4> QED
        BY <4>1, <4>2, WordSizeType
    <3>2. IsShort(p, data, size) \/ (~IsShort(p, data, size) /\ ~IsShort(d, data, size) /\ data + size + 2 <= n)
      BY <1>2, <2>3, <2>6, <2>10, <3>1 DEF IsShort
    <3>3. CASE data + size + 2 <= n
      <4>1. data + size \in Nat /\ data + size <= n
        BY <2>3, <2>6, <2>10, <3>3
      <4>2. IsCRLF(p, data + size) <=> IsCRLF(d, data + size)
        BY <1>2, <3>3, <4>1
      <4>3. Substr(p, data, size) = Substr(d, data, size)
        BY <1>2, <2>3, <2>6, <2>10, <4>1
      <4> QED
        BY <3>1, <4>2, <4>3, <2>7, <2>8, <2>10, <3>2 DEF WithChunk, p
    <3> QED
      BY <2>8, <2>10, <3>2, <3>3 DEF p
  <2>11. CASE IsSize(hex) /\ size = 0
    BY <2>7, <2>8, <2>9, <2>11 DEF p
  <2>12. CASE ~IsSize(hex)
    BY <2>7, <2>8, <2>12 DEF p
  <2> QED
    BY <2>6, <2>10, <2>11, <2>12
<1> QED
  BY <1>4, <1>5

LEMMA RoundAdvances ==
    ASSUME NEW S, NEW d \in Seq(S), NEW t \in Rounds(S), Fits(d),
           NextChunk(d, t).status = "READING", t.status = "READING"
    PROVE  t.pos < NextChunk(d, t).pos /\ NextChunk(d, t).pos <= Len(d)
<1> DEFINE crlf == FindCRLF(d, t.pos)
           hex  == DropExtension(Substr(d, t.pos, crlf - t.pos))
           size == Strtoul(hex)
           data == crlf + 2
<1>1. t.pos \in Nat
  BY DEF Rounds
<1>2. \A result \in {"INCOMPLETE", "SUCCESS", "ERROR"} : NextChunk(d, t) # Stopped(t, result)
  BY DEF Rounds, Stopped
<1>3. /\ crlf # npos /\ IsSize(hex) /\ size \in Nat
      /\ size > 0 /\ ~IsShort(d, data, size) /\ NextChunk(d, t) = WithChunk(d, t, data, size)
  <2>1. /\ crlf = npos => NextChunk(d, t) = Stopped(t, "INCOMPLETE")
        /\ crlf # npos /\ ~IsSize(hex) => NextChunk(d, t) = Stopped(t, "ERROR")
        /\ crlf # npos /\ IsSize(hex) =>
             /\ size \in Nat
             /\ size = 0 /\ BodyEnds(d, data) => NextChunk(d, t) = Stopped(t, "SUCCESS")
             /\ size = 0 /\ ~BodyEnds(d, data) => NextChunk(d, t) = Stopped(t, "INCOMPLETE")
             /\ size > 0 /\ IsShort(d, data, size) => NextChunk(d, t) = Stopped(t, "INCOMPLETE")
             /\ size > 0 /\ ~IsShort(d, data, size) => NextChunk(d, t) = WithChunk(d, t, data, size)
    BY RoundCases
  <2> HIDE DEF crlf, hex, size, data
  <2>2. crlf # npos /\ IsSize(hex)
    BY <1>2, <2>1
  <2>3. size \in Nat /\ (size = 0 \/ size > 0)
    BY <2>1, <2>2
  <2> QED
    BY <1>2, <2>1, <2>2, <2>3
<1>4. crlf \in Nat /\ t.pos <= crlf /\ crlf + 2 <= Len(d)
  BY <1>1, <1>3, LineEndFound
<1>5. Len(d) + size + 2 < WordSize
  BY <1>1, <1>3, ChunkSize
<1> HIDE DEF crlf, hex, size
<1>6. (data + size) % WordSize = data + size
  <2>1. data + size \in Nat /\ data + size < WordSize
    BY <1>3, <1>4, <1>5, WordSizeType
  <2> QED
    BY <2>1, WordSizeType
<1>7. NextChunk(d, t).pos = data + size + 2 /\ IsCRLF(d, data + size)
  BY <1>3, <1>6 DEF WithChunk
<1>8. data + size \in Nat
  BY <1>3, <1>4
<1>9. data + size + 2 <= Len(d)
  BY <1>7, <1>8, LineEndInside
<1> QED
  BY <1>1, <1>3, <1>4, <1>7, <1>9

\* The rounds of the loop over a text
AreRounds(r, d) ==
    r[0] = FirstRound /\ \A k \in 1..(Len(d) + 1) : r[k] = RoundAfter(d, r[k - 1])

LEMMA DecodeIsRounds ==
    ASSUME NEW S, NEW d \in Seq(S)
    PROVE  \E r \in [0..(Len(d) + 1) -> Rounds(S)] :
              /\ AreRounds(r, d)
              /\ decode(d) = Outcome(r[Len(d) + 1].status, r[Len(d) + 1].decoded)
<1> DEFINE n == Len(d) + 1
           F == [k \in 1..n |-> [t \in Rounds(S) |-> RoundAfter(d, t)]]
           Is(f) == f = [k \in 0..n |->
                           IF k = 0 THEN [status |-> "READING", pos |-> 0, decoded |-> <<>>]
                           ELSE IF f[k - 1].status = "READING" THEN NextChunk(d, f[k - 1]) ELSE f[k - 1]]
           round == CHOOSE f : Is(f)
<1>1. n \in Nat /\ n - 1 \in Nat
  OBVIOUS
<1>2. FirstRound \in Rounds(S)
  BY DEF FirstRound, Rounds
<1>3. \A t \in Rounds(S) : RoundAfter(d, t) \in Rounds(S)
  BY RoundType DEF RoundAfter
<1>4. F \in [1..n -> [Rounds(S) -> Rounds(S)]]
  <2> HIDE DEF n
  <2> QED
    BY <1>3
<1>5. \E f : Is(f)
  <2>1. DefinedForward(Rounds(S), n, FirstRound, F)
    <3> HIDE DEF F, n
    <3> QED
      BY <1>1, <1>2, <1>4, ForwardRecursion
  <2>2. PICK f \in [0..n -> Rounds(S)] : f[0] = FirstRound /\ \A k \in 1..n : f[k] = F[k][f[k - 1]]
    BY <2>1 DEF DefinedForward
  <2>3. \A k \in 1..n : \A t \in Rounds(S) : F[k][t] = RoundAfter(d, t)
    OBVIOUS
  <2>4. \A k \in 1..n : k - 1 \in 0..n
    BY <1>1
  <2> HIDE DEF F, n
  <2>5. \A k \in 1..n : f[k] = RoundAfter(d, f[k - 1])
    BY <2>2, <2>3, <2>4
  <2>6. \A k \in 0..n : f[k] =
                          IF k = 0 THEN [status |-> "READING", pos |-> 0, decoded |-> <<>>]
                          ELSE IF f[k - 1].status = "READING" THEN NextChunk(d, f[k - 1]) ELSE f[k - 1]
    BY <1>1, <2>2, <2>5 DEF RoundAfter, FirstRound
  <2> QED
    BY <2>6
<1>6. Is(round)
  <2> HIDE DEF Is
  <2> QED
    BY <1>5
<1>7. decode(d) = Outcome(round[n].status, round[n].decoded)
  BY DEF decode
<1> HIDE DEF round
<1>8. round[0] = FirstRound /\ \A k \in 1..n : round[k] = RoundAfter(d, round[k - 1])
  <2>1. \A k \in 0..n : round[k] =
                          IF k = 0 THEN [status |-> "READING", pos |-> 0, decoded |-> <<>>]
                          ELSE IF round[k - 1].status = "READING" THEN NextChunk(d, round[k - 1])
                          ELSE round[k - 1]
    <3> HIDE DEF n
    <3> QED
      BY <1>6
  <2> HIDE DEF n
  <2> QED
    BY <1>1, <2>1 DEF RoundAfter, FirstRound
<1>9. \A k \in 0..n : round[k] \in Rounds(S)
  <2>1. \A k \in 1..n : round[k - 1] \in Rounds(S) => round[k] \in Rounds(S)
    BY <1>3, <1>8
  <2>2. round[0] \in Rounds(S)
    BY <1>2, <1>8
  <2> HIDE DEF n
  <2> QED
    BY <1>1, <2>1, <2>2, ForwardType, Zenon
<1>10. round \in [0..n -> Rounds(S)]
  <2>1. DOMAIN round = 0..n /\ round = [k \in DOMAIN round |-> round[k]]
    <3> HIDE DEF n
    <3> QED
      BY <1>6
  <2> HIDE DEF n
  <2> QED
    BY <1>9, <2>1
<1> QED
  BY <1>7, <1>8, <1>10 DEF AreRounds

\* Once it has stopped, nothing changes any more; and it stops.
LEMMA RoundsEnd ==
    ASSUME NEW S, NEW d \in Seq(S), Fits(d),
           NEW r \in [0..(Len(d) + 1) -> Rounds(S)], AreRounds(r, d)
    PROVE  r[Len(d) + 1].status # "READING"
<1> DEFINE n == Len(d) + 1
           Far(k) == r[k].status = "READING" => k <= r[k].pos /\ r[k].pos <= Len(d)
           U == {k \in Nat : k <= n => Far(k)}
<1>1. n \in Nat /\ Len(d) \in Nat
  OBVIOUS
<1>2. 0 \in U
  BY <1>1 DEF AreRounds, FirstRound
<1>3. ASSUME NEW k \in Nat, k \in U PROVE k + 1 \in U
  <2> SUFFICES ASSUME k + 1 <= n, r[k + 1].status = "READING" PROVE Far(k + 1)
    OBVIOUS
  <2>1. k \in 0..n /\ k + 1 \in 1..n /\ (k + 1) - 1 = k
    OBVIOUS
  <2>2. r[k + 1] = RoundAfter(d, r[k]) /\ r[k] \in Rounds(S)
    BY <2>1 DEF AreRounds
  <2>3. r[k].status = "READING" /\ r[k + 1] = NextChunk(d, r[k])
    BY <2>2 DEF RoundAfter
  <2>4. r[k].pos < r[k + 1].pos /\ r[k + 1].pos <= Len(d)
    BY <2>2, <2>3, RoundAdvances
  <2>5. k <= r[k].pos
    BY <1>3, <2>1, <2>3
  <2>6. r[k].pos \in Nat /\ r[k + 1].pos \in Nat
    BY <2>1 DEF Rounds
  <2> QED
    BY <1>1, <2>4, <2>5, <2>6
<1>4. n \in U
  <2> HIDE DEF U
  <2> QED
    BY <1>1, <1>2, <1>3, SetInduction
<1>5. r[n].pos \in Nat
  BY <1>1 DEF Rounds
<1> QED
  BY <1>1, <1>4, <1>5

LEMMA RoundsStay ==
    ASSUME NEW S, NEW d \in Seq(S), NEW r, AreRounds(r, d),
           NEW j \in 0..(Len(d) + 1), r[j].status # "READING"
    PROVE  \A k \in j..(Len(d) + 1) : r[k] = r[j]
<1> DEFINE U == {k \in Nat : j <= k /\ k <= Len(d) + 1 => r[k] = r[j]}
<1>1. 0 \in U
  OBVIOUS
<1>2. ASSUME NEW k \in Nat, k \in U PROVE k + 1 \in U
  <2> SUFFICES ASSUME j <= k + 1, k + 1 <= Len(d) + 1 PROVE r[k + 1] = r[j]
    OBVIOUS
  <2>1. CASE j = k + 1
    BY <2>1
  <2>2. CASE j <= k
    <3>1. r[k] = r[j]
      BY <1>2, <2>2
    <3>2. k + 1 \in 1..(Len(d) + 1) /\ (k + 1) - 1 = k
      OBVIOUS
    <3>3. r[k + 1] = RoundAfter(d, r[k])
      BY <3>2 DEF AreRounds
    <3> QED
      BY <3>1, <3>3 DEF RoundAfter
  <2> QED
    BY <2>1, <2>2
<1>3. Nat \subseteq U
  <2> HIDE DEF U
  <2> QED
    BY <1>1, <1>2, SetInduction
<1> QED
  BY <1>3

\* The decoder stops with the first round that does not go on.
AreAllRounds(r, d, last) ==
    /\ AreRounds(r, d) /\ decode(d) = Outcome(r[last].status, r[last].decoded)
    /\ \A j \in 0..last : r[j].status # "READING" => r[last] = r[j]

LEMMA DecodeIsLast ==
    ASSUME NEW S, NEW d \in Seq(S)
    PROVE  \E r \in [0..(Len(d) + 1) -> Rounds(S)] : AreAllRounds(r, d, Len(d) + 1)
<1>1. PICK r \in [0..(Len(d) + 1) -> Rounds(S)] :
        AreRounds(r, d) /\ decode(d) = Outcome(r[Len(d) + 1].status, r[Len(d) + 1].decoded)
  BY DecodeIsRounds
<1>2. ASSUME NEW j \in 0..(Len(d) + 1), r[j].status # "READING"
      PROVE  r[Len(d) + 1] = r[j]
  <2>1. \A k \in j..(Len(d) + 1) : r[k] = r[j]
    BY <1>1, <1>2, RoundsStay
  <2>2. Len(d) + 1 \in j..(Len(d) + 1)
    OBVIOUS
  <2> QED
    BY <2>1, <2>2
<1> QED
  BY <1>1, <1>2 DEF AreAllRounds

LEMMA FitsPart ==
    ASSUME NEW S, NEW d \in Seq(S), NEW n \in 0..Len(d), Fits(d)
    PROVE  Fits(Substr(d, 0, n))
<1> DEFINE p == Substr(d, 0, n)
<1>1. /\ p \in Seq(S) /\ Len(p) = n
      /\ \A k, l \in Nat : k + l <= n => Substr(p, k, l) = Substr(d, k, l)
  BY PartSays
<1> HIDE DEF p
<1> SUFFICES ASSUME NEW j \in Nat, NEW m \in Nat, j + m <= n,
                    IsSize(DropExtension(Substr(d, j, m)))
             PROVE  n + Strtoul(DropExtension(Substr(d, j, m))) + 2 < WordSize
  BY <1>1 DEF Fits, p
<1> DEFINE size == Strtoul(DropExtension(Substr(d, j, m)))
<1>2. Len(d) \in Nat /\ j + m <= Len(d)
  OBVIOUS
<1>3. Substr(d, j, m) \in Seq(S)
  BY <1>2, SubstrInside
<1>4. size \in Nat
  BY <1>3, DropExtensionType, StrtoulType DEF IsSize
<1>5. Len(d) + size + 2 < WordSize
  BY <1>2 DEF Fits
<1> HIDE DEF size
<1>6. n + size + 2 < WordSize
  BY <1>2, <1>4, <1>5, WordSizeType
<1> QED
  BY <1>6 DEF size

\* What is decoded of a part of the text is what is decoded of the whole, or the decoder
\* waits for more.
LEMMA DecodePart ==
    ASSUME NEW S, NEW d \in Seq(S), NEW n \in 0..Len(d), Fits(d)
    PROVE  /\ decode(Substr(d, 0, n)).status \in {"INCOMPLETE", "SUCCESS", "ERROR"}
           /\ decode(Substr(d, 0, n)).status # "INCOMPLETE" =>
                decode(Substr(d, 0, n)) = decode(d)
<1> DEFINE p == Substr(d, 0, n)
<1>1. p \in Seq(S) /\ Len(p) = n /\ Fits(p) /\ Len(d) \in Nat
  BY PartSays, FitsPart
<1>2. PICK r \in [0..(Len(d) + 1) -> Rounds(S)] :
        AreRounds(r, d) /\ decode(d) = Outcome(r[Len(d) + 1].status, r[Len(d) + 1].decoded)
  BY DecodeIsRounds
<1>3. \A t \in Rounds(S) : NextChunk(p, t) \in {NextChunk(d, t), Stopped(t, "INCOMPLETE")}
  BY PartRound
<1> HIDE DEF p
<1>4. PICK q \in [0..(n + 1) -> Rounds(S)] :
        AreRounds(q, p) /\ decode(p) = Outcome(q[n + 1].status, q[n + 1].decoded)
  BY <1>1, DecodeIsRounds
<1> DEFINE U == {k \in Nat : k <= n + 1 => q[k].status = "INCOMPLETE" \/ q[k] = r[k]}
<1>5. 0 \in U
  BY <1>2, <1>4 DEF AreRounds
<1>6. ASSUME NEW k \in Nat, k \in U PROVE k + 1 \in U
  <2> SUFFICES ASSUME k + 1 <= n + 1
               PROVE  q[k + 1].status = "INCOMPLETE" \/ q[k + 1] = r[k + 1]
    OBVIOUS
  <2>1. k + 1 \in 1..(n + 1) /\ k + 1 \in 1..(Len(d) + 1) /\ (k + 1) - 1 = k /\ k \in 0..(n + 1)
    BY <1>1
  <2>2. q[k + 1] = RoundAfter(p, q[k]) /\ r[k + 1] = RoundAfter(d, r[k]) /\ q[k] \in Rounds(S)
    BY <1>1, <1>2, <1>4, <2>1 DEF AreRounds
  <2>3. CASE q[k].status = "INCOMPLETE"
    BY <2>2, <2>3 DEF RoundAfter
  <2>4. CASE q[k] = r[k] /\ q[k].status # "READING"
    BY <2>2, <2>4 DEF RoundAfter
  <2>5. CASE q[k] = r[k] /\ q[k].status = "READING"
    <3>1. q[k + 1] = NextChunk(p, q[k]) /\ r[k + 1] = NextChunk(d, q[k])
      BY <2>2, <2>5 DEF RoundAfter
    <3>2. Stopped(q[k], "INCOMPLETE").status = "INCOMPLETE"
      BY <2>2 DEF Stopped, Rounds
    <3> QED
      BY <1>3, <2>2, <3>1, <3>2
  <2> QED
    BY <1>6, <2>1, <2>3, <2>4, <2>5
<1>7. q[n + 1].status = "INCOMPLETE" \/ q[n + 1] = r[n + 1]
  <2>1. n + 1 \in U
    <3> HIDE DEF U
    <3> QED
      BY <1>5, <1>6, SetInduction
  <2> QED
    BY <2>1
<1>8. q[n + 1] \in Rounds(S) /\ q[n + 1].status # "READING"
  BY <1>1, <1>4, RoundsEnd
<1>9. q[n + 1].status # "INCOMPLETE" => r[Len(d) + 1] = q[n + 1]
  <2> SUFFICES ASSUME q[n + 1] = r[n + 1], r[n + 1].status # "READING"
               PROVE  r[Len(d) + 1] = r[n + 1]
    BY <1>7, <1>8
  <2>1. n + 1 \in 0..(Len(d) + 1) /\ Len(d) + 1 \in (n + 1)..(Len(d) + 1)
    BY <1>1
  <2> QED
    BY <1>2, <2>1, RoundsStay
<1>10. q[n + 1].status \in {"INCOMPLETE", "SUCCESS", "ERROR"}
  BY <1>8 DEF Rounds
<1>11. decode(p).status = q[n + 1].status
  BY <1>4 DEF Outcome
<1>12. decode(p).status # "INCOMPLETE" => decode(p) = decode(d)
  BY <1>2, <1>4, <1>9, <1>11
<1> QED
  BY <1>10, <1>11, <1>12 DEF p

\* The parser is given a body that is made of what the client sent.
LEMMA DecodeType ==
    ASSUME NEW S, NEW d \in Seq(S)
    PROVE  /\ decode(d) = Outcome(decode(d).status, decode(d).body)
           /\ decode(d).status \in {"READING", "INCOMPLETE", "SUCCESS", "ERROR"}
           /\ decode(d).body \in Seq(S)
<1>1. PICK r \in [0..(Len(d) + 1) -> Rounds(S)] :
        AreRounds(r, d) /\ decode(d) = Outcome(r[Len(d) + 1].status, r[Len(d) + 1].decoded)
  BY DecodeIsRounds
<1>2. Len(d) + 1 \in 0..(Len(d) + 1)
  OBVIOUS
<1>3. r[Len(d) + 1] \in Rounds(S)
  BY <1>2
<1>4. /\ r[Len(d) + 1].status \in {"READING", "INCOMPLETE", "SUCCESS", "ERROR"}
      /\ r[Len(d) + 1].decoded \in Seq(S)
  BY <1>3 DEF Rounds
<1>5. decode(d).status = r[Len(d) + 1].status /\ decode(d).body = r[Len(d) + 1].decoded
  BY <1>1 DEF Outcome
<1> QED
  BY <1>1, <1>4, <1>5

-----------------------------------------------------------------------------
(* The head of a request *)

LEMMA BlankFound ==
    ASSUME NEW S, NEW d \in Seq(S)
    PROVE  \/ Separator(d) = npos /\ \A j \in Nat : ~(IsCRLF(d, j) /\ IsCRLF(d, j + 2))
           \/ /\ Separator(d) \in Nat /\ Separator(d) # npos /\ Separator(d) + 4 <= Len(d)
              /\ IsCRLF(d, Separator(d)) /\ IsCRLF(d, Separator(d) + 2)
              /\ \A j \in Nat : j < Separator(d) => ~(IsCRLF(d, j) /\ IsCRLF(d, j + 2))
<1> DEFINE P == BlankLines(d)
<1>1. P \in SUBSET Nat /\ Separator(d) = First(P)
  BY DEF Separator, BlankLines, Positions
<1>2. \A j \in Nat : IsCRLF(d, j) /\ IsCRLF(d, j + 2) => j \in P
  <2> SUFFICES ASSUME NEW j \in Nat, IsCRLF(d, j), IsCRLF(d, j + 2) PROVE j \in P
    OBVIOUS
  <2>1. j + 2 <= Len(d)
    BY LineEndInside
  <2> QED
    BY <2>1 DEF BlankLines, Positions
<1>3. \A j \in P : IsCRLF(d, j) /\ IsCRLF(d, j + 2)
  BY DEF BlankLines
<1> HIDE DEF P
<1>4. CASE P = {}
  BY <1>1, <1>2, <1>4, FirstIsLeast
<1>5. CASE P # {}
  <2>1. First(P) \in P /\ First(P) # npos /\ \A j \in P : First(P) <= j
    BY <1>1, <1>5, FirstIsLeast
  <2>2. First(P) \in Nat /\ IsCRLF(d, First(P)) /\ IsCRLF(d, First(P) + 2)
    BY <1>1, <1>3, <2>1
  <2>3. First(P) + 2 \in Nat /\ (First(P) + 2) + 2 = First(P) + 4
    BY <2>2
  <2>4. (First(P) + 2) + 2 <= Len(d)
    BY <2>2, <2>3, LineEndInside
  <2>5. \A j \in Nat : j < First(P) => ~(IsCRLF(d, j) /\ IsCRLF(d, j + 2))
    BY <1>2, <2>1, <2>2
  <2> QED
    BY <1>1, <2>1, <2>2, <2>3, <2>4, <2>5
<1> QED
  BY <1>4, <1>5

LEMMA BlankIs ==
    ASSUME NEW S, NEW d \in Seq(S), NEW c \in Nat, IsCRLF(d, c), IsCRLF(d, c + 2),
           \A j \in Nat : j < c => ~(IsCRLF(d, j) /\ IsCRLF(d, j + 2))
    PROVE  Separator(d) = c
<1> DEFINE f == Separator(d)
<1>1. f # npos
  BY BlankFound
<1>2. /\ f \in Nat /\ IsCRLF(d, f) /\ IsCRLF(d, f + 2)
      /\ \A j \in Nat : j < f => ~(IsCRLF(d, j) /\ IsCRLF(d, j + 2))
  BY <1>1, BlankFound
<1> HIDE DEF f
<1>3. f = c
  BY <1>2
<1> QED
  BY <1>3 DEF f

LEMMA BlankInPart ==
    ASSUME NEW S, NEW d \in Seq(S), NEW n \in 0..Len(d)
    PROVE  Separator(Substr(d, 0, n)) =
             IF Separator(d) # npos /\ Separator(d) + 4 <= n THEN Separator(d) ELSE npos
<1> DEFINE p == Substr(d, 0, n)
           c == Separator(d)
<1>1. p \in Seq(S) /\ \A j \in Nat : IsCRLF(p, j) <=> j + 2 <= n /\ IsCRLF(d, j)
  BY PartSays
<1> HIDE DEF p
<1>2. \A j \in Nat : IsCRLF(p, j + 2) <=> j + 4 <= n /\ IsCRLF(d, j + 2)
  <2>1. \A j \in Nat : j + 2 \in Nat /\ (j + 2) + 2 = j + 4
    OBVIOUS
  <2> QED
    BY <1>1, <2>1
<1>3. CASE c # npos /\ c + 4 <= n
  <2>1. /\ c \in Nat /\ IsCRLF(d, c) /\ IsCRLF(d, c + 2)
        /\ \A j \in Nat : j < c => ~(IsCRLF(d, j) /\ IsCRLF(d, j + 2))
    BY <1>3, BlankFound
  <2> HIDE DEF c
  <2>2. c + 2 <= n
    BY <1>3, <2>1
  <2>3. IsCRLF(p, c) /\ IsCRLF(p, c + 2)
    BY <1>1, <1>2, <1>3, <2>1, <2>2
  <2>4. \A j \in Nat : j < c => ~(IsCRLF(p, j) /\ IsCRLF(p, j + 2))
    BY <1>1, <1>2, <2>1
  <2>5. Separator(p) = c
    BY <1>1, <2>1, <2>3, <2>4, BlankIs
  <2> QED
    BY <1>3, <2>5 DEF p, c
<1>4. CASE ~(c # npos /\ c + 4 <= n)
  <2>1. \A j \in Nat : ~(IsCRLF(p, j) /\ IsCRLF(p, j + 2))
    <3> SUFFICES ASSUME NEW j \in Nat, j + 4 <= n, IsCRLF(d, j), IsCRLF(d, j + 2) PROVE FALSE
      BY <1>1, <1>2
    <3>1. c # npos
      BY BlankFound
    <3>2. c \in Nat /\ ~(j < c)
      BY <3>1, BlankFound
    <3> QED
      BY <1>4, <3>1, <3>2
  <2>2. Separator(p) = npos
    BY <1>1, <2>1, BlankFound
  <2> QED
    BY <1>4, <2>2 DEF p
<1> QED
  BY <1>3, <1>4

LEMMA BlankFind ==
    ASSUME NEW S, NEW d \in Seq(S)
    PROVE  Find(d, CRLF \o CRLF, 0) = Separator(d)
<1> DEFINE w == CRLF \o CRLF
           n == Len(d)
<1>1. Len(w) = 4 /\ w[1] = CR /\ w[2] = LF /\ w[3] = CR /\ w[4] = LF /\ w \in Seq({CR, LF})
  <2>1. CRLF \in Seq({CR, LF}) /\ Len(CRLF) = 2 /\ CRLF[1] = CR /\ CRLF[2] = LF
    BY DEF CRLF
  <2>2. /\ w \in Seq({CR, LF}) /\ Len(w) = Len(CRLF) + Len(CRLF)
        /\ \A i \in 1..(Len(CRLF) + Len(CRLF)) : w[i] = IF i <= Len(CRLF) THEN CRLF[i] ELSE CRLF[i - Len(CRLF)]
    BY <2>1, ConcatProperties, SMTT(30)
  <2> HIDE DEF w
  <2>3. Len(w) = 4 /\ \A i \in 1..4 : w[i] = IF i <= 2 THEN CRLF[i] ELSE CRLF[i - 2]
    BY <2>1, <2>2
  <2> QED
    BY <2>1, <2>2, <2>3
<1> HIDE DEF w
<1>2. n \in Nat
  OBVIOUS
<1>3. ASSUME NEW j \in Positions(d)
      PROVE  (j >= 0 /\ Substr(d, j, Len(w)) = w) <=> (IsCRLF(d, j) /\ IsCRLF(d, j + 2))
  <2> DEFINE t == Substr(d, j, 4)
  <2>1. j \in Nat /\ j < n /\ j + 2 \in Nat
    BY <1>2 DEF Positions
  <2>2. ASSUME j + 4 <= n PROVE t = w <=> (IsCRLF(d, j) /\ IsCRLF(d, j + 2))
    <3> DEFINE m == 4
    <3>1. m \in Nat /\ j + m <= Len(d) /\ t = Substr(d, j, m)
      BY <2>2
    <3> HIDE DEF m, t
    <3>2. t \in Seq(S) /\ Len(t) = m /\ \A i \in 1..m : t[i] = d[j + i]
      BY <2>1, <3>1, SubstrInside
    <3>3. Len(t) = 4 /\ t[1] = d[j + 1] /\ t[2] = d[j + 2] /\ t[3] = d[j + 3] /\ t[4] = d[j + 4]
      BY <3>2 DEF m
    <3>4. At(d, j) = d[j + 1] /\ At(d, j + 1) = d[j + 2] /\ At(d, j + 2) = d[j + 3] /\ At(d, j + 2 + 1) = d[j + 4]
      <4>1. (j + 1) + 1 = j + 2 /\ (j + 2) + 1 = j + 3 /\ (j + 2 + 1) + 1 = j + 4
            /\ j + 1 < n /\ j + 2 < n /\ j + 2 + 1 < n
        BY <1>2, <2>1, <2>2
      <4> QED
        BY <2>1, <4>1 DEF At
    <3>5. (IsCRLF(d, j) /\ IsCRLF(d, j + 2)) <=> (t[1] = CR /\ t[2] = LF /\ t[3] = CR /\ t[4] = LF)
      BY <3>3, <3>4 DEF IsCRLF
    <3>6. ASSUME t[1] = CR, t[2] = LF, t[3] = CR, t[4] = LF PROVE t = w
      <4>1. \A i \in 1..4 : i = 1 \/ i = 2 \/ i = 3 \/ i = 4
        OBVIOUS
      <4>2. \A i \in 1..Len(t) : t[i] = w[i]
        BY <1>1, <3>3, <3>6, <4>1
      <4> DEFINE T == S \cup {CR, LF}
      <4>3. t \in Seq(T) /\ w \in Seq(T)
        <5>1. \A i \in 1..Len(t) : t[i] \in T
          BY <3>2
        <5>2. \A i \in 1..Len(w) : w[i] \in T
          BY <1>1
        <5>3. t = [i \in 1..Len(t) |-> t[i]] /\ Len(t) \in Nat
          BY <3>2
        <5>4. w = [i \in 1..Len(w) |-> w[i]] /\ Len(w) \in Nat
          BY <1>1
        <5> HIDE DEF T
        <5>5. t \in Seq(T)
          BY <5>1, <5>3
        <5>6. w \in Seq(T)
          BY <5>2, <5>4
        <5> QED
          BY <5>5, <5>6
      <4> HIDE DEF T
      <4> QED
        BY <1>1, <3>3, <4>2, <4>3, SeqEqual, SMTT(20)
    <3> QED
      BY <1>1, <3>5, <3>6
  <2>3. ASSUME ~(j + 4 <= n) PROVE ~(t = w) /\ ~(IsCRLF(d, j) /\ IsCRLF(d, j + 2))
    <3>1. Len(t) # 4
      <4> DEFINE m == n - j
                 u == Substr(d, j, m)
      <4>1. j \in 0..Len(d) /\ 4 \in Nat /\ Len(d) <= j + 4 /\ m \in Nat /\ j + m <= Len(d) /\ m < 4
        BY <1>2, <2>1, <2>3
      <4>2. t = u
        BY <4>1, SubstrRest
      <4> HIDE DEF m
      <4>3. Len(u) = m
        BY <2>1, <4>1, SubstrInside
      <4>4. m < 4
        BY <4>1
      <4> HIDE DEF t, u
      <4> QED
        BY <4>2, <4>3, <4>4
    <3>2. ~IsCRLF(d, j + 2)
      <4> SUFFICES ASSUME IsCRLF(d, j + 2) PROVE FALSE
        OBVIOUS
      <4> DEFINE k == j + 2
      <4>1. k \in Nat /\ IsCRLF(d, k)
        BY <2>1
      <4> HIDE DEF k
      <4>2. k + 2 <= Len(d)
        BY <4>1, LineEndInside
      <4> QED
        BY <1>2, <2>1, <2>3, <4>2 DEF k
    <3> QED
      BY <1>1, <3>1, <3>2
  <2>4. Substr(d, j, Len(w)) = t
    BY <1>1
  <2> HIDE DEF t
  <2> QED
    BY <2>1, <2>2, <2>3, <2>4
<1>4. {j \in Positions(d) : j >= 0 /\ Substr(d, j, Len(w)) = w}
        = {j \in Positions(d) : IsCRLF(d, j) /\ IsCRLF(d, j + 2)}
  BY <1>3
<1>5. Find(d, w, 0) = Separator(d)
  BY <1>4 DEF Find, Separator, BlankLines
<1> QED
  BY <1>5 DEF w

-----------------------------------------------------------------------------
(* The body of a request *)

IsOutcome(o, S) ==
    /\ o = Outcome(o.status, o.body)
    /\ o.status \in {"READING", "INCOMPLETE", "SUCCESS", "ERROR"}
    /\ o.body \in Seq(S)

LEMMA ByLengthType ==
    ASSUME NEW S, NEW d \in Seq(S), NEW n \in Nat
    PROVE  IsOutcome(ByLength(d, n), S)
<1>1. CASE Len(d) < n
  <2>1. <<>> \in Seq(S)
    OBVIOUS
  <2> QED
    BY <1>1, <2>1 DEF ByLength, IsOutcome, Outcome
<1>2. CASE ~(Len(d) < n)
  <2>1. Substr(d, 0, n) \in Seq(S)
    BY SubstrType
  <2> QED
    BY <1>2, <2>1 DEF ByLength, IsOutcome, Outcome
<1> QED
  BY <1>1, <1>2

LEMMA LengthsType == \A l \in DOMAIN Lengths : Lengths[l] \in Nat
<1> SUFFICES ASSUME NEW l \in DOMAIN Lengths PROVE Lengths[l] \in Nat
  OBVIOUS
<1>1. l \in {LengthOf(n) : n \in 0..MaxLength}
  BY DEF Lengths
<1>2. \E n \in 0..MaxLength : l = LengthOf(n)
  BY <1>1
<1>3. Lengths[l] = CHOOSE n \in 0..MaxLength : l = LengthOf(n)
  BY <1>1 DEF Lengths
<1>4. Lengths[l] \in 0..MaxLength
  BY <1>2, <1>3
<1> QED
  BY <1>4, ReadingAssumption

\* The body is what the decoder makes of it, what the length says, or none.
LEMMA ParseBodyCases ==
    ASSUME NEW S, NEW text \in Seq(S)
    PROVE  \/ \A d : ParseBody(Fields(text), d) = decode(d)
           \/ \A d : ParseBody(Fields(text), d) = Outcome("SUCCESS", <<>>)
           \/ \A d : ParseBody(Fields(text), d) = Outcome("ERROR", <<>>)
           \/ \E n \in Nat : \A d : ParseBody(Fields(text), d) = ByLength(d, n)
<1> DEFINE length == contentLength(Fields(text))
<1>1. length \in {NoNumber, ""} \cup DOMAIN Lengths
  BY FieldsType
<1> HIDE DEF length
<1>2. CASE transferEncoding(Fields(text)) = Chunked
  BY <1>2 DEF ParseBody
<1>3. CASE transferEncoding(Fields(text)) # Chunked /\ length = ""
  BY <1>3 DEF ParseBody, length
<1>4. CASE transferEncoding(Fields(text)) # Chunked /\ length = NoNumber
  BY <1>4 DEF ParseBody, length, NoNumber
<1>5. CASE transferEncoding(Fields(text)) # Chunked /\ length \in DOMAIN Lengths /\ length # "" /\ length # NoNumber
  <2>1. Lengths[length] \in Nat
    BY <1>5, LengthsType
  <2>2. \A d : ParseBody(Fields(text), d) = ByLength(d, Lengths[length])
    BY <1>5 DEF ParseBody, length
  <2> QED
    BY <2>1, <2>2
<1> QED
  BY <1>1, <1>2, <1>3, <1>4, <1>5

LEMMA ParseBodyType ==
    ASSUME NEW S, NEW text \in Seq(S), NEW d \in Seq(S)
    PROVE  IsOutcome(ParseBody(Fields(text), d), S)
<1>1. CASE ParseBody(Fields(text), d) = decode(d)
  BY <1>1, DecodeType DEF IsOutcome
<1>2. CASE ParseBody(Fields(text), d) \in {Outcome("SUCCESS", <<>>), Outcome("ERROR", <<>>)}
  <2>1. PICK r \in {"SUCCESS", "ERROR"} : ParseBody(Fields(text), d) = Outcome(r, <<>>)
    BY <1>2
  <2>2. ParseBody(Fields(text), d).status = r /\ ParseBody(Fields(text), d).body = <<>>
    BY <2>1 DEF Outcome
  <2>3. <<>> \in Seq(S)
    OBVIOUS
  <2> QED
    BY <2>1, <2>2, <2>3 DEF IsOutcome
<1>3. CASE \E n \in Nat : ParseBody(Fields(text), d) = ByLength(d, n)
  BY <1>3, ByLengthType
<1> QED
  BY <1>1, <1>2, <1>3, ParseBodyCases

LEMMA ParseBodyPart ==
    ASSUME NEW S, NEW text \in Seq(S), NEW d \in Seq(S), NEW n \in 0..Len(d), Fits(d)
    PROVE  /\ ParseBody(Fields(text), Substr(d, 0, n)).status \in {"INCOMPLETE", "SUCCESS", "ERROR"}
           /\ ParseBody(Fields(text), Substr(d, 0, n)).status # "INCOMPLETE" =>
                ParseBody(Fields(text), Substr(d, 0, n)) = ParseBody(Fields(text), d)
<1> DEFINE p == Substr(d, 0, n)
<1>1. CASE \A c : ParseBody(Fields(text), c) = decode(c)
  BY <1>1, DecodePart
<1>2. CASE \/ \A c : ParseBody(Fields(text), c) = Outcome("SUCCESS", <<>>)
           \/ \A c : ParseBody(Fields(text), c) = Outcome("ERROR", <<>>)
  BY <1>2 DEF Outcome
<1>3. CASE \E l \in Nat : \A c : ParseBody(Fields(text), c) = ByLength(c, l)
  <2>1. PICK l \in Nat : \A c : ParseBody(Fields(text), c) = ByLength(c, l)
    BY <1>3
  <2>2. p \in Seq(S) /\ Len(p) = n /\ \A k, m \in Nat : k + m <= n => Substr(p, k, m) = Substr(d, k, m)
    BY PartSays
  <2> HIDE DEF p
  <2>3. CASE n < l
    BY <2>1, <2>2, <2>3 DEF ByLength, Outcome, p
  <2>4. CASE l <= n
    <3>1. Substr(p, 0, l) = Substr(d, 0, l)
      BY <2>2, <2>4
    <3>2. ~(Len(p) < l) /\ ~(Len(d) < l)
      BY <2>2, <2>4
    <3> QED
      BY <2>1, <3>1, <3>2 DEF ByLength, Outcome, p
  <2> QED
    BY <2>3, <2>4
<1> QED
  BY <1>1, <1>2, <1>3, ParseBodyCases

-----------------------------------------------------------------------------
(* A request *)

FirstLine(raw)  == Substr(raw, 0, FindCRLF(raw, 0))
HeaderText(raw) == Substr(raw, FindCRLF(raw, 0) + 2, (Separator(raw) - FindCRLF(raw, 0) - 2) % WordSize)
BodyText(raw)   == Substr(raw, Separator(raw) + 4, Len(raw))

HasFirstLine(raw) == FindCRLF(raw, 0) # npos /\ parseFirstLine(FirstLine(raw))
HasHead(raw) == HasFirstLine(raw) /\ Separator(raw) # npos /\ parseHeaders(HeaderText(raw))

Verdict(result, t, h, b) == [status |-> result, target |-> t, headers |-> h, body |-> b]
Announced(h) == transferEncoding(h) = Chunked \/ contentLength(h) # ""

\* With a target and headers set, and the body that was held before
WithHead(raw, t, h, b) ==
    LET read == ParseBody(h, BodyText(raw))
    IN  Verdict(read.status, t, h, IF read.status = "SUCCESS" /\ Announced(h) THEN read.body ELSE b)

LEMMA ParseInto ==
    ASSUME NEW raw, NEW request
    PROVE  LET fields == request.headers
               named  == SetTarget(FirstLine(raw), request.target)
               told   == setHeaders(HeaderText(raw), request.headers)
               b      == request.body
           IN  /\ FindCRLF(raw, 0) = npos =>
                    parseRequest(raw, request) = Verdict("INCOMPLETE", request.target, fields, b)
               /\ FindCRLF(raw, 0) # npos /\ ~parseFirstLine(FirstLine(raw)) =>
                    parseRequest(raw, request) = Verdict("ERROR", request.target, fields, b)
               /\ HasFirstLine(raw) /\ Separator(raw) = npos =>
                    parseRequest(raw, request) = Verdict("INCOMPLETE", named, fields, b)
               /\ HasFirstLine(raw) /\ Separator(raw) # npos /\ ~parseHeaders(HeaderText(raw)) =>
                    parseRequest(raw, request) = Verdict("ERROR", named, told, b)
               /\ HasHead(raw) => parseRequest(raw, request) = WithHead(raw, named, told, b)
<1> DEFINE first == FindCRLF(raw, 0)
           blank == First({j \in Positions(raw) : IsCRLF(raw, j) /\ IsCRLF(raw, j + 2)})
           text  == Substr(raw, first + 2, (blank - first - 2) % WordSize)
           t     == SetTarget(FirstLine(raw), request.target)
           h     == setHeaders(text, request.headers)
           b     == request.body
<1>1. blank = Separator(raw)
  BY DEF Separator, BlankLines
<1>2. text = HeaderText(raw)
  BY <1>1 DEF HeaderText
<1>3. CASE first = npos
  BY <1>3 DEF parseRequest, HasFirstLine, HasHead, Verdict
<1>4. CASE first # npos /\ ~parseFirstLine(FirstLine(raw))
  BY <1>4 DEF parseRequest, HasFirstLine, HasHead, FirstLine, Verdict
<1>5. CASE HasFirstLine(raw)
  <2> DEFINE read == ParseBody(h, Substr(raw, blank + 4, Len(raw)))
             accepted == Verdict(read.status, t, h,
                                 IF read.status = "SUCCESS" /\ Announced(h) THEN read.body ELSE b)
  <2>1. parseRequest(raw, request) =
          CASE blank = npos -> Verdict("INCOMPLETE", t, request.headers, b)
            [] blank # npos /\ ~parseHeaders(text) -> Verdict("ERROR", t, h, b)
            [] blank # npos /\ parseHeaders(text) -> accepted
    BY <1>5 DEF parseRequest, HasFirstLine, FirstLine, Verdict, Announced
  <2>2. accepted = WithHead(raw, t, h, b)
    BY <1>1 DEF WithHead, BodyText
  <2> HIDE DEF accepted, blank, t
  <2>3. h = setHeaders(HeaderText(raw), request.headers)
    BY <1>2
  <2> HIDE DEF h, text
  <2> QED
    BY <1>1, <1>2, <1>5, <2>1, <2>2, <2>3 DEF HasHead, HasFirstLine, t
<1> QED
  BY <1>3, <1>4, <1>5 DEF HasFirstLine

LEMMA SetTargetIs ==
    ASSUME NEW line
    PROVE  SetTarget(line, NoTarget) = Target(line) /\ SetTarget(line, Target(line)) = Target(line)
<1>1. PICK u, q : Target(line) = [uri |-> u, query |-> q]
  BY DEF Target
<1>2. Find(Words(line)[2], <<"?">>, 0) = npos => Target(line).query = <<>>
  BY DEF Target, CutQuery
<1>3. NoTarget.query = <<>>
  BY DEF NoTarget
<1>4. [Target(line) EXCEPT !.query = Target(line).query] = Target(line)
  BY <1>1
<1> QED
  BY <1>2, <1>3, <1>4 DEF SetTarget

\* What one attempt makes of a text with a head
Accepted(raw) == WithHead(raw, Target(FirstLine(raw)), Fields(HeaderText(raw)), <<>>)

LEMMA ParseCases ==
    ASSUME NEW raw
    PROVE  LET t == Target(FirstLine(raw))
               h == Fields(HeaderText(raw))
           IN  /\ FindCRLF(raw, 0) = npos => Parse(raw) = Verdict("INCOMPLETE", NoTarget, NoHeaders, <<>>)
               /\ FindCRLF(raw, 0) # npos /\ ~parseFirstLine(FirstLine(raw)) =>
                    Parse(raw) = Verdict("ERROR", NoTarget, NoHeaders, <<>>)
               /\ HasFirstLine(raw) /\ Separator(raw) = npos =>
                    Parse(raw) = Verdict("INCOMPLETE", t, NoHeaders, <<>>)
               /\ HasFirstLine(raw) /\ Separator(raw) # npos /\ ~parseHeaders(HeaderText(raw)) =>
                    Parse(raw) = Verdict("ERROR", t, h, <<>>)
               /\ HasHead(raw) => Parse(raw) = Accepted(raw)
<1>1. NewRequest.target = NoTarget /\ NewRequest.headers = NoHeaders /\ NewRequest.body = <<>>
  BY DEF NewRequest
<1>2. SetTarget(FirstLine(raw), NewRequest.target) = Target(FirstLine(raw))
  BY <1>1, SetTargetIs
<1>3. setHeaders(HeaderText(raw), NewRequest.headers) = Fields(HeaderText(raw))
  BY <1>1 DEF Fields
<1>4. Parse(raw) = parseRequest(raw, NewRequest)
  BY DEF Parse
<1> QED
  BY <1>1, <1>2, <1>3, <1>4, ParseInto DEF Accepted

LEMMA VerdictSays ==
    ASSUME NEW s, NEW t, NEW h, NEW b
    PROVE  LET v == Verdict(s, t, h, b) IN v.status = s /\ v.target = t /\ v.headers = h /\ v.body = b
  BY DEF Verdict

LEMMA AcceptedSays ==
    ASSUME NEW raw, NEW o, o = ParseBody(Fields(HeaderText(raw)), BodyText(raw))
    PROVE  /\ Accepted(raw).status = o.status
           /\ Accepted(raw).target = Target(FirstLine(raw))
           /\ Accepted(raw).headers = Fields(HeaderText(raw))
           /\ Accepted(raw).body = IF o.status = "SUCCESS" THEN o.body ELSE <<>>
<1> DEFINE h == Fields(HeaderText(raw))
           b == IF o.status = "SUCCESS" /\ Announced(h) THEN o.body ELSE <<>>
<1>1. Accepted(raw) = Verdict(o.status, Target(FirstLine(raw)), h, b)
  BY DEF Accepted, WithHead
<1>2. ~Announced(h) => o.body = <<>>
  BY DEF Announced, ParseBody, Outcome
<1> HIDE DEF h
<1> QED
  BY <1>1, <1>2, VerdictSays DEF h

LEMMA HeadType ==
    ASSUME NEW S, NEW raw \in Seq(S), FindCRLF(raw, 0) # npos
    PROVE  /\ FirstLine(raw) \in Seq(S)
           /\ HeaderText(raw) \in Seq(S)
           /\ Separator(raw) # npos => BodyText(raw) \in Seq(S)
<1> DEFINE first == FindCRLF(raw, 0)
           blank == Separator(raw)
<1>1. first \in Nat /\ first + 2 <= Len(raw) /\ Len(raw) \in Nat
  BY LineEndFound
<1>2. blank \in Int /\ (blank # npos => blank \in Nat /\ blank + 4 <= Len(raw))
  BY BlankFound DEF npos
<1> HIDE DEF first, blank
<1>3. FirstLine(raw) \in Seq(S)
  BY <1>1, SubstrType DEF FirstLine, first
<1>4. HeaderText(raw) \in Seq(S)
  <2>1. (blank - first - 2) \in Int
    BY <1>1, <1>2
  <2>2. (blank - first - 2) % WordSize \in Nat /\ first + 2 \in 0..Len(raw)
    BY <1>1, <2>1, WordSizeType
  <2>3. Substr(raw, first + 2, (blank - first - 2) % WordSize) \in Seq(S)
    BY <2>2, SubstrType
  <2> QED
    BY <2>3 DEF HeaderText, first, blank
<1>5. blank # npos => BodyText(raw) \in Seq(S)
  <2>1. blank # npos => blank + 4 \in 0..Len(raw)
    BY <1>1, <1>2
  <2>2. blank # npos => Substr(raw, blank + 4, Len(raw)) \in Seq(S)
    BY <1>1, <2>1, SubstrType
  <2> QED
    BY <2>2 DEF BodyText, blank
<1> QED
  BY <1>3, <1>4, <1>5 DEF blank

LEMMA QueryType ==
    ASSUME NEW S, NEW line \in Seq(S), parseFirstLine(line)
    PROVE  Target(line).query \in Seq(S)
<1> DEFINE uri  == Words(line)[2]
           P    == {j \in Positions(uri) : j >= 0 /\ Substr(uri, j, Len(<<"?">>)) = <<"?">>}
           mark == First(P)
<1>1. uri \in Seq(S)
  <2> DEFINE words == Words(line)
  <2>1. words \in Seq(Seq(S))
    BY WordsType
  <2>2. Len(words) = 3
    BY DEF parseFirstLine
  <2> HIDE DEF words
  <2>3. 2 \in 1..Len(words)
    BY <2>2
  <2>4. words[2] \in Seq(S)
    BY <2>1, <2>3, ElementOfSeq
  <2> QED
    BY <2>4 DEF words
<1> HIDE DEF uri
<1>2. P \in SUBSET Nat /\ Find(uri, <<"?">>, 0) = mark
  BY DEF Find, Positions
<1>3. mark # npos => mark \in P
  BY <1>2, FirstIsLeast
<1>4. mark # npos => mark + 1 \in 0..Len(uri) /\ Len(uri) \in Nat
  <2>1. Len(uri) \in Nat
    BY <1>1
  <2>2. mark # npos => mark \in 0..(Len(uri) - 1)
    BY <1>3 DEF Positions
  <2> HIDE DEF mark
  <2> QED
    BY <2>1, <2>2
<1> HIDE DEF mark
<1>5. mark # npos => Substr(uri, mark + 1, Len(uri)) \in Seq(S)
  BY <1>1, <1>4, SubstrType
<1>6. CutQuery(uri).query = IF mark = npos THEN <<>> ELSE Substr(uri, mark + 1, Len(uri))
  BY <1>2 DEF CutQuery
<1>7. Target(line).query = CutQuery(uri).query
  BY DEF Target, uri
<1>8. <<>> \in Seq(S)
  OBVIOUS
<1> QED
  BY <1>5, <1>6, <1>7, <1>8

LEMMA ParseType ==
    ASSUME NEW S, NEW raw \in Seq(S)
    PROVE  /\ Parse(raw) = Verdict(Parse(raw).status, Parse(raw).target, Parse(raw).headers, Parse(raw).body)
           /\ Parse(raw).status \in {"READING", "INCOMPLETE", "SUCCESS", "ERROR"}
           /\ Parse(raw).body \in Seq(S) /\ (Parse(raw).status # "SUCCESS" => Parse(raw).body = <<>>)
           /\ Parse(raw).headers \in [DOMAIN LinesOf -> Seq(S)]
           /\ Parse(raw).target.query \in Seq(S)
<1> DEFINE Typed(v) ==
             /\ v = Verdict(v.status, v.target, v.headers, v.body)
             /\ v.status \in {"READING", "INCOMPLETE", "SUCCESS", "ERROR"}
             /\ v.body \in Seq(S) /\ (v.status # "SUCCESS" => v.body = <<>>)
             /\ v.headers \in [DOMAIN LinesOf -> Seq(S)]
             /\ v.target.query \in Seq(S)
<1>1. <<>> \in Seq(S) /\ NoTarget.query = <<>>
  BY DEF NoTarget
<1>2. NoHeaders \in [DOMAIN LinesOf -> Seq(S)]
  BY <1>1 DEF NoHeaders
<1>3. ASSUME NEW s \in {"READING", "INCOMPLETE", "SUCCESS", "ERROR"}, NEW b \in Seq(S), s # "SUCCESS" => b = <<>>,
             NEW t, t.query \in Seq(S), NEW h \in [DOMAIN LinesOf -> Seq(S)]
      PROVE  Typed(Verdict(s, t, h, b))
  <2> DEFINE v == Verdict(s, t, h, b)
  <2>1. v.status = s /\ v.target = t /\ v.headers = h /\ v.body = b
    BY VerdictSays
  <2> HIDE DEF v
  <2>2. Typed(v)
    BY <1>3, <2>1 DEF v
  <2> QED
    BY <2>2 DEF v
<1>4. CASE FindCRLF(raw, 0) = npos \/ ~parseFirstLine(FirstLine(raw))
  <2>1. Parse(raw) \in {Verdict("INCOMPLETE", NoTarget, NoHeaders, <<>>), Verdict("ERROR", NoTarget, NoHeaders, <<>>)}
    BY <1>4, ParseCases
  <2>2. Typed(Verdict("INCOMPLETE", NoTarget, NoHeaders, <<>>)) /\ Typed(Verdict("ERROR", NoTarget, NoHeaders, <<>>))
    BY <1>1, <1>2, <1>3
  <2> HIDE DEF Typed
  <2>3. Typed(Parse(raw))
    BY <2>1, <2>2
  <2> QED
    BY <2>3 DEF Typed
<1>5. CASE HasFirstLine(raw)
  <2> DEFINE t == Target(FirstLine(raw))
             h == Fields(HeaderText(raw))
             o == ParseBody(h, BodyText(raw))
  <2>1. FirstLine(raw) \in Seq(S) /\ HeaderText(raw) \in Seq(S)
    BY <1>5, HeadType DEF HasFirstLine
  <2>2. t.query \in Seq(S)
    BY <1>5, <2>1, QueryType DEF HasFirstLine
  <2>3. h \in [DOMAIN LinesOf -> Seq(S)]
    BY <2>1, FieldsType
  <2>4. Typed(Verdict("INCOMPLETE", t, NoHeaders, <<>>)) /\ Typed(Verdict("ERROR", t, h, <<>>))
    <3> HIDE DEF t, h, Typed
    <3> QED
      BY <1>1, <1>2, <1>3, <2>2, <2>3
  <2>5. ASSUME HasHead(raw) PROVE Typed(Accepted(raw))
    <3>1. BodyText(raw) \in Seq(S)
      BY <2>5, HeadType DEF HasHead, HasFirstLine
    <3>2. IsOutcome(o, S)
      BY <2>1, <3>1, ParseBodyType
    <3> DEFINE b == IF o.status = "SUCCESS" THEN o.body ELSE <<>>
               c == IF o.status = "SUCCESS" /\ Announced(h) THEN o.body ELSE <<>>
    <3>3. Accepted(raw) = Verdict(o.status, t, h, c)
      BY DEF Accepted, WithHead
    <3> HIDE DEF o, t, h
    <3>4. o.status \in {"READING", "INCOMPLETE", "SUCCESS", "ERROR"} /\ c \in Seq(S) /\ (o.status # "SUCCESS" => c = <<>>)
      BY <1>1, <3>2 DEF IsOutcome
    <3> HIDE DEF c, Typed
    <3> QED
      BY <1>3, <2>2, <2>3, <3>3, <3>4
  <2>6. \/ Parse(raw) = Verdict("INCOMPLETE", t, NoHeaders, <<>>) \/ Parse(raw) = Verdict("ERROR", t, h, <<>>)
        \/ HasHead(raw) /\ Parse(raw) = Accepted(raw)
    BY <1>5, ParseCases DEF HasHead
  <2> HIDE DEF Typed
  <2>7. Typed(Parse(raw))
    BY <2>4, <2>5, <2>6
  <2> QED
    BY <2>7 DEF Typed
<1> QED
  BY <1>4, <1>5 DEF HasFirstLine

LEMMA SubstrOfSubstr ==
    ASSUME NEW S, NEW d \in Seq(S), NEW k \in Nat, NEW n \in Nat, k + n <= Len(d), NEW m \in 0..n
    PROVE  Substr(Substr(d, k, n), 0, m) = Substr(d, k, m)
<1> DEFINE s == Substr(d, k, n)
<1>1. s \in Seq(S) /\ Len(s) = n /\ \A i \in 1..n : s[i] = d[k + i]
  BY SubstrInside
<1> HIDE DEF s
<1>2. 0 + m <= Len(s) /\ k + m <= Len(d) /\ m \in Nat
  BY <1>1
<1>3. Substr(s, 0, m) \in Seq(S) /\ Len(Substr(s, 0, m)) = m /\ \A i \in 1..m : Substr(s, 0, m)[i] = s[0 + i]
  <2> DEFINE z == 0
  <2>1. z \in Nat /\ z + m <= Len(s) /\ \A i \in 1..m : z + i = 0 + i
    BY <1>2
  <2> HIDE DEF z
  <2>2. /\ Substr(s, z, m) \in Seq(S) /\ Len(Substr(s, z, m)) = m
        /\ \A i \in 1..m : Substr(s, z, m)[i] = s[z + i]
    <3>1. s \in Seq(S) /\ m \in Nat
      BY <1>1, <1>2
    <3> QED
      BY <2>1, <3>1, SubstrInside
  <2> QED
    BY <2>2 DEF z
<1>4. Substr(d, k, m) \in Seq(S) /\ Len(Substr(d, k, m)) = m /\ \A i \in 1..m : Substr(d, k, m)[i] = d[k + i]
  <2>1. m \in Nat /\ k + m <= Len(d)
    BY <1>2
  <2> QED
    BY <2>1, SubstrInside
<1>5. \A i \in 1..m : Substr(s, 0, m)[i] = Substr(d, k, m)[i]
  <2> SUFFICES ASSUME NEW i \in 1..m PROVE Substr(s, 0, m)[i] = Substr(d, k, m)[i]
    OBVIOUS
  <2>1. i \in 1..n /\ 0 + i = i
    OBVIOUS
  <2> QED
    BY <1>1, <1>3, <1>4, <2>1
<1> QED
  BY <1>3, <1>4, <1>5, SeqEqual DEF s

LEMMA SubstrWhole ==
    ASSUME NEW S, NEW d \in Seq(S)
    PROVE  Substr(d, 0, Len(d)) = d
<1>1. Len(d) \in Nat /\ 0 + Len(d) <= Len(d)
  OBVIOUS
<1>2. /\ Substr(d, 0, Len(d)) \in Seq(S) /\ Len(Substr(d, 0, Len(d))) = Len(d)
      /\ \A i \in 1..Len(d) : Substr(d, 0, Len(d))[i] = d[0 + i]
  BY <1>1, SubstrInside
<1>3. \A i \in 1..Len(d) : Substr(d, 0, Len(d))[i] = d[i]
  BY <1>2
<1> QED
  BY <1>2, <1>3, SeqEqual

\* The blank line is at the end of the first line or behind it.
LEMMA BlankBehindLine ==
    ASSUME NEW S, NEW raw \in Seq(S), Separator(raw) # npos
    PROVE  /\ FindCRLF(raw, 0) \in Nat /\ FindCRLF(raw, 0) # npos
           /\ Separator(raw) \in Nat /\ Separator(raw) + 4 <= Len(raw)
           /\ Separator(raw) = FindCRLF(raw, 0) \/ FindCRLF(raw, 0) + 2 <= Separator(raw)
<1> DEFINE first == FindCRLF(raw, 0)
           blank == Separator(raw)
<1>1. blank \in Nat /\ blank + 4 <= Len(raw) /\ IsCRLF(raw, blank)
  BY BlankFound
<1> HIDE DEF blank
<1>2. first # npos
  BY <1>1, LineEndFound
<1>3. first \in Nat /\ IsCRLF(raw, first) /\ \A j \in Nat : 0 <= j /\ j < first => ~IsCRLF(raw, j)
  BY <1>2, LineEndFound
<1> HIDE DEF first
<1>4. first <= blank
  BY <1>1, <1>3
<1>5. blank # first + 1
  <2> SUFFICES ASSUME blank = first + 1 PROVE FALSE
    OBVIOUS
  <2>1. raw[blank + 1] = CR
    BY <1>1, LineEndInside
  <2>2. raw[first + 2] = LF
    BY <1>3, LineEndInside
  <2>3. blank + 1 = first + 2
    BY <1>3
  <2> QED
    BY <2>1, <2>2, <2>3, CharactersDiffer
<1> QED
  BY <1>1, <1>2, <1>3, <1>4, <1>5 DEF first, blank

\* Where the body of a text begins: its length is a number, and nothing follows a head
\* without headers, which would be read as its headers.
Delimited(raw) ==
    /\ Len(raw) < WordSize
    /\ Separator(raw) # npos /\ Separator(raw) = FindCRLF(raw, 0) => Len(raw) = Separator(raw) + 4

\* And no size in its body wraps around.
Definite(raw) == Delimited(raw) /\ (Separator(raw) # npos => Fits(BodyText(raw)))

\* The head of a part that has the blank line is the head of the whole.
LEMMA PartHead ==
    ASSUME NEW S, NEW raw \in Seq(S), NEW n \in 0..Len(raw), Delimited(raw),
           Separator(raw) # npos, Separator(raw) + 4 <= n
    PROVE  /\ HeaderText(Substr(raw, 0, n)) = HeaderText(raw)
           /\ BodyText(Substr(raw, 0, n)) = Substr(BodyText(raw), 0, n - Separator(raw) - 4)
           /\ n - Separator(raw) - 4 \in 0..Len(BodyText(raw))
           /\ BodyText(raw) \in Seq(S)
<1> DEFINE p     == Substr(raw, 0, n)
           first == FindCRLF(raw, 0)
           blank == Separator(raw)
<1>1. /\ p \in Seq(S) /\ Len(p) = n
      /\ \A k, l \in Nat : k + l <= n => Substr(p, k, l) = Substr(raw, k, l)
  BY PartSays
<1>2. /\ first \in Nat /\ first # npos /\ blank \in Nat /\ blank + 4 <= Len(raw)
      /\ blank = first \/ first + 2 <= blank
  BY BlankBehindLine
<1>3. FindCRLF(p, 0) = IF first # npos /\ first + 2 <= n THEN first ELSE npos
  BY LineEndInPart
<1>4. Separator(p) = IF blank # npos /\ blank + 4 <= n THEN blank ELSE npos
  BY BlankInPart
<1>5. blank = first => Len(raw) = blank + 4
  BY DEF Delimited
<1>6. Len(raw) \in Nat /\ Len(raw) < WordSize /\ blank # npos /\ blank + 4 <= n
  BY DEF Delimited
<1>7. n = Len(raw) => p = raw
  BY SubstrWhole
<1> HIDE DEF p, first, blank
<1>8. first + 2 <= n
  BY <1>2, <1>6
<1>9. FindCRLF(p, 0) = first /\ Separator(p) = blank
  BY <1>2, <1>3, <1>4, <1>6, <1>8
<1>10. HeaderText(p) = HeaderText(raw)
  <2>1. CASE blank = first
    <3>1. n = Len(raw)
      BY <1>2, <1>5, <1>6, <2>1
    <3> QED
      BY <1>7, <3>1
  <2>2. CASE first + 2 <= blank
    <3>1. blank - first - 2 \in Nat /\ blank - first - 2 < WordSize /\ first + 2 + (blank - first - 2) <= n
      BY <1>2, <1>6, <2>2, WordSizeType
    <3>2. (blank - first - 2) % WordSize = blank - first - 2
      BY <3>1, WordSizeType
    <3>3. first + 2 \in Nat
      BY <1>2
    <3>4. Substr(p, first + 2, blank - first - 2) = Substr(raw, first + 2, blank - first - 2)
      BY <1>1, <3>1, <3>3
    <3> QED
      BY <1>9, <3>2, <3>4 DEF HeaderText, first, blank
  <2> QED
    BY <1>2, <2>1, <2>2
<1> DEFINE from == blank + 4
           m == Len(raw) - from
           l == n - from
<1>11. from \in Nat /\ m \in Nat /\ from + m <= Len(raw) /\ l \in 0..m /\ l \in Nat /\ from + l <= n
  BY <1>2, <1>6
<1>12. BodyText(raw) = Substr(raw, from, m)
  <2>1. from \in 0..Len(raw) /\ Len(raw) \in Nat /\ Len(raw) <= from + Len(raw)
    BY <1>11
  <2>2. Substr(raw, from, Len(raw)) = Substr(raw, from, Len(raw) - from)
    <3> HIDE DEF from
    <3> QED
      BY <2>1, SubstrRest
  <2> QED
    BY <2>2 DEF BodyText, blank
<1>13. BodyText(p) = Substr(raw, from, l)
  <2>1. from \in 0..Len(p) /\ n \in Nat /\ Len(p) <= from + n
    BY <1>1, <1>6, <1>11
  <2>2. Substr(p, from, n) = Substr(p, from, Len(p) - from)
    <3> HIDE DEF from
    <3> QED
      BY <1>1, <2>1, SubstrRest
  <2>3. Substr(p, from, l) = Substr(raw, from, l)
    BY <1>1, <1>11
  <2> QED
    BY <1>1, <1>9, <2>2, <2>3 DEF BodyText
<1>14. Substr(BodyText(raw), 0, l) = Substr(raw, from, l)
  <2> HIDE DEF from, m, l
  <2> QED
    BY <1>11, <1>12, SubstrOfSubstr
<1>15. Len(BodyText(raw)) = m /\ BodyText(raw) \in Seq(S)
  <2> HIDE DEF from, m, l
  <2> QED
    BY <1>11, <1>12, SubstrInside
<1>16. l = n - blank - 4
  BY <1>2
<1> HIDE DEF from, m, l
<1> QED
  BY <1>10, <1>11, <1>13, <1>14, <1>15, <1>16 DEF p, blank

\* What the parser says of a part, unless it waits for more, it says of the whole.
LEMMA RequestInPart ==
    ASSUME NEW S, NEW raw \in Seq(S), NEW n \in 0..Len(raw), Definite(raw)
    PROVE  /\ Parse(Substr(raw, 0, n)).status \in {"INCOMPLETE", "SUCCESS", "ERROR"}
           /\ Parse(Substr(raw, 0, n)).status # "INCOMPLETE" => Parse(Substr(raw, 0, n)) = Parse(raw)
<1> DEFINE p     == Substr(raw, 0, n)
           first == FindCRLF(raw, 0)
           blank == Separator(raw)
<1>1. p \in Seq(S) /\ \A k, l \in Nat : k + l <= n => Substr(p, k, l) = Substr(raw, k, l)
  BY PartSays
<1>2. FindCRLF(p, 0) = IF first # npos /\ first + 2 <= n THEN first ELSE npos
  BY LineEndInPart
<1>3. Separator(p) = IF blank # npos /\ blank + 4 <= n THEN blank ELSE npos
  BY BlankInPart
<1>4. first # npos => first \in Nat
  BY LineEndFound
<1> HIDE DEF p, first, blank
<1>5. CASE ~(first # npos /\ first + 2 <= n)
  <2>1. Parse(p) = Verdict("INCOMPLETE", NoTarget, NoHeaders, <<>>)
    BY <1>2, <1>5, ParseCases
  <2> QED
    BY <2>1, VerdictSays DEF p
<1>6. CASE first # npos /\ first + 2 <= n
  <2>1. FindCRLF(p, 0) = first /\ first # npos
    BY <1>2, <1>6
  <2>2. FirstLine(p) = FirstLine(raw)
    <3>1. 0 + first <= n
      BY <1>4, <1>6
    <3>2. Substr(p, 0, first) = Substr(raw, 0, first)
      BY <1>1, <1>4, <1>6, <3>1
    <3> QED
      BY <2>1, <3>2 DEF FirstLine, first
  <2> DEFINE t == Target(FirstLine(raw))
  <2>3. CASE ~parseFirstLine(FirstLine(raw))
    <3>1. Parse(p) = Verdict("ERROR", NoTarget, NoHeaders, <<>>)
      BY <2>1, <2>2, <2>3, ParseCases
    <3>2. Parse(raw) = Verdict("ERROR", NoTarget, NoHeaders, <<>>)
      BY <1>6, <2>3, ParseCases DEF first
    <3> QED
      BY <3>1, <3>2, VerdictSays DEF p
  <2>4. CASE parseFirstLine(FirstLine(raw))
    <3>1. HasFirstLine(p) /\ HasFirstLine(raw)
      BY <1>6, <2>1, <2>2, <2>4 DEF HasFirstLine, first
    <3>2. CASE ~(blank # npos /\ blank + 4 <= n)
      <4>1. Parse(p) = Verdict("INCOMPLETE", t, NoHeaders, <<>>)
        BY <1>3, <2>2, <3>1, <3>2, ParseCases
      <4> HIDE DEF t
      <4> QED
        BY <4>1, VerdictSays DEF p
    <3>3. CASE blank # npos /\ blank + 4 <= n
      <4> DEFINE text == HeaderText(raw)
                 h    == Fields(text)
                 d    == BodyText(raw)
                 m    == n - blank - 4
      <4>1. Separator(p) = blank /\ Separator(p) # npos /\ Separator(raw) # npos
        BY <1>3, <3>3 DEF blank
      <4>2. /\ HeaderText(p) = text /\ BodyText(p) = Substr(d, 0, m)
            /\ m \in 0..Len(d) /\ d \in Seq(S)
        BY <3>3, PartHead DEF Definite, p, blank
      <4>3. Fits(d) /\ text \in Seq(S)
        BY <1>6, <4>1, HeadType DEF Definite, first
      <4> HIDE DEF text, d, m
      <4>4. CASE ~parseHeaders(text)
        <5>1. Parse(p) = Verdict("ERROR", t, h, <<>>)
          BY <2>2, <3>1, <4>1, <4>2, <4>4, ParseCases
        <5>2. Parse(raw) = Verdict("ERROR", t, h, <<>>)
          BY <3>1, <4>1, <4>4, ParseCases DEF text
        <5> HIDE DEF t, h
        <5> QED
          BY <5>1, <5>2, VerdictSays DEF p
      <4>5. CASE parseHeaders(text)
        <5> DEFINE part  == ParseBody(h, Substr(d, 0, m))
                   whole == ParseBody(h, d)
                   Made(o) == Verdict(o.status, t, h,
                                      IF o.status = "SUCCESS" /\ Announced(h) THEN o.body ELSE <<>>)
        <5>1. HasHead(p) /\ HasHead(raw)
          BY <3>1, <4>1, <4>2, <4>5 DEF HasHead, text
        <5>2. Parse(p) = Accepted(p) /\ Parse(raw) = Accepted(raw)
          BY <5>1, ParseCases
        <5>3. Accepted(p) = Made(part)
          BY <2>2, <4>2 DEF Accepted, WithHead
        <5>4. Accepted(raw) = Made(whole)
          BY DEF Accepted, WithHead, text, d
        <5>5. /\ part.status \in {"INCOMPLETE", "SUCCESS", "ERROR"}
              /\ part.status # "INCOMPLETE" => part = whole
          BY <4>2, <4>3, ParseBodyPart
        <5> HIDE DEF part, whole, t, h
        <5>6. Made(part).status = part.status
          BY VerdictSays
        <5> HIDE DEF Made
        <5> QED
          BY <5>2, <5>3, <5>4, <5>5, <5>6 DEF p
      <4> QED
        BY <4>4, <4>5
    <3> QED
      BY <3>2, <3>3
  <2> QED
    BY <2>3, <2>4
<1> QED
  BY <1>5, <1>6

-----------------------------------------------------------------------------
(* An attempt into what the attempt before has left *)

\* The lines of a part are those of the whole, but for the end of the last: what a line
\* begins with, it begins with in the whole.
Grows(a, b) ==
    \A k \in 1..Len(a) :
       a[k] # <<>> /\ a[k][1] # CR =>
         /\ k \in 1..Len(b) /\ b[k] # <<>> /\ b[k][1] = a[k][1]
         /\ \A j \in 1..(k - 1) : b[j] = a[j]

LEMMA GrowsBehind ==
    ASSUME NEW T, NEW l \in T, NEW a \in Seq(T), NEW b \in Seq(T), Grows(a, b)
    PROVE  Grows(<<l>> \o a, <<l>> \o b)
<1> DEFINE A == <<l>> \o a
           B == <<l>> \o b
<1>1. /\ Len(A) = Len(a) + 1 /\ Len(B) = Len(b) + 1 /\ Len(a) \in Nat /\ Len(b) \in Nat
      /\ A[1] = l /\ B[1] = l
      /\ \A k \in 2..(Len(a) + 1) : A[k] = a[k - 1]
      /\ \A k \in 2..(Len(b) + 1) : B[k] = b[k - 1]
  BY ConcatProperties
<1> HIDE DEF A, B
<1>2. SUFFICES ASSUME NEW k \in 1..Len(A), A[k] # <<>>, A[k][1] # CR
               PROVE  /\ k \in 1..Len(B) /\ B[k] # <<>> /\ B[k][1] = A[k][1]
                      /\ \A j \in 1..(k - 1) : B[j] = A[j]
  BY DEF Grows, A, B
<1>3. CASE k = 1
  BY <1>1, <1>2, <1>3
<1>4. CASE k # 1
  <2> DEFINE i == k - 1
  <2>1. i \in 1..Len(a) /\ A[k] = a[i] /\ k \in 2..(Len(a) + 1)
    BY <1>1, <1>4
  <2> HIDE DEF i
  <2>2. /\ i \in 1..Len(b) /\ b[i] # <<>> /\ b[i][1] = a[i][1]
        /\ \A j \in 1..(i - 1) : b[j] = a[j]
    BY <1>2, <2>1 DEF Grows
  <2>3. k \in 2..(Len(b) + 1) /\ k \in 1..Len(B) /\ B[k] = b[i]
    BY <1>1, <2>1, <2>2 DEF i
  <2>4. ASSUME NEW j \in 1..(k - 1) PROVE B[j] = A[j]
    <3>1. CASE j = 1
      BY <1>1, <3>1
    <3>2. CASE j # 1
      <4>1. j \in 2..(Len(a) + 1) /\ j \in 2..(Len(b) + 1) /\ j - 1 \in 1..(i - 1)
        BY <1>1, <2>1, <2>3, <3>2 DEF i
      <4> QED
        BY <1>1, <2>2, <4>1
    <3> QED
      BY <3>1, <3>2
  <2> QED
    BY <2>1, <2>2, <2>3, <2>4
<1> QED
  BY <1>3, <1>4

\* The last line of a part, and what is cut from there in the whole
LEMMA LastGrows ==
    ASSUME NEW S, NEW text \in Seq(S), NEW l \in 0..Len(text), NEW k \in 0..l,
           NEW c, c = FindCRLF(text, k), ~(c # npos /\ c + 2 <= l),
           NEW rest \in Seq(Seq(S)),
           NEW b, b = IF c = npos THEN <<Substr(text, k, Len(text))>> ELSE <<Substr(text, k, c - k)>> \o rest
    PROVE  Grows(<<Substr(Substr(text, 0, l), k, l)>>, b)
<1> DEFINE u == Substr(text, 0, l)
           w == Substr(u, k, l)
<1>1. u \in Seq(S) /\ Len(u) = l /\ \A i, j \in Nat : i + j <= l => Substr(u, i, j) = Substr(text, i, j)
  BY PartSays
<1>2. Len(text) \in Nat /\ l \in Nat /\ k \in Nat /\ l - k \in Nat /\ k + (l - k) <= l
  OBVIOUS
<1>3. w = Substr(text, k, l - k)
  <2>1. Substr(u, k, l) = Substr(u, k, Len(u) - k)
    <3>1. k \in 0..Len(u) /\ Len(u) <= k + l
      BY <1>1, <1>2
    <3> HIDE DEF u
    <3> QED
      BY <1>1, <1>2, <3>1, SubstrRest
  <2> HIDE DEF u
  <2> QED
    BY <1>1, <1>2, <2>1
<1>4. w \in Seq(S) /\ Len(w) = l - k /\ \A i \in 1..(l - k) : w[i] = text[k + i]
  <2> DEFINE m == l - k
  <2>1. m \in Nat /\ k \in Nat /\ k + m <= Len(text) /\ w = Substr(text, k, m)
    BY <1>2, <1>3
  <2> HIDE DEF m, w
  <2>2. w \in Seq(S) /\ Len(w) = m /\ \A i \in 1..m : w[i] = text[k + i]
    BY <2>1, SubstrInside
  <2> QED
    BY <2>2 DEF m
<1> HIDE DEF w
<1> SUFFICES ASSUME w # <<>>, w[1] # CR
             PROVE  1 \in 1..Len(b) /\ b[1] # <<>> /\ b[1][1] = w[1]
  <2>1. Len(<<w>>) = 1 /\ <<w>>[1] = w
    OBVIOUS
  <2> QED
    BY <2>1 DEF Grows, w
<1>5. k < l /\ w[1] = text[k + 1]
  <2>1. Len(w) # 0
    BY <1>4
  <2> QED
    BY <1>2, <1>4, <2>1
<1>6. CASE c = npos
  <2>1. b = <<Substr(text, k, Len(text))>> /\ Substr(text, k, Len(text)) = Substr(text, k, Len(text) - k)
    <3>1. k \in 0..Len(text) /\ Len(text) \in Nat /\ Len(text) <= k + Len(text)
      BY <1>2
    <3> QED
      BY <1>6, <3>1, SubstrRest
  <2> DEFINE m == Len(text) - k
             v == Substr(text, k, m)
  <2>2. m \in Nat /\ m > 0 /\ k + m <= Len(text)
    BY <1>2, <1>5
  <2> HIDE DEF m
  <2>3. v \in Seq(S) /\ Len(v) = m /\ \A i \in 1..m : v[i] = text[k + i]
    BY <1>2, <2>2, SubstrInside
  <2>4. b = <<v>>
    BY <2>1 DEF m
  <2> HIDE DEF v
  <2>5. v # <<>> /\ v[1] = text[k + 1]
    BY <2>2, <2>3
  <2> QED
    BY <1>5, <2>4, <2>5
<1>7. CASE c # npos
  <2>1. c \in Nat /\ k <= c /\ c + 2 <= Len(text) /\ IsCRLF(text, c)
    BY <1>2, <1>7, LineEndFound
  <2>2. c # k
    <3> SUFFICES ASSUME c = k PROVE FALSE
      OBVIOUS
    <3>1. text[c + 1] = CR
      BY <2>1, LineEndInside
    <3> QED
      BY <1>5, <3>1
  <2> DEFINE m == c - k
             v == Substr(text, k, m)
  <2>3. m \in Nat /\ m > 0 /\ k + m <= Len(text)
    BY <1>2, <2>1, <2>2
  <2>4. b = <<v>> \o rest
    BY <1>7
  <2> HIDE DEF m
  <2>5. v \in Seq(S) /\ Len(v) = m /\ \A i \in 1..m : v[i] = text[k + i]
    BY <1>2, <2>3, SubstrInside
  <2> HIDE DEF v
  <2>6. v # <<>> /\ v[1] = text[k + 1]
    BY <2>3, <2>5
  <2> DEFINE one == <<v>>
             T == Seq(S)
  <2>7. v \in T /\ rest \in Seq(T) /\ b = one \o rest
    BY <2>4, <2>5
  <2> HIDE DEF T
  <2>8. one \in Seq(T) /\ Len(one) = 1 /\ one[1] = v /\ Len(rest) \in Nat
    BY <2>7
  <2> HIDE DEF one
  <2>10. /\ Len(one \o rest) = Len(one) + Len(rest)
         /\ \A i \in 1..(Len(one) + Len(rest)) :
              (one \o rest)[i] = IF i <= Len(one) THEN one[i] ELSE rest[i - Len(one)]
    BY <2>7, <2>8, ConcatProperties
  <2>9. 1 \in 1..Len(b) /\ b[1] = v
    BY <2>7, <2>8, <2>10
  <2> QED
    BY <1>5, <2>6, <2>9
<1> QED
  BY <1>6, <1>7

LEMMA LinesGrow ==
    ASSUME NEW S, NEW text \in Seq(S), NEW l \in 0..Len(text)
    PROVE  Grows(Lines(Substr(text, 0, l)), Lines(text))
<1> DEFINE u == Substr(text, 0, l)
           T == Seq(Seq(S))
<1>1. u \in Seq(S) /\ Len(u) = l /\ \A i, j \in Nat : i + j <= l => Substr(u, i, j) = Substr(text, i, j)
  BY PartSays
<1>2. Len(text) \in Nat /\ l \in Nat /\ l <= Len(text)
  OBVIOUS
<1>3. \A k \in Nat : FindCRLF(u, k) =
        IF FindCRLF(text, k) # npos /\ FindCRLF(text, k) + 2 <= l THEN FindCRLF(text, k) ELSE npos
  BY LineEndInPart
<1> HIDE DEF u
<1>4. PICK f \in [0..l -> T] : Lines(u) = f[0] /\ Cutting(u, 2, LineEnds(u), f)
  BY <1>1, LinesFound
<1>5. PICK g \in [0..Len(text) -> T] : Lines(text) = g[0] /\ Cutting(text, 2, LineEnds(text), g)
  BY LinesFound
<1> DEFINE Bad == {k \in 0..l : ~Grows(f[k], g[k])}
<1>6. ASSUME Bad # {} PROVE FALSE
  <2>1. PICK k \in Bad : \A i \in Bad : k >= i
    <3>1. Bad \in SUBSET (0..l)
      OBVIOUS
    <3> HIDE DEF Bad
    <3> QED
      BY <1>2, <1>6, <3>1, GreatestElement
  <2> DEFINE c == FindCRLF(text, k)
  <2>2. k \in 0..l /\ k \in 0..Len(text) /\ k \in Nat /\ ~Grows(f[k], g[k])
    BY <1>2
  <2>3. LineEnds(u)[k] = FindCRLF(u, k) /\ LineEnds(text)[k] = c
    BY <1>1, <2>2 DEF LineEnds
  <2>4. f[k] = IF FindCRLF(u, k) = npos THEN <<Substr(u, k, l)>>
               ELSE <<Substr(u, k, FindCRLF(u, k) - k)>> \o f[FindCRLF(u, k) + 2]
    BY <1>1, <1>4, <2>2, <2>3 DEF Cutting
  <2>5. g[k] = IF c = npos THEN <<Substr(text, k, Len(text))>> ELSE <<Substr(text, k, c - k)>> \o g[c + 2]
    BY <1>5, <2>2, <2>3 DEF Cutting
  <2>6. c # npos => c \in Nat /\ k <= c /\ c + 2 <= Len(text)
    BY <2>2, LineEndFound
  <2>7. FindCRLF(u, k) = IF c # npos /\ c + 2 <= l THEN c ELSE npos
    BY <1>3, <2>2
  <2> HIDE DEF c, Bad
  <2>8. CASE c # npos /\ c + 2 <= l
    <3>1. f[k] = <<Substr(u, k, c - k)>> \o f[c + 2] /\ g[k] = <<Substr(text, k, c - k)>> \o g[c + 2]
      BY <2>4, <2>5, <2>7, <2>8
    <3>2. c - k \in Nat /\ k + (c - k) <= l /\ c + 2 \in 0..l /\ c + 2 \in 0..Len(text) /\ c + 2 > k
          /\ k + (c - k) <= Len(text)
      BY <1>2, <2>2, <2>6, <2>8
    <3> DEFINE v == Substr(text, k, c - k)
    <3>3. Substr(u, k, c - k) = v
      BY <1>1, <2>2, <3>2
    <3>4. v \in Seq(S)
      BY <2>2, <3>2, SubstrInside
    <3>5. c + 2 \notin Bad
      BY <2>1, <2>2, <3>2
    <3>6. Grows(f[c + 2], g[c + 2])
      BY <3>2, <3>5 DEF Bad
    <3> HIDE DEF v
    <3>7. f[c + 2] \in T /\ g[c + 2] \in T
      BY <3>2
    <3>8. Grows(<<v>> \o f[c + 2], <<v>> \o g[c + 2])
      BY <3>4, <3>6, <3>7, GrowsBehind
    <3> QED
      BY <2>2, <3>1, <3>3, <3>8 DEF v
  <2>9. CASE ~(c # npos /\ c + 2 <= l)
    <3>1. f[k] = <<Substr(u, k, l)>>
      BY <2>4, <2>7, <2>9
    <3> DEFINE rest == IF c = npos THEN <<>> ELSE g[c + 2]
    <3>2. rest \in T /\ g[k] = IF c = npos THEN <<Substr(text, k, Len(text))>> ELSE <<Substr(text, k, c - k)>> \o rest
      <4>1. c # npos => c + 2 \in 0..Len(text)
        BY <1>2, <2>6
      <4>2. <<>> \in T
        OBVIOUS
      <4> HIDE DEF T
      <4> QED
        BY <2>5, <4>1, <4>2
    <3> HIDE DEF rest
    <3>3. Grows(<<Substr(Substr(text, 0, l), k, l)>>, g[k])
      BY <2>2, <2>9, <3>2, LastGrows DEF c
    <3> QED
      BY <2>2, <3>1, <3>3 DEF u
  <2> QED
    BY <2>8, <2>9
<1>7. 0 \in 0..l /\ 0 \notin Bad
  <2> HIDE DEF Bad
  <2> QED
    BY <1>2, <1>6
<1> QED
  BY <1>4, <1>5, <1>7 DEF u

LEMMA LineForFound ==
    ASSUME NEW S, NEW text \in Seq(S), NEW key
    PROVE  LineFor(key, text) # <<>> <=>
             \E k \in 1..Len(Lines(text)) :
                /\ Lines(text)[k] # <<>> /\ Lines(text)[k][1] \in LinesOf[key]
                /\ \A j \in 1..(k - 1) : HasColon(Lines(text)[j])
<1> DEFINE lines == Lines(text)
           found == {k \in DOMAIN lines : /\ lines[k] # <<>> /\ lines[k][1] \in LinesOf[key]
                                         /\ \A j \in 1..(k - 1) : HasColon(lines[j])}
<1>1. lines \in Seq(Seq(S))
  BY LinesType
<1>2. LineFor(key, text) = IF found = {} THEN <<>> ELSE lines[Max(found)]
  BY DEF LineFor
<1> HIDE DEF lines
<1>3. Len(lines) \in Nat /\ found \in SUBSET (0..Len(lines)) /\ DOMAIN lines = 1..Len(lines)
  BY <1>1
<1>4. \A k \in found : lines[k] # <<>>
  OBVIOUS
<1>5. found # {} <=> \E k \in 1..Len(lines) : /\ lines[k] # <<>> /\ lines[k][1] \in LinesOf[key]
                                             /\ \A j \in 1..(k - 1) : HasColon(lines[j])
  BY <1>3
<1> HIDE DEF found
<1>6. found # {} => Max(found) \in found
  <2>1. found # {} => \E m \in found : \A k \in found : m >= k
    BY <1>3, GreatestElement
  <2> QED
    BY <2>1 DEF Max
<1>7. LineFor(key, text) # <<>> <=> found # {}
  BY <1>2, <1>4, <1>6
<1> QED
  BY <1>5, <1>7 DEF lines

LEMMA NoLineEnd == \A key \in DOMAIN LinesOf : CR \notin LinesOf[key]
<1>1. CR \notin {Chunked, OtherCoding} /\ CR # NoNumber /\ CR \notin {Form, QuotedForm} /\ CR \notin {Cookie}
  BY Zenon DEF CR, Chunked, OtherCoding, NoNumber, Form, QuotedForm, Cookie
<1>2. CR \notin {NoNumber} \cup DOMAIN Lengths
  BY <1>1, LengthAssumption
<1> QED
  BY <1>1, <1>2 DEF LinesOf

\* A header that a part sets is set by the whole.
LEMMA LineForGrows ==
    ASSUME NEW S, NEW text \in Seq(S), NEW l \in 0..Len(text), NEW key \in DOMAIN LinesOf,
           LineFor(key, Substr(text, 0, l)) # <<>>
    PROVE  LineFor(key, text) # <<>>
<1> DEFINE u == Substr(text, 0, l)
           a == Lines(u)
           b == Lines(text)
<1>1. u \in Seq(S)
  BY PartSays
<1>2. Grows(a, b)
  BY LinesGrow
<1> HIDE DEF u
<1>3. PICK k \in 1..Len(a) : a[k] # <<>> /\ a[k][1] \in LinesOf[key] /\ \A j \in 1..(k - 1) : HasColon(a[j])
  BY <1>1, LineForFound DEF u
<1>4. a[k][1] # CR
  BY <1>3, NoLineEnd
<1> HIDE DEF a, b
<1>5. /\ k \in 1..Len(b) /\ b[k] # <<>> /\ b[k][1] = a[k][1]
      /\ \A j \in 1..(k - 1) : b[j] = a[j]
  BY <1>2, <1>3, <1>4 DEF Grows
<1>6. \A j \in 1..(k - 1) : HasColon(b[j])
  BY <1>3, <1>5
<1> QED
  BY <1>3, <1>5, <1>6, LineForFound DEF b

LEMMA HeaderGrows ==
    ASSUME NEW S, NEW raw \in Seq(S), NEW n \in 0..Len(raw), Separator(Substr(raw, 0, n)) # npos
    PROVE  /\ HeaderText(raw) \in Seq(S)
           /\ \E l \in 0..Len(HeaderText(raw)) : HeaderText(Substr(raw, 0, n)) = Substr(HeaderText(raw), 0, l)
<1> DEFINE p     == Substr(raw, 0, n)
           first == FindCRLF(raw, 0)
           blank == Separator(raw)
           c     == (blank - first - 2) % WordSize
           from  == first + 2
           l     == Min2(c, n - from)
           m     == Min2(c, Len(raw) - from)
<1>1. /\ p \in Seq(S) /\ Len(p) = n
      /\ \A i, j \in Nat : i + j <= n => Substr(p, i, j) = Substr(raw, i, j)
  BY PartSays
<1>2. Separator(p) = IF blank # npos /\ blank + 4 <= n THEN blank ELSE npos
  BY BlankInPart
<1>3. FindCRLF(p, 0) = IF first # npos /\ first + 2 <= n THEN first ELSE npos
  BY LineEndInPart
<1>4. blank # npos /\ blank + 4 <= n
  BY <1>2
<1>5. /\ first \in Nat /\ first # npos /\ blank \in Nat /\ blank + 4 <= Len(raw)
      /\ blank = first \/ first + 2 <= blank
  BY <1>4, BlankBehindLine
<1> HIDE DEF p, first, blank
<1>6. Separator(p) = blank /\ FindCRLF(p, 0) = first
  BY <1>2, <1>3, <1>4, <1>5
<1>7. c \in Nat
  <2>1. blank - first - 2 \in Int
    BY <1>5
  <2> QED
    BY <2>1, WordSizeType
<1> HIDE DEF c
<1>8. from \in Nat /\ from <= n /\ n <= Len(raw) /\ Len(raw) \in Nat /\ n \in Nat
  BY <1>4, <1>5
<1> HIDE DEF from
<1>9. /\ l \in Nat /\ m \in Nat /\ l <= m /\ l <= c /\ m <= c /\ from + l <= n /\ from + m <= Len(raw)
      /\ (l # c => l = n - from) /\ (m # c => m = Len(raw) - from)
  BY <1>7, <1>8 DEF Min2
<1> HIDE DEF l, m
<1>10. Substr(p, from, c) = Substr(p, from, l)
  <2>1. l # c => from \in 0..Len(p) /\ Len(p) <= from + c /\ l = Len(p) - from
    BY <1>1, <1>7, <1>8, <1>9
  <2> QED
    BY <1>1, <1>7, <2>1, SubstrRest
<1>11. Substr(raw, from, c) = Substr(raw, from, m)
  <2>1. m # c => from \in 0..Len(raw) /\ Len(raw) <= from + c /\ m = Len(raw) - from
    BY <1>7, <1>8, <1>9
  <2> QED
    BY <1>7, <2>1, SubstrRest
<1>12. Substr(p, from, l) = Substr(raw, from, l)
  BY <1>1, <1>8, <1>9
<1>13. Substr(Substr(raw, from, m), 0, l) = Substr(raw, from, l)
  <2>1. l \in 0..m
    BY <1>9
  <2> QED
    BY <1>8, <1>9, <2>1, SubstrOfSubstr
<1>14. Substr(raw, from, m) \in Seq(S) /\ Len(Substr(raw, from, m)) = m
  BY <1>8, <1>9, SubstrInside
<1>15. HeaderText(p) = Substr(p, from, c) /\ HeaderText(raw) = Substr(raw, from, c)
  BY <1>6 DEF HeaderText, from, c, first, blank
<1>16. l \in 0..Len(HeaderText(raw)) /\ HeaderText(p) = Substr(HeaderText(raw), 0, l) /\ HeaderText(raw) \in Seq(S)
  BY <1>9, <1>10, <1>11, <1>12, <1>13, <1>14, <1>15
<1> QED
  BY <1>16 DEF p

\* What an HTTPRequest holds, whatever the verdict
Kept(v) == [target |-> v.target, headers |-> v.headers, body |-> v.body]

\* Parsed into what an attempt on a part has left, a text leaves what it leaves in an
\* HTTPRequest of its own: what it sets covers all that its parts set.
LEMMA Reparse ==
    ASSUME NEW S, NEW raw \in Seq(S), NEW n \in 0..Len(raw), Parse(Substr(raw, 0, n)).status = "INCOMPLETE"
    PROVE  parseRequest(raw, Kept(Parse(Substr(raw, 0, n)))) = Parse(raw)
<1> DEFINE p    == Substr(raw, 0, n)
           kept == Kept(Parse(p))
           line == FirstLine(raw)
           text == HeaderText(raw)
<1>1. p \in Seq(S) /\ \A k, l \in Nat : k + l <= n => Substr(p, k, l) = Substr(raw, k, l)
  BY PartSays
<1>2. FindCRLF(p, 0) = IF FindCRLF(raw, 0) # npos /\ FindCRLF(raw, 0) + 2 <= n THEN FindCRLF(raw, 0) ELSE npos
  BY LineEndInPart
<1>3. Separator(p) = IF Separator(raw) # npos /\ Separator(raw) + 4 <= n THEN Separator(raw) ELSE npos
  BY BlankInPart
<1>4. FindCRLF(raw, 0) # npos => FindCRLF(raw, 0) \in Nat
  BY LineEndFound
<1>5. Separator(p) # npos => \E l \in 0..Len(text) : text \in Seq(S) /\ HeaderText(p) = Substr(text, 0, l)
  BY HeaderGrows
<1> HIDE DEF p
<1>6. FindCRLF(p, 0) # npos => FindCRLF(raw, 0) # npos /\ FirstLine(p) = line
  <2> SUFFICES ASSUME FindCRLF(p, 0) # npos PROVE FirstLine(p) = line
    BY <1>2
  <2>1. FindCRLF(p, 0) = FindCRLF(raw, 0) /\ FindCRLF(raw, 0) \in Nat /\ 0 + FindCRLF(raw, 0) <= n
    BY <1>2, <1>4
  <2> QED
    BY <1>1, <2>1 DEF FirstLine
<1>7. /\ kept.target = Parse(p).target /\ kept.headers = Parse(p).headers /\ kept.body = Parse(p).body
  BY DEF Kept
<1>8. Parse(raw) = parseRequest(raw, NewRequest)
  BY DEF Parse
<1> DEFINE t == Target(line)
<1>9. CASE FindCRLF(p, 0) = npos
  <2>1. Parse(p) = Verdict("INCOMPLETE", NoTarget, NoHeaders, <<>>)
    BY <1>9, ParseCases
  <2>2. Parse(p).target = NoTarget /\ Parse(p).headers = NoHeaders /\ Parse(p).body = <<>>
    BY <2>1, VerdictSays
  <2>3. kept = NewRequest
    BY <2>2 DEF Kept, NewRequest
  <2> QED
    BY <1>8, <2>3 DEF p
<1>10. CASE FindCRLF(p, 0) # npos
  <2>1. HasFirstLine(p) /\ HasFirstLine(raw)
    <3>1. parseFirstLine(FirstLine(p))
      <4> SUFFICES ASSUME ~parseFirstLine(FirstLine(p)) PROVE FALSE
        OBVIOUS
      <4>1. Parse(p) = Verdict("ERROR", NoTarget, NoHeaders, <<>>)
        BY <1>10, ParseCases
      <4>2. Parse(p).status = "ERROR"
        BY <4>1, VerdictSays
      <4> QED
        BY <4>2 DEF p
    <3> QED
      BY <1>6, <1>10, <3>1 DEF HasFirstLine
  <2>2. ASSUME kept.target = t, kept.body = <<>>,
               setHeaders(text, kept.headers) = Fields(text),
               Separator(raw) = npos => kept.headers = NoHeaders
        PROVE  parseRequest(raw, kept) = Parse(raw)
    <3>1. SetTarget(line, kept.target) = t
      BY <2>2, SetTargetIs
    <3>2. CASE Separator(raw) = npos
      <4>1. parseRequest(raw, kept) = Verdict("INCOMPLETE", t, NoHeaders, <<>>)
        BY <2>1, <2>2, <3>1, <3>2, ParseInto
      <4>2. Parse(raw) = Verdict("INCOMPLETE", t, NoHeaders, <<>>)
        BY <2>1, <3>2, ParseCases
      <4> QED
        BY <4>1, <4>2
    <3>3. CASE Separator(raw) # npos /\ ~parseHeaders(text)
      <4>1. parseRequest(raw, kept) = Verdict("ERROR", t, Fields(text), <<>>)
        BY <2>1, <2>2, <3>1, <3>3, ParseInto
      <4>2. Parse(raw) = Verdict("ERROR", t, Fields(text), <<>>)
        BY <2>1, <3>3, ParseCases
      <4> QED
        BY <4>1, <4>2
    <3>4. CASE Separator(raw) # npos /\ parseHeaders(text)
      <4>1. HasHead(raw)
        BY <2>1, <3>4 DEF HasHead
      <4>2. parseRequest(raw, kept) = WithHead(raw, t, Fields(text), <<>>)
        BY <2>2, <3>1, <4>1, ParseInto
      <4>3. Parse(raw) = WithHead(raw, t, Fields(text), <<>>)
        BY <4>1, ParseCases DEF Accepted
      <4> QED
        BY <4>2, <4>3
    <3> QED
      BY <3>2, <3>3, <3>4
  <2>3. CASE Separator(p) = npos
    <3>1. Parse(p) = Verdict("INCOMPLETE", t, NoHeaders, <<>>)
      BY <1>6, <1>10, <2>1, <2>3, ParseCases
    <3>2. kept.target = t /\ kept.headers = NoHeaders /\ kept.body = <<>>
      BY <1>7, <3>1, VerdictSays
    <3>3. setHeaders(text, kept.headers) = Fields(text)
      BY <3>2 DEF Fields
    <3> QED
      BY <2>2, <3>2, <3>3 DEF p
  <2>4. CASE Separator(p) # npos
    <3>1. HasHead(p)
      <4> SUFFICES ASSUME ~parseHeaders(HeaderText(p)) PROVE FALSE
        BY <2>1, <2>4 DEF HasHead
      <4>1. Parse(p) = Verdict("ERROR", Target(FirstLine(p)), Fields(HeaderText(p)), <<>>)
        BY <2>1, <2>4, ParseCases
      <4>2. Parse(p).status = "ERROR"
        BY <4>1, VerdictSays
      <4> QED
        BY <4>2 DEF p
    <3>2. Parse(p) = Accepted(p)
      BY <3>1, ParseCases
    <3>3. kept.target = t /\ kept.headers = Fields(HeaderText(p)) /\ kept.body = <<>>
      <4>1. Parse(p).status # "SUCCESS"
        BY DEF p
      <4> DEFINE o == ParseBody(Fields(HeaderText(p)), BodyText(p))
      <4>2. /\ Accepted(p).status = o.status /\ Accepted(p).target = Target(FirstLine(p))
            /\ Accepted(p).headers = Fields(HeaderText(p))
            /\ Accepted(p).body = IF o.status = "SUCCESS" THEN o.body ELSE <<>>
        BY AcceptedSays
      <4> HIDE DEF o
      <4>3. Target(FirstLine(p)) = t
        BY <1>6, <1>10
      <4> QED
        BY <1>7, <3>2, <4>1, <4>2, <4>3
    <3>4. setHeaders(text, kept.headers) = Fields(text)
      <4>1. PICK l \in 0..Len(text) : text \in Seq(S) /\ HeaderText(p) = Substr(text, 0, l)
        BY <1>5, <2>4
      <4>2. \A key \in DOMAIN LinesOf : kept.headers[key] = LineFor(key, HeaderText(p))
        BY <3>3, FieldsAre
      <4>3. \A key \in DOMAIN LinesOf : LineFor(key, text) = <<>> => kept.headers[key] = <<>>
        BY <4>1, <4>2, LineForGrows
      <4> HIDE DEF kept, text
      <4>4. setHeaders(text, kept.headers) = [key \in DOMAIN LinesOf |-> LineFor(key, text)]
        BY <4>3 DEF setHeaders
      <4> QED
        BY <4>4, FieldsAre
    <3>5. Separator(raw) # npos
      BY <1>3, <2>4
    <3> QED
      BY <2>2, <3>3, <3>4, <3>5 DEF p
  <2> QED
    BY <2>3, <2>4
<1> QED
  BY <1>9, <1>10

-----------------------------------------------------------------------------
(* What is held of a request *)

SentTexts == \A r \in Sent : r.bytes \in Seq(ToSet(r.bytes))

\* No size in a body wraps around.
SentSized ==
    \A r \in Sent : Len(r.bytes) < WordSize /\ (Separator(r.bytes) # npos => Fits(BodyText(r.bytes)))

\* The bytes that have been parsed
Part(n) == Substr(sent.bytes, 0, n)

\* The inductive invariant: the client is where one parse of all that has arrived puts it,
\* and what it holds is what that parse leaves, also of a request that is not complete.
Parsed ==
    /\ sent \in Sent
    /\ received \in 0..Len(sent.bytes)
    /\ status = Parse(Part(received)).status /\ status # "READING"
    /\ target = Parse(Part(received)).target
    /\ headers = Parse(Part(received)).headers
    /\ body = Parse(Part(received)).body

LEMMA InitParsed ==
    ASSUME SentTexts, Init
    PROVE  Parsed
<1>1. /\ sent \in Sent /\ received = 0 /\ status = "INCOMPLETE"
      /\ target = NoTarget /\ headers = NoHeaders /\ body = <<>>
  BY DEF Init
<1>2. sent.bytes \in Seq(ToSet(sent.bytes))
  BY <1>1 DEF SentTexts
<1> DEFINE S == ToSet(sent.bytes)
           d == sent.bytes
<1> HIDE DEF S, d
<1>3. d \in Seq(S)
  BY <1>2 DEF S, d
<1>4. Len(d) \in Nat /\ 0 \in 0..Len(d)
  BY <1>3
<1>5. Substr(d, 0, 0) \in Seq(S) /\ Len(Substr(d, 0, 0)) = 0
  BY <1>3, <1>4, PartSays
<1>6. FindCRLF(Substr(d, 0, 0), 0) = npos
  <2>1. \/ FindCRLF(Substr(d, 0, 0), 0) = npos
        \/ /\ FindCRLF(Substr(d, 0, 0), 0) \in Nat
           /\ FindCRLF(Substr(d, 0, 0), 0) + 2 <= Len(Substr(d, 0, 0))
    BY <1>5, LineEndFound
  <2> QED
    BY <1>5, <2>1
<1>7. Parse(Part(0)) = Verdict("INCOMPLETE", NoTarget, NoHeaders, <<>>)
  BY <1>6, ParseCases DEF Part, d
<1>8. /\ Parse(Part(0)).status = "INCOMPLETE" /\ Parse(Part(0)).target = NoTarget
      /\ Parse(Part(0)).headers = NoHeaders /\ Parse(Part(0)).body = <<>>
  BY <1>7, VerdictSays
<1> QED
  BY <1>1, <1>4, <1>8 DEF Parsed, d

LEMMA ReceiveParsed ==
    ASSUME SentTexts, Parsed, NEW n \in 1..BUFFER_SIZE, Receive(n)
    PROVE  Parsed'
<1> DEFINE S       == ToSet(sent.bytes)
           raw     == Part(received + n)
           outcome == parseRequest(raw, [target |-> target, headers |-> headers, body |-> body])
<1>1. sent \in Sent /\ received \in 0..Len(sent.bytes) /\ status = "INCOMPLETE"
  BY DEF Parsed, Receive
<1>2. sent.bytes \in Seq(S)
  BY <1>1 DEF SentTexts
<1>3. n \in 1..Min2(BUFFER_SIZE, Len(sent.bytes) - received) /\ BUFFER_SIZE \in Nat
  BY ReadingAssumption DEF Receive, Arrived
<1>4. received + n \in 0..Len(sent.bytes) /\ received \in 0..(received + n) /\ received + n \in Nat
  <2>1. Len(sent.bytes) \in Nat
    BY <1>2
  <2> QED
    BY <1>1, <1>3, <2>1 DEF Min2
<1>5. /\ sent' = sent /\ received' = received + n
      /\ outcome.status # "READING" /\ status' = outcome.status
      /\ target' = outcome.target /\ headers' = outcome.headers /\ body' = outcome.body
  BY DEF Receive, Part
<1>6. Parse(Part(received))' = Parse(raw)
  BY <1>5 DEF Part
<1> HIDE DEF S
<1>7. raw \in Seq(S) /\ Len(raw) = received + n
  BY <1>2, <1>4, PartSays DEF Part
<1>8. Substr(raw, 0, received) = Part(received)
  <2> DEFINE z == 0
             m == received + n
  <2>1. z \in Nat /\ m \in Nat /\ z + m <= Len(sent.bytes) /\ received \in 0..m
    BY <1>4
  <2> HIDE DEF z, m
  <2>2. Substr(Substr(sent.bytes, z, m), 0, received) = Substr(sent.bytes, z, received)
    BY <1>2, <2>1, SubstrOfSubstr
  <2> QED
    BY <2>2 DEF Part, z, m
<1>9. outcome = parseRequest(raw, Kept(Parse(Part(received))))
  BY DEF Parsed, Kept
<1> HIDE DEF raw, outcome
<1>10. received \in 0..Len(raw) /\ Parse(Substr(raw, 0, received)).status = "INCOMPLETE"
  BY <1>1, <1>4, <1>7, <1>8 DEF Parsed
<1>11. outcome = Parse(raw)
  BY <1>7, <1>8, <1>9, <1>10, Reparse
<1> QED
  BY <1>1, <1>4, <1>5, <1>6, <1>11 DEF Parsed

LEMMA StaysParsed ==
    ASSUME SentTexts, Parsed, [Next]_vars
    PROVE  Parsed'
<1>1. CASE \E n \in 1..BUFFER_SIZE : Receive(n)
  BY <1>1, ReceiveParsed
<1>2. CASE UNCHANGED vars
  BY <1>2 DEF Parsed, Part, vars
<1> QED
  BY <1>1, <1>2 DEF Next, Rest

LEMMA HoldsParsed == ASSUME SentTexts PROVE Spec => []Parsed
<1>1. Init => Parsed
  BY InitParsed
<1>2. Parsed /\ [Next]_vars => Parsed'
  BY StaysParsed
<1> QED
  BY <1>1, <1>2, PTL DEF Spec

LEMMA ParsedTexts ==
    ASSUME SentTexts, Parsed
    PROVE  sent.bytes \in Seq(ToSet(sent.bytes)) /\ Part(received) \in Seq(ToSet(sent.bytes))
<1> DEFINE S == ToSet(sent.bytes)
           d == sent.bytes
<1>1. sent \in Sent /\ received \in 0..Len(d)
  BY DEF Parsed
<1>2. d \in Seq(S)
  BY <1>1 DEF SentTexts
<1> HIDE DEF d, S
<1>3. Substr(d, 0, received) \in Seq(S)
  BY <1>1, <1>2, PartSays
<1> QED
  BY <1>2, <1>3 DEF Part, d, S

LEMMA ParsedHeld ==
    ASSUME SentTexts, Parsed
    PROVE  Parse(Part(received)) = [status |-> status, target |-> target, headers |-> headers, body |-> body]
<1> DEFINE v == Parse(Part(received))
<1>1. v = Verdict(v.status, v.target, v.headers, v.body)
  BY ParsedTexts, ParseType
<1>2. v.status = status /\ v.target = target /\ v.headers = headers /\ v.body = body
  BY DEF Parsed
<1> HIDE DEF v
<1> QED
  BY <1>1, <1>2 DEF Verdict, v

\* On every connection, at every moment, also while a request is not complete and when it
\* is found wrong: the HTTPRequest that all attempts fill holds what one parse of all that
\* has arrived would put into a new one. No attempt leaves a header or a query string, nor
\* a part of one, that the bytes behind it do not say.
THEOREM HeldAsParsed == ASSUME SentTexts PROVE Spec => []NothingStale
<1>1. Spec => []Parsed
  BY HoldsParsed
<1>2. Parsed => NothingStale
  BY ParsedHeld DEF NothingStale, Part
<1> QED
  BY <1>1, <1>2, PTL

LEMMA ParsedTyped ==
    ASSUME SentTexts, Parsed
    PROVE  TypeOK
<1> DEFINE S == ToSet(sent.bytes)
           v == Parse(Part(received))
<1>1. Part(received) \in Seq(S)
  BY ParsedTexts
<1>2. /\ v.status \in {"READING", "INCOMPLETE", "SUCCESS", "ERROR"}
      /\ v.body \in Seq(S) /\ (v.status # "SUCCESS" => v.body = <<>>)
      /\ v.headers \in [DOMAIN LinesOf -> Seq(S)] /\ v.target.query \in Seq(S)
  BY <1>1, ParseType
<1>3. /\ received \in 0..Len(sent.bytes) /\ status = v.status /\ status # "READING"
      /\ target = v.target /\ headers = v.headers /\ body = v.body
  BY DEF Parsed
<1> HIDE DEF S, v
<1> QED
  BY <1>2, <1>3 DEF TypeOK, S

\* Whatever texts clients send and however they are cut: nothing is read past their end,
\* the parser returns, what is held is made of bytes that were sent, and no body is held
\* before a request is complete.
THEOREM Typed == ASSUME SentTexts PROVE Spec => []TypeOK
<1>1. Spec => []Parsed
  BY HoldsParsed
<1>2. Parsed => TypeOK
  BY ParsedTyped
<1> QED
  BY <1>1, <1>2, PTL

LEMMA ParsedSays ==
    ASSUME SentTexts, SentSized, Parsed
    PROVE  SameVerdict
<1> SUFFICES ASSUME status # "INCOMPLETE", HeadIsClear(sent.bytes)
             PROVE  Parse(sent.bytes) = Parse(Part(received))
  BY ParsedHeld DEF SameVerdict
<1> DEFINE S == ToSet(sent.bytes)
           d == sent.bytes
<1>1. sent \in Sent /\ received \in 0..Len(d) /\ status = Parse(Part(received)).status
  BY DEF Parsed
<1>2. d \in Seq(S)
  BY <1>1 DEF SentTexts
<1> HIDE DEF S
<1>3. Definite(d)
  <2>1. Find(d, CRLF \o CRLF, 0) = Separator(d)
    BY <1>2, BlankFind
  <2>2. Separator(d) # npos /\ Separator(d) = FindCRLF(d, 0) => Len(d) = Separator(d) + 4
    BY <2>1 DEF HeadIsClear
  <2> QED
    BY <1>1, <2>2 DEF Definite, Delimited, SentSized
<1> HIDE DEF d
<1>4. Parse(Substr(d, 0, received)).status # "INCOMPLETE" => Parse(Substr(d, 0, received)) = Parse(d)
  BY <1>1, <1>2, <1>3, RequestInPart
<1> QED
  BY <1>1, <1>4 DEF Part, d

\* Whatever clients send, if only no chunk size in it is near the largest number and
\* nothing follows a head without headers: the verdict on it, and all that is then held,
\* are the same wherever the reads end.
THEOREM VerdictKept == ASSUME SentTexts, SentSized PROVE Spec => []SameVerdict
<1>1. Spec => []Parsed
  BY HoldsParsed
<1>2. Parsed => SameVerdict
  BY ParsedSays
<1> QED
  BY <1>1, <1>2, PTL

-----------------------------------------------------------------------------
(* Words that stand in a text *)

LEMMA StandsSubstr ==
    ASSUME NEW S, NEW d \in Seq(S), NEW k \in Nat, NEW w \in Seq(S), Stands(d, k, w)
    PROVE  Substr(d, k, Len(w)) = w
<1> DEFINE n == Len(w)
<1>1. n \in Nat /\ k + n <= Len(d) /\ \A i \in 1..n : d[k + i] = w[i]
  BY DEF Stands
<1> HIDE DEF n
<1>2. n \in Nat /\ k + n <= Len(d)
  BY <1>1
<1>3. Substr(d, k, n) \in Seq(S) /\ Len(Substr(d, k, n)) = n /\ \A i \in 1..n : Substr(d, k, n)[i] = d[k + i]
  BY <1>2, SubstrInside
<1>4. \A i \in 1..n : Substr(d, k, n)[i] = w[i]
  BY <1>1, <1>3
<1> QED
  BY <1>3, <1>4, SeqEqual DEF n

LEMMA StandsAt ==
    ASSUME NEW S, NEW d \in Seq(S), NEW k \in Nat, NEW w \in Seq(S), Stands(d, k, w)
    PROVE  /\ \A j \in Nat : j < Len(w) => At(d, k + j) = At(w, j)
           /\ \A j \in Nat : j + 2 <= Len(w) => (IsCRLF(d, k + j) <=> IsCRLF(w, j))
<1> DEFINE n == Len(w)
<1>1. n \in Nat /\ Len(d) \in Nat /\ k + n <= Len(d) /\ \A i \in 1..n : d[k + i] = w[i]
  BY DEF Stands
<1> HIDE DEF n
<1>2. ASSUME NEW j \in Nat, j < n PROVE At(d, k + j) = At(w, j)
  <2>1. j + 1 \in 1..n /\ k + j < Len(d) /\ (k + j) + 1 = k + (j + 1)
    BY <1>1, <1>2
  <2>2. d[(k + j) + 1] = w[j + 1]
    BY <1>1, <2>1
  <2> QED
    BY <1>2, <2>1, <2>2 DEF At, n
<1>3. ASSUME NEW j \in Nat, j + 2 <= n PROVE IsCRLF(d, k + j) <=> IsCRLF(w, j)
  <2>1. j < n /\ j + 1 < n /\ j + 1 \in Nat /\ k + (j + 1) = (k + j) + 1
    BY <1>1, <1>3
  <2>2. At(d, k + j) = At(w, j) /\ At(d, (k + j) + 1) = At(w, j + 1)
    BY <1>2, <2>1
  <2> QED
    BY <2>2 DEF IsCRLF
<1> QED
  BY <1>2, <1>3 DEF n

LEMMA CRLFType ==
    ASSUME NEW S, CR \in S, LF \in S
    PROVE  /\ CRLF \in Seq(S) /\ Len(CRLF) = 2 /\ IsCRLF(CRLF, 0)
           /\ \A w \in Seq(S) : Line(w) \in Seq(S) /\ Len(Line(w)) = Len(w) + 2
<1>1. CRLF \in Seq(S) /\ Len(CRLF) = 2
  BY DEF CRLF
<1>2. IsCRLF(CRLF, 0)
  BY DEF IsCRLF, At, CRLF
<1>3. \A w \in Seq(S) : Line(w) \in Seq(S) /\ Len(Line(w)) = Len(w) + 2
  <2> SUFFICES ASSUME NEW w \in Seq(S)
               PROVE  w \o CRLF \in Seq(S) /\ Len(w \o CRLF) = Len(w) + 2
    BY DEF Line
  <2> DEFINE c == CRLF
  <2>1. c \in Seq(S) /\ Len(c) = 2
    BY <1>1
  <2> HIDE DEF c
  <2>2. w \o c \in Seq(S) /\ Len(w \o c) = Len(w) + Len(c)
    BY <2>1, ConcatProperties
  <2> QED
    BY <2>1, <2>2 DEF c
<1> QED
  BY <1>1, <1>2, <1>3

\* A line that stands in a text ends there.
LEMMA StandsLine ==
    ASSUME NEW S, CR \in S, LF \in S, NEW d \in Seq(S), NEW k \in Nat, NEW w \in Seq(S),
           Stands(d, k, Line(w))
    PROVE  Stands(d, k, w) /\ k + Len(w) \in Nat /\ IsCRLF(d, k + Len(w)) /\ k + Len(w) + 2 <= Len(d)
<1>1. CRLF \in Seq(S) /\ Len(CRLF) = 2 /\ IsCRLF(CRLF, 0)
  BY CRLFType
<1>2. Stands(d, k, w) /\ Stands(d, k + Len(w), CRLF)
  BY <1>1, StandsParts DEF Line
<1>3. k + Len(w) \in Nat
  OBVIOUS
<1> DEFINE e == k + Len(w)
<1> HIDE DEF e
<1>4. e \in Nat /\ Stands(d, e, CRLF) /\ e + 0 = e
  BY <1>2, <1>3 DEF e
<1>5. 0 \in Nat /\ 0 + 2 <= Len(CRLF)
  BY <1>1
<1>6. IsCRLF(d, e + 0) <=> IsCRLF(CRLF, 0)
  BY <1>1, <1>4, <1>5, StandsAt
<1>7. e + 2 <= Len(d)
  BY <1>1, <1>4 DEF Stands
<1> QED
  BY <1>1, <1>2, <1>4, <1>6, <1>7 DEF e

-----------------------------------------------------------------------------
(* Messages in chunks *)

\* A chunk size, and what may stand behind it in its line
IsSizeLine(size, ext) ==
    /\ IsSize(size)
    /\ CR \notin ToSet(ext)
    /\ ext # <<>> => ext[1] = Semicolon

LEMMA SizeLineFound ==
    ASSUME NEW S, CR \in S, LF \in S, NEW d \in Seq(S), NEW k \in Nat,
           NEW size \in Seq(S), NEW ext \in Seq(S), IsSizeLine(size, ext),
           Stands(d, k, Line(size \o ext))
    PROVE  /\ FindCRLF(d, k) = k + Len(size \o ext)
           /\ DropExtension(Substr(d, k, FindCRLF(d, k) - k)) = size
           /\ Len(size \o ext) \in Nat /\ k + Len(size \o ext) + 2 <= Len(d)
           /\ Strtoul(size) \in Nat
<1> DEFINE w == size \o ext
           n == Len(w)
           s == Len(size)
<1>1. /\ w \in Seq(S) /\ n = s + Len(ext) /\ s \in Nat /\ Len(ext) \in Nat
      /\ \A i \in 1..n : w[i] = IF i <= s THEN size[i] ELSE ext[i - s]
  BY ConcatProperties
<1>2. CR \notin DOMAIN Digit /\ Semicolon \notin DOMAIN Digit
  BY Zenon DEF Digit, CR, Semicolon
<1>3. \A i \in 1..s : size[i] \in DOMAIN Digit
  BY DEF IsSizeLine, IsSize, ToSet
<1>4. \A i \in 1..Len(ext) : ext[i] # CR
  BY DEF IsSizeLine, ToSet
<1>5. Strtoul(size) \in Nat
  BY StrtoulType DEF IsSizeLine, IsSize
<1> HIDE DEF w, s
<1>6. n \in Nat
  BY <1>1
<1>7. \A i \in 1..n : w[i] # CR
  <2> SUFFICES ASSUME NEW i \in 1..n PROVE w[i] # CR
    OBVIOUS
  <2>1. CASE i <= s
    <3>1. i \in 1..s
      BY <1>1, <2>1
    <3> QED
      BY <1>1, <1>2, <1>3, <2>1, <3>1
  <2>2. CASE ~(i <= s)
    <3>1. i - s \in 1..Len(ext)
      BY <1>1, <2>2
    <3> QED
      BY <1>1, <1>4, <2>2, <3>1
  <2> QED
    BY <2>1, <2>2
<1>8. Stands(d, k, w) /\ k + n \in Nat /\ IsCRLF(d, k + n) /\ k + n + 2 <= Len(d)
  BY <1>1, StandsLine DEF w
<1>9. \A j \in Nat : k <= j /\ j < k + n => ~IsCRLF(d, j)
  <2> SUFFICES ASSUME NEW j \in Nat, k <= j, j < k + n PROVE ~IsCRLF(d, j)
    OBVIOUS
  <2>1. j - k \in Nat /\ j - k < n /\ k + (j - k) = j /\ (j - k) + 1 \in 1..n
    BY <1>6
  <2>2. At(d, k + (j - k)) = At(w, j - k)
    BY <1>1, <1>8, <2>1, StandsAt
  <2>3. At(w, j - k) = w[(j - k) + 1]
    BY <2>1 DEF At
  <2> QED
    BY <1>7, <2>1, <2>2, <2>3 DEF IsCRLF
<1>10. FindCRLF(d, k) = k + n
  <2> HIDE DEF n
  <2> QED
    BY <1>6, <1>8, <1>9, LineEndIs
<1>11. Substr(d, k, (k + n) - k) = w
  <2>1. (k + n) - k = n
    BY <1>6
  <2> QED
    BY <1>1, <1>8, <2>1, StandsSubstr
<1>12. DropExtension(w) = size
  <2> DEFINE P == {j \in Positions(w) : At(w, j) = Semicolon}
  <2>1. \A j \in 0..(s - 1) : j \notin P
    <3> SUFFICES ASSUME NEW j \in 0..(s - 1) PROVE At(w, j) # Semicolon
      OBVIOUS
    <3>1. j + 1 \in 1..s /\ j + 1 \in 1..n /\ j < n /\ j + 1 <= s
      BY <1>1
    <3>2. At(w, j) = size[j + 1]
      BY <1>1, <3>1 DEF At
    <3> QED
      BY <1>2, <1>3, <3>1, <3>2
  <2>2. CASE ext = <<>>
    <3>1. Len(ext) = 0
      BY <2>2
    <3>2. P = {}
      <4>1. Positions(w) = 0..(s - 1)
        BY <1>1, <3>1 DEF Positions
      <4> QED
        BY <2>1, <4>1
    <3>3. First(P) = npos
      BY <3>2 DEF First
    <3>4. w = size
      BY <2>2, ConcatEmptySeq DEF w
    <3> QED
      BY <3>3, <3>4 DEF DropExtension
  <2>3. CASE ext # <<>>
    <3>1. Len(ext) # 0 /\ ext[1] = Semicolon
      <4>1. Len(ext) # 0
        BY <2>3, EmptySeq
      <4> QED
        BY <2>3, <4>1 DEF IsSizeLine
    <3>2. s \in 0..(n - 1) /\ s + 1 \in 1..n /\ ~(s + 1 <= s) /\ (s + 1) - s = 1 /\ s < n
      BY <1>1, <3>1
    <3>3. At(w, s) = Semicolon
      BY <1>1, <3>1, <3>2 DEF At
    <3>4. s \in P /\ P \in SUBSET Nat
      BY <3>2, <3>3 DEF Positions
    <3>5. \A j \in P : s <= j
      <4> SUFFICES ASSUME NEW j \in P PROVE s <= j
        OBVIOUS
      <4>1. j \in Nat /\ j \notin 0..(s - 1)
        BY <2>1, <3>4
      <4> QED
        BY <1>1, <4>1
    <3> HIDE DEF P
    <3>6. First(P) = s /\ s # npos
      <4>1. First(P) = s
        BY <3>4, <3>5, FirstIs
      <4>2. s # npos
        BY <1>1 DEF npos
      <4> QED
        BY <4>1, <4>2
    <3>7. Stands(w, 0, size)
      BY StandsFirst DEF w
    <3>8. Substr(w, 0, s) = size
      BY <1>1, <3>7, StandsSubstr DEF s
    <3> QED
      BY <3>6, <3>8 DEF DropExtension, P
  <2> QED
    BY <2>2, <2>3
<1> QED
  BY <1>5, <1>6, <1>8, <1>10, <1>11, <1>12 DEF w

LEMMA TwoLines ==
    ASSUME NEW S, CR \in S, LF \in S, NEW w \in Seq(S), NEW v \in Seq(S)
    PROVE  Len(Line(w) \o Line(v)) = (Len(w) + 2) + (Len(v) + 2)
<1> DEFINE a == Line(w)
           b == Line(v)
<1>1. a \in Seq(S) /\ Len(a) = Len(w) + 2 /\ b \in Seq(S) /\ Len(b) = Len(v) + 2
  BY CRLFType
<1> HIDE DEF a, b
<1>2. Len(a \o b) = Len(a) + Len(b)
  BY <1>1, ConcatProperties
<1> QED
  BY <1>1, <1>2 DEF a, b

\* The position behind two lines
Behind(t, size, ext, text) == t.pos + Len(Line(size \o ext) \o Line(text))

\* The decoder stands before a chunk.
BeforeChunk(d, S, t, size, ext, data) ==
    /\ size \in Seq(S) /\ ext \in Seq(S) /\ data \in Seq(S)
    /\ IsSizeLine(size, ext) /\ Strtoul(size) = Len(data) /\ Len(data) > 0
    /\ t \in Rounds(S) /\ Stands(d, t.pos, Line(size \o ext) \o Line(data))

\* It takes the chunk once it has arrived as a whole.
LEMMA ChunkRound ==
    ASSUME NEW S, CR \in S, LF \in S, NEW d \in Seq(S), Len(d) < WordSize, NEW m \in 0..Len(d),
           NEW size, NEW ext, NEW data, NEW t, BeforeChunk(d, S, t, size, ext, data)
    PROVE  LET to == Behind(t, size, ext, data) IN
           /\ to \in Nat /\ t.pos < to /\ to <= Len(d)
           /\ to <= m => NextChunk(Substr(d, 0, m), t) =
                           [status |-> "READING", pos |-> to, decoded |-> t.decoded \o data]
           /\ ~(to <= m) => NextChunk(Substr(d, 0, m), t).status = "INCOMPLETE"
<1>0. /\ size \in Seq(S) /\ ext \in Seq(S) /\ data \in Seq(S)
      /\ IsSizeLine(size, ext) /\ Strtoul(size) = Len(data) /\ Len(data) > 0
      /\ t \in Rounds(S) /\ Stands(d, t.pos, Line(size \o ext) \o Line(data))
  BY DEF BeforeChunk
<1> USE <1>0
<1> DEFINE p    == Substr(d, 0, m)
           w    == size \o ext
           k    == t.pos
           n    == Len(w)
           l    == Len(data)
           from == k + n + 2
           to   == Behind(t, size, ext, data)
<1>1. k \in Nat /\ t.decoded \in Seq(S)
  BY DEF Rounds
<1>2. w \in Seq(S) /\ n \in Nat /\ l \in Nat /\ Len(d) \in Nat
  BY ConcatProperties
<1> HIDE DEF w
<1>3. /\ Line(w) \in Seq(S) /\ Len(Line(w)) = n + 2
      /\ Line(data) \in Seq(S) /\ Len(Line(data)) = l + 2
  BY <1>2, CRLFType
<1>4. to = k + ((n + 2) + (l + 2))
  BY <1>2, TwoLines DEF w, Behind
<1> HIDE DEF to
<1>5. Stands(d, k, Line(w)) /\ Stands(d, k + Len(Line(w)), Line(data))
  BY <1>1, <1>3, StandsParts DEF w
<1>6. /\ FindCRLF(d, k) = k + n /\ DropExtension(Substr(d, k, FindCRLF(d, k) - k)) = size
      /\ k + n + 2 <= Len(d)
  BY <1>1, <1>5, SizeLineFound DEF w
<1> HIDE DEF n, k, l
<1>7. k + Len(Line(w)) = from /\ from \in Nat
  BY <1>1, <1>2, <1>3
<1>8. /\ Stands(d, from, data) /\ from + l \in Nat /\ IsCRLF(d, from + l) /\ from + l + 2 <= Len(d)
  <2> HIDE DEF from
  <2>1. Stands(d, from, Line(data))
    BY <1>5, <1>7
  <2> QED
    BY <1>7, <2>1, StandsLine DEF l
<1>9. to = from + l + 2
  BY <1>1, <1>2, <1>4
<1>10. to \in Nat /\ k < to /\ to <= Len(d)
  BY <1>1, <1>2, <1>8, <1>9
<1>11. /\ p \in Seq(S) /\ Len(p) = m
       /\ \A j \in Nat : IsCRLF(p, j) <=> j + 2 <= m /\ IsCRLF(d, j)
       /\ \A i, j \in Nat : i + j <= m => Substr(p, i, j) = Substr(d, i, j)
  BY PartSays
<1>12. FindCRLF(p, k) = IF FindCRLF(d, k) # npos /\ FindCRLF(d, k) + 2 <= m THEN FindCRLF(d, k) ELSE npos
  BY <1>1, LineEndInPart
<1>13. k + n # npos
  BY <1>1, <1>2 DEF npos
<1> HIDE DEF p
<1>14. CASE ~(k + n + 2 <= m)
  <2>1. FindCRLF(p, k) = npos
    BY <1>6, <1>12, <1>14
  <2>2. NextChunk(p, t) = Stopped(t, "INCOMPLETE")
    BY <1>11, <2>1, RoundCases DEF k
  <2>3. Stopped(t, "INCOMPLETE").status = "INCOMPLETE"
    BY DEF Stopped, Rounds
  <2>4. ~(to <= m)
    BY <1>1, <1>2, <1>8, <1>9, <1>14
  <2> QED
    BY <1>10, <2>2, <2>3, <2>4 DEF p, k, to
<1>15. CASE k + n + 2 <= m
  <2>1. FindCRLF(p, k) = k + n /\ FindCRLF(p, k) # npos
    BY <1>6, <1>12, <1>13, <1>15
  <2>2. Substr(p, k, (k + n) - k) = Substr(d, k, (k + n) - k)
    <3>1. (k + n) - k \in Nat /\ k + ((k + n) - k) <= m
      BY <1>1, <1>2, <1>15
    <3> QED
      BY <1>1, <1>11, <3>1
  <2>3. DropExtension(Substr(p, k, FindCRLF(p, k) - k)) = size
    BY <1>6, <2>1, <2>2
  <2>4. IsSize(size) /\ Strtoul(size) = l /\ l > 0
    BY DEF IsSizeLine, l
  <2>5. /\ IsShort(p, from, l) => NextChunk(p, t) = Stopped(t, "INCOMPLETE")
        /\ ~IsShort(p, from, l) => NextChunk(p, t) = WithChunk(p, t, from, l)
    BY <1>11, <2>1, <2>3, <2>4, RoundCases, SMTT(40) DEF k
  <2> HIDE DEF from
  <2>6. (from + l + 2) % WordSize = from + l + 2 /\ (from + l) % WordSize = from + l
    <3>1. from + l + 2 \in Nat /\ from + l + 2 < WordSize /\ from + l \in Nat /\ from + l < WordSize
      BY <1>2, <1>7, <1>8, WordSizeType
    <3> QED
      BY <3>1, WordSizeType
  <2>7. IsShort(p, from, l) <=> ~(to <= m)
    BY <1>2, <1>7, <1>9, <1>11, <2>6 DEF IsShort
  <2>8. CASE ~(to <= m)
    <3>1. Stopped(t, "INCOMPLETE").status = "INCOMPLETE"
      BY DEF Stopped, Rounds
    <3> QED
      BY <1>10, <2>5, <2>7, <2>8, <3>1 DEF p, k, to
  <2>9. CASE to <= m
    <3>1. IsCRLF(p, from + l)
      BY <1>2, <1>7, <1>8, <1>9, <1>11, <2>9
    <3>2. Substr(p, from, l) = Substr(d, from, l)
      <4>1. from + l <= m
        BY <1>2, <1>7, <1>9, <2>9
      <4> QED
        BY <1>2, <1>7, <1>11, <4>1
    <3>3. Substr(d, from, l) = data
      BY <1>7, <1>8, StandsSubstr DEF l
    <3>4. WithChunk(p, t, from, l) = [status |-> "READING", pos |-> to, decoded |-> t.decoded \o data]
      BY <1>9, <2>6, <3>1, <3>2, <3>3 DEF WithChunk
    <3> QED
      BY <1>10, <2>5, <2>7, <2>9, <3>4 DEF p, k, to
  <2> QED
    BY <2>8, <2>9
<1> QED
  BY <1>14, <1>15

\* Between the last chunk and the blank line: nothing, or lines
IsTrailer(trailer) ==
    trailer # <<>> =>
       LET lines == trailer \o CRLF
       IN  2 <= Len(trailer) /\ ~IsCRLF(lines, 0) /\ Separator(lines) = Len(trailer) - 2

\* The body ends with the blank line behind the trailer, not before.
LEMMA TrailerEnds ==
    ASSUME NEW S, CR \in S, LF \in S, NEW d \in Seq(S), NEW m \in 0..Len(d), NEW k \in Nat,
           NEW trailer \in Seq(S), IsTrailer(trailer), Stands(d, k, Line(trailer))
    PROVE  BodyEnds(Substr(d, 0, m), k) <=> k + Len(Line(trailer)) <= m
<1> DEFINE p == Substr(d, 0, m)
           w == Line(trailer)
           n == Len(w)
<1>1. w \in Seq(S) /\ n = Len(trailer) + 2 /\ Len(trailer) \in Nat /\ n \in Nat
  <2>1. Line(trailer) \in Seq(S) /\ Len(Line(trailer)) = Len(trailer) + 2
    BY CRLFType
  <2>2. Len(trailer) \in Nat
    OBVIOUS
  <2> QED
    BY <2>1, <2>2
<1>2. /\ p \in Seq(S) /\ Len(p) = m
      /\ \A j \in Nat : IsCRLF(p, j) <=> j + 2 <= m /\ IsCRLF(d, j)
  BY PartSays
<1>3. \A j \in Nat : j + 2 <= n => (IsCRLF(d, k + j) <=> IsCRLF(w, j))
  BY <1>1, StandsAt
<1>4. IsCRLF(d, k + Len(trailer)) /\ k + Len(trailer) \in Nat
  BY StandsLine
<1> HIDE DEF p, w, n
<1>5. CASE trailer = <<>>
  <2>1. n = 2 /\ Len(trailer) = 0
    <3>1. Len(trailer) = 0
      BY <1>5
    <3> QED
      BY <1>1, <3>1
  <2>2. IsCRLF(d, k)
    BY <1>4, <2>1
  <2>3. IsCRLF(p, k) <=> k + 2 <= m
    BY <1>2, <2>2
  <2>4. ASSUME NEW j \in k..Len(p), IsCRLF(p, j) PROVE k + 2 <= m
    <3>1. j \in Nat
      BY <1>2
    <3>2. j + 2 <= m
      BY <1>2, <2>4, <3>1
    <3> QED
      BY <3>1, <3>2
  <2>5. BodyEnds(p, k) <=> k + 2 <= m
    BY <2>3, <2>4 DEF BodyEnds
  <2> QED
    BY <2>1, <2>5 DEF p, n, w
<1>6. CASE trailer # <<>>
  <2> DEFINE last == Len(trailer) - 2
  <2>1. 2 <= Len(trailer) /\ ~IsCRLF(w, 0) /\ Separator(w) = last
    BY <1>6 DEF IsTrailer, w, Line
  <2>2. last \in Nat /\ last # npos /\ last + 4 = n
    <3> DEFINE l == Len(trailer)
    <3>1. l \in Nat /\ n = l + 2 /\ 2 <= l
      BY <1>1, <2>1
    <3> HIDE DEF l
    <3>2. l - 2 \in Nat /\ l - 2 # npos /\ (l - 2) + 4 = n
      BY <3>1 DEF npos
    <3> QED
      BY <3>2 DEF l
  <2>3. /\ IsCRLF(w, last) /\ IsCRLF(w, last + 2)
        /\ \A j \in Nat : j < last => ~(IsCRLF(w, j) /\ IsCRLF(w, j + 2))
    <3> HIDE DEF last
    <3> QED
      BY <1>1, <2>1, <2>2, BlankFound
  <2> HIDE DEF last
  <2>4. ASSUME k + n <= m PROVE BodyEnds(p, k)
    <3> DEFINE j == k + last
    <3>1. j \in Nat /\ j + 2 \in Nat /\ j \in k..Len(p) /\ j + 4 <= m /\ j + 2 = k + (last + 2)
      BY <1>1, <1>2, <2>2, <2>4
    <3>2. last + 2 \in Nat /\ last + 2 <= n /\ (last + 2) + 2 <= n
      BY <2>2
    <3>3. IsCRLF(d, j) /\ IsCRLF(d, j + 2)
      BY <1>3, <2>2, <2>3, <3>1, <3>2
    <3> HIDE DEF j
    <3>4. j + 2 <= m /\ (j + 2) + 2 <= m
      BY <3>1
    <3>5. IsCRLF(p, j) /\ IsCRLF(p, j + 2)
      BY <1>2, <3>1, <3>3, <3>4
    <3> QED
      BY <3>1, <3>5 DEF BodyEnds
  <2>5. ASSUME BodyEnds(p, k), ~(k + n <= m) PROVE FALSE
    <3>1. CASE IsCRLF(p, k)
      <4>1. IsCRLF(d, k + 0)
        BY <1>2, <3>1
      <4>2. 0 \in Nat /\ 0 + 2 <= n
        BY <1>1
      <4> QED
        BY <1>3, <2>1, <4>1, <4>2
    <3>2. CASE \E j \in k..Len(p) : IsCRLF(p, j) /\ IsCRLF(p, j + 2)
      <4>1. PICK j \in k..Len(p) : IsCRLF(p, j) /\ IsCRLF(p, j + 2)
        BY <3>2
      <4>2. j \in Nat /\ j + 2 \in Nat
        BY <1>2
      <4>3. IsCRLF(d, j) /\ IsCRLF(d, j + 2) /\ (j + 2) + 2 <= m
        BY <1>2, <4>1, <4>2
      <4> DEFINE i == j - k
      <4>4. i \in Nat /\ i + 2 \in Nat /\ i + 2 <= n /\ (i + 2) + 2 <= n /\ k + i = j /\ k + (i + 2) = j + 2 /\ i < last
        BY <1>1, <1>2, <2>2, <2>5, <4>2, <4>3
      <4> HIDE DEF i
      <4>5. IsCRLF(w, i) /\ IsCRLF(w, i + 2)
        BY <1>3, <4>3, <4>4
      <4> QED
        BY <2>3, <4>4, <4>5
    <3> QED
      BY <2>5, <3>1, <3>2 DEF BodyEnds
  <2> QED
    BY <2>4, <2>5 DEF p, n, w
<1> QED
  BY <1>5, <1>6

\* It stands before the last chunk.
BeforeLast(d, S, t, size, ext, trailer) ==
    /\ size \in Seq(S) /\ ext \in Seq(S) /\ trailer \in Seq(S)
    /\ IsSizeLine(size, ext) /\ Strtoul(size) = 0 /\ IsTrailer(trailer)
    /\ t \in Rounds(S) /\ Stands(d, t.pos, Line(size \o ext) \o Line(trailer))

\* There it ends with what it has, once all of it has arrived.
LEMMA LastRound ==
    ASSUME NEW S, CR \in S, LF \in S, NEW d \in Seq(S), NEW m \in 0..Len(d),
           NEW size, NEW ext, NEW trailer, NEW t, BeforeLast(d, S, t, size, ext, trailer)
    PROVE  LET to == Behind(t, size, ext, trailer) IN
           /\ to \in Nat /\ t.pos < to /\ to <= Len(d)
           /\ to <= m => NextChunk(Substr(d, 0, m), t) = Stopped(t, "SUCCESS")
           /\ ~(to <= m) => NextChunk(Substr(d, 0, m), t).status = "INCOMPLETE"
<1>0. /\ size \in Seq(S) /\ ext \in Seq(S) /\ trailer \in Seq(S)
      /\ IsSizeLine(size, ext) /\ Strtoul(size) = 0 /\ IsTrailer(trailer)
      /\ t \in Rounds(S) /\ Stands(d, t.pos, Line(size \o ext) \o Line(trailer))
  BY DEF BeforeLast
<1> USE <1>0
<1> DEFINE p    == Substr(d, 0, m)
           w    == size \o ext
           k    == t.pos
           n    == Len(w)
           l    == Len(trailer)
           from == k + n + 2
           to   == Behind(t, size, ext, trailer)
<1>1. k \in Nat
  BY DEF Rounds
<1>2. w \in Seq(S) /\ n \in Nat /\ l \in Nat /\ Len(d) \in Nat
  BY ConcatProperties
<1> HIDE DEF w
<1>3. /\ Line(w) \in Seq(S) /\ Len(Line(w)) = n + 2
      /\ Line(trailer) \in Seq(S) /\ Len(Line(trailer)) = l + 2
  BY <1>2, CRLFType
<1>4. to = k + ((n + 2) + (l + 2))
  BY <1>2, TwoLines DEF w, Behind
<1> HIDE DEF to
<1>5. Stands(d, k, Line(w)) /\ Stands(d, k + Len(Line(w)), Line(trailer))
  BY <1>1, <1>3, StandsParts DEF w
<1>6. /\ FindCRLF(d, k) = k + n /\ DropExtension(Substr(d, k, FindCRLF(d, k) - k)) = size
      /\ k + n + 2 <= Len(d)
  BY <1>1, <1>5, SizeLineFound DEF w
<1> HIDE DEF n, k, l
<1>7. k + Len(Line(w)) = from /\ from \in Nat
  BY <1>1, <1>2, <1>3
<1>8. Stands(d, from, Line(trailer)) /\ from + l + 2 <= Len(d)
  <2> HIDE DEF from
  <2>1. Stands(d, from, Line(trailer))
    BY <1>5, <1>7
  <2> QED
    BY <1>7, <2>1, StandsLine DEF l
<1>9. to = from + l + 2
  BY <1>1, <1>2, <1>4
<1>10. to \in Nat /\ k < to /\ to <= Len(d)
  BY <1>1, <1>2, <1>8, <1>9
<1>11. /\ p \in Seq(S) /\ Len(p) = m
       /\ \A i, j \in Nat : i + j <= m => Substr(p, i, j) = Substr(d, i, j)
  BY PartSays
<1>12. FindCRLF(p, k) = IF FindCRLF(d, k) # npos /\ FindCRLF(d, k) + 2 <= m THEN FindCRLF(d, k) ELSE npos
  BY <1>1, LineEndInPart
<1>13. k + n # npos
  BY <1>1, <1>2 DEF npos
<1>14. BodyEnds(p, from) <=> to <= m
  <2> HIDE DEF from
  <2>1. BodyEnds(p, from) <=> from + Len(Line(trailer)) <= m
    BY <1>7, <1>8, TrailerEnds DEF p
  <2>2. from + Len(Line(trailer)) = to
    BY <1>2, <1>3, <1>7, <1>9
  <2> QED
    BY <2>1, <2>2
<1>15. Stopped(t, "INCOMPLETE").status = "INCOMPLETE"
  BY DEF Stopped, Rounds
<1> HIDE DEF p
<1>16. CASE ~(k + n + 2 <= m)
  <2>1. FindCRLF(p, k) = npos
    BY <1>6, <1>12, <1>16
  <2>2. NextChunk(p, t) = Stopped(t, "INCOMPLETE")
    BY <1>11, <2>1, RoundCases DEF k
  <2>3. ~(to <= m)
    BY <1>1, <1>2, <1>8, <1>9, <1>16
  <2> QED
    BY <1>10, <1>15, <2>2, <2>3 DEF p, k, to
<1>17. CASE k + n + 2 <= m
  <2>1. FindCRLF(p, k) = k + n /\ FindCRLF(p, k) # npos
    BY <1>6, <1>12, <1>13, <1>17
  <2>2. Substr(p, k, (k + n) - k) = Substr(d, k, (k + n) - k)
    <3>1. (k + n) - k \in Nat /\ k + ((k + n) - k) <= m
      BY <1>1, <1>2, <1>17
    <3> QED
      BY <1>1, <1>11, <3>1
  <2>3. DropExtension(Substr(p, k, FindCRLF(p, k) - k)) = size
    BY <1>6, <2>1, <2>2
  <2>4. IsSize(size)
    BY DEF IsSizeLine
  <2>5. /\ BodyEnds(p, from) => NextChunk(p, t) = Stopped(t, "SUCCESS")
        /\ ~BodyEnds(p, from) => NextChunk(p, t) = Stopped(t, "INCOMPLETE")
    BY <1>11, <2>1, <2>3, <2>4, RoundCases, SMTT(40) DEF k
  <2> QED
    BY <1>10, <1>14, <1>15, <2>5 DEF p, k, to
<1> QED
  BY <1>16, <1>17

\* A body in chunks, as RFC 9112 has it: text[k] are its first k chunks, and decoded[k] is
\* what they hold.
Encodes(encoded, b, S) ==
    \E n \in Nat : \E text, decoded \in [0..n -> Seq(S)] :
       /\ text[0] = <<>> /\ decoded[0] = <<>> /\ decoded[n] = b
       /\ \A k \in 1..n : \E size, ext, data \in Seq(S) :
             /\ IsSizeLine(size, ext) /\ Strtoul(size) = Len(data) /\ Len(data) > 0
             /\ text[k] = text[k - 1] \o (Line(size \o ext) \o Line(data))
             /\ decoded[k] = decoded[k - 1] \o data
       /\ \E size, ext, trailer \in Seq(S) :
             /\ IsSizeLine(size, ext) /\ Strtoul(size) = 0 /\ IsTrailer(trailer)
             /\ encoded = text[n] \o (Line(size \o ext) \o Line(trailer))

\* Where the chunks stand in a text: each begins at a position that is further on.
ChunkAt(d, S, from, to, before, after) ==
    \E size, ext, data \in Seq(S) :
       /\ IsSizeLine(size, ext) /\ Strtoul(size) = Len(data) /\ Len(data) > 0
       /\ Stands(d, from, Line(size \o ext) \o Line(data))
       /\ to = from + Len(Line(size \o ext) \o Line(data))
       /\ after = before \o data
LastChunkAt(d, S, from, to) ==
    \E size, ext, trailer \in Seq(S) :
       /\ IsSizeLine(size, ext) /\ Strtoul(size) = 0 /\ IsTrailer(trailer)
       /\ Stands(d, from, Line(size \o ext) \o Line(trailer))
       /\ to = from + Len(Line(size \o ext) \o Line(trailer))
ChunksStand(d, S, n, at, decoded, end) ==
    /\ at[0] = 0 /\ decoded[0] = <<>>
    /\ \A k \in 1..n : ChunkAt(d, S, at[k - 1], at[k], decoded[k - 1], decoded[k])
    /\ LastChunkAt(d, S, at[n], end)

LEMMA TwoLinesType ==
    ASSUME NEW S, CR \in S, LF \in S, NEW size \in Seq(S), NEW ext \in Seq(S), NEW text \in Seq(S)
    PROVE  Line(size \o ext) \o Line(text) \in Seq(S)
<1>1. size \o ext \in Seq(S)
  BY ConcatProperties
<1>2. Line(size \o ext) \in Seq(S) /\ Line(text) \in Seq(S)
  BY <1>1, CRLFType
<1> QED
  BY <1>2, ConcatProperties

FoundIn(d, S, b, end) ==
    \E n \in Nat : \E at \in [0..n -> Nat], decoded \in [0..n -> Seq(S)] :
       ChunksStand(d, S, n, at, decoded, end) /\ decoded[n] = b

LEMMA ChunksFound ==
    ASSUME NEW S, CR \in S, LF \in S, NEW encoded \in Seq(S), NEW b, Encodes(encoded, b, S),
           NEW next \in Seq(S)
    PROVE  FoundIn(encoded \o next, S, b, Len(encoded))
<1> DEFINE d == encoded \o next
<1>1. d \in Seq(S) /\ Stands(d, 0, encoded)
  BY StandsFirst, ConcatProperties
<1> HIDE DEF d
<1>2. PICK n \in Nat : \E text, decoded \in [0..n -> Seq(S)] :
       /\ text[0] = <<>> /\ decoded[0] = <<>> /\ decoded[n] = b
       /\ \A k \in 1..n : \E size, ext, data \in Seq(S) :
             /\ IsSizeLine(size, ext) /\ Strtoul(size) = Len(data) /\ Len(data) > 0
             /\ text[k] = text[k - 1] \o (Line(size \o ext) \o Line(data))
             /\ decoded[k] = decoded[k - 1] \o data
       /\ \E size, ext, trailer \in Seq(S) :
             /\ IsSizeLine(size, ext) /\ Strtoul(size) = 0 /\ IsTrailer(trailer)
             /\ encoded = text[n] \o (Line(size \o ext) \o Line(trailer))
  BY DEF Encodes
<1>3. PICK text \in [0..n -> Seq(S)], decoded \in [0..n -> Seq(S)] :
       /\ text[0] = <<>> /\ decoded[0] = <<>> /\ decoded[n] = b
       /\ \A k \in 1..n : \E size, ext, data \in Seq(S) :
             /\ IsSizeLine(size, ext) /\ Strtoul(size) = Len(data) /\ Len(data) > 0
             /\ text[k] = text[k - 1] \o (Line(size \o ext) \o Line(data))
             /\ decoded[k] = decoded[k - 1] \o data
       /\ \E size, ext, trailer \in Seq(S) :
             /\ IsSizeLine(size, ext) /\ Strtoul(size) = 0 /\ IsTrailer(trailer)
             /\ encoded = text[n] \o (Line(size \o ext) \o Line(trailer))
  BY <1>2
<1> DEFINE at == [k \in 0..n |-> Len(text[k])]
<1>4. at \in [0..n -> Nat] /\ \A k \in 0..n : at[k] = Len(text[k])
  OBVIOUS
<1> HIDE DEF at
<1>5. Stands(d, 0, text[n]) /\ LastChunkAt(d, S, at[n], Len(encoded))
  <2>1. PICK size \in Seq(S), ext \in Seq(S), trailer \in Seq(S) :
          /\ IsSizeLine(size, ext) /\ Strtoul(size) = 0 /\ IsTrailer(trailer)
          /\ encoded = text[n] \o (Line(size \o ext) \o Line(trailer))
    BY <1>3
  <2> DEFINE last == Line(size \o ext) \o Line(trailer)
  <2>2. last \in Seq(S)
    BY TwoLinesType
  <2>3. n \in 0..n /\ text[n] \in Seq(S)
    OBVIOUS
  <2> HIDE DEF last
  <2>4. encoded = text[n] \o last
    BY <2>1 DEF last
  <2>5. Stands(d, 0, text[n]) /\ Stands(d, Len(text[n]), last) /\ Len(encoded) = Len(text[n]) + Len(last)
    BY <1>1, <2>2, <2>3, <2>4, PieceStands
  <2>6. Stands(d, at[n], last) /\ Len(encoded) = at[n] + Len(last)
    BY <1>4, <2>3, <2>5
  <2> QED
    BY <2>1, <2>5, <2>6 DEF LastChunkAt, last
<1>6. ASSUME NEW k \in 1..n, Stands(d, 0, text[k])
      PROVE  /\ Stands(d, 0, text[k - 1])
             /\ ChunkAt(d, S, at[k - 1], at[k], decoded[k - 1], decoded[k])
  <2>1. PICK size \in Seq(S), ext \in Seq(S), data \in Seq(S) :
          /\ IsSizeLine(size, ext) /\ Strtoul(size) = Len(data) /\ Len(data) > 0
          /\ text[k] = text[k - 1] \o (Line(size \o ext) \o Line(data))
          /\ decoded[k] = decoded[k - 1] \o data
    BY <1>3
  <2> DEFINE piece == Line(size \o ext) \o Line(data)
  <2>2. piece \in Seq(S)
    BY TwoLinesType
  <2>3. k \in 0..n /\ k - 1 \in 0..n /\ text[k - 1] \in Seq(S)
    OBVIOUS
  <2> HIDE DEF piece
  <2>4. text[k] = text[k - 1] \o piece
    BY <2>1 DEF piece
  <2>5. /\ Stands(d, 0, text[k - 1]) /\ Stands(d, Len(text[k - 1]), piece)
        /\ Len(text[k]) = Len(text[k - 1]) + Len(piece)
    BY <1>1, <1>6, <2>2, <2>3, <2>4, PieceStands
  <2>6. Stands(d, at[k - 1], piece) /\ at[k] = at[k - 1] + Len(piece)
    BY <1>4, <2>3, <2>5
  <2> QED
    BY <2>1, <2>5, <2>6 DEF ChunkAt, piece
<1>7. \A k \in 0..n : Stands(d, 0, text[k])
  <2> DEFINE U == {j \in Nat : j <= n => Stands(d, 0, text[n - j])}
  <2>1. 0 \in U
    <3>1. n - 0 = n
      OBVIOUS
    <3> QED
      BY <1>5, <3>1
  <2>2. ASSUME NEW j \in Nat, j \in U PROVE j + 1 \in U
    <3> SUFFICES ASSUME j + 1 <= n PROVE Stands(d, 0, text[n - (j + 1)])
      OBVIOUS
    <3>1. n - j \in 1..n /\ (n - j) - 1 = n - (j + 1) /\ j <= n
      OBVIOUS
    <3>2. Stands(d, 0, text[n - j])
      BY <2>2, <3>1
    <3>3. Stands(d, 0, text[(n - j) - 1])
      BY <1>6, <3>1, <3>2
    <3> QED
      BY <3>1, <3>3
  <2>3. Nat \subseteq U
    <3> HIDE DEF U
    <3> QED
      BY <2>1, <2>2, SetInduction
  <2> SUFFICES ASSUME NEW k \in 0..n PROVE Stands(d, 0, text[k])
    OBVIOUS
  <2>4. n - k \in Nat /\ n - k <= n /\ n - (n - k) = k
    OBVIOUS
  <2>5. n - k \in U
    BY <2>3, <2>4
  <2> QED
    BY <2>4, <2>5
<1>8. at[0] = 0
  <2>1. 0 \in 0..n /\ Len(text[0]) = 0
    BY <1>3
  <2> QED
    BY <1>4, <2>1
<1>9. \A k \in 1..n : ChunkAt(d, S, at[k - 1], at[k], decoded[k - 1], decoded[k])
  <2>1. \A k \in 1..n : k \in 0..n
    OBVIOUS
  <2> QED
    BY <1>6, <1>7, <2>1
<1>10. ChunksStand(d, S, n, at, decoded, Len(encoded)) /\ decoded[n] = b
  BY <1>3, <1>5, <1>8, <1>9 DEF ChunksStand
<1> QED
  BY <1>4, <1>10 DEF d, FoundIn

Reached(at, decoded, k) == [status |-> "READING", pos |-> at[k], decoded |-> decoded[k]]

LEMMA FoundDecode ==
    ASSUME NEW S, CR \in S, LF \in S, NEW d \in Seq(S), Len(d) < WordSize, NEW m \in 0..Len(d),
           NEW end \in Nat, NEW b, FoundIn(d, S, b, end)
    PROVE  /\ end <= m => decode(Substr(d, 0, m)) = Outcome("SUCCESS", b)
           /\ ~(end <= m) => decode(Substr(d, 0, m)).status = "INCOMPLETE"
<1> DEFINE p == Substr(d, 0, m)
<1>1. Len(d) \in Nat /\ m \in Nat
  OBVIOUS
<1>2. PICK n \in Nat : \E at \in [0..n -> Nat], decoded \in [0..n -> Seq(S)] :
         ChunksStand(d, S, n, at, decoded, end) /\ decoded[n] = b
  BY DEF FoundIn
<1>3. PICK at \in [0..n -> Nat], decoded \in [0..n -> Seq(S)] :
         ChunksStand(d, S, n, at, decoded, end) /\ decoded[n] = b
  BY <1>2
<1>4. p \in Seq(S) /\ Len(p) = m
  BY PartSays
<1> HIDE DEF p
<1>5. PICK q \in [0..(Len(p) + 1) -> Rounds(S)] : AreAllRounds(q, p, Len(p) + 1)
  BY <1>4, DecodeIsLast
<1>6. /\ q \in [0..(m + 1) -> Rounds(S)]
      /\ AreRounds(q, p) /\ decode(p) = Outcome(q[m + 1].status, q[m + 1].decoded)
      /\ \A j \in 0..(m + 1) : q[j].status # "READING" => q[m + 1] = q[j]
  BY <1>4, <1>5 DEF AreAllRounds
<1> USE DEF p
<1>7. \A k \in 0..n : Reached(at, decoded, k) \in Rounds(S)
  BY DEF Reached, Rounds
<1>8. ASSUME NEW k \in 1..n
      PROVE  /\ at[k - 1] < at[k]
             /\ at[k] <= m => NextChunk(p, Reached(at, decoded, k - 1)) = Reached(at, decoded, k)
             /\ ~(at[k] <= m) => NextChunk(p, Reached(at, decoded, k - 1)).status = "INCOMPLETE"
  <2> DEFINE t == Reached(at, decoded, k - 1)
  <2>1. k - 1 \in 0..n /\ t \in Rounds(S) /\ t.pos = at[k - 1] /\ t.decoded = decoded[k - 1]
    <3>1. k - 1 \in 0..n
      OBVIOUS
    <3> QED
      BY <1>7, <3>1 DEF Reached
  <2>2. PICK size \in Seq(S), ext \in Seq(S), data \in Seq(S) :
          /\ IsSizeLine(size, ext) /\ Strtoul(size) = Len(data) /\ Len(data) > 0
          /\ Stands(d, at[k - 1], Line(size \o ext) \o Line(data))
          /\ at[k] = at[k - 1] + Len(Line(size \o ext) \o Line(data))
          /\ decoded[k] = decoded[k - 1] \o data
    BY <1>3 DEF ChunksStand, ChunkAt
  <2> HIDE DEF t
  <2>3. at[k] = Behind(t, size, ext, data)
    BY <2>1, <2>2 DEF Behind
  <2>4. Stands(d, t.pos, Line(size \o ext) \o Line(data))
    BY <2>1, <2>2
  <2> DEFINE to == Behind(t, size, ext, data)
  <2>6. /\ t.pos < to
        /\ to <= m => NextChunk(p, t) = [status |-> "READING", pos |-> to, decoded |-> t.decoded \o data]
        /\ ~(to <= m) => NextChunk(p, t).status = "INCOMPLETE"
    <3>1. BeforeChunk(d, S, t, size, ext, data)
      BY <2>1, <2>2, <2>4 DEF BeforeChunk
    <3> QED
      <4>1. LET too == Behind(t, size, ext, data) IN
             /\ too \in Nat /\ t.pos < too /\ too <= Len(d)
             /\ too <= m => NextChunk(Substr(d, 0, m), t) =
                             [status |-> "READING", pos |-> too, decoded |-> t.decoded \o data]
             /\ ~(too <= m) => NextChunk(Substr(d, 0, m), t).status = "INCOMPLETE"
        <5> HIDE DEF p, to
        <5> QED
          BY <3>1, ChunkRound
      <4>2. t.pos < to
        BY <4>1, Zenon
      <4>3.  ~(to <= m) => NextChunk(p, t).status = "INCOMPLETE"
        BY <4>1, Zenon
      <4>4.  to <= m => NextChunk(p, t) = [status |-> "READING", pos |-> to, decoded |-> t.decoded \o data]
        BY <4>1, Zenon
      <4> QED
        BY <4>2, <4>3, <4>4
  <2> HIDE DEF to
  <2>7. /\ at[k - 1] < at[k]
        /\ at[k] <= m => NextChunk(p, t) = [status |-> "READING", pos |-> at[k], decoded |-> decoded[k]]
        /\ ~(at[k] <= m) => NextChunk(p, t).status = "INCOMPLETE"
    BY <2>1, <2>2, <2>3, <2>6 DEF to
  <2> QED
    BY <2>7 DEF Reached, t
<1>9. /\ at[n] <= end
      /\ end <= m => NextChunk(p, Reached(at, decoded, n)) = Stopped(Reached(at, decoded, n), "SUCCESS")
      /\ ~(end <= m) => NextChunk(p, Reached(at, decoded, n)).status = "INCOMPLETE"
  <2> DEFINE t == Reached(at, decoded, n)
  <2>1. t \in Rounds(S) /\ t.pos = at[n]
    BY <1>7 DEF Reached
  <2>2. PICK size \in Seq(S), ext \in Seq(S), trailer \in Seq(S) :
          /\ IsSizeLine(size, ext) /\ Strtoul(size) = 0 /\ IsTrailer(trailer)
          /\ Stands(d, at[n], Line(size \o ext) \o Line(trailer))
          /\ end = at[n] + Len(Line(size \o ext) \o Line(trailer))
    BY <1>3 DEF ChunksStand, LastChunkAt
  <2> HIDE DEF t
  <2>3. end = Behind(t, size, ext, trailer)
    BY <2>1, <2>2 DEF Behind
  <2>4. Stands(d, t.pos, Line(size \o ext) \o Line(trailer))
    BY <2>1, <2>2
  <2> DEFINE to == Behind(t, size, ext, trailer)
  <2>6. /\ to \in Nat /\ t.pos < to
        /\ to <= m => NextChunk(p, t) = Stopped(t, "SUCCESS")
        /\ ~(to <= m) => NextChunk(p, t).status = "INCOMPLETE"
    <3>1. BeforeLast(d, S, t, size, ext, trailer)
      BY <2>1, <2>2, <2>4 DEF BeforeLast
    <3> HIDE DEF to
    <3>2. LET too == Behind(t, size, ext, trailer) IN
            /\ too \in Nat /\ t.pos < too /\ too <= Len(d)
            /\ too <= m => NextChunk(Substr(d, 0, m), t) = Stopped(t, "SUCCESS")
            /\ ~(too <= m) => NextChunk(Substr(d, 0, m), t).status = "INCOMPLETE"
      <4> HIDE DEF p
      <4> QED
        BY <3>1, LastRound
    <3> QED
      BY <3>2 DEF to, p
  <2> HIDE DEF to
  <2>7. to = end
    BY <2>3 DEF to
  <2>8. at[n] \in Nat
    OBVIOUS
  <2> QED
    BY <2>1, <2>6, <2>7, <2>8 DEF t
<1> HIDE DEF p
<1>10. \A k \in 0..n : k <= at[k] /\ at[k] \in Nat
  <2> DEFINE U == {k \in Nat : k <= n => k <= at[k]}
  <2>1. 0 \in U
    BY <1>3 DEF ChunksStand
  <2>2. ASSUME NEW k \in Nat, k \in U PROVE k + 1 \in U
    <3> SUFFICES ASSUME k + 1 <= n PROVE k + 1 <= at[k + 1]
      OBVIOUS
    <3>1. k + 1 \in 1..n /\ (k + 1) - 1 = k /\ k \in 0..n /\ k + 1 \in 0..n
      OBVIOUS
    <3>2. k <= at[k] /\ at[k] \in Nat /\ at[k + 1] \in Nat
      BY <2>2, <3>1
    <3>3. at[k] < at[k + 1]
      <4>1. at[(k + 1) - 1] < at[k + 1]
        BY <1>8, <3>1
      <4> QED
        BY <3>1, <4>1
    <3> DEFINE x == at[k]
               y == at[k + 1]
    <3>4. k <= x /\ x < y /\ x \in Nat /\ y \in Nat
      BY <3>2, <3>3
    <3> HIDE DEF x, y
    <3>5. k + 1 <= y
      BY <3>4
    <3> QED
      BY <3>5 DEF y
  <2>3. Nat \subseteq U
    <3> HIDE DEF U
    <3> QED
      BY <2>1, <2>2, SetInduction
  <2> QED
    BY <2>3
<1> DEFINE Right(k) == IF at[k] <= m THEN q[k] = Reached(at, decoded, k) ELSE q[k].status = "INCOMPLETE"
<1> HIDE DEF Right
<1>11. \A k \in 0..n : k <= m + 1 => Right(k)
  <2> DEFINE U == {k \in Nat : k <= n /\ k <= m + 1 => Right(k)}
  <2>1. 0 \in U
    <3>1. at[0] = 0 /\ decoded[0] = <<>> /\ q[0] = FirstRound
      BY <1>3, <1>6 DEF ChunksStand, AreRounds
    <3>2. q[0] = Reached(at, decoded, 0)
      BY <3>1 DEF FirstRound, Reached
    <3> QED
      BY <1>1, <3>1, <3>2 DEF Right
  <2>2. ASSUME NEW k \in Nat, k \in U PROVE k + 1 \in U
    <3> SUFFICES ASSUME k + 1 <= n, k + 1 <= m + 1 PROVE Right(k + 1)
      OBVIOUS
    <3>1. /\ k + 1 \in 1..n /\ (k + 1) - 1 = k /\ k \in 0..n /\ k + 1 \in 0..n
          /\ k + 1 \in 1..(m + 1) /\ k \in 0..(m + 1)
      BY <1>1
    <3>2. Right(k)
      BY <2>2, <3>1
    <3>3. q[k + 1] = RoundAfter(p, q[k])
      BY <1>4, <1>6, <3>1 DEF AreRounds
    <3>4. at[k] < at[k + 1] /\ at[k] \in Nat /\ at[k + 1] \in Nat
      BY <1>8, <3>1
    <3>5. CASE at[k] <= m
      <4>1. q[k] = Reached(at, decoded, k)
        BY <3>2, <3>5 DEF Right
      <4>2. q[k].status = "READING"
        BY <4>1 DEF Reached
      <4>3. q[k + 1] = NextChunk(p, Reached(at, decoded, k))
        BY <3>3, <4>1, <4>2 DEF RoundAfter
      <4> QED
        BY <1>8, <3>1, <4>3 DEF Right
    <3>6. CASE ~(at[k] <= m)
      <4>1. q[k].status = "INCOMPLETE"
        BY <3>2, <3>6 DEF Right
      <4>2. q[k + 1].status = "INCOMPLETE"
        BY <3>3, <4>1 DEF RoundAfter
      <4>3. ~(at[k + 1] <= m)
        <5> DEFINE x == at[k]
                   y == at[k + 1]
        <5>1. x < y /\ ~(x <= m) /\ x \in Nat /\ y \in Nat /\ m \in Nat
          BY <1>1, <3>4, <3>6
        <5> HIDE DEF x, y
        <5>2. ~(y <= m)
          BY <5>1
        <5> QED
          BY <5>2 DEF y
      <4> QED
        BY <4>2, <4>3 DEF Right
    <3> QED
      BY <3>5, <3>6
  <2>3. Nat \subseteq U
    <3> HIDE DEF U
    <3> QED
      BY <2>1, <2>2, SetInduction
  <2> SUFFICES ASSUME NEW k \in 0..n, k <= m + 1 PROVE Right(k)
    OBVIOUS
  <2>4. k \in U /\ k <= n
    BY <2>3
  <2> QED
    BY <2>4
<1>12. decode(p).status = q[m + 1].status
  BY <1>6 DEF Outcome
<1>13. CASE at[n] <= m
  <2>1. n <= at[n] /\ at[n] \in Nat /\ n \in 0..n
    BY <1>10
  <2>2. n + 1 \in 1..(m + 1) /\ n + 1 \in 0..(m + 1) /\ (n + 1) - 1 = n /\ n <= m + 1
    BY <1>1, <1>13, <2>1
  <2>3. q[n] = Reached(at, decoded, n) /\ q[n + 1] = RoundAfter(p, q[n])
    <3>1. Right(n)
      BY <1>11, <2>1, <2>2
    <3>2. q[n] = Reached(at, decoded, n)
      BY <1>13, <3>1 DEF Right
    <3>3. \A k \in 1..(m + 1) : q[k] = RoundAfter(p, q[k - 1])
      BY <1>4, <1>6 DEF AreRounds
    <3> DEFINE k == n + 1
    <3>4. k \in 1..(m + 1) /\ k - 1 = n
      BY <2>2
    <3> HIDE DEF k
    <3>5. q[k] = RoundAfter(p, q[k - 1])
      BY <3>3, <3>4
    <3>6. q[n + 1] = RoundAfter(p, q[n])
      BY <3>4, <3>5 DEF k
    <3> QED
      BY <3>2, <3>6
  <2>4. q[n + 1] = NextChunk(p, Reached(at, decoded, n))
    BY <2>3 DEF RoundAfter, Reached
  <2>5. CASE end <= m
    <3>1. q[n + 1] = [status |-> "SUCCESS", pos |-> at[n], decoded |-> decoded[n]]
      BY <1>9, <2>4, <2>5 DEF Stopped, Reached
    <3>2. q[m + 1] = q[n + 1]
      <4>1. q[n + 1].status # "READING" /\ n + 1 \in 0..(m + 1)
        BY <2>2, <3>1
      <4> QED
        BY <1>6, <4>1
    <3> QED
      BY <1>3, <1>6, <2>5, <3>1, <3>2 DEF p
  <2>6. CASE ~(end <= m)
    <3>1. q[n + 1].status = "INCOMPLETE"
      BY <1>9, <2>4, <2>6
    <3>2. q[m + 1] = q[n + 1]
      BY <1>6, <2>2, <3>1
    <3> QED
      BY <1>12, <2>6, <3>1, <3>2 DEF p
  <2> QED
    BY <2>5, <2>6
<1>14. CASE ~(at[n] <= m)
  <2>1. at[n] \in Nat /\ n \in 0..n
    BY <1>10
  <2>2. ~(end <= m)
    BY <1>1, <1>9, <1>14, <2>1
  <2>3. q[m + 1].status = "INCOMPLETE"
    <3>1. CASE n <= m + 1
      <4>1. q[n].status = "INCOMPLETE" /\ n \in 0..(m + 1)
        BY <1>1, <1>11, <1>14, <2>1, <3>1 DEF Right
      <4> QED
        BY <1>6, <4>1
    <3>2. CASE m + 1 <= n
      <4>1. m + 1 \in 0..n /\ m + 1 <= m + 1
        BY <1>1, <3>2
      <4>2. m + 1 <= at[m + 1] /\ at[m + 1] \in Nat
        BY <1>10, <4>1
      <4>3. ~(at[m + 1] <= m)
        <5> DEFINE x == at[m + 1]
        <5>1. x \in Nat /\ m + 1 <= x /\ m \in Nat
          BY <1>1, <4>2
        <5> HIDE DEF x
        <5>2. ~(x <= m)
          BY <5>1
        <5> QED
          BY <5>2 DEF x
      <4> QED
        BY <1>11, <4>1, <4>3 DEF Right
    <3> QED
      BY <1>1, <3>1, <3>2
  <2> QED
    BY <1>12, <2>2, <2>3 DEF p
<1> QED
  BY <1>13, <1>14

\* A body in chunks is decoded as what it holds, once all of it has arrived and not before.
LEMMA ChunksDecode ==
    ASSUME NEW S, CR \in S, LF \in S, NEW encoded \in Seq(S), NEW b, Encodes(encoded, b, S),
           NEW next \in Seq(S), Len(encoded \o next) < WordSize, NEW m \in 0..Len(encoded \o next)
    PROVE  /\ Len(encoded) <= m => decode(Substr(encoded \o next, 0, m)) = Outcome("SUCCESS", b)
           /\ ~(Len(encoded) <= m) => decode(Substr(encoded \o next, 0, m)).status = "INCOMPLETE"
<1>1. encoded \o next \in Seq(S) /\ Len(encoded) \in Nat
  BY ConcatProperties
<1>2. FoundIn(encoded \o next, S, b, Len(encoded))
  BY ChunksFound
<1> QED
  BY <1>1, <1>2, FoundDecode

-----------------------------------------------------------------------------
(* Messages *)

\* The body of a message: in chunks, as long as a header says, or none
IsEncoded(text, encoded, b, S) ==
    \/ transferEncoding(text) = Chunked /\ Encodes(encoded, b, S)
    \/ /\ transferEncoding(text) # Chunked
       /\ contentLength(text) \in DOMAIN Lengths \ {"", NoNumber}
       /\ Lengths[contentLength(text)] = Len(b) /\ encoded = b
    \/ /\ transferEncoding(text) # Chunked /\ contentLength(text) = ""
       /\ encoded = <<>> /\ b = <<>>

\* A message begins with a head that ends with its only blank line. Its body follows, and
\* then whatever there is on the connection, but behind a head without headers.
IsHead(head) == HasHead(head) /\ Separator(head) + 4 = Len(head)
Letters(r)   == ToSet(r.bytes) \cup {CR, LF}
IsMessage(r) ==
    \E head, next \in Seq(Letters(r)) :
       /\ IsHead(head) /\ r.encoded \in Seq(Letters(r)) /\ r.body \in Seq(Letters(r))
       /\ r.bytes = head \o (r.encoded \o next) /\ r.length = Len(head) + Len(r.encoded)
       /\ Len(r.bytes) < WordSize
       /\ Separator(head) = FindCRLF(head, 0) => r.encoded \o next = <<>>
       /\ IsEncoded(Fields(HeaderText(head)), r.encoded, r.body, Letters(r))

LEMMA BodyParsed ==
    ASSUME NEW S, CR \in S, LF \in S, NEW text, NEW encoded \in Seq(S), NEW b \in Seq(S),
           IsEncoded(text, encoded, b, S), NEW next \in Seq(S), Len(encoded \o next) < WordSize,
           NEW m \in 0..Len(encoded \o next)
    PROVE  LET part == ParseBody(text, Substr(encoded \o next, 0, m)) IN
           /\ Len(encoded) <= m => part.status = "SUCCESS" /\ part.body = b
           /\ ~(Len(encoded) <= m) => part.status = "INCOMPLETE"
<1> DEFINE d    == encoded \o next
           p    == Substr(d, 0, m)
           part == ParseBody(text, p)
<1> SUFFICES /\ Len(encoded) <= m => part.status = "SUCCESS" /\ part.body = b
             /\ ~(Len(encoded) <= m) => part.status = "INCOMPLETE"
  OBVIOUS
<1>1. /\ d \in Seq(S) /\ Len(d) \in Nat /\ Len(encoded) \in Nat /\ Len(encoded) <= Len(d)
      /\ Stands(d, 0, encoded)
  <2>1. /\ d \in Seq(S) /\ Len(d) = Len(encoded) + Len(next)
        /\ Len(encoded) \in Nat /\ Len(next) \in Nat
    BY ConcatProperties
  <2>2. Stands(d, 0, encoded)
    BY StandsFirst
  <2> HIDE DEF d
  <2> QED
    BY <2>1, <2>2
<1>2. m \in 0..Len(d) /\ m \in Nat
  BY <1>1
<1>3. CASE transferEncoding(text) = Chunked /\ Encodes(encoded, b, S)
  <2>1. part = decode(p)
    BY <1>3 DEF ParseBody
  <2>2. /\ Len(encoded) <= m => decode(p) = Outcome("SUCCESS", b)
        /\ ~(Len(encoded) <= m) => decode(p).status = "INCOMPLETE"
    BY <1>3, ChunksDecode
  <2> HIDE DEF part, p, d
  <2> QED
    BY <2>1, <2>2 DEF Outcome
<1>4. CASE /\ transferEncoding(text) # Chunked /\ contentLength(text) = ""
           /\ encoded = <<>> /\ b = <<>>
  <2> HIDE DEF p, d
  <2>1. part = Outcome("SUCCESS", b)
    BY <1>4 DEF ParseBody
  <2>2. Len(encoded) = 0
    BY <1>4
  <2> HIDE DEF part
  <2> QED
    BY <1>2, <2>1, <2>2 DEF Outcome
<1>5. CASE /\ transferEncoding(text) # Chunked
           /\ contentLength(text) \in DOMAIN Lengths \ {"", NoNumber}
           /\ Lengths[contentLength(text)] = Len(b) /\ encoded = b
  <2> HIDE DEF p, d
  <2>1. part = ByLength(p, Len(b)) /\ encoded = b
    BY <1>5 DEF ParseBody
  <2> HIDE DEF part
  <2>2. /\ Stands(d, 0, b) /\ Len(b) \in Nat /\ Len(b) <= Len(d)
        /\ Len(encoded) = Len(b)
    BY <1>1, <2>1
  <2>3. 0 \in Nat
    OBVIOUS
  <2>4. Substr(d, 0, Len(b)) = b
    BY <1>1, <2>2, <2>3, StandsSubstr
  <2>5. Len(p) = m
    BY <1>1, <1>2, PartSays DEF p
  <2>6. CASE Len(b) <= m
    <3>1. Len(b) \in 0..m /\ 0 + m <= Len(d)
      BY <1>1, <1>2, <2>2, <2>6
    <3>2. Substr(p, 0, Len(b)) = Substr(d, 0, Len(b))
      BY <1>1, <1>2, <2>3, <3>1, SubstrOfSubstr DEF p
    <3>3. ~(m < Len(b))
      BY <1>2, <2>2, <2>6
    <3>4. part = Outcome("SUCCESS", b)
      BY <2>1, <2>4, <2>5, <3>2, <3>3 DEF ByLength
    <3> QED
      BY <2>2, <2>6, <3>4 DEF Outcome
  <2>7. CASE ~(Len(b) <= m)
    <3>1. m < Len(b)
      BY <1>2, <2>2, <2>7
    <3>2. part = Outcome("INCOMPLETE", <<>>)
      BY <2>1, <2>5, <3>1 DEF ByLength
    <3> QED
      BY <2>2, <2>7, <3>2 DEF Outcome
  <2> QED
    BY <2>6, <2>7
<1> HIDE DEF part
<1> QED
  BY <1>3, <1>4, <1>5 DEF IsEncoded

\* Whatever follows a head, it is found as if it stood alone.
LEMMA HeadFound ==
    ASSUME NEW S, NEW head \in Seq(S), NEW rest \in Seq(S), IsHead(head),
           Len(head \o rest) < WordSize, Separator(head) = FindCRLF(head, 0) => rest = <<>>
    PROVE  LET d == head \o rest IN
           /\ d \in Seq(S) /\ Len(d) = Len(head) + Len(rest)
           /\ Delimited(d) /\ HasHead(d)
           /\ Separator(d) \in Nat /\ Separator(d) # npos /\ Separator(d) + 4 = Len(head)
           /\ HeaderText(d) = HeaderText(head) /\ BodyText(d) = rest
<1> DEFINE d == head \o rest
           h == Len(head)
<1>1. /\ d \in Seq(S) /\ Len(d) = h + Len(rest) /\ h \in Nat /\ Len(rest) \in Nat
      /\ Stands(d, 0, head \o rest)
  <2>1. d \in Seq(S) /\ Len(d) = h + Len(rest) /\ h \in Nat /\ Len(rest) \in Nat
    BY ConcatProperties
  <2>2. 0 + Len(d) <= Len(d) /\ \A i \in 1..Len(d) : d[0 + i] = d[i]
    BY <2>1
  <2> QED
    BY <2>1, <2>2 DEF Stands
<1>2. Len(d) < WordSize
  OBVIOUS
<1> HIDE DEF d, h
<1>3. Stands(d, 0, head) /\ Stands(d, h, rest)
  <2>1. 0 \in Nat /\ 0 + h = h
    BY <1>1
  <2> QED
    BY <1>1, <2>1, StandsParts DEF h
<1>4. Substr(d, 0, h) = head /\ Substr(d, h, Len(rest)) = rest
  <2>1. 0 \in Nat
    OBVIOUS
  <2>2. Substr(d, 0, Len(head)) = head
    BY <1>1, <1>3, <2>1, StandsSubstr
  <2>3. Substr(d, h, Len(rest)) = rest
    BY <1>1, <1>3, StandsSubstr
  <2> QED
    BY <2>2, <2>3 DEF h
<1>5. h \in 0..Len(d)
  BY <1>1
<1>6. FindCRLF(head, 0) = IF FindCRLF(d, 0) # npos /\ FindCRLF(d, 0) + 2 <= h THEN FindCRLF(d, 0) ELSE npos
  <2>1. 0 \in Nat
    OBVIOUS
  <2> QED
    BY <1>1, <1>4, <1>5, <2>1, LineEndInPart
<1>7. Separator(head) = IF Separator(d) # npos /\ Separator(d) + 4 <= h THEN Separator(d) ELSE npos
  BY <1>1, <1>4, <1>5, BlankInPart
<1>8. /\ FindCRLF(head, 0) # npos /\ Separator(head) # npos /\ Separator(head) + 4 = h
      /\ parseFirstLine(FirstLine(head)) /\ parseHeaders(HeaderText(head))
  BY DEF IsHead, HasHead, HasFirstLine, h
<1>9. /\ FindCRLF(d, 0) = FindCRLF(head, 0) /\ FindCRLF(d, 0) # npos /\ FindCRLF(d, 0) + 2 <= h
      /\ Separator(d) = Separator(head) /\ Separator(d) # npos /\ Separator(d) + 4 = h
  BY <1>6, <1>7, <1>8
<1>10. FindCRLF(d, 0) \in Nat /\ Separator(d) \in Nat
  BY <1>1, <1>9, BlankBehindLine
<1>11. Delimited(d)
  <2>1. Separator(d) = FindCRLF(d, 0) => Len(d) = h
    <3> SUFFICES ASSUME Separator(d) = FindCRLF(d, 0) PROVE Len(d) = h
      OBVIOUS
    <3>1. rest = <<>>
      BY <1>9
    <3>2. Len(rest) = 0
      BY <3>1
    <3> QED
      BY <1>1, <3>2
  <2> QED
    BY <1>2, <1>9, <2>1 DEF Delimited
<1>12. HeaderText(d) = HeaderText(head)
  <2>1. Separator(d) + 4 <= h
    BY <1>1, <1>9
  <2> QED
    BY <1>1, <1>4, <1>5, <1>9, <1>11, <2>1, PartHead
<1>13. FirstLine(d) = FirstLine(head)
  <2>1. /\ FindCRLF(d, 0) \in 0..h /\ 0 + h <= Len(d) /\ 0 \in Nat
    BY <1>1, <1>9, <1>10
  <2>2. Substr(Substr(d, 0, h), 0, FindCRLF(d, 0)) = Substr(d, 0, FindCRLF(d, 0))
    BY <1>1, <2>1, SubstrOfSubstr
  <2> QED
    BY <1>4, <1>9, <2>2 DEF FirstLine
<1>14. HasHead(d)
  BY <1>8, <1>9, <1>12, <1>13 DEF HasHead, HasFirstLine
<1>15. BodyText(d) = rest
  <2>1. h \in 0..Len(d) /\ Len(d) \in Nat /\ Len(d) <= h + Len(d)
    BY <1>1
  <2>2. Substr(d, h, Len(d)) = Substr(d, h, Len(d) - h)
    BY <1>1, <2>1, SubstrRest
  <2>3. Len(d) - h = Len(rest)
    BY <1>1
  <2> QED
    BY <1>4, <1>9, <2>2, <2>3 DEF BodyText
<1> QED
  BY <1>1, <1>9, <1>10, <1>11, <1>12, <1>14, <1>15 DEF d, h

\* A message is complete with its last byte, neither before nor later, and has its body.
LEMMA MessageParsed ==
    ASSUME NEW r, IsMessage(r), NEW n \in 0..Len(r.bytes)
    PROVE  /\ r.length <= n =>
                /\ Parse(Substr(r.bytes, 0, n)).status = "SUCCESS"
                /\ Parse(Substr(r.bytes, 0, n)).body = r.body
           /\ ~(r.length <= n) => Parse(Substr(r.bytes, 0, n)).status = "INCOMPLETE"
<1> DEFINE S == Letters(r)
<1>1. PICK head \in Seq(S), next \in Seq(S) :
       /\ IsHead(head) /\ r.encoded \in Seq(S) /\ r.body \in Seq(S)
       /\ r.bytes = head \o (r.encoded \o next) /\ r.length = Len(head) + Len(r.encoded)
       /\ Len(r.bytes) < WordSize
       /\ Separator(head) = FindCRLF(head, 0) => r.encoded \o next = <<>>
       /\ IsEncoded(Fields(HeaderText(head)), r.encoded, r.body, S)
  BY DEF IsMessage
<1>2. CR \in S /\ LF \in S
  BY DEF Letters
<1> DEFINE d    == r.bytes
           p    == Substr(d, 0, n)
           rest == r.encoded \o next
           h    == Len(head)
           text == HeaderText(head)
           told == Fields(text)
<1> HIDE DEF S
<1>3. /\ rest \in Seq(S) /\ Len(rest) = Len(r.encoded) + Len(next)
      /\ Len(r.encoded) \in Nat /\ Len(next) \in Nat /\ Len(rest) \in Nat /\ h \in Nat
  BY <1>1, ConcatProperties
<1>4. /\ d \in Seq(S) /\ Len(d) = h + Len(rest)
      /\ Delimited(d) /\ HasHead(d)
      /\ Separator(d) \in Nat /\ Separator(d) # npos /\ Separator(d) + 4 = h
      /\ HeaderText(d) = text /\ BodyText(d) = rest
  <2>1. Len(head \o rest) < WordSize /\ d = head \o rest
    BY <1>1
  <2>2. Separator(head) = FindCRLF(head, 0) => rest = <<>>
    BY <1>1
  <2>3. IsHead(head) /\ rest \in Seq(S)
    BY <1>1, <1>3
  <2> HIDE DEF rest, d
  <2>4. LET e == head \o rest IN
        /\ e \in Seq(S) /\ Len(e) = Len(head) + Len(rest)
        /\ Delimited(e) /\ HasHead(e)
        /\ Separator(e) \in Nat /\ Separator(e) # npos /\ Separator(e) + 4 = Len(head)
        /\ HeaderText(e) = HeaderText(head) /\ BodyText(e) = rest
    <3>1. Len(head \o rest) < WordSize
      BY <2>1
    <3> QED
      BY <2>2, <2>3, <3>1, HeadFound
  <2>5. LET e == d IN
        /\ e \in Seq(S) /\ Len(e) = Len(head) + Len(rest)
        /\ Delimited(e) /\ HasHead(e)
        /\ Separator(e) \in Nat /\ Separator(e) # npos /\ Separator(e) + 4 = Len(head)
        /\ HeaderText(e) = HeaderText(head) /\ BodyText(e) = rest
    BY <2>1, <2>4
  <2> QED
    BY <2>5
<1>5. r.length = h + Len(r.encoded) /\ IsEncoded(told, r.encoded, r.body, S) /\ Len(d) < WordSize
  BY <1>1
<1>6. n \in 0..Len(d) /\ n \in Nat
  BY <1>4
<1>7. /\ r.encoded \in Seq(S) /\ r.body \in Seq(S) /\ next \in Seq(S)
  BY <1>1
<1> HIDE DEF d, p, h, text, told
<1>8. p \in Seq(S)
  BY <1>4, <1>6, PartSays DEF p
<1>9. FindCRLF(p, 0) =
        IF FindCRLF(d, 0) # npos /\ FindCRLF(d, 0) + 2 <= n THEN FindCRLF(d, 0) ELSE npos
  <2>1. 0 \in Nat
    OBVIOUS
  <2> QED
    BY <1>4, <1>6, <2>1, LineEndInPart DEF p
<1>10. Separator(p) = IF Separator(d) # npos /\ Separator(d) + 4 <= n THEN Separator(d) ELSE npos
  BY <1>4, <1>6, BlankInPart DEF p
<1>11. /\ FindCRLF(d, 0) \in Nat /\ FindCRLF(d, 0) # npos
       /\ Separator(d) = FindCRLF(d, 0) \/ FindCRLF(d, 0) + 2 <= Separator(d)
  BY <1>4, BlankBehindLine
<1>12. CASE n < FindCRLF(d, 0) + 2
  <2>1. Parse(p) = Verdict("INCOMPLETE", NoTarget, NoHeaders, <<>>)
    BY <1>6, <1>9, <1>11, <1>12, ParseCases
  <2>2. ~(r.length <= n)
    BY <1>3, <1>4, <1>5, <1>6, <1>11, <1>12
  <2> QED
    BY <2>1, <2>2, VerdictSays DEF p, d
<1>13. CASE FindCRLF(d, 0) + 2 <= n
  <2>1. FindCRLF(p, 0) = FindCRLF(d, 0) /\ FindCRLF(p, 0) # npos
    BY <1>9, <1>11, <1>13
  <2>2. HasFirstLine(p)
    <3>1. FindCRLF(d, 0) \in 0..n /\ 0 + n <= Len(d) /\ 0 \in Nat
      BY <1>4, <1>6, <1>11, <1>13
    <3>2. Substr(p, 0, FindCRLF(d, 0)) = Substr(d, 0, FindCRLF(d, 0))
      BY <1>4, <1>6, <3>1, SubstrOfSubstr DEF p
    <3>3. FirstLine(p) = FirstLine(d)
      BY <2>1, <3>2 DEF FirstLine
    <3> QED
      BY <1>4, <2>1, <3>3 DEF HasFirstLine, HasHead
  <2>3. CASE n < h
    <3>1. Separator(p) = npos
      BY <1>4, <1>6, <1>10, <2>3
    <3>2. Parse(p) = Verdict("INCOMPLETE", Target(FirstLine(p)), NoHeaders, <<>>)
      BY <2>2, <3>1, ParseCases
    <3>3. ~(r.length <= n)
      BY <1>3, <1>5, <1>6, <2>3
    <3> QED
      BY <3>2, <3>3, VerdictSays DEF p, d
  <2>4. CASE h <= n
    <3> DEFINE m    == n - h
               part == ParseBody(told, Substr(rest, 0, m))
    <3>1. m \in 0..Len(rest) /\ m = n - Separator(d) - 4 /\ Separator(d) + 4 <= n
      BY <1>3, <1>4, <1>6, <2>4
    <3>2. Separator(p) = Separator(d) /\ Separator(p) # npos
      BY <1>4, <1>10, <3>1
    <3> HIDE DEF m
    <3>3. HeaderText(p) = text /\ BodyText(p) = Substr(rest, 0, m)
      <4>1. /\ HeaderText(Substr(d, 0, n)) = HeaderText(d)
            /\ BodyText(Substr(d, 0, n)) = Substr(BodyText(d), 0, n - Separator(d) - 4)
        BY <1>4, <1>6, <3>1, PartHead
      <4> QED
        BY <1>4, <3>1, <4>1 DEF p
    <3>4. parseHeaders(text)
      BY <1>4 DEF HasHead
    <3>5. HasHead(p)
      BY <2>2, <3>2, <3>3, <3>4 DEF HasHead
    <3>6. /\ Parse(p).status = part.status
          /\ Parse(p).body = IF part.status = "SUCCESS" THEN part.body ELSE <<>>
      <4>1. Parse(p) = Accepted(p)
        BY <3>5, ParseCases
      <4>2. part = ParseBody(Fields(HeaderText(p)), BodyText(p))
        BY <3>3 DEF told
      <4> HIDE DEF part
      <4> QED
        BY <4>1, <4>2, AcceptedSays
    <3>8. /\ Len(r.encoded) <= m => part.status = "SUCCESS" /\ part.body = r.body
          /\ ~(Len(r.encoded) <= m) => part.status = "INCOMPLETE"
      <4>1. Len(rest) < WordSize
        <5>1. WordSize \in Nat
          BY WordSizeType
        <5> QED
          BY <1>3, <1>4, <1>5, <5>1
      <4> QED
        <5>1. IsEncoded(told, r.encoded, r.body, S)
          BY <1>5
        <5> DEFINE e == r.encoded
                   b == r.body
        <5>2. /\ e \in Seq(S) /\ b \in Seq(S) /\ next \in Seq(S) /\ IsEncoded(told, e, b, S)
              /\ Len(e \o next) < WordSize /\ m \in 0..Len(e \o next)
          BY <1>7, <3>1, <4>1, <5>1
        <5> HIDE DEF e, b
        <5>3. LET o == ParseBody(told, Substr(e \o next, 0, m)) IN
              /\ Len(e) <= m => o.status = "SUCCESS" /\ o.body = b
              /\ ~(Len(e) <= m) => o.status = "INCOMPLETE"
          BY <1>2, <5>2, BodyParsed
        <5> QED
          BY <5>3 DEF e, b
    <3>9. r.length <= n <=> Len(r.encoded) <= m
      BY <1>3, <1>5, <1>6, <3>1 DEF m
    <3> HIDE DEF part
    <3> QED
      BY <3>6, <3>8, <3>9 DEF p, d
  <2> QED
    BY <1>3, <1>6, <2>3, <2>4
<1> QED
  BY <1>6, <1>11, <1>12, <1>13

\* What clients send is messages, but for what is marked as something else.
SentMessages == \A r \in Sent : r.valid => IsMessage(r)

LEMMA ParsedMessage ==
    ASSUME SentMessages, Parsed
    PROVE  BodyArrives /\ CompleteInTime
<1> SUFFICES ASSUME sent.valid PROVE BodyArrives /\ CompleteInTime
  BY DEF BodyArrives, CompleteInTime
<1>1. sent \in Sent /\ received \in 0..Len(sent.bytes)
  BY DEF Parsed
<1>2. IsMessage(sent)
  BY <1>1 DEF SentMessages
<1> DEFINE outcome == Parse(Part(received))
<1>3. /\ sent.length <= received => outcome.status = "SUCCESS" /\ outcome.body = sent.body
      /\ ~(sent.length <= received) => outcome.status = "INCOMPLETE"
  BY <1>1, <1>2, MessageParsed DEF Part
<1>4. status = outcome.status /\ (status = "SUCCESS" => body = outcome.body)
  BY DEF Parsed
<1> HIDE DEF outcome
<1>5. status = "SUCCESS" <=> sent.length <= received
  BY <1>3, <1>4
<1>6. status # "ERROR" /\ (status = "SUCCESS" => body = sent.body)
  BY <1>3, <1>4
<1>7. sent.length <= received <=> received >= sent.length
  BY <1>1
<1> QED
  BY <1>5, <1>6, <1>7 DEF BodyArrives, CompleteInTime

\* Whatever message a client sends, with a body in any chunks, of any length a header says,
\* or none, and wherever the reads end: it is never answered with a 400 and is handled with
\* the body that was sent; what follows on the connection is no part of it.
THEOREM BodiesArrive == ASSUME SentTexts, SentMessages PROVE Spec => []BodyArrives
<1>1. Spec => []Parsed
  BY HoldsParsed
<1>2. Parsed => BodyArrives
  BY ParsedMessage
<1> QED
  BY <1>1, <1>2, PTL

\* And it is handled once its last byte has been read: never on part of its body, and
\* never after waiting for bytes that the client has no reason to send.
THEOREM CompletedInTime == ASSUME SentTexts, SentMessages PROVE Spec => []CompleteInTime
<1>1. Spec => []Parsed
  BY HoldsParsed
<1>2. Parsed => CompleteInTime
  BY ParsedMessage
<1> QED
  BY <1>1, <1>2, PTL

-----------------------------------------------------------------------------
(* Targets *)

Space      == " "
NoWhite(w) == ToSet(w) \cap White = {}

\* A word that stands in a line, with white space behind it
IsWord(line, k, w, S) ==
    /\ line \in Seq(S) /\ k \in Nat /\ w \in Seq(S) /\ w # <<>> /\ NoWhite(w)
    /\ Stands(line, k, w) /\ k + Len(w) < Len(line) /\ At(line, k + Len(w)) \in White

\* It is the next word.
LEMMA WordStands ==
    ASSUME NEW S, NEW line, NEW k, NEW w, IsWord(line, k, w, S), NEW from, AreWords(line, from)
    PROVE  from[k] = <<w>> \o from[k + Len(w) + 1]
<1>0. /\ line \in Seq(S) /\ k \in Nat /\ w \in Seq(S) /\ w # <<>> /\ NoWhite(w)
      /\ Stands(line, k, w) /\ k + Len(w) < Len(line) /\ At(line, k + Len(w)) \in White
  BY DEF IsWord
<1> USE <1>0
<1> DEFINE n == Len(w)
           P == {j \in Positions(line) : j >= k /\ At(line, j) \notin White}
           Q == {j \in Positions(line) : j >= k /\ At(line, j) \in White}
<1>1. n \in Nat /\ n > 0 /\ Len(line) \in Nat
  <2>1. Len(w) # 0
    OBVIOUS
  <2> QED
    BY <2>1
<1>2. \A j \in Nat : j < n => At(line, k + j) \notin White
  <2> SUFFICES ASSUME NEW j \in Nat, j < n PROVE At(line, k + j) \notin White
    OBVIOUS
  <2>1. At(line, k + j) = At(w, j)
    BY StandsAt
  <2>2. At(w, j) = w[j + 1] /\ j + 1 \in 1..Len(w)
    BY DEF At
  <2>3. w[j + 1] \in ToSet(w)
    BY <2>2 DEF ToSet
  <2> QED
    BY <2>1, <2>2, <2>3 DEF NoWhite
<1>3. n = Len(w) /\ k + n < Len(line) /\ At(line, k + n) \in White
  OBVIOUS
<1> HIDE DEF n
<1>4. P \in SUBSET Nat /\ k \in P /\ \A j \in P : k <= j
  <2>1. 0 \in Nat /\ 0 < n /\ k + 0 = k
    BY <1>1
  <2>2. At(line, k) \notin White
    BY <1>2, <2>1
  <2> QED
    BY <1>1, <1>3, <2>2 DEF Positions
<1>5. WordBegin(line, k) = k
  <2>1. WordBegin(line, k) = First(P)
    BY DEF WordBegin
  <2> HIDE DEF P
  <2> QED
    BY <1>4, <2>1, FirstIs
<1>6. Q \in SUBSET Nat /\ k + n \in Q /\ \A j \in Q : k + n <= j
  <2>1. ASSUME NEW j \in Nat, j >= k, At(line, j) \in White PROVE k + n <= j
    <3> SUFFICES ASSUME ~(k + n <= j) PROVE FALSE
      OBVIOUS
    <3>1. j - k \in Nat /\ j - k < n /\ k + (j - k) = j
      BY <1>1, <2>1
    <3>2. At(line, k + (j - k)) \notin White
      BY <1>2, <3>1
    <3> QED
      BY <2>1, <3>1, <3>2
  <2> QED
    BY <1>1, <1>3, <2>1 DEF Positions
<1>7. WordEnd(line, k) = k + n
  <2>1. WordEnd(line, k) = First(Q)
    BY <1>5 DEF WordEnd
  <2> HIDE DEF Q
  <2> QED
    BY <1>6, <2>1, FirstIs
<1>8. k # npos /\ k + n # npos /\ (k + n) - k = n /\ k \in 0..Len(line)
  BY <1>1, <1>3 DEF npos
<1>9. Substr(line, k, n) = w
  BY <1>3, StandsSubstr
<1>10. from[k] = WordsFrom(line, from, k)
  BY <1>8 DEF AreWords
<1> QED
  BY <1>3, <1>5, <1>7, <1>8, <1>9, <1>10 DEF WordsFrom

\* The second word of a line is the one that is written there.
LEMMA SecondWord ==
    ASSUME NEW S, Space \in S, NEW method \in Seq(S), NEW uri \in Seq(S), NEW version \in Seq(S),
           method # <<>>, NoWhite(method), uri # <<>>, NoWhite(uri)
    PROVE  Words((method \o <<Space>>) \o ((uri \o <<Space>>) \o version))[2] = uri
<1> DEFINE a    == method \o <<Space>>
           b    == uri \o <<Space>>
           line == a \o (b \o version)
           l    == Len(method)
           m    == Len(uri)
<1>1. <<Space>> \in Seq(S) /\ Len(<<Space>>) = 1 /\ At(<<Space>>, 0) = Space /\ Space \in White
  <2>1. <<Space>> \in Seq(S) /\ Len(<<Space>>) = 1 /\ At(<<Space>>, 0) = Space
    BY DEF At
  <2>2. Space \in White
    BY Zenon DEF Space, White
  <2> QED
    BY <2>1, <2>2
<1>2. a \in Seq(S) /\ b \in Seq(S) /\ b \o version \in Seq(S) /\ line \in Seq(S)
  BY <1>1, ConcatProperties
<1>3. Len(a) = l + 1 /\ Len(b) = m + 1 /\ l \in Nat /\ m \in Nat
  BY <1>1, ConcatProperties
<1>4. Stands(line, 0, line)
  <2>1. 0 \in Nat /\ 0 + Len(line) <= Len(line) /\ \A i \in 1..Len(line) : line[0 + i] = line[i]
    <3> HIDE DEF line
    <3> QED
      BY <1>2
  <2> HIDE DEF line
  <2> QED
    BY <2>1 DEF Stands
<1> DEFINE bv == b \o version
<1>5. bv \in Seq(S) /\ line = a \o bv
  BY <1>2
<1> HIDE DEF line, a, bv
<1>6. Stands(line, 0, a) /\ Stands(line, l + 1, bv)
  <2>1. Stands(line, 0, a \o bv) /\ 0 \in Nat /\ 0 + Len(a) = l + 1
    BY <1>3, <1>4, <1>5
  <2> QED
    BY <1>2, <1>5, <2>1, StandsParts
<1>7. Stands(line, l + 1, b)
  <2>1. Stands(line, l + 1, b \o version) /\ l + 1 \in Nat
    BY <1>3, <1>6 DEF bv
  <2> HIDE DEF b
  <2> QED
    BY <1>2, <2>1, StandsParts
<1>8. Stands(line, 0, method) /\ Stands(line, l, <<Space>>)
  <2>1. Stands(line, 0, method \o <<Space>>) /\ 0 \in Nat /\ 0 + l = l
    BY <1>3, <1>6 DEF a
  <2>2. Stands(line, 0, method) /\ Stands(line, 0 + Len(method), <<Space>>)
    <3> HIDE DEF l
    <3> QED
      BY <1>1, <1>2, <2>1, StandsParts
  <2> QED
    BY <2>1, <2>2
<1>9. Stands(line, l + 1, uri) /\ Stands(line, (l + 1) + m, <<Space>>)
  <2>1. l + 1 \in Nat
    BY <1>3
  <2> QED
    BY <1>1, <1>2, <1>7, <2>1, StandsParts
<1> HIDE DEF b, l, m
<1>10. ASSUME NEW k \in Nat, Stands(line, k, <<Space>>)
       PROVE  At(line, k) \in White /\ k < Len(line)
  <2>1. k + 1 <= Len(line) /\ Len(line) \in Nat /\ line[k + 1] = <<Space>>[1]
    BY <1>1, <1>2, <1>10 DEF Stands
  <2> QED
    BY <1>1, <2>1 DEF At
<1>11. PICK from : from \in [0..Len(line) -> Seq(Seq(S))] /\ AreWords(line, from)
  BY <1>2, WordsFound
<1>12. from[0] = <<method>> \o from[l + 1]
  <2>1. 0 \in Nat /\ 0 + Len(method) = l /\ 0 + Len(method) + 1 = l + 1
    BY <1>3 DEF l
  <2>2. l < Len(line) /\ At(line, l) \in White
    BY <1>3, <1>8, <1>10
  <2>3. from[0] = <<method>> \o from[0 + Len(method) + 1]
    <3> DEFINE k == 0
    <3>1. /\ k \in Nat /\ Stands(line, k, method) /\ k + Len(method) < Len(line)
          /\ At(line, k + Len(method)) \in White
      BY <1>8, <2>1, <2>2
    <3> HIDE DEF k
    <3>2. from[k] = <<method>> \o from[k + Len(method) + 1]
      <4>1. IsWord(line, k, method, S)
        BY <1>2, <3>1 DEF IsWord
      <4>2. AreWords(line, from)
        BY <1>11
      <4> QED
        BY <4>1, <4>2, WordStands
    <3> QED
      BY <3>2 DEF k
  <2> QED
    BY <2>1, <2>3
<1>13. from[l + 1] = <<uri>> \o from[l + 1 + m + 1] /\ l + 1 + m + 1 \in 0..Len(line)
  <2>1. l + 1 \in Nat /\ l + 1 + m \in Nat /\ m = Len(uri)
    BY <1>3 DEF m
  <2>2. l + 1 + m < Len(line) /\ At(line, l + 1 + m) \in White
    BY <1>9, <1>10, <2>1
  <2>3. l + 1 + m + 1 \in 0..Len(line)
    BY <1>2, <2>1, <2>2
  <2>4. from[l + 1] = <<uri>> \o from[l + 1 + Len(uri) + 1]
    <3> DEFINE k == l + 1
    <3>1. /\ k \in Nat /\ Stands(line, k, uri) /\ k + Len(uri) < Len(line)
          /\ At(line, k + Len(uri)) \in White
      BY <1>9, <2>1, <2>2
    <3> HIDE DEF k
    <3>2. from[k] = <<uri>> \o from[k + Len(uri) + 1]
      <4>1. IsWord(line, k, uri, S)
        BY <1>2, <3>1 DEF IsWord
      <4>2. AreWords(line, from)
        BY <1>11
      <4> QED
        BY <4>1, <4>2, WordStands
    <3> QED
      BY <3>2 DEF k
  <2> QED
    BY <2>1, <2>3, <2>4
<1> DEFINE rest == from[l + 1 + m + 1]
<1>14. rest \in Seq(Seq(S))
  BY <1>11, <1>13
<1> HIDE DEF rest
<1>15. Words(line) = <<method>> \o (<<uri>> \o rest)
  BY <1>11, <1>12, <1>13 DEF AreWords, rest
<1>16. (<<method>> \o (<<uri>> \o rest))[2] = uri
  <2>1. /\ <<uri>> \in Seq(Seq(S)) /\ Len(<<uri>>) = 1 /\ <<uri>>[1] = uri
        /\ <<method>> \in Seq(Seq(S)) /\ Len(<<method>>) = 1 /\ Len(rest) \in Nat
    BY <1>14
  <2>2. /\ <<uri>> \o rest \in Seq(Seq(S)) /\ Len(<<uri>> \o rest) = 1 + Len(rest)
        /\ (<<uri>> \o rest)[1] = uri
    BY <1>14, <2>1, ConcatProperties
  <2> DEFINE c == <<uri>> \o rest
  <2> HIDE DEF c
  <2>3. c \in Seq(Seq(S)) /\ Len(c) = 1 + Len(rest) /\ c[1] = uri
    BY <2>2 DEF c
  <2>4. (<<method>> \o c)[2] = c[1]
    BY <2>1, <2>3, ConcatProperties
  <2> QED
    BY <2>3, <2>4 DEF c
<1> QED
  BY <1>15, <1>16 DEF line, a, b

LEMMA CharacterStands ==
    ASSUME NEW S, NEW d \in Seq(S), NEW j \in Nat, j < Len(d), NEW c
    PROVE  Substr(d, j, Len(<<c>>)) = <<c>> <=> d[j + 1] = c
<1>1. Len(<<c>>) = 1 /\ <<c>>[1] = c /\ 1 \in Nat /\ j + 1 <= Len(d) /\ 1 \in 1..1
  OBVIOUS
<1> DEFINE s == Substr(d, j, 1)
<1>2. s \in Seq(S) /\ Len(s) = 1 /\ \A i \in 1..1 : s[i] = d[j + i]
  <2> DEFINE n == 1
  <2>1. n \in Nat /\ j + n <= Len(d)
    BY <1>1
  <2> HIDE DEF n
  <2>2. /\ Substr(d, j, n) \in Seq(S) /\ Len(Substr(d, j, n)) = n
        /\ \A i \in 1..n : Substr(d, j, n)[i] = d[j + i]
    BY <2>1, SubstrInside
  <2> QED
    BY <2>2 DEF n
<1> HIDE DEF s
<1>3. s = <<c>> <=> s[1] = c
  <2>1. s[1] \in S
    BY <1>1, <1>2, ElementOfSeq
  <2>2. s = <<s[1]>>
    <3>1. <<s[1]>> \in Seq(S) /\ Len(<<s[1]>>) = 1 /\ \A i \in 1..1 : <<s[1]>>[i] = s[i]
      BY <2>1
    <3> QED
      BY <1>2, <3>1, SeqEqual
  <2> QED
    BY <2>2
<1> QED
  BY <1>1, <1>2, <1>3 DEF s

\* What the client writes before the first question mark is cut from what is behind it.
LEMMA QueryCut ==
    ASSUME NEW S, "?" \in S, NEW w \in Seq(S), "?" \notin ToSet(w), NEW query \in Seq(S)
    PROVE  /\ CutQuery(w) = [uri |-> w, query |-> <<>>]
           /\ CutQuery(w \o (<<"?">> \o query)) = [uri |-> w, query |-> query]
<1> DEFINE P(d) == {j \in Positions(d) : j >= 0 /\ Substr(d, j, Len(<<"?">>)) = <<"?">>}
           n == Len(w)
<1>1. \A d : Find(d, <<"?">>, 0) = First(P(d))
  BY DEF Find
<1>2. ASSUME NEW d \in Seq(S), NEW j
      PROVE  j \in P(d) <=> j \in Nat /\ j < Len(d) /\ d[j + 1] = "?"
  <2>1. Len(d) \in Nat
    OBVIOUS
  <2>2. j \in Positions(d) <=> j \in Nat /\ j < Len(d)
    BY <2>1 DEF Positions
  <2>3. j \in Nat /\ j < Len(d) => (Substr(d, j, Len(<<"?">>)) = <<"?">> <=> d[j + 1] = "?")
    BY CharacterStands
  <2> QED
    BY <2>2, <2>3
<1> HIDE DEF P
<1>3. \A i \in 1..n : w[i] # "?"
  BY DEF ToSet
<1>4. n \in Nat
  OBVIOUS
<1>5. CutQuery(w) = [uri |-> w, query |-> <<>>]
  <2>1. P(w) = {}
    <3> SUFFICES ASSUME NEW j \in P(w) PROVE FALSE
      OBVIOUS
    <3>1. j \in Nat /\ j < Len(w) /\ w[j + 1] = "?"
      BY <1>2
    <3>2. j + 1 \in 1..n
      BY <1>4, <3>1
    <3> QED
      BY <1>3, <3>1, <3>2
  <2>2. Find(w, <<"?">>, 0) = npos
    BY <1>1, <2>1 DEF First
  <2> QED
    BY <2>2 DEF CutQuery
<1> DEFINE q == <<"?">> \o query
           d == w \o q
<1>6. q \in Seq(S) /\ Len(q) = 1 + Len(query) /\ q[1] = "?" /\ <<"?">> \in Seq(S)
  BY ConcatProperties
<1> HIDE DEF q
<1>7. d \in Seq(S) /\ Len(d) = n + Len(q) /\ Len(query) \in Nat
  <2>1. Len(query) \in Nat
    OBVIOUS
  <2>2. w \in Seq(S) /\ q \in Seq(S)
    BY <1>6
  <2>3. w \o q \in Seq(S) /\ Len(w \o q) = Len(w) + Len(q)
    BY <2>2, ConcatProperties
  <2> QED
    BY <2>1, <2>3
<1>8. Stands(d, 0, w) /\ Stands(d, n, q)
  <2>1. 0 + Len(d) <= Len(d) /\ \A i \in 1..Len(d) : d[0 + i] = d[i]
    <3> HIDE DEF d
    <3> QED
      BY <1>7
  <2>2. Stands(d, 0, w \o q)
    <3> DEFINE e == w \o q
    <3>1. 0 + Len(e) <= Len(e) /\ \A i \in 1..Len(e) : d[0 + i] = e[i]
      BY <2>1
    <3> HIDE DEF e
    <3>2. d = e
      BY DEF e
    <3> HIDE DEF d
    <3> QED
      BY <3>1, <3>2 DEF Stands, e
  <2>3. 0 \in Nat /\ 0 + n = n
    BY <1>4
  <2> HIDE DEF d
  <2> QED
    BY <1>6, <1>7, <2>2, <2>3, StandsParts
<1> HIDE DEF d
<1>9. Find(d, <<"?">>, 0) = n
  <2>1. n \in P(d)
    <3>1. d[n + 1] = q[1] /\ n < Len(d)
      BY <1>4, <1>6, <1>7, <1>8 DEF Stands
    <3> QED
      BY <1>2, <1>4, <1>6, <1>7, <3>1
  <2>2. \A j \in P(d) : n <= j
    <3> SUFFICES ASSUME NEW j \in P(d), ~(n <= j) PROVE FALSE
      OBVIOUS
    <3>1. j \in Nat /\ d[j + 1] = "?"
      BY <1>2, <1>7
    <3>2. j + 1 \in 1..n /\ 0 + (j + 1) = j + 1
      BY <1>4, <3>1
    <3>3. d[0 + (j + 1)] = w[j + 1]
      BY <1>8, <3>2 DEF Stands
    <3> QED
      BY <1>3, <3>1, <3>2, <3>3
  <2>3. P(d) \in SUBSET Nat
    BY <1>2, <1>7
  <2>4. First(P(d)) = n
    BY <2>1, <2>2, <2>3, FirstIs
  <2> QED
    BY <1>1, <2>4
<1>10. Substr(d, 0, n) = w
  <2>1. 0 \in Nat
    OBVIOUS
  <2> QED
    BY <1>7, <1>8, <2>1, StandsSubstr
<1>11. Substr(d, n + 1, Len(d)) = query
  <2>1. Len(<<"?">>) = 1 /\ n + 1 \in Nat
    BY <1>4
  <2>2. Stands(d, n + 1, query)
    <3>1. Stands(d, n, <<"?">> \o query)
      BY <1>8 DEF q
    <3>2. Stands(d, n + Len(<<"?">>), query)
      BY <1>4, <1>6, <1>7, <3>1, StandsParts
    <3> QED
      BY <2>1, <3>2
  <2>3. Substr(d, n + 1, Len(query)) = query
    BY <1>7, <2>1, <2>2, StandsSubstr
  <2>4. n + 1 \in 0..Len(d) /\ Len(d) \in Nat /\ Len(d) <= (n + 1) + Len(d) /\ Len(d) - (n + 1) = Len(query)
    BY <1>4, <1>6, <1>7
  <2>5. Substr(d, n + 1, Len(d)) = Substr(d, n + 1, Len(d) - (n + 1))
    BY <1>7, <2>4, SubstrRest
  <2> QED
    BY <2>3, <2>4, <2>5
<1>12. n # npos
  BY <1>4 DEF npos
<1> HIDE DEF n
<1>13. CutQuery(d) = [uri |-> w, query |-> query]
  BY <1>9, <1>10, <1>11, <1>12 DEF CutQuery
<1> QED
  BY <1>5, <1>13 DEF d, q

\* What is decoded from a position on
CodeAt(s, k) == Character[Strtoul(<<At(s, k + 1), At(s, k + 2)>>)]
DecodedFrom(s, from, k) ==
    IF k = Len(s) THEN <<>>
    ELSE IF IsCode(s, k) THEN <<CodeAt(s, k)>> \o from[k + 3]
    ELSE <<At(s, k)>> \o from[k + 1]
AreDecoded(s, from) ==
    urlDecode(s) = from[0] /\ \A k \in 0..Len(s) : from[k] = DecodedFrom(s, from, k)

LEMMA DecodedFound ==
    ASSUME NEW S, NEW s \in Seq(S)
    PROVE  \E from : AreDecoded(s, from)
<1> DEFINE n == Len(s)
           C == {CodeAt(s, k) : k \in 0..n} \cup {At(s, k) : k \in 0..n}
           T == Seq(C)
           code(k) == <<Character[Strtoul(<<At(s, k + 1), At(s, k + 2)>>)]>>
           char(k) == <<At(s, k)>>
           E == {n}
           a == [k \in 0..n |-> <<>>]
           next == [k \in 0..n |-> IF IsCode(s, k) THEN k + 3 ELSE k + 1]
           F == [k \in 0..n |-> [x \in T |-> IF IsCode(s, k) THEN code(k) \o x ELSE char(k) \o x]]
           Step(f, k) == IF k = n THEN <<>> ELSE IF IsCode(s, k) THEN code(k) \o f[k + 3] ELSE char(k) \o f[k + 1]
           Is(f) == f = [k \in 0..n |-> Step(f, k)]
           from  == CHOOSE f : Is(f)
<1>1. n \in Nat
  OBVIOUS
<1>2. \A k \in 0..n : code(k) \in T /\ char(k) \in T
  <2> SUFFICES ASSUME NEW k \in 0..n PROVE code(k) \in T /\ char(k) \in T
    OBVIOUS
  <2>1. CodeAt(s, k) \in C /\ At(s, k) \in C
    BY Zenon
  <2> HIDE DEF C
  <2>2. <<CodeAt(s, k)>> \in Seq(C) /\ <<At(s, k)>> \in Seq(C)
    BY <2>1
  <2> QED
    BY <2>2 DEF CodeAt
<1>3. E \in SUBSET (0..n) /\ a \in [0..n -> T]
  <2>1. <<>> \in T
    OBVIOUS
  <2> HIDE DEF T
  <2> QED
    BY <1>1, <2>1
<1>4. \A k \in (0..n) \ E : next[k] \in (k + 1)..n
  <2> SUFFICES ASSUME NEW k \in 0..n, k # n PROVE next[k] \in (k + 1)..n
    OBVIOUS
  <2>1. IsCode(s, k) => k + 2 < n
    BY DEF IsCode
  <2>2. next[k] = IF IsCode(s, k) THEN k + 3 ELSE k + 1
    OBVIOUS
  <2> HIDE DEF next, n
  <2> QED
    BY <1>1, <2>1, <2>2
<1>5. F \in [0..n -> [T -> T]]
  <2>1. \A k \in 0..n : \A x \in T : code(k) \o x \in T /\ char(k) \o x \in T
    <3> HIDE DEF code, char, n
    <3> QED
      BY <1>2, ConcatProperties
  <2> HIDE DEF T, code, char, n
  <2> QED
    BY <2>1
<1>6. \E f : Is(f)
  <2>1. DefinedBackward(T, n, E, a, next, F)
    <3> HIDE DEF T, n, E, a, next, F
    <3> QED
      BY <1>1, <1>3, <1>4, <1>5, BackwardRecursion
  <2>2. PICK f \in [0..n -> T] : \A k \in 0..n : f[k] = IF k \in E THEN a[k] ELSE F[k][f[next[k]]]
    BY <2>1 DEF DefinedBackward
  <2>3. \A k \in 0..n : f[k] = Step(f, k)
    <3> SUFFICES ASSUME NEW k \in 0..n PROVE f[k] = Step(f, k)
      OBVIOUS
    <3>1. CASE k = n
      <4>1. f[k] = a[k] /\ a[k] = <<>>
        BY <2>2, <3>1
      <4> QED
        BY <3>1, <4>1
    <3>2. CASE k # n
      <4>1. next[k] \in (k + 1)..n
        BY <1>4, <3>2
      <4>2. next[k] \in 0..n
        <5> HIDE DEF next, n
        <5> QED
          BY <1>1, <4>1
      <4>3. f[next[k]] \in T
        BY <2>2, <4>2
      <4>4. f[k] = F[k][f[next[k]]]
        BY <2>2, <3>2
      <4>5. \A x \in T : F[k][x] = IF IsCode(s, k) THEN code(k) \o x ELSE char(k) \o x
        <5> HIDE DEF code, char, T, n
        <5> QED
          OBVIOUS
      <4>6. next[k] = IF IsCode(s, k) THEN k + 3 ELSE k + 1
        OBVIOUS
      <4> HIDE DEF F, next, T, n, code, char
      <4> QED
        BY <3>2, <4>3, <4>4, <4>5, <4>6
    <3> QED
      BY <3>1, <3>2
  <2>4. Is(f)
    <3> HIDE DEF Step, n
    <3> QED
      BY <2>3
  <2> QED
    BY <2>4
<1>7. Is(from)
  <2> HIDE DEF Is
  <2> QED
    BY <1>6
<1>8. urlDecode(s) = from[0]
  BY DEF urlDecode
<1> HIDE DEF from
<1>9. \A k \in 0..n : from[k] = Step(from, k)
  <2> HIDE DEF Step, n
  <2> QED
    BY <1>7
<1>10. \A k \in 0..n : from[k] = DecodedFrom(s, from, k)
  <2>1. \A k : Step(from, k) = DecodedFrom(s, from, k)
    BY Zenon DEF DecodedFrom, CodeAt
  <2> QED
    BY <1>9, <2>1
<1> QED
  BY <1>8, <1>10 DEF AreDecoded

\* A name is written with its characters, and with codes of two digits.
IsWritten(w, from, to, c) ==
    \/ to = from + 1 /\ At(w, from) = c /\ c # "%"
    \/ /\ to = from + 3 /\ At(w, from) = "%" /\ CodeAt(w, from) = c
       /\ {At(w, from + 1), At(w, from + 2)} \subseteq DOMAIN Digit
Spells(w, name) ==
    \E at \in [0..Len(name) -> Nat] :
       /\ at[0] = 0 /\ at[Len(name)] = Len(w)
       /\ \A k \in 1..Len(name) : IsWritten(w, at[k - 1], at[k], name[k])

LEMMA SpelledDecode ==
    ASSUME NEW S, NEW w \in Seq(S), NEW N, NEW name \in Seq(N), Spells(w, name)
    PROVE  urlDecode(w) = name
<1> DEFINE n == Len(name)
           l == Len(w)
<1>1. n \in Nat /\ l \in Nat
  OBVIOUS
<1>2. PICK at \in [0..n -> Nat] :
        /\ at[0] = 0 /\ at[n] = l
        /\ \A k \in 1..n : IsWritten(w, at[k - 1], at[k], name[k])
  BY DEF Spells
<1>3. PICK from : AreDecoded(w, from)
  BY DecodedFound
<1>4. \A k \in 0..l : from[k] = DecodedFrom(w, from, k)
  BY <1>3 DEF AreDecoded
<1> DEFINE rest(m) == SubSeq(name, m + 1, n)
           U == {i \in Nat : i <= n => at[n - i] <= l /\ from[at[n - i]] = rest(n - i)}
<1> HIDE DEF l
<1>5. 0 \in U
  <2>1. n - 0 = n /\ rest(n) = <<>>
    OBVIOUS
  <2>2. from[l] = <<>>
    <3>1. from[l] = DecodedFrom(w, from, l)
      BY <1>1, <1>4
    <3>2. DecodedFrom(w, from, l) = <<>>
      BY DEF DecodedFrom, l
    <3> QED
      BY <3>1, <3>2
  <2> HIDE DEF rest, n
  <2> QED
    BY <1>1, <1>2, <2>1, <2>2
<1>6. ASSUME NEW i \in Nat, i \in U PROVE i + 1 \in U
  <2> SUFFICES ASSUME i + 1 <= n
               PROVE  at[n - (i + 1)] <= l /\ from[at[n - (i + 1)]] = rest(n - (i + 1))
    OBVIOUS
  <2> DEFINE m == n - i
             k == at[m - 1]
             j == at[m]
             c == name[m]
  <2>1. m \in 1..n /\ n - (i + 1) = m - 1 /\ m - 1 \in 0..n /\ m \in 0..n
    BY <1>1
  <2>2. j <= l /\ from[j] = rest(m)
    BY <1>6
  <2>3. k \in Nat /\ j \in Nat /\ IsWritten(w, k, j, c)
    BY <1>2, <2>1
  <2> HIDE DEF m, rest
  <2>4. c \in N
    BY <2>1, ElementOfSeq
  <2>5. <<c>> \o rest(m) = rest(m - 1)
    BY <1>1, <2>1 DEF rest
  <2> HIDE DEF k, j, c
  <2>6. k <= l /\ from[k] = <<c>> \o from[j]
    <3>1. CASE j = k + 1 /\ At(w, k) = c /\ c # "%"
      <4>1. k \in 0..l /\ k # l
        BY <1>1, <2>2, <2>3, <3>1
      <4>2. ~IsCode(w, k)
        BY <3>1 DEF IsCode
      <4>3. DecodedFrom(w, from, k) = <<c>> \o from[j]
        BY <3>1, <4>1, <4>2 DEF DecodedFrom, l
      <4>4. from[k] = DecodedFrom(w, from, k)
        BY <1>4, <4>1
      <4>5. k <= l
        BY <1>1, <4>1
      <4> QED
        BY <4>3, <4>4, <4>5
    <3>2. CASE /\ j = k + 3 /\ At(w, k) = "%" /\ CodeAt(w, k) = c
               /\ {At(w, k + 1), At(w, k + 2)} \subseteq DOMAIN Digit
      <4>1. k \in 0..l /\ k # l /\ k + 2 < l
        BY <1>1, <2>2, <2>3, <3>2
      <4>2. IsCode(w, k)
        BY <3>2, <4>1 DEF IsCode, l
      <4>3. DecodedFrom(w, from, k) = <<c>> \o from[j]
        BY <3>2, <4>1, <4>2 DEF DecodedFrom, l
      <4>4. from[k] = DecodedFrom(w, from, k)
        BY <1>4, <4>1
      <4>5. k <= l
        BY <1>1, <4>1
      <4> QED
        BY <4>3, <4>4, <4>5
    <3> QED
      BY <2>3, <3>1, <3>2 DEF IsWritten
  <2> QED
    BY <2>1, <2>2, <2>5, <2>6 DEF k
<1>7. Nat \subseteq U
  <2> HIDE DEF U
  <2> QED
    BY <1>5, <1>6, SetInduction
<1>8. from[0] = rest(0)
  <2>0. n \in U
    <3> HIDE DEF U, n
    <3> QED
      BY <1>1, <1>7
  <2>1. n <= n /\ n - n = 0
    BY <1>1
  <2>2. from[at[n - n]] = rest(n - n)
    <3> HIDE DEF rest, n
    <3> QED
      BY <2>0, <2>1
  <2> HIDE DEF rest, n
  <2> QED
    BY <1>2, <2>1, <2>2
<1>9. rest(0) = name
  OBVIOUS
<1> QED
  BY <1>3, <1>8, <1>9 DEF AreDecoded

LEMMA FirstLineIs ==
    ASSUME NEW S, CR \in S, LF \in S, NEW line \in Seq(S), CR \notin ToSet(line), NEW rest \in Seq(S)
    PROVE  Line(line) \o rest \in Seq(S) /\ FirstLine(Line(line) \o rest) = line
<1> DEFINE d == Line(line) \o rest
           n == Len(line)
<1>1. Line(line) \in Seq(S)
  BY CRLFType
<1>2. d \in Seq(S) /\ Stands(d, 0, Line(line)) /\ n \in Nat
  <2>1. d \in Seq(S)
    BY <1>1, ConcatProperties
  <2>2. Stands(d, 0, Line(line))
    BY <1>1, StandsFirst
  <2> QED
    BY <2>1, <2>2
<1> HIDE DEF d
<1>3. Stands(d, 0, line) /\ IsCRLF(d, n)
  <2> DEFINE z == 0
  <2>1. z \in Nat /\ Stands(d, z, Line(line)) /\ z + Len(line) = n
    BY <1>2
  <2> HIDE DEF z, n
  <2>2. Stands(d, z, line) /\ IsCRLF(d, z + Len(line))
    BY <1>2, <2>1, StandsLine
  <2> QED
    BY <2>1, <2>2 DEF z
<1>4. \A j \in Nat : 0 <= j /\ j < n => ~IsCRLF(d, j)
  <2> SUFFICES ASSUME NEW j \in Nat, j < n PROVE At(d, j) # CR
    BY DEF IsCRLF
  <2>1. j + 1 \in 1..n /\ j < Len(d)
    BY <1>2, <1>3 DEF Stands
  <2>2. d[0 + (j + 1)] = line[j + 1] /\ 0 + (j + 1) = j + 1
    BY <1>3, <2>1 DEF Stands
  <2>3. line[j + 1] # CR
    BY <2>1 DEF ToSet
  <2> QED
    BY <2>1, <2>2, <2>3 DEF At
<1>5. FindCRLF(d, 0) = n
  <2> DEFINE z == 0
  <2>1. z \in Nat /\ z <= n /\ \A j \in Nat : z <= j /\ j < n => ~IsCRLF(d, j)
    BY <1>2, <1>4
  <2> HIDE DEF z, n
  <2>2. FindCRLF(d, z) = n
    BY <1>2, <1>3, <2>1, LineEndIs
  <2> QED
    BY <2>2 DEF z
<1>6. Substr(d, 0, n) = line
  <2> DEFINE z == 0
  <2>1. z \in Nat /\ Stands(d, z, line)
    BY <1>3
  <2> HIDE DEF z
  <2>2. Substr(d, z, Len(line)) = line
    BY <1>2, <2>1, StandsSubstr
  <2> QED
    BY <2>2 DEF z
<1> HIDE DEF n
<1>7. FirstLine(d) = line
  BY <1>5, <1>6 DEF FirstLine
<1> QED
  BY <1>2, <1>7 DEF d

LEMMA FirstLineInPart ==
    ASSUME NEW S, NEW d \in Seq(S), NEW n \in 0..Len(d), FindCRLF(Substr(d, 0, n), 0) # npos
    PROVE  FirstLine(Substr(d, 0, n)) = FirstLine(d)
<1> DEFINE p == Substr(d, 0, n)
           e == FindCRLF(d, 0)
<1>1. 0 \in Nat /\ Len(d) \in Nat
  OBVIOUS
<1>2. FindCRLF(p, 0) = e /\ e # npos /\ e + 2 <= n
  <2>1. FindCRLF(p, 0) = IF e # npos /\ e + 2 <= n THEN e ELSE npos
    BY <1>1, LineEndInPart
  <2> HIDE DEF p, e
  <2> QED
    BY <2>1 DEF p
<1>3. e \in Nat
  BY <1>1, <1>2, LineEndFound
<1>4. Substr(p, 0, e) = Substr(d, 0, e)
  <2>1. \A k, l \in Nat : k + l <= n => Substr(p, k, l) = Substr(d, k, l)
    BY PartSays
  <2>2. 0 + e <= n
    BY <1>2, <1>3
  <2> HIDE DEF p, e
  <2> QED
    BY <1>1, <1>3, <2>1, <2>2
<1> QED
  BY <1>2, <1>4 DEF FirstLine

\* Only a text with a head is found complete.
LEMMA HeadHeld ==
    ASSUME NEW raw, Parse(raw).status = "SUCCESS"
    PROVE  /\ HasHead(raw) /\ FindCRLF(raw, 0) # npos /\ Separator(raw) # npos
           /\ Parse(raw).target = Target(FirstLine(raw)) /\ Parse(raw).headers = Fields(HeaderText(raw))
<1> DEFINE t == Target(FirstLine(raw))
           h == Fields(HeaderText(raw))
<1>1. /\ Verdict("INCOMPLETE", NoTarget, NoHeaders, <<>>).status # "SUCCESS"
      /\ Verdict("ERROR", NoTarget, NoHeaders, <<>>).status # "SUCCESS"
      /\ Verdict("INCOMPLETE", t, NoHeaders, <<>>).status # "SUCCESS"
      /\ Verdict("ERROR", t, h, <<>>).status # "SUCCESS"
  BY DEF Verdict
<1>2. HasHead(raw) /\ Parse(raw) = Accepted(raw)
  BY <1>1, ParseCases DEF HasHead, HasFirstLine
<1> DEFINE o == ParseBody(h, BodyText(raw))
<1>3. Accepted(raw).target = t /\ Accepted(raw).headers = h
  BY AcceptedSays
<1> QED
  BY <1>2, <1>3 DEF HasHead, HasFirstLine

\* A request names its target in its first line: a name with its characters or their codes,
\* and a query behind the first question mark, if there is one.
Signs(r) == ToSet(r.bytes) \cup {CR, LF, Space, "?"}
IsAimed(r) ==
    \E method, name, uri, version, rest \in Seq(Signs(r)) :
       /\ method # <<>> /\ NoWhite(method)
       /\ name # <<>> /\ NoWhite(uri) /\ CR \notin ToSet(version)
       /\ r.target \in [uri : Seq(ToSet(r.target.uri)), query : Seq(Signs(r))]
       /\ "?" \notin ToSet(name) /\ Spells(name, r.target.uri)
       /\ \/ uri = name /\ r.target.query = <<>>
          \/ uri = name \o (<<"?">> \o r.target.query)
       /\ r.bytes = Line((method \o <<Space>>) \o ((uri \o <<Space>>) \o version)) \o rest

LEMMA AimedParsed ==
    ASSUME NEW r, IsAimed(r), NEW n \in 0..Len(r.bytes),
           Parse(Substr(r.bytes, 0, n)).status = "SUCCESS"
    PROVE  Parse(Substr(r.bytes, 0, n)).target = r.target
<1> DEFINE S == Signs(r)
           d == r.bytes
           p == Substr(d, 0, n)
<1>1. PICK method \in Seq(S), name \in Seq(S), uri \in Seq(S), version \in Seq(S), rest \in Seq(S) :
       /\ method # <<>> /\ NoWhite(method)
       /\ name # <<>> /\ NoWhite(uri) /\ CR \notin ToSet(version)
       /\ r.target \in [uri : Seq(ToSet(r.target.uri)), query : Seq(S)]
       /\ "?" \notin ToSet(name) /\ Spells(name, r.target.uri)
       /\ \/ uri = name /\ r.target.query = <<>>
          \/ uri = name \o (<<"?">> \o r.target.query)
       /\ d = Line((method \o <<Space>>) \o ((uri \o <<Space>>) \o version)) \o rest
  BY DEF IsAimed
<1>2. CR \in S /\ LF \in S /\ Space \in S /\ "?" \in S
  BY DEF Signs
<1> DEFINE line == (method \o <<Space>>) \o ((uri \o <<Space>>) \o version)
           query == r.target.query
           spelled == r.target.uri
<1>3. r.target = [uri |-> spelled, query |-> query] /\ spelled \in Seq(ToSet(spelled)) /\ query \in Seq(S)
  BY <1>1
<1> HIDE DEF S, d, query, spelled
<1>4. uri # <<>>
  <2>1. Len(name) # 0 /\ Len(name) \in Nat
    BY <1>1
  <2>2. CASE uri = name
    BY <1>1, <2>2
  <2>3. CASE uri = name \o (<<"?">> \o query)
    <3> DEFINE q == <<"?">> \o query
    <3>1. q \in Seq(S)
      BY <1>2, <1>3, ConcatProperties
    <3> HIDE DEF q
    <3>2. Len(name \o q) = Len(name) + Len(q) /\ Len(q) \in Nat
      BY <3>1, ConcatProperties
    <3>3. Len(uri) # 0
      BY <2>1, <2>3, <3>2 DEF q
    <3> QED
      BY <3>3
  <2> QED
    BY <1>1, <2>2, <2>3 DEF query
<1>5. line \in Seq(S) /\ CR \notin ToSet(line)
  <2>1. <<Space>> \in Seq(S) /\ CR \notin ToSet(<<Space>>)
    <3>1. Space # CR
      BY Zenon DEF Space, CR
    <3>2. <<Space>> \in Seq(S) /\ DOMAIN <<Space>> = 1..1 /\ <<Space>>[1] = Space
      BY <1>2
    <3> QED
      BY <3>1, <3>2 DEF ToSet
  <2>2. CR \notin ToSet(method) /\ CR \notin ToSet(uri)
    <3>1. CR \in White
      BY Zenon DEF White
    <3> QED
      BY <1>1, <3>1 DEF NoWhite
  <2> DEFINE a == method \o <<Space>>
             b == uri \o <<Space>>
             c == b \o version
  <2>3. a \in Seq(S) /\ CR \notin ToSet(a)
    BY <2>1, <2>2, NotInEither, ConcatProperties
  <2>4. b \in Seq(S) /\ CR \notin ToSet(b)
    BY <2>1, <2>2, NotInEither, ConcatProperties
  <2> HIDE DEF a, b
  <2>5. c \in Seq(S) /\ CR \notin ToSet(c)
    BY <1>1, <2>4, NotInEither, ConcatProperties
  <2> HIDE DEF c
  <2>6. a \o c \in Seq(S) /\ CR \notin ToSet(a \o c)
    BY <2>3, <2>5, NotInEither, ConcatProperties
  <2> QED
    BY <2>6 DEF a, b, c
<1>6. d \in Seq(S) /\ FirstLine(d) = line
  <2> HIDE DEF line
  <2>1. Line(line) \o rest \in Seq(S) /\ FirstLine(Line(line) \o rest) = line
    BY <1>2, <1>5, FirstLineIs
  <2> QED
    BY <1>1, <2>1 DEF line
<1>7. Words(line)[2] = uri
  BY <1>1, <1>2, <1>4, SecondWord
<1> HIDE DEF line
<1>8. CutQuery(uri) = [uri |-> name, query |-> query]
  <2>1. /\ CutQuery(name) = [uri |-> name, query |-> <<>>]
        /\ CutQuery(name \o (<<"?">> \o query)) = [uri |-> name, query |-> query]
    BY <1>1, <1>2, <1>3, QueryCut
  <2> QED
    BY <1>1, <2>1 DEF query
<1>9. urlDecode(name) = spelled
  <2>1. Spells(name, spelled)
    BY <1>1 DEF spelled
  <2> QED
    BY <1>3, <2>1, SpelledDecode
<1>10. Target(line) = r.target
  BY <1>3, <1>7, <1>8, <1>9 DEF Target
<1>11. n \in 0..Len(d) /\ p \in Seq(S)
  <2>1. n \in 0..Len(d)
    BY DEF d
  <2> QED
    BY <1>6, <2>1, PartSays
<1>12. FindCRLF(p, 0) # npos /\ Parse(p).target = Target(FirstLine(p))
  <2>1. Parse(p).status = "SUCCESS"
    BY DEF d
  <2> HIDE DEF p
  <2> QED
    BY <1>11, <2>1, HeadHeld
<1>13. FirstLine(p) = line
  BY <1>6, <1>11, <1>12, FirstLineInPart
<1> HIDE DEF p
<1>14. Parse(p).target = r.target
  BY <1>10, <1>12, <1>13
<1> QED
  BY <1>14 DEF p, d

\* What clients send names its target so, but for what is marked as something else.
SentAimed == \A r \in Sent : r.valid => IsAimed(r)

\* Whatever a client names, with codes or without, with a query or without, and wherever the
\* reads end: the URI is that name and the query what was written behind the first mark. A
\* mark in the name, written with its code, begins no query, and no code is decoded twice.
THEOREM TargetsArrive == ASSUME SentTexts, SentAimed PROVE Spec => []TargetArrives
<1>1. Parsed => TargetArrives
  <2> SUFFICES ASSUME Parsed, sent.valid, status = "SUCCESS" PROVE target = sent.target
    BY DEF TargetArrives
  <2> DEFINE outcome == Parse(Part(received))
  <2>1. IsAimed(sent) /\ received \in 0..Len(sent.bytes)
    BY DEF Parsed, SentAimed
  <2>2. outcome.status = "SUCCESS" /\ target = outcome.target
    BY DEF Parsed
  <2>3. outcome.target = sent.target
    BY <2>1, <2>2, AimedParsed DEF Part
  <2> HIDE DEF outcome
  <2> QED
    BY <2>2, <2>3
<1>2. Spec => []Parsed
  BY HoldsParsed
<1> QED
  BY <1>1, <1>2, PTL

-----------------------------------------------------------------------------
(* Texts that are made of pieces *)

\* What stands in a text says what is in it.
LEMMA NoneStands ==
    ASSUME NEW S, NEW d \in Seq(S), NEW k \in Nat, NEW w \in Seq(S), Stands(d, k, w),
           NEW C, \A i \in 1..Len(w) : w[i] \notin C
    PROVE  \A j \in Nat : k <= j /\ j < k + Len(w) => At(d, j) \notin C
<1> SUFFICES ASSUME NEW j \in Nat, k <= j, j < k + Len(w) PROVE At(d, j) \notin C
  OBVIOUS
<1> DEFINE i == j - k
<1>1. i \in Nat /\ i < Len(w) /\ k + i = j /\ i + 1 \in 1..Len(w)
  OBVIOUS
<1>2. At(d, k + i) = At(w, i)
  <2> HIDE DEF i
  <2> QED
    BY <1>1, StandsAt
<1>3. At(w, i) = w[i + 1]
  BY <1>1 DEF At
<1> QED
  BY <1>1, <1>2, <1>3

\* The lines of a text, one behind the line end of the other
LinesAt(text, lines, at) ==
    /\ lines # <<>> /\ at[0] = 0
    /\ \A k \in 1..Len(lines) :
          at[k - 1] \in Nat /\ CR \notin ToSet(lines[k]) /\ Stands(text, at[k - 1], lines[k])
    /\ \A k \in 1..Len(lines) : k < Len(lines) =>
          at[k] = at[k - 1] + Len(lines[k]) + 2 /\ IsCRLF(text, at[k - 1] + Len(lines[k]))
    /\ at[Len(lines) - 1] + Len(lines[Len(lines)]) = Len(text)

LEMMA LinesAre ==
    ASSUME NEW S, NEW text \in Seq(S), NEW lines \in Seq(Seq(S)), NEW at, LinesAt(text, lines, at)
    PROVE  Lines(text) = lines
<1> DEFINE n == Len(lines)
           end == LineEnds(text)
<1>1. n \in Nat /\ n > 0 /\ Len(text) \in Nat /\ \A k \in 1..n : lines[k] \in Seq(S) /\ Len(lines[k]) \in Nat
  BY DEF LinesAt
<1>2. \A k \in 0..Len(text) : end[k] = FindCRLF(text, k)
  BY DEF LineEnds
<1> HIDE DEF end
<1>3. ASSUME NEW k \in 1..n
      PROVE  /\ at[k - 1] \in Nat /\ CR \notin ToSet(lines[k]) /\ Stands(text, at[k - 1], lines[k])
             /\ k < n => at[k] = at[k - 1] + Len(lines[k]) + 2 /\ IsCRLF(text, at[k - 1] + Len(lines[k]))
  BY DEF LinesAt
<1>4. at[n - 1] + Len(lines[n]) = Len(text) /\ at[0] = 0
  BY DEF LinesAt
<1> HIDE DEF n
<1>5. ASSUME NEW k \in 1..n
      PROVE  /\ at[k - 1] \in 0..Len(text)
             /\ \A j \in Nat : at[k - 1] <= j /\ j < at[k - 1] + Len(lines[k]) => ~IsCRLF(text, j)
             /\ Substr(text, at[k - 1], Len(lines[k])) = lines[k]
  <2> DEFINE p == at[k - 1]
             w == lines[k]
  <2>1. p \in Nat /\ w \in Seq(S) /\ Stands(text, p, w) /\ CR \notin ToSet(w)
    BY <1>1, <1>3
  <2> HIDE DEF p, w
  <2>2. \A i \in 1..Len(w) : w[i] \notin {CR}
    BY <2>1 DEF ToSet
  <2>3. \A j \in Nat : p <= j /\ j < p + Len(w) => At(text, j) \notin {CR}
    BY <2>1, <2>2, NoneStands
  <2>4. \A j \in Nat : p <= j /\ j < p + Len(w) => ~IsCRLF(text, j)
    BY <2>3 DEF IsCRLF
  <2>5. Len(w) \in Nat /\ p + Len(w) <= Len(text)
    BY <2>1 DEF Stands
  <2>6. p \in 0..Len(text)
    BY <1>1, <2>1, <2>5
  <2>7. Substr(text, p, Len(w)) = w
    BY <2>1, StandsSubstr
  <2> QED
    BY <2>4, <2>6, <2>7 DEF p, w
<1>6. ASSUME NEW k \in 1..n, k < n
      PROVE  /\ end[at[k - 1]] # npos /\ end[at[k - 1]] - at[k - 1] = Len(lines[k])
             /\ end[at[k - 1]] + 2 = at[k]
  <2> DEFINE p == at[k - 1]
             l == Len(lines[k])
  <2>1. /\ p \in 0..Len(text) /\ p \in Nat /\ l \in Nat /\ at[k] = p + l + 2 /\ IsCRLF(text, p + l)
        /\ \A j \in Nat : p <= j /\ j < p + l => ~IsCRLF(text, j)
    BY <1>1, <1>3, <1>5, <1>6
  <2> HIDE DEF p, l
  <2>2. p + l \in Nat /\ p <= p + l
    BY <2>1
  <2>3. FindCRLF(text, p) = p + l
    BY <2>1, <2>2, LineEndIs
  <2>4. end[p] = p + l /\ p + l # npos
    BY <1>2, <2>1, <2>2, <2>3 DEF npos
  <2> QED
    BY <2>1, <2>4 DEF p, l
<1>7. end[at[n - 1]] = npos /\ Substr(text, at[n - 1], Len(text)) = lines[n]
  <2> DEFINE p == at[n - 1]
             l == Len(lines[n])
  <2>1. n \in 1..n
    BY <1>1
  <2>2. /\ p \in 0..Len(text) /\ p \in Nat /\ l \in Nat /\ p + l = Len(text)
        /\ \A j \in Nat : p <= j /\ j < p + l => ~IsCRLF(text, j)
        /\ Substr(text, p, l) = lines[n]
    BY <1>1, <1>3, <1>4, <1>5, <2>1
  <2> HIDE DEF p, l
  <2>3. FindCRLF(text, p) = npos
    <3>1. \/ FindCRLF(text, p) = npos
          \/ /\ FindCRLF(text, p) \in Nat /\ p <= FindCRLF(text, p)
             /\ FindCRLF(text, p) + 2 <= Len(text) /\ IsCRLF(text, FindCRLF(text, p))
      BY <2>2, LineEndFound
    <3> QED
      BY <1>1, <2>2, <3>1
  <2>4. Substr(text, p, Len(text)) = Substr(text, p, Len(text) - p)
    BY <1>1, <2>2, SubstrRest
  <2>5. Len(text) - p = l
    BY <2>2
  <2> QED
    BY <1>2, <2>2, <2>3, <2>4, <2>5 DEF p
<1>8. NextPiece(text, 2, end, lines, at)
  BY <1>4, <1>5, <1>6, <1>7 DEF NextPiece, n
<1>9. PICK from \in [0..Len(text) -> Seq(Seq(S))] : Lines(text) = from[0] /\ Cutting(text, 2, end, from)
  BY LinesFound DEF end
<1>10. lines # <<>>
  BY DEF LinesAt
<1>11. from[0] = lines
  BY <1>8, <1>9, <1>10, CutsAre
<1> QED
  BY <1>9, <1>11

\* Where the next of some characters is, from a position on
NextOf(d, C, k) == First({j \in Positions(d) : j >= k /\ At(d, j) \in C})

LEMMA NextFound ==
    ASSUME NEW S, NEW d \in Seq(S), NEW C, NEW k \in Nat
    PROVE  \/ /\ NextOf(d, C, k) = npos
              /\ \A j \in Nat : k <= j /\ j < Len(d) => At(d, j) \notin C
           \/ /\ NextOf(d, C, k) \in Nat /\ NextOf(d, C, k) # npos
              /\ k <= NextOf(d, C, k) /\ NextOf(d, C, k) < Len(d) /\ At(d, NextOf(d, C, k)) \in C
              /\ \A j \in Nat : k <= j /\ j < NextOf(d, C, k) => At(d, j) \notin C
<1> DEFINE P == {j \in Positions(d) : j >= k /\ At(d, j) \in C}
<1>1. P \in SUBSET Nat /\ NextOf(d, C, k) = First(P) /\ Len(d) \in Nat
  BY DEF NextOf, Positions
<1>2. \A j \in Nat : k <= j /\ j < Len(d) /\ At(d, j) \in C => j \in P
  BY <1>1 DEF Positions
<1>3. \A j \in P : j \in Nat /\ k <= j /\ j < Len(d) /\ At(d, j) \in C
  BY <1>1 DEF Positions
<1> HIDE DEF P
<1>4. CASE P = {}
  BY <1>1, <1>2, <1>4, FirstIsLeast
<1>5. CASE P # {}
  <2>1. First(P) \in P /\ First(P) # npos /\ \A j \in P : First(P) <= j
    BY <1>1, <1>5, FirstIsLeast
  <2>2. /\ First(P) \in Nat /\ k <= First(P) /\ First(P) < Len(d) /\ At(d, First(P)) \in C
    BY <1>3, <2>1
  <2>3. \A j \in Nat : k <= j /\ j < First(P) => At(d, j) \notin C
    BY <1>1, <1>2, <2>1, <2>2
  <2> QED
    BY <1>1, <2>1, <2>2, <2>3
<1> QED
  BY <1>4, <1>5

LEMMA NextIs ==
    ASSUME NEW S, NEW d \in Seq(S), NEW C, NEW k \in Nat, NEW c \in Nat,
           k <= c, c < Len(d), At(d, c) \in C, \A j \in Nat : k <= j /\ j < c => At(d, j) \notin C
    PROVE  NextOf(d, C, k) = c
<1> DEFINE f == NextOf(d, C, k)
<1>1. \/ f = npos /\ \A j \in Nat : k <= j /\ j < Len(d) => At(d, j) \notin C
      \/ /\ f \in Nat /\ f # npos /\ k <= f /\ f < Len(d) /\ At(d, f) \in C
         /\ \A j \in Nat : k <= j /\ j < f => At(d, j) \notin C
  BY NextFound
<1> HIDE DEF f
<1>2. f = c
  BY <1>1
<1> QED
  BY <1>2 DEF f

NextEnds(d, C) == [k \in 0..Len(d) |-> NextOf(d, C, k)]

LEMMA SplitFound ==
    ASSUME NEW S, NEW text \in Seq(S), NEW C
    PROVE  \E from \in [0..Len(text) -> Seq(Seq(S))] :
              Split(text, C) = from[0] /\ Cutting(text, 1, NextEnds(text, C), from)
<1> DEFINE n == Len(text)
           Step(f, k) == LET next == First({j \in Positions(text) : j >= k /\ At(text, j) \in C})
                         IN  IF next = npos THEN <<Substr(text, k, Len(text))>>
                             ELSE <<Substr(text, k, next - k)>> \o f[next + 1]
           Is(f) == f = [k \in 0..n |-> Step(f, k)]
           from == CHOOSE f : Is(f)
           end == NextEnds(text, C)
           T == Seq(Seq(S))
<1>1. n \in Nat /\ \A k \in 0..n : end[k] = NextOf(text, C, k)
  BY DEF NextEnds
<1>2. EndsInside(text, 1, end)
  <2> SUFFICES ASSUME NEW k \in 0..n, end[k] # npos
               PROVE  end[k] \in Nat /\ k <= end[k] /\ end[k] + 1 <= n
    BY DEF EndsInside
  <2>1. k \in Nat /\ end[k] = NextOf(text, C, k)
    BY <1>1
  <2> HIDE DEF end
  <2>2. end[k] \in Nat /\ k <= end[k] /\ end[k] < n
    BY <2>1, NextFound
  <2> QED
    BY <1>1, <2>2
<1> HIDE DEF end
<1>3. \A f : Is(f) <=> f = [k \in 0..n |-> f[k]] /\ Cutting(text, 1, end, f)
  <2> SUFFICES ASSUME NEW f PROVE Is(f) <=> f = [k \in 0..n |-> f[k]] /\ Cutting(text, 1, end, f)
    OBVIOUS
  <2>1. Cutting(text, 1, end, f) <=> \A k \in 0..n : f[k] = Step(f, k)
    BY <1>1 DEF Cutting, NextOf
  <2>2. Is(f) <=> f = [k \in 0..n |-> f[k]] /\ \A k \in 0..n : f[k] = Step(f, k)
    <3> HIDE DEF Step, n
    <3> QED
      OBVIOUS
  <2> HIDE DEF Is, Step, n
  <2> QED
    BY <2>1, <2>2
<1>4. 1 \in Nat \ {0}
  OBVIOUS
<1>5. \E f : Is(f)
  <2>1. PICK f \in [0..n -> T] : Cutting(text, 1, end, f)
    BY <1>2, <1>4, CutsFound
  <2>2. f = [k \in 0..n |-> f[k]]
    <3> HIDE DEF T
    <3> QED
      OBVIOUS
  <2> HIDE DEF Is, n
  <2> QED
    BY <1>3, <2>1, <2>2
<1>6. Is(from)
  <2> HIDE DEF Is
  <2> QED
    BY <1>5
<1>7. Split(text, C) = from[0]
  BY DEF Split
<1> HIDE DEF from, Is
<1>8. from = [k \in 0..n |-> from[k]] /\ Cutting(text, 1, end, from)
  BY <1>3, <1>6
<1>9. \A k \in 0..n : from[k] \in T
  BY <1>2, <1>4, <1>8, CutsType
<1>10. from \in [0..n -> T]
  <2> HIDE DEF T, n
  <2> QED
    BY <1>8, <1>9
<1> QED
  BY <1>7, <1>8, <1>10 DEF end

\* The parts of a text, with one of the separators between them
PartsAt(text, C, parts, at) ==
    /\ parts # <<>> /\ at[0] = 0
    /\ \A k \in 1..Len(parts) :
          at[k - 1] \in Nat /\ ToSet(parts[k]) \cap C = {} /\ Stands(text, at[k - 1], parts[k])
    /\ \A k \in 1..Len(parts) : k < Len(parts) =>
          /\ at[k] = at[k - 1] + Len(parts[k]) + 1
          /\ at[k - 1] + Len(parts[k]) < Len(text) /\ At(text, at[k - 1] + Len(parts[k])) \in C
    /\ at[Len(parts) - 1] + Len(parts[Len(parts)]) = Len(text)

LEMMA PartsAre ==
    ASSUME NEW S, NEW text \in Seq(S), NEW C, NEW parts \in Seq(Seq(S)), NEW at,
           PartsAt(text, C, parts, at)
    PROVE  Split(text, C) = parts
<1> DEFINE n == Len(parts)
           end == NextEnds(text, C)
<1>1. n \in Nat /\ n > 0 /\ Len(text) \in Nat /\ \A k \in 1..n : parts[k] \in Seq(S) /\ Len(parts[k]) \in Nat
  BY DEF PartsAt
<1>2. \A k \in 0..Len(text) : end[k] = NextOf(text, C, k)
  BY DEF NextEnds
<1> HIDE DEF end
<1>3. ASSUME NEW k \in 1..n
      PROVE  /\ at[k - 1] \in Nat /\ ToSet(parts[k]) \cap C = {} /\ Stands(text, at[k - 1], parts[k])
             /\ k < n => /\ at[k] = at[k - 1] + Len(parts[k]) + 1
                         /\ at[k - 1] + Len(parts[k]) < Len(text)
                         /\ At(text, at[k - 1] + Len(parts[k])) \in C
  BY DEF PartsAt
<1>4. at[n - 1] + Len(parts[n]) = Len(text) /\ at[0] = 0
  BY DEF PartsAt
<1> HIDE DEF n
<1>5. ASSUME NEW k \in 1..n
      PROVE  /\ at[k - 1] \in 0..Len(text)
             /\ \A j \in Nat : at[k - 1] <= j /\ j < at[k - 1] + Len(parts[k]) => At(text, j) \notin C
             /\ Substr(text, at[k - 1], Len(parts[k])) = parts[k]
  <2> DEFINE p == at[k - 1]
             w == parts[k]
  <2>1. p \in Nat /\ w \in Seq(S) /\ Stands(text, p, w) /\ ToSet(w) \cap C = {}
    BY <1>1, <1>3
  <2> HIDE DEF p, w
  <2>2. \A i \in 1..Len(w) : w[i] \notin C
    BY <2>1 DEF ToSet
  <2>3. \A j \in Nat : p <= j /\ j < p + Len(w) => At(text, j) \notin C
    BY <2>1, <2>2, NoneStands
  <2>4. Len(w) \in Nat /\ p + Len(w) <= Len(text)
    BY <2>1 DEF Stands
  <2>5. p \in 0..Len(text)
    BY <1>1, <2>1, <2>4
  <2>6. Substr(text, p, Len(w)) = w
    BY <2>1, StandsSubstr
  <2> QED
    BY <2>3, <2>5, <2>6 DEF p, w
<1>6. ASSUME NEW k \in 1..n, k < n
      PROVE  /\ end[at[k - 1]] # npos /\ end[at[k - 1]] - at[k - 1] = Len(parts[k])
             /\ end[at[k - 1]] + 1 = at[k]
  <2> DEFINE p == at[k - 1]
             l == Len(parts[k])
  <2>1. /\ p \in 0..Len(text) /\ p \in Nat /\ l \in Nat /\ at[k] = p + l + 1
        /\ p + l < Len(text) /\ At(text, p + l) \in C
        /\ \A j \in Nat : p <= j /\ j < p + l => At(text, j) \notin C
    BY <1>1, <1>3, <1>5, <1>6
  <2> HIDE DEF p, l
  <2>2. p + l \in Nat /\ p <= p + l
    BY <2>1
  <2>3. NextOf(text, C, p) = p + l
    BY <2>1, <2>2, NextIs
  <2>4. end[p] = p + l /\ p + l # npos
    BY <1>2, <2>1, <2>2, <2>3 DEF npos
  <2> QED
    BY <2>1, <2>4 DEF p, l
<1>7. end[at[n - 1]] = npos /\ Substr(text, at[n - 1], Len(text)) = parts[n]
  <2> DEFINE p == at[n - 1]
             l == Len(parts[n])
  <2>1. n \in 1..n
    BY <1>1
  <2>2. /\ p \in 0..Len(text) /\ p \in Nat /\ l \in Nat /\ p + l = Len(text)
        /\ \A j \in Nat : p <= j /\ j < p + l => At(text, j) \notin C
        /\ Substr(text, p, l) = parts[n]
    BY <1>1, <1>3, <1>4, <1>5, <2>1
  <2> HIDE DEF p, l
  <2>3. NextOf(text, C, p) = npos
    <3>1. \/ NextOf(text, C, p) = npos
          \/ /\ NextOf(text, C, p) \in Nat /\ p <= NextOf(text, C, p)
             /\ NextOf(text, C, p) < Len(text) /\ At(text, NextOf(text, C, p)) \in C
      BY <2>2, NextFound
    <3> QED
      BY <1>1, <2>2, <3>1
  <2>4. Substr(text, p, Len(text)) = Substr(text, p, Len(text) - p)
    BY <1>1, <2>2, SubstrRest
  <2>5. Len(text) - p = l
    BY <2>2
  <2> QED
    BY <1>2, <2>2, <2>3, <2>4, <2>5 DEF p
<1>8. NextPiece(text, 1, end, parts, at)
  BY <1>4, <1>5, <1>6, <1>7 DEF NextPiece, n
<1>9. PICK from \in [0..Len(text) -> Seq(Seq(S))] : Split(text, C) = from[0] /\ Cutting(text, 1, end, from)
  BY SplitFound DEF end
<1>10. parts # <<>>
  BY DEF PartsAt
<1>11. from[0] = parts
  BY <1>8, <1>9, <1>10, CutsAre
<1> QED
  BY <1>9, <1>11

LEMMA TrimIs ==
    ASSUME NEW S, NEW s \in Seq(S), NEW C, NEW a \in 1..Len(s), NEW b \in a..Len(s),
           s[a] \notin C, s[b] \notin C, \A k \in 1..Len(s) : k < a \/ b < k => s[k] \in C
    PROVE  Trim(s, C) = SubSeq(s, a, b)
<1> DEFINE kept == {k \in DOMAIN s : s[k] \notin C}
           n == Len(s)
<1>1. n \in Nat /\ DOMAIN s = 1..n
  OBVIOUS
<1>2. a \in kept /\ b \in kept /\ kept \in SUBSET (1..n)
  BY <1>1
<1>3. \A k \in kept : a <= k /\ k <= b
  BY <1>1
<1>4. Trim(s, C) = SubSeq(s, Min(kept), Max(kept))
  BY <1>2 DEF Trim
<1> HIDE DEF kept, n
<1>5. Min(kept) \in kept /\ Min(kept) <= a
  <2>1. kept \in SUBSET Nat /\ kept # {}
    BY <1>1, <1>2
  <2> QED
    BY <1>2, <2>1, MinOf
<1>6. Max(kept) \in kept /\ b <= Max(kept)
  BY <1>1, <1>2, MaxOf
<1>7. Min(kept) = a /\ Max(kept) = b
  <2> DEFINE x == Min(kept)
             y == Max(kept)
  <2>1. x \in kept /\ y \in kept /\ x <= a /\ b <= y
    BY <1>5, <1>6
  <2> HIDE DEF x, y
  <2>2. a <= x /\ y <= b
    BY <1>3, <2>1
  <2>3. a \in 1..n /\ b \in 1..n /\ x \in 1..n /\ y \in 1..n
    BY <1>2, <2>1
  <2>4. x = a /\ y = b
    BY <1>1, <2>1, <2>2, <2>3
  <2> QED
    BY <2>4 DEF x, y
<1> QED
  BY <1>4, <1>7

LEMMA CharacterFind ==
    ASSUME NEW S, NEW d \in Seq(S), NEW c, NEW k \in Nat
    PROVE  Find(d, <<c>>, k) = NextOf(d, {c}, k)
<1>1. \A j \in Positions(d) : Substr(d, j, Len(<<c>>)) = <<c>> <=> At(d, j) \in {c}
  <2> SUFFICES ASSUME NEW j \in Positions(d)
               PROVE  Substr(d, j, Len(<<c>>)) = <<c>> <=> At(d, j) \in {c}
    OBVIOUS
  <2>1. j \in Nat /\ j < Len(d)
    BY DEF Positions
  <2>2. At(d, j) = d[j + 1]
    BY <2>1 DEF At
  <2> QED
    BY <2>1, <2>2, CharacterStands
<1>2. {j \in Positions(d) : j >= k /\ Substr(d, j, Len(<<c>>)) = <<c>>}
        = {j \in Positions(d) : j >= k /\ At(d, j) \in {c}}
  BY <1>1
<1> QED
  BY <1>2 DEF Find, NextOf

-----------------------------------------------------------------------------
(* Cookies *)

Blank    == {Space, "\t"}
Plain(w) == ToSet(w) \cap (White \cup {Semicolon}) = {}

LEMMA Blanks ==
    /\ Space \in Blank /\ Blank \subseteq White /\ Space # Semicolon /\ Semicolon \notin White
    /\ CR \notin Blank /\ CR \in White /\ CR # Semicolon /\ CR # Space
    /\ \A s : trimSpaces(s) = Trim(s, Blank)
<1>1. Space \in Blank /\ Blank \subseteq White
  BY Zenon DEF Blank, White, Space
<1>2. Space # Semicolon /\ CR # Semicolon /\ CR # Space
  BY Zenon DEF Space, Semicolon, CR
<1>3. Semicolon \notin White /\ CR \in White /\ CR \notin Blank
  BY Zenon DEF Semicolon, White, CR, LF, Blank, Space
<1>4. \A s : trimSpaces(s) = Trim(s, Blank)
  BY Zenon DEF trimSpaces, Blank, Space
<1> QED
  BY <1>1, <1>2, <1>3, <1>4

IsJar(jar, S) ==
    /\ jar \in Seq(Seq(S)) /\ jar # <<>>
    /\ \A k \in 1..Len(jar) : jar[k] # <<>> /\ Plain(jar[k])

\* What the header is split into: a space is before all but the first.
Spaced(jar) == [k \in 1..Len(jar) |-> IF k = 1 THEN jar[k] ELSE <<Space>> \o jar[k]]

LEMMA JarSplit ==
    ASSUME NEW S, Semicolon \in S, Space \in S, NEW jar, IsJar(jar, S)
    PROVE  /\ Separated(jar) \in Seq(S) /\ Separated(jar) # <<>>
           /\ Separated(jar)[1] \notin Blank /\ Separated(jar)[Len(Separated(jar))] \notin Blank
           /\ Spaced(jar) \in Seq(Seq(S)) /\ Split(Separated(jar), {";"}) = Spaced(jar)
           /\ CR \notin ToSet(Separated(jar))
<1> DEFINE n == Len(jar)
           sep == <<Semicolon>>
           parts == Spaced(jar)
           pieces == [k \in 1..n |-> IF k = 1 THEN jar[k] ELSE sep \o (<<Space>> \o jar[k])]
           text == FlattenSeq(pieces)
<1>1. /\ n \in Nat /\ n > 0 /\ \A k \in 1..n : jar[k] \in Seq(S) /\ jar[k] # <<>> /\ Plain(jar[k])
  BY DEF IsJar
<1>2. sep \in Seq(S) /\ Len(sep) = 1 /\ sep[1] = Semicolon /\ <<Space>> \in Seq(S)
      /\ Len(<<Space>>) = 1 /\ <<Space>>[1] = Space
  OBVIOUS
<1>3. Separated(jar) = text
  <2>1. DOMAIN jar = 1..n
    BY DEF IsJar
  <2>2. ASSUME NEW k \in 1..n PROVE <<";", " ">> \o jar[k] = sep \o (<<Space>> \o jar[k])
    <3>1. <<";", " ">> = <<Semicolon>> \o <<Space>>
      <4>1. <<";", " ">> = <<Semicolon, Space>>
        BY Zenon DEF Semicolon, Space
      <4> QED
        BY <4>1, TwoAreOne, Zenon
    <3>2. (sep \o <<Space>>) \o jar[k] = sep \o (<<Space>> \o jar[k])
      BY <1>1, <1>2, ConcatAssociative
    <3> QED
      BY <3>1, <3>2
  <2> HIDE DEF n, sep
  <2>3. [k \in DOMAIN jar |-> IF k = 1 THEN jar[k] ELSE <<";", " ">> \o jar[k]] = pieces
    BY <2>1, <2>2, Zenon
  <2> QED
    BY <2>3, Zenon DEF Separated
<1> HIDE DEF sep
<1>4. ASSUME NEW k \in 1..n
      PROVE  /\ k = 1 => parts[k] = jar[k]
             /\ k # 1 => parts[k] = <<Space>> \o jar[k] /\ Len(parts[k]) = 1 + Len(jar[k])
             /\ parts[k] \in Seq(S) /\ Len(parts[k]) \in Nat /\ Len(jar[k]) \in Nat /\ Len(jar[k]) > 0
  <2> DEFINE w == parts[k]
             c == jar[k]
             b == <<Space>> \o jar[k]
  <2>1. jar[k] \in Seq(S) /\ Len(jar[k]) \in Nat /\ Len(jar[k]) > 0
    BY <1>1
  <2>2. <<Space>> \o jar[k] \in Seq(S) /\ Len(<<Space>> \o jar[k]) = 1 + Len(jar[k])
    BY <1>2, <2>1, ConcatProperties
  <2>3. (k = 1 => parts[k] = jar[k]) /\ (k # 1 => parts[k] = <<Space>> \o jar[k])
    BY DEF Spaced
  <2> HIDE DEF w, c, b
  <2>4. c \in Seq(S) /\ Len(c) \in Nat /\ Len(c) > 0 /\ b \in Seq(S) /\ Len(b) = 1 + Len(c)
    BY <2>1, <2>2 DEF b, c
  <2>5. (k = 1 => w = c) /\ (k # 1 => w = b)
    BY <2>3 DEF w, b, c
  <2>6. w \in Seq(S) /\ Len(w) \in Nat /\ (k # 1 => Len(w) = 1 + Len(c))
    BY <2>4, <2>5
  <2> QED
    BY <2>3, <2>4, <2>6 DEF w, c
<1>5. parts \in Seq(Seq(S)) /\ Len(parts) = n
  <2>1. parts = [k \in 1..n |-> parts[k]]
    BY DEF Spaced
  <2> HIDE DEF parts
  <2>2. parts \in [1..n -> Seq(S)]
    BY <1>4, <2>1
  <2> QED
    BY <1>1, <2>2
<1> HIDE DEF parts
<1>6. ASSUME NEW k \in 1..n
      PROVE  /\ k = 1 => pieces[k] = parts[k]
             /\ k # 1 => pieces[k] = sep \o parts[k] /\ Len(pieces[k]) = 1 + Len(parts[k])
             /\ pieces[k] \in Seq(S) /\ Len(pieces[k]) \in Nat
  <2> DEFINE w == parts[k]
             p == pieces[k]
             b == sep \o w
  <2>1. (k = 1 => p = w) /\ (k # 1 => p = b)
    BY <1>4
  <2>2. w \in Seq(S) /\ Len(w) \in Nat
    BY <1>4
  <2> HIDE DEF w, p
  <2>3. b \in Seq(S) /\ Len(b) = 1 + Len(w)
    <3>1. sep \in Seq(S) /\ Len(sep) = 1
      BY <1>2
    <3>2. b \in Seq(S) /\ Len(b) = Len(sep) + Len(w)
      BY <2>2, <3>1, ConcatProperties
    <3> QED
      BY <3>1, <3>2
  <2> HIDE DEF b
  <2>4. p \in Seq(S) /\ Len(p) \in Nat /\ (k # 1 => Len(p) = 1 + Len(w))
    BY <2>1, <2>2, <2>3
  <2> QED
    BY <2>1, <2>4 DEF p, w, b
<1>7. pieces \in Seq(Seq(S)) /\ Len(pieces) = n
  <2>1. pieces = [k \in 1..n |-> pieces[k]]
    OBVIOUS
  <2> HIDE DEF pieces
  <2>2. pieces \in [1..n -> Seq(S)]
    BY <1>6, <2>1
  <2> QED
    BY <1>1, <2>2
<1> HIDE DEF pieces
<1>8. text \in Seq(S) /\ \E at \in [0..n -> Nat] : JoinedAt(text, pieces, at)
  BY <1>7, Flattened
<1>9. PICK at : at \in [0..n -> Nat] /\ JoinedAt(text, pieces, at)
  BY <1>8
<1> HIDE DEF text
<1>10. /\ at[0] = 0 /\ at[n] = Len(text) /\ \A k \in 0..n : at[k] \in Nat
       /\ \A k \in 1..n : at[k] = at[k - 1] + Len(pieces[k]) /\ Stands(text, at[k - 1], pieces[k])
  BY <1>7, <1>9 DEF JoinedAt
<1> DEFINE from == [k \in 0..n |-> IF k = 0 THEN 0 ELSE at[k] + 1]
<1>11. \A k \in 0..n : from[k] = IF k = 0 THEN 0 ELSE at[k] + 1
  OBVIOUS
<1> HIDE DEF from
<1>12. ASSUME NEW k \in 1..n
       PROVE  /\ from[k - 1] \in Nat /\ Stands(text, from[k - 1], parts[k])
              /\ from[k - 1] + Len(parts[k]) = at[k]
              /\ k # 1 => Stands(text, at[k - 1], sep)
  <2>1. k - 1 \in 0..n /\ k \in 0..n
    BY <1>1
  <2>2. at[k - 1] \in Nat /\ at[k] \in Nat /\ at[k] = at[k - 1] + Len(pieces[k]) /\ Stands(text, at[k - 1], pieces[k])
    BY <1>10, <2>1
  <2>3. CASE k = 1
    <3>1. from[k - 1] = 0 /\ at[k - 1] = 0 /\ pieces[k] = parts[k]
      BY <1>6, <1>10, <1>11, <2>1, <2>3
    <3> QED
      BY <2>2, <2>3, <3>1
  <2>4. CASE k # 1
    <3>1. pieces[k] = sep \o parts[k] /\ Len(pieces[k]) = 1 + Len(parts[k])
      BY <1>6, <2>4
    <3>4. from[k - 1] = at[k - 1] + 1
      <4>1. k - 1 # 0
        BY <2>1, <2>4
      <4> QED
        BY <1>11, <2>1, <4>1
    <3> DEFINE p == at[k - 1]
               w == parts[k]
    <3>2. p \in Nat /\ Stands(text, p, sep \o w) /\ w \in Seq(S)
      BY <1>4, <2>2, <3>1
    <3> HIDE DEF p, w
    <3>3. Stands(text, p, sep) /\ Stands(text, p + 1, w)
      BY <1>2, <1>8, <3>2, StandsParts
    <3> DEFINE f == from[k - 1]
               t == at[k]
    <3>5. f = p + 1 /\ t = p + (1 + Len(w)) /\ Len(w) \in Nat
      BY <1>4, <2>2, <3>1, <3>4 DEF p, w
    <3> HIDE DEF f, t
    <3>6. f \in Nat /\ Stands(text, f, w) /\ f + Len(w) = t
      BY <3>2, <3>3, <3>5
    <3> QED
      BY <2>4, <3>3, <3>6 DEF f, t, p, w
  <2> QED
    BY <2>3, <2>4
<1>13. ASSUME NEW k \in 1..n PROVE ToSet(parts[k]) \cap {Semicolon} = {} /\ CR \notin ToSet(parts[k])
  <2>1. Semicolon \notin ToSet(jar[k]) /\ CR \notin ToSet(jar[k])
    BY <1>1, Blanks DEF Plain
  <2>2. Semicolon \notin ToSet(<<Space>>) /\ CR \notin ToSet(<<Space>>)
    <3>1. DOMAIN <<Space>> = 1..1 /\ Space # Semicolon /\ Space # CR
      BY <1>2, Blanks
    <3> QED
      BY <1>2, <3>1 DEF ToSet
  <2>3. Semicolon \notin ToSet(<<Space>> \o jar[k]) /\ CR \notin ToSet(<<Space>> \o jar[k])
    BY <1>1, <1>2, <2>1, <2>2, NotInEither
  <2>4. Semicolon \notin ToSet(parts[k]) /\ CR \notin ToSet(parts[k])
    BY <1>4, <2>1, <2>3
  <2> QED
    BY <2>4
<1>14. ASSUME NEW k \in 1..n, k < n
       PROVE  from[k] = from[k - 1] + Len(parts[k]) + 1 /\ at[k] < Len(text) /\ At(text, at[k]) = Semicolon
  <2>1. k + 1 \in 1..n /\ (k + 1) - 1 = k /\ k + 1 # 1 /\ k \in 0..n
    BY <1>1, <1>14
  <2>2. Stands(text, at[k], sep) /\ at[k] \in Nat
    BY <1>10, <1>12, <2>1
  <2>3. at[k] + 1 <= Len(text) /\ text[at[k] + 1] = Semicolon /\ Len(text) \in Nat
    BY <1>2, <1>8, <2>2 DEF Stands
  <2>4. from[k] = at[k] + 1
    BY <1>1, <1>11, <2>1
  <2> QED
    BY <1>12, <2>2, <2>3, <2>4 DEF At
<1>15. PartsAt(text, {Semicolon}, parts, from)
  <2>1. parts # <<>> /\ from[0] = 0
    BY <1>1, <1>5, <1>11
  <2>2. n \in 1..n /\ from[n - 1] + Len(parts[n]) = Len(text)
    BY <1>1, <1>10, <1>12
  <2>3. ASSUME NEW k \in 1..n
        PROVE  from[k - 1] \in Nat /\ ToSet(parts[k]) \cap {Semicolon} = {} /\ Stands(text, from[k - 1], parts[k])
    BY <1>12, <1>13
  <2>4. ASSUME NEW k \in 1..n, k < n
        PROVE  /\ from[k] = from[k - 1] + Len(parts[k]) + 1
               /\ from[k - 1] + Len(parts[k]) < Len(text)
               /\ At(text, from[k - 1] + Len(parts[k])) \in {Semicolon}
    BY <1>12, <1>14, <2>4
  <2> HIDE DEF n
  <2> QED
    BY <1>5, <2>1, <2>2, <2>3, <2>4 DEF PartsAt
<1>16. Split(text, {Semicolon}) = parts
  BY <1>5, <1>8, <1>15, PartsAre
<1>17. text # <<>> /\ text[1] \notin Blank
  <2>1. 1 \in 1..n /\ from[1 - 1] = 0 /\ 1 - 1 = 0
    BY <1>1, <1>11
  <2>2. Stands(text, 0, parts[1]) /\ parts[1] = jar[1] /\ Len(jar[1]) > 0
    BY <1>4, <1>12, <2>1
  <2>3. jar[1] \in Seq(S) /\ Plain(jar[1]) /\ 1 \in 1..Len(jar[1])
    BY <1>1, <2>1, <2>2
  <2>4. text[0 + 1] = jar[1][1] /\ 0 + Len(jar[1]) <= Len(text)
    BY <2>2, <2>3 DEF Stands
  <2>5. jar[1][1] \notin Blank
    BY <2>3, Blanks DEF Plain, ToSet
  <2> QED
    BY <1>8, <2>2, <2>3, <2>4, <2>5
<1>18. text[Len(text)] \notin Blank
  <2> DEFINE w == parts[n]
             c == jar[n]
             l == Len(c)
             p == from[n - 1]
  <2>1. n \in 1..n
    BY <1>1
  <2>2. Stands(text, p, w) /\ p \in Nat /\ p + Len(w) = Len(text)
    BY <1>10, <1>12, <2>1
  <2>3. /\ c \in Seq(S) /\ Plain(c) /\ l \in Nat /\ l > 0
        /\ n = 1 => w = c
        /\ n # 1 => w = <<Space>> \o c /\ Len(w) = 1 + l
    BY <1>1, <1>4, <2>1
  <2>4. w[Len(w)] = c[l]
    <3>1. CASE n = 1
      BY <2>3, <3>1
    <3>2. CASE n # 1
      <4> HIDE DEF c
      <4>1. (<<Space>> \o c)[1 + l] = IF 1 + l <= 1 THEN <<Space>>[1 + l] ELSE c[1 + l - 1]
        BY <1>2, <2>3, ConcatProperties
      <4> QED
        BY <2>3, <3>2, <4>1
    <3> QED
      BY <3>1, <3>2
  <2>5. c[l] \notin Blank
    BY <2>3, Blanks DEF Plain, ToSet
  <2>6. Len(w) \in 1..Len(w)
    BY <2>3
  <2> HIDE DEF w, c, p
  <2>7. text[p + Len(w)] = w[Len(w)]
    BY <2>2, <2>6 DEF Stands
  <2> QED
    BY <2>2, <2>4, <2>5, <2>7
<1>19. CR \notin ToSet(text)
  <2> SUFFICES ASSUME CR \in ToSet(text) PROVE FALSE
    OBVIOUS
  <2> DEFINE U == {k \in 0..n : \A i \in 1..at[k] : text[i] # CR}
  <2>1. 0 \in U
    BY <1>1, <1>10
  <2>2. ASSUME NEW k \in 1..n, k - 1 \in U PROVE k \in U
    <3> SUFFICES ASSUME NEW i \in 1..at[k] PROVE text[i] # CR
      BY <1>1
    <3>1. k - 1 \in 0..n /\ at[k - 1] \in Nat /\ at[k] \in Nat
      BY <1>1, <1>10
    <3>2. CASE i <= at[k - 1]
      BY <2>2, <3>1, <3>2
    <3>3. CASE ~(i <= at[k - 1])
      <4>1. /\ at[k] = at[k - 1] + Len(pieces[k]) /\ Stands(text, at[k - 1], pieces[k])
        BY <1>10
      <4>2. CR \notin ToSet(pieces[k])
        <5>1. CR \notin ToSet(sep)
          BY <1>2, Blanks DEF ToSet
        <5>2. CR \notin ToSet(parts[k])
          BY <1>13
        <5>3. CR \notin ToSet(sep \o parts[k])
          BY <1>2, <1>4, <5>1, <5>2, NotInEither
        <5> QED
          BY <1>6, <5>2, <5>3
      <4> DEFINE j == i - at[k - 1]
                 w == pieces[k]
      <4>3. j \in 1..Len(w) /\ at[k - 1] + j = i /\ w \in Seq(S)
        BY <1>6, <3>1, <3>3, <4>1, SMTT(20)
      <4> HIDE DEF j, w
      <4>4. text[i] = w[j] /\ CR \notin ToSet(w)
        BY <4>1, <4>2, <4>3 DEF Stands, w
      <4> QED
        BY <4>3, <4>4 DEF ToSet
    <3> QED
      BY <3>2, <3>3
  <2>3. \A k \in 0..n : k \in U
    <3> DEFINE id == [k \in 0..n |-> k]
    <3>1. id[0] \in U /\ \A k \in 1..n : id[k - 1] \in U => id[k] \in U
      BY <1>1, <2>1, <2>2
    <3> HIDE DEF U
    <3>2. \A k \in 0..n : id[k] \in U
      <4> HIDE DEF id
      <4> QED
        BY <1>1, <3>1, ForwardType
    <3> QED
      BY <3>2
  <2>4. n \in U
    BY <1>1, <2>3
  <2>5. \A i \in 1..Len(text) : text[i] # CR
    BY <1>10, <2>4
  <2> QED
    BY <1>8, <2>5 DEF ToSet
<1>20. {";"} = {Semicolon}
  BY DEF Semicolon
<1>21. Spaced(jar) = parts
  BY DEF parts
<1>22. Separated(jar) \in Seq(S) /\ Separated(jar) # <<>> /\ CR \notin ToSet(Separated(jar))
  BY <1>3, <1>8, <1>17, <1>19
<1>23. Separated(jar)[1] \notin Blank /\ Separated(jar)[Len(Separated(jar))] \notin Blank
  BY <1>3, <1>17, <1>18
<1>24. Spaced(jar) \in Seq(Seq(S)) /\ Split(Separated(jar), {";"}) = Spaced(jar)
  BY <1>3, <1>5, <1>16, <1>20, <1>21
<1> QED
  BY <1>22, <1>23, <1>24

\* Part is c, behind s spaces.
Led(part, s, c) ==
    /\ Len(part) = s + Len(c) /\ \A i \in 1..Len(c) : part[s + i] = c[i]
    /\ \A i \in 1..s : part[i] = Space

LEMMA PlainSays ==
    ASSUME NEW S, NEW c \in Seq(S), Plain(c)
    PROVE  \A i \in 1..Len(c) : c[i] \notin Blank /\ c[i] # Space
<1>1. ToSet(c) \cap White = {}
  BY DEF Plain
<1>2. \A i \in 1..Len(c) : c[i] \in ToSet(c)
  BY DEF ToSet
<1> QED
  BY <1>1, <1>2, Blanks

LEMMA LedTrim ==
    ASSUME NEW S, NEW part \in Seq(S), NEW s \in Nat, NEW c \in Seq(S), Led(part, s, c), Plain(c),
           NEW m \in 0..Len(c)
    PROVE  trimSpaces(Substr(part, 0, s + m)) = SubSeq(c, 1, m)
<1> DEFINE d == Substr(part, 0, s + m)
           n == s + m
<1>1. n \in Nat /\ n <= Len(part) /\ m \in Nat /\ Len(c) \in Nat
  BY DEF Led
<1>2. d \in Seq(S) /\ Len(d) = n /\ \A i \in 1..n : d[i] = part[0 + i]
  <2> HIDE DEF n
  <2>1. 0 + n <= Len(part)
    BY <1>1
  <2> QED
    BY <1>1, <2>1, SubstrInside DEF n
<1> HIDE DEF d
<1>3. \A i \in 1..s : d[i] = Space
  BY <1>1, <1>2 DEF Led
<1>4. \A i \in 1..m : d[s + i] = c[i]
  <2> SUFFICES ASSUME NEW i \in 1..m PROVE d[s + i] = c[i]
    OBVIOUS
  <2>1. s + i \in 1..n /\ i \in 1..Len(c) /\ 0 + (s + i) = s + i
    BY <1>1
  <2> QED
    BY <1>2, <2>1 DEF Led
<1>5. trimSpaces(d) = Trim(d, Blank)
  BY Blanks
<1>6. CASE m = 0
  <2>1. DOMAIN d = 1..s
    BY <1>1, <1>2, <1>6
  <2>2. {k \in DOMAIN d : d[k] \notin Blank} = {}
    BY <1>3, <2>1, Blanks
  <2>3. Trim(d, Blank) = <<>>
    BY <2>2 DEF Trim
  <2>4. SubSeq(c, 1, m) = <<>>
    BY <1>6
  <2> QED
    BY <1>5, <2>3, <2>4 DEF d
<1>7. CASE m # 0
  <2> DEFINE a == s + 1
  <2>1. a \in 1..Len(d) /\ n \in a..Len(d) /\ m \in 1..m /\ 1 \in 1..m
    BY <1>1, <1>2, <1>7
  <2>2. d[a] \notin Blank /\ d[n] \notin Blank
    BY <1>1, <1>4, <2>1, PlainSays
  <2>3. \A k \in 1..Len(d) : k < a \/ n < k => d[k] \in Blank
    BY <1>1, <1>2, <1>3, Blanks
  <2>4. Trim(d, Blank) = SubSeq(d, a, n)
    <3> HIDE DEF a, n
    <3> QED
      BY <1>2, <2>1, <2>2, <2>3, TrimIs
  <2> DEFINE x == SubSeq(d, a, n)
             y == SubSeq(c, 1, m)
  <2>5. x \in Seq(S) /\ Len(x) = m /\ \A i \in 1..m : x[i] = d[a + i - 1]
    BY <1>1, <1>2, <2>1
  <2>6. y \in Seq(S) /\ Len(y) = m /\ \A i \in 1..m : y[i] = c[i]
    BY <1>1, <2>1
  <2>7. \A i \in 1..m : a + i - 1 = s + i
    BY <1>1
  <2> HIDE DEF x, y, a
  <2>8. \A i \in 1..m : x[i] = y[i]
    BY <1>4, <2>5, <2>6, <2>7
  <2>9. x = y
    BY <2>5, <2>6, <2>8, SeqEqual
  <2> QED
    BY <1>5, <2>4, <2>9 DEF d, x, y
<1> QED
  BY <1>6, <1>7

LEMMA EqualsFound ==
    ASSUME NEW S, NEW part \in Seq(S)
    PROVE  Equals(part) = NextOf(part, {"="}, 0)
BY CharacterFind DEF Equals

LEMMA KeyFound ==
    ASSUME NEW S, NEW part \in Seq(S), NEW s \in Nat, NEW c \in Seq(S), Led(part, s, c), Plain(c),
           NEW name, KeyOf(part) = <<name>>
    PROVE  2 <= Len(c) /\ c[1] = name /\ c[2] = "="
<1> DEFINE e == Equals(part)
           m == e - s
<1>1. <<name>> # <<>> /\ Len(<<name>>) = 1 /\ <<name>>[1] = name
  OBVIOUS
<1>2. e # npos /\ trimSpaces(Substr(part, 0, e)) = <<name>>
  BY <1>1 DEF KeyOf
<1>3. e = NextOf(part, {"="}, 0)
  BY EqualsFound
<1> HIDE DEF e
<1>4. e \in Nat /\ e < Len(part) /\ At(part, e) = "="
  BY <1>2, <1>3, NextFound
<1>5. part[e + 1] = "=" /\ Len(part) = s + Len(c) /\ Len(c) \in Nat
  BY <1>4 DEF At, Led
<1>6. ~(e < s)
  <2> SUFFICES ASSUME e < s PROVE FALSE
    OBVIOUS
  <2>1. e + 1 \in 1..s
    BY <1>4
  <2>2. "=" = Space
    BY <1>5, <2>1 DEF Led
  <2> QED
    BY <2>2, Zenon DEF Space
<1>7. m \in 0..Len(c) /\ s + m = e /\ m < Len(c)
  BY <1>4, <1>5, <1>6
<1> HIDE DEF m
<1>8. SubSeq(c, 1, m) = <<name>>
  BY <1>2, <1>7, LedTrim
<1>9. Len(SubSeq(c, 1, m)) = m /\ \A i \in 1..m : SubSeq(c, 1, m)[i] = c[i]
  BY <1>5, <1>7
<1>10. m = 1 /\ c[1] = name
  <2> DEFINE y == SubSeq(c, 1, m)
             w == <<name>>
  <2>1. y = w /\ Len(y) = m /\ (\A i \in 1..m : y[i] = c[i]) /\ Len(w) = 1 /\ w[1] = name
    BY <1>1, <1>8, <1>9
  <2>2. m \in Nat
    BY <1>5, <1>7
  <2> HIDE DEF y, w
  <2> QED
    <3>1. m = 1
      BY <2>1
    <3>2. 1 \in 1..m
      BY <3>1
    <3>3. y[1] = c[1] /\ y[1] = name
      BY <2>1, <3>2
    <3> QED
      BY <3>1, <3>3
<1>11. m + 1 \in 1..Len(c) /\ s + (m + 1) = e + 1
  BY <1>4, <1>5, <1>7
<1>12. c[m + 1] = "="
  BY <1>5, <1>11 DEF Led
<1> QED
  BY <1>5, <1>7, <1>10, <1>12

Set(name, value) == <<name, "=", value>>

LEMMA KeyIs ==
    ASSUME NEW S, NEW part \in Seq(S), NEW s \in Nat, NEW c \in Seq(S), Led(part, s, c), Plain(c),
           NEW name, NEW value, name # "=", c = Set(name, value)
    PROVE  KeyOf(part) = <<name>> /\ ValueOf(part) = <<value>>
<1>1. Len(c) = 3 /\ c[1] = name /\ c[2] = "=" /\ c[3] = value /\ {1, 2, 3} = 1..3
  BY DEF Set
<1>2. Len(part) = s + 3 /\ part[s + 1] = name /\ part[s + 2] = "=" /\ part[s + 3] = value
  BY <1>1 DEF Led
<1>3. Equals(part) = s + 1
  <2>1. s + 1 \in Nat /\ s + 1 < Len(part) /\ At(part, s + 1) \in {"="}
    BY <1>2 DEF At
  <2>2. \A j \in Nat : 0 <= j /\ j < s + 1 => At(part, j) \notin {"="}
    <3> SUFFICES ASSUME NEW j \in Nat, j < s + 1 PROVE At(part, j) # "="
      OBVIOUS
    <3>1. At(part, j) = part[j + 1]
      BY <1>2 DEF At
    <3>2. CASE j = s
      BY <1>2, <3>1, <3>2
    <3>3. CASE j # s
      <4>1. j + 1 \in 1..s
        BY <3>3
      <4>2. part[j + 1] = Space
        BY <4>1 DEF Led
      <4>3. Space # "="
        BY Zenon DEF Space
      <4> QED
        BY <3>1, <4>2, <4>3
    <3> QED
      BY <3>2, <3>3
  <2> DEFINE e == s + 1
  <2>3. e \in Nat /\ 0 <= e /\ e < Len(part) /\ At(part, e) \in {"="} /\ \A j \in Nat : 0 <= j /\ j < e => At(part, j) \notin {"="}
    BY <2>1, <2>2
  <2> HIDE DEF e
  <2>4. NextOf(part, {"="}, 0) = e
    BY <2>3, NextIs
  <2> QED
    BY <2>4, EqualsFound DEF e
<1>4. KeyOf(part) = <<name>>
  <2> DEFINE y == SubSeq(c, 1, 1)
  <2>1. 1 \in 0..Len(c)
    BY <1>1
  <2> HIDE DEF y
  <2>2. trimSpaces(Substr(part, 0, s + 1)) = y
    BY <2>1, LedTrim DEF y
  <2>3. y = <<name>>
    <3>1. y \in Seq(S) /\ Len(y) = 1 /\ \A i \in 1..1 : y[i] = c[1 + i - 1]
      <4>1. 1 \in 1..Len(c)
        BY <1>1
      <4> QED
        BY <4>1 DEF y
    <3>2. y[1] = c[1]
      BY <3>1
    <3> QED
      BY <1>1, <3>1, <3>2, OneStands
  <2>4. s + 1 # npos
    BY DEF npos
  <2> QED
    BY <1>3, <2>2, <2>3, <2>4 DEF KeyOf
<1>5. ValueOf(part) = <<value>>
  <2> DEFINE k == s + 2
             n == Len(part)
             d == Substr(part, k, 1)
  <2>1. k \in 0..n /\ n \in Nat /\ n <= k + n /\ n - k = 1 /\ k + 1 <= n /\ 1 \in Nat /\ k \in Nat
        /\ (s + 1) + 1 = k /\ k + 1 = s + 3
    BY <1>2
  <2> HIDE DEF k, n
  <2>2. Substr(part, k, n) = d
    BY <2>1, SubstrRest DEF n
  <2>3. d \in Seq(S) /\ Len(d) = 1 /\ d[1] = part[k + 1]
    <3>1. d \in Seq(S) /\ Len(d) = 1 /\ \A i \in 1..1 : d[i] = part[k + i]
      <4> DEFINE l == 1
      <4>1. k \in Nat /\ l \in Nat /\ k + l <= Len(part)
        BY <2>1 DEF n
      <4> HIDE DEF l
      <4>2. Substr(part, k, l) \in Seq(S) /\ Len(Substr(part, k, l)) = l /\ \A i \in 1..l : Substr(part, k, l)[i] = part[k + i]
        BY <4>1, SubstrInside
      <4> QED
        BY <4>2 DEF l
    <3> HIDE DEF d
    <3> QED
      BY <3>1
  <2> HIDE DEF d
  <2>4. d[1] = value
    BY <1>2, <2>1, <2>3
  <2>5. value \notin Blank
    BY <1>1, PlainSays
  <2>6. Trim(d, Blank) = SubSeq(d, 1, 1)
    <3>1. 1 \in 1..Len(d) /\ 1 \in 1..Len(d) /\ \A i \in 1..Len(d) : i < 1 \/ 1 < i => d[i] \in Blank
      BY <2>3
    <3> QED
      BY <2>3, <2>4, <2>5, <3>1, TrimIs
  <2>7. SubSeq(d, 1, 1) = <<value>>
    <3>1. SubSeq(d, 1, Len(d)) = d
      BY <2>3, SubSeqFull
    <3>2. d = <<value>>
      BY <2>3, <2>4, OneStands
    <3> QED
      BY <2>3, <3>1, <3>2
  <2>8. trimSpaces(d) = Trim(d, Blank)
    BY Blanks
  <2>9. ValueOf(part) = trimSpaces(Substr(part, k, n))
    BY <1>3, <2>1 DEF ValueOf, n
  <2> QED
    BY <2>2, <2>6, <2>7, <2>8, <2>9
<1> QED
  BY <1>4, <1>5

\* The cookies name it once, or more than once and with the same value.
Keeps(jar, name, value) ==
    /\ \E k \in 1..Len(jar) : jar[k] = Set(name, value)
    /\ \A k \in 1..Len(jar) :
          2 <= Len(jar[k]) /\ jar[k][1] = name /\ jar[k][2] = "=" => jar[k] = Set(name, value)

LEMMA CookieFound ==
    ASSUME NEW S, Semicolon \in S, Space \in S, NEW jar, IsJar(jar, S),
           NEW name, NEW value, name # "=", Keeps(jar, name, value)
    PROVE  getCookie(Separated(jar), <<name>>) = <<value>>
<1> DEFINE n == Len(jar)
           parts == Spaced(jar)
           lead(k) == IF k = 1 THEN 0 ELSE 1
           key == <<name>>
           found == {k \in DOMAIN parts : KeyOf(parts[k]) = key}
           text == Separated(jar)
<1>1. text \in Seq(S) /\ parts \in Seq(Seq(S)) /\ Split(text, {";"}) = parts
  BY JarSplit
<1>2. n \in Nat /\ n > 0 /\ \A k \in 1..n : jar[k] \in Seq(S) /\ Plain(jar[k])
  BY DEF IsJar
<1>3. DOMAIN parts = 1..n
  BY DEF Spaced
<1>4. ASSUME NEW k \in 1..n
      PROVE  lead(k) \in Nat /\ parts[k] \in Seq(S) /\ Led(parts[k], lead(k), jar[k])
  <2> DEFINE c == jar[k]
             w == parts[k]
             b == <<Space>> \o c
  <2>1. c \in Seq(S) /\ Len(c) \in Nat
    BY <1>2
  <2>2. (k = 1 => w = c) /\ (k # 1 => w = b)
    BY DEF Spaced
  <2>3. w \in Seq(S)
    <3> HIDE DEF parts
    <3>1. k \in 1..Len(parts)
      <4>2. parts \in Seq(Seq(S))
        BY <1>1
      <4>1. DOMAIN parts = 1..Len(parts)
        BY <4>2
      <4> QED
        BY <1>3, <4>1
    <3> QED
      BY <1>1, <3>1, ElementOfSeq
  <2> HIDE DEF w, c
  <2>4. CASE k = 1
    <3>1. Led(w, 0, c)
      BY <2>1, <2>2, <2>4 DEF Led
    <3> QED
      BY <2>3, <2>4, <3>1 DEF w, c
  <2>5. CASE k # 1
    <3>1. <<Space>> \in Seq(S) /\ Len(<<Space>>) = 1 /\ <<Space>>[1] = Space
      OBVIOUS
    <3>2. /\ Len(b) = 1 + Len(c)
          /\ \A i \in 1..(1 + Len(c)) : b[i] = IF i <= 1 THEN <<Space>>[i] ELSE c[i - 1]
      BY <2>1, <3>1, ConcatProperties
    <3> HIDE DEF b
    <3>3. b[1] = Space
      <4>1. 1 \in 1..(1 + Len(c)) /\ 1 <= 1
        BY <2>1
      <4> QED
        BY <3>1, <3>2, <4>1
    <3>4. \A i \in 1..Len(c) : b[1 + i] = c[i]
      <4> SUFFICES ASSUME NEW i \in 1..Len(c) PROVE b[1 + i] = c[i]
        OBVIOUS
      <4> DEFINE j == 1 + i
      <4>1. j \in 1..(1 + Len(c)) /\ ~(j <= 1) /\ j - 1 = i
        BY <2>1
      <4> HIDE DEF j
      <4>2. b[j] = c[i]
        BY <3>2, <4>1
      <4> QED
        BY <4>2 DEF j
    <3>5. Led(b, 1, c)
      BY <3>2, <3>3, <3>4 DEF Led
    <3> QED
      BY <2>2, <2>3, <2>5, <3>5 DEF w, c
  <2> QED
    BY <2>4, <2>5
<1> HIDE DEF parts, text, lead
<1>5. ASSUME NEW k \in 1..n, KeyOf(parts[k]) = key PROVE ValueOf(parts[k]) = <<value>>
  <2> DEFINE c == jar[k]
             w == parts[k]
             s == lead(k)
  <2>1. c \in Seq(S) /\ Plain(c) /\ s \in Nat /\ w \in Seq(S) /\ Led(w, s, c) /\ KeyOf(w) = <<name>>
    BY <1>2, <1>4, <1>5
  <2>2. 2 <= Len(c) /\ c[1] = name /\ c[2] = "=" => c = Set(name, value)
    BY DEF Keeps
  <2> HIDE DEF c, w, s
  <2>3. c = Set(name, value)
    BY <2>1, <2>2, KeyFound
  <2> QED
    <3>1. ValueOf(w) = <<value>>
      BY <2>1, <2>3, KeyIs
    <3> QED
      BY <3>1 DEF w
<1>6. PICK k \in 1..n : jar[k] = Set(name, value)
  BY DEF Keeps
<1>7. KeyOf(parts[k]) = key
  <2> DEFINE c == jar[k]
             w == parts[k]
             s == lead(k)
  <2>1. c \in Seq(S) /\ Plain(c) /\ s \in Nat /\ w \in Seq(S) /\ Led(w, s, c) /\ c = Set(name, value)
    BY <1>2, <1>4, <1>6
  <2> HIDE DEF c, s, w
  <2>2. KeyOf(w) = <<name>>
    BY <2>1, KeyIs
  <2> QED
    BY <2>2 DEF w
<1> HIDE DEF n, key
<1>8. found \in SUBSET (1..n) /\ found # {}
  BY <1>3, <1>7
<1>9. Max(found) \in found
  BY <1>2, <1>8, MaxOf
<1>10. ValueOf(parts[Max(found)]) = <<value>>
  BY <1>3, <1>5, <1>9
<1>11. getCookie(text, key) = ValueOf(parts[Max(found)])
  BY <1>1, <1>8 DEF getCookie
<1> QED
  BY <1>10, <1>11 DEF text, key

-----------------------------------------------------------------------------
(* Lines, one behind the other, and a blank line *)

Block(lines) == FlattenSeq([k \in 1..Len(lines) |-> Line(lines[k])])
IsBlock(lines, S) ==
    /\ lines \in Seq(Seq(S)) /\ lines # <<>>
    /\ \A k \in 1..Len(lines) : lines[k] # <<>> /\ CR \notin ToSet(lines[k])

BlockAt(d, lines, at) ==
    /\ at[0] = 0
    /\ \A k \in 1..Len(lines) :
          /\ at[k] = at[k - 1] + Len(lines[k]) + 2 /\ Stands(d, at[k - 1], lines[k])
          /\ IsCRLF(d, at[k - 1] + Len(lines[k])) /\ at[k] <= Len(d)

LEMMA BlockFound ==
    ASSUME NEW S, CR \in S, LF \in S, NEW lines, IsBlock(lines, S), NEW rest \in Seq(S)
    PROVE  LET n == Len(lines)
               d == Block(lines) \o (CRLF \o rest)
           IN  /\ d \in Seq(S) /\ IsCRLF(d, Len(Block(lines))) /\ Len(Block(lines)) \in Nat
               /\ Stands(d, Len(Block(lines)) + 2, rest)
               /\ Len(d) = Len(Block(lines)) + 2 + Len(rest)
               /\ \E at \in [0..n -> Nat] : BlockAt(d, lines, at) /\ at[n] = Len(Block(lines))
<1> DEFINE n == Len(lines)
           pieces == [k \in 1..n |-> Line(lines[k])]
           b == Block(lines)
           tail == CRLF \o rest
           d == b \o tail
<1>1. n \in Nat /\ \A k \in 1..n : lines[k] \in Seq(S)
  BY DEF IsBlock
<1>2. pieces \in Seq(Seq(S)) /\ Len(pieces) = n
  <2>1. pieces \in [1..n -> Seq(S)]
    BY <1>1, CRLFType
  <2> HIDE DEF pieces
  <2> QED
    BY <1>1, <2>1
<1>3. \A k \in 1..n : pieces[k] = Line(lines[k])
  OBVIOUS
<1> HIDE DEF pieces
<1>4. b = FlattenSeq(pieces)
  BY DEF Block, pieces
<1>5. b \in Seq(S) /\ \E at \in [0..n -> Nat] : JoinedAt(b, pieces, at)
  BY <1>2, <1>4, Flattened
<1> HIDE DEF b, n
<1>6. PICK at \in [0..n -> Nat] : JoinedAt(b, pieces, at)
  BY <1>5
<1>7. tail \in Seq(S) /\ Stands(tail, 0, CRLF) /\ Stands(tail, 2, rest) /\ Len(tail) = 2 + Len(rest)
  <2>1. CRLF \in Seq(S) /\ Len(CRLF) = 2
    BY CRLFType
  <2>2. tail \in Seq(S) /\ Len(tail) = 2 + Len(rest)
    <3>1. tail \in Seq(S) /\ Len(tail) = Len(CRLF) + Len(rest)
      BY <2>1, ConcatProperties
    <3> HIDE DEF tail
    <3> QED
      BY <2>1, <3>1
  <2>3. Stands(tail, 0, CRLF)
    BY <2>1, StandsFirst
  <2>4. Stands(tail, 2, rest)
    BY <2>1, StandsBehind
  <2> QED
    BY <2>2, <2>3, <2>4
<1> HIDE DEF tail
<1>8. d \in Seq(S) /\ Len(d) = Len(b) + Len(tail) /\ Stands(d, Len(b), tail) /\ Len(b) \in Nat
  <2>1. b \in Seq(S) /\ tail \in Seq(S) /\ Len(b) \in Nat
    BY <1>5, <1>7
  <2>2. d \in Seq(S) /\ Len(d) = Len(b) + Len(tail)
    BY <2>1, ConcatProperties
  <2>3. Stands(d, Len(b), tail)
    BY <2>1, StandsBehind
  <2> QED
    BY <2>1, <2>2, <2>3
<1>9. IsCRLF(d, Len(b)) /\ Stands(d, Len(b) + 2, rest)
  <2>1. CRLF \in Seq(S) /\ Len(CRLF) = 2 /\ IsCRLF(CRLF, 0)
    BY CRLFType
  <2>2. IsCRLF(tail, 0)
    <3> HIDE DEF d
    <3>1. 0 \in Nat /\ 0 + 2 <= Len(CRLF) /\ 0 + 0 = 0
      BY <2>1
    <3> QED
      BY <1>7, <2>1, <3>1, StandsAt
  <2>3. IsCRLF(d, Len(b))
    <3> HIDE DEF d
    <3>1. 0 \in Nat /\ 0 + 2 <= Len(tail) /\ Len(b) + 0 = Len(b)
      BY <1>7, <1>8
    <3> QED
      BY <1>7, <1>8, <2>2, <3>1, StandsAt
  <2>4. tail = CRLF \o rest
    BY DEF tail
  <2> HIDE DEF d
  <2>5. Stands(d, Len(b) + Len(CRLF), rest)
    BY <1>8, <2>1, <2>4, StandsParts
  <2> QED
    BY <2>1, <2>3, <2>5
<1>10. ASSUME NEW k \in 1..n
       PROVE  /\ at[k] = at[k - 1] + Len(lines[k]) + 2 /\ Stands(d, at[k - 1], lines[k])
              /\ IsCRLF(d, at[k - 1] + Len(lines[k])) /\ at[k] <= Len(d)
  <2> DEFINE p == at[k - 1]
             w == lines[k]
             v == Line(w)
  <2>1. p \in Nat /\ w \in Seq(S)
    <3>1. k - 1 \in 0..n
      BY <1>1
    <3> QED
      BY <1>1, <1>6, <3>1
  <2>2. at[k] = p + Len(v) /\ Stands(b, p, v)
    BY <1>2, <1>3, <1>6 DEF JoinedAt
  <2> HIDE DEF p, w, d
  <2>3. v \in Seq(S) /\ Len(v) = Len(w) + 2 /\ Len(w) \in Nat
    BY <2>1, CRLFType
  <2>4. Stands(d, p, v)
    <3> HIDE DEF v
    <3> QED
      BY <1>5, <1>7, <2>1, <2>2, <2>3, StandsLonger DEF d
  <2>5. Stands(d, p, w) /\ IsCRLF(d, p + Len(w)) /\ p + Len(w) + 2 <= Len(d)
    BY <1>8, <2>1, <2>4, StandsLine
  <2> DEFINE t == at[k]
  <2>6. t = p + Len(v)
    BY <2>2
  <2> HIDE DEF t, v
  <2>7. t = p + Len(w) + 2 /\ t <= Len(d)
    BY <2>1, <2>3, <2>5, <2>6
  <2> QED
    BY <2>5, <2>7 DEF p, w, t
<1>11. BlockAt(d, lines, at) /\ at[n] = Len(b)
  BY <1>2, <1>6, <1>10 DEF BlockAt, JoinedAt, n
<1>12. Len(d) = Len(b) + 2 + Len(rest)
  BY <1>7, <1>8
<1> QED
  BY <1>6, <1>8, <1>9, <1>11, <1>12 DEF b, n, tail

LEMMA BlockGrows ==
    ASSUME NEW S, NEW lines, IsBlock(lines, S), NEW at \in [0..Len(lines) -> Nat], NEW d, BlockAt(d, lines, at)
    PROVE  /\ Len(lines) \in Nat /\ Len(lines) > 0
           /\ \A l \in 0..Len(lines) : \A k \in 0..l : at[k] <= at[l]
           /\ \A k \in 1..Len(lines) :
                 /\ lines[k] \in Seq(S) /\ CR \notin ToSet(lines[k]) /\ Len(lines[k]) \in Nat /\ Len(lines[k]) > 0
                 /\ k \in 0..Len(lines) /\ k - 1 \in 0..Len(lines) /\ at[k - 1] \in Nat /\ at[k] \in Nat
<1> DEFINE n == Len(lines)
           U == {l \in 0..n : \A k \in 0..l : at[k] <= at[l]}
           id == [k \in 0..n |-> k]
<1>1. n \in Nat /\ n > 0 /\ \A k \in 1..n : lines[k] \in Seq(S) /\ CR \notin ToSet(lines[k]) /\ lines[k] # <<>>
  BY DEF IsBlock
<1>2. \A k \in 1..n : Len(lines[k]) \in Nat /\ Len(lines[k]) > 0
  BY <1>1
<1>3. \A k \in 0..n : at[k] \in Nat
  OBVIOUS
<1>4. \A k \in 1..n : k \in 0..n /\ k - 1 \in 0..n
  BY <1>1
<1>5. \A k \in 1..n : at[k] = at[k - 1] + Len(lines[k]) + 2
  BY DEF BlockAt
<1> HIDE DEF n
<1>6. 0 \in U
  BY <1>1, <1>3
<1>7. ASSUME NEW k \in 1..n, k - 1 \in U PROVE k \in U
  <2> SUFFICES ASSUME NEW j \in 0..k PROVE at[j] <= at[k]
    BY <1>4
  <2>1. at[k - 1] <= at[k]
    <3> DEFINE p == at[k - 1]
               t == at[k]
               l == Len(lines[k])
    <3>1. p \in Nat /\ l \in Nat /\ t = p + l + 2
      BY <1>2, <1>3, <1>4, <1>5
    <3> HIDE DEF p, t, l
    <3>2. p <= t
      BY <3>1
    <3> QED
      BY <3>2 DEF p, t
  <2>2. CASE j = k
    BY <1>3, <1>4, <2>2
  <2>3. CASE j # k
    <3>1. j \in 0..(k - 1) /\ j \in 0..n
      BY <1>1, <2>3
    <3>2. at[j] <= at[k - 1]
      BY <1>7, <3>1
    <3> QED
      BY <1>3, <1>4, <2>1, <3>1, <3>2
  <2> QED
    BY <2>2, <2>3
<1>8. \A l \in 0..n : l \in U
  <2>1. id[0] \in U /\ \A k \in 1..n : id[k - 1] \in U => id[k] \in U
    BY <1>1, <1>6, <1>7
  <2> HIDE DEF U, id
  <2>2. \A k \in 0..n : id[k] \in U
    BY <1>1, <2>1, ForwardType
  <2> QED
    BY <2>2 DEF id
<1> QED
  BY <1>1, <1>2, <1>3, <1>4, <1>8 DEF n

LEMMA BlankOfBlock ==
    ASSUME NEW S, NEW d \in Seq(S), NEW lines, IsBlock(lines, S),
           NEW at \in [0..Len(lines) -> Nat], BlockAt(d, lines, at), IsCRLF(d, at[Len(lines)])
    PROVE  /\ Separator(d) = at[Len(lines)] - 2 /\ Separator(d) \in Nat
           /\ FindCRLF(d, 0) = Len(lines[1])
<1> DEFINE n == Len(lines)
           c == at[n] - 2
<1>1. /\ n \in Nat /\ n > 0
      /\ \A l \in 0..n : \A k \in 0..l : at[k] <= at[l]
      /\ \A k \in 1..n :
            /\ lines[k] \in Seq(S) /\ CR \notin ToSet(lines[k]) /\ Len(lines[k]) \in Nat /\ Len(lines[k]) > 0
            /\ k \in 0..n /\ k - 1 \in 0..n /\ at[k - 1] \in Nat /\ at[k] \in Nat
  BY BlockGrows
<1>2. at[0] = 0 /\ \A k \in 1..n :
          /\ at[k] = at[k - 1] + Len(lines[k]) + 2 /\ Stands(d, at[k - 1], lines[k])
          /\ IsCRLF(d, at[k - 1] + Len(lines[k]))
  BY DEF BlockAt
<1>3. IsCRLF(d, at[n])
  OBVIOUS
<1> HIDE DEF n
<1>4. ASSUME NEW k \in 1..n, NEW j \in Nat, at[k - 1] <= j, j < at[k - 1] + Len(lines[k])
      PROVE  At(d, j) # CR
  <2> DEFINE p == at[k - 1]
             w == lines[k]
  <2>1. p \in Nat /\ w \in Seq(S) /\ CR \notin ToSet(w) /\ Stands(d, p, w) /\ p <= j /\ j < p + Len(w)
    BY <1>1, <1>2, <1>4
  <2> HIDE DEF p, w
  <2>2. \A i \in 1..Len(w) : w[i] \notin {CR}
    BY <2>1 DEF ToSet
  <2> QED
    BY <2>1, <2>2, NoneStands
<1>5. c \in Nat /\ c + 2 = at[n] /\ IsCRLF(d, c)
  <2>1. n \in 1..n
    BY <1>1
  <2> DEFINE p == at[n - 1]
             l == Len(lines[n])
             t == at[n]
  <2>2. p \in Nat /\ l \in Nat /\ t = p + l + 2 /\ IsCRLF(d, p + l)
    BY <1>1, <1>2, <2>1
  <2> HIDE DEF p, l, t
  <2>3. t - 2 = p + l
    BY <2>2
  <2> QED
    BY <2>2, <2>3 DEF t
<1>6. ASSUME NEW j \in Nat, j < c PROVE ~(IsCRLF(d, j) /\ IsCRLF(d, j + 2))
  <2>1. j < at[n] /\ at \in [0..n -> Nat]
    BY <1>1, <1>5, <1>6 DEF n
  <2>2. PICK k \in 1..n : at[k - 1] <= j /\ j < at[k]
    BY <1>1, <1>2, <2>1, InLine
  <2> DEFINE p == at[k - 1]
             l == Len(lines[k])
             t == at[k]
  <2>3. p \in Nat /\ l \in Nat /\ t = p + l + 2 /\ p <= j /\ j < t /\ IsCRLF(d, p + l) /\ t \in Nat
    BY <1>1, <1>2, <2>2
  <2>4. j < p + l => At(d, j) # CR
    BY <1>4, <2>2
  <2> HIDE DEF p, l
  <2>5. CASE j < p + l
    BY <2>4, <2>5 DEF IsCRLF
  <2>6. CASE j = p + l
    <3>1. j + 2 = t
      BY <2>3, <2>6
    <3>2. k # n
      BY <1>5, <1>6, <3>1
    <3>3. k + 1 \in 1..n /\ (k + 1) - 1 = k
      BY <1>1, <3>2
    <3> DEFINE q == at[(k + 1) - 1]
               m == Len(lines[k + 1])
    <3>4. q = t /\ m \in Nat /\ m > 0
      BY <1>1, <3>3
    <3>5. t <= t /\ t < t + m
      BY <2>3, <3>4
    <3>6. At(d, t) # CR
      BY <1>4, <2>3, <3>3, <3>4, <3>5
    <3> QED
      BY <3>1, <3>6 DEF IsCRLF
  <2>7. CASE j = p + l + 1
    <3>1. At(d, p + l + 1) = LF
      BY <2>3 DEF IsCRLF
    <3> QED
      BY <2>7, <3>1, CharactersDiffer DEF IsCRLF
  <2> HIDE DEF t
  <2>8. j < p + l \/ j = p + l \/ j = p + l + 1
    BY <2>3
  <2> QED
    BY <2>5, <2>6, <2>7, <2>8
<1>7. Separator(d) = c
  <2> HIDE DEF c
  <2> QED
    BY <1>5, <1>6, <1>3, BlankIs DEF c
<1>8. FindCRLF(d, 0) = Len(lines[1])
  <2> DEFINE l == Len(lines[1])
  <2>1. 1 \in 1..n /\ 1 - 1 = 0
    BY <1>1
  <2>2. l \in Nat /\ IsCRLF(d, at[1 - 1] + l) /\ at[1 - 1] = 0
    BY <1>1, <1>2, <2>1
  <2>3. IsCRLF(d, l)
    BY <2>2
  <2>4. \A j \in Nat : 0 <= j /\ j < l => ~IsCRLF(d, j)
    BY <1>4, <2>1, <2>2 DEF IsCRLF
  <2> HIDE DEF l
  <2> QED
    BY <2>2, <2>3, <2>4, LineEndIs DEF l
<1> QED
  BY <1>5, <1>7, <1>8 DEF n

\* What stands in a text stands in the part around it.
LEMMA StandsInPart ==
    ASSUME NEW S, NEW d \in Seq(S), NEW k \in Nat, NEW n \in Nat, k + n <= Len(d),
           NEW w \in Seq(S), NEW p \in Nat, p + Len(w) <= n, Stands(d, k + p, w)
    PROVE  Stands(Substr(d, k, n), p, w)
<1> DEFINE t == Substr(d, k, n)
<1>1. t \in Seq(S) /\ Len(t) = n /\ \A i \in 1..n : t[i] = d[k + i]
  BY SubstrInside
<1> HIDE DEF t
<1>2. ASSUME NEW i \in 1..Len(w) PROVE t[p + i] = w[i]
  <2>1. p + i \in 1..n /\ k + (p + i) = (k + p) + i
    OBVIOUS
  <2>2. d[(k + p) + i] = w[i]
    BY DEF Stands
  <2> QED
    BY <1>1, <2>1, <2>2
<1>3. p + Len(w) <= Len(t)
  BY <1>1
<1> QED
  BY <1>2, <1>3 DEF Stands, t

LEMMA LineEndInside2 ==
    ASSUME NEW S, NEW d \in Seq(S), NEW k \in Nat, NEW n \in Nat, k + n <= Len(d),
           NEW p \in Nat, p + 2 <= n, IsCRLF(d, k + p)
    PROVE  IsCRLF(Substr(d, k, n), p)
<1> DEFINE t == Substr(d, k, n)
<1>1. t \in Seq(S) /\ Len(t) = n /\ \A i \in 1..n : t[i] = d[k + i]
  BY SubstrInside
<1> HIDE DEF t
<1>2. /\ p + 1 \in 1..n /\ p + 2 \in 1..n /\ k + (p + 1) = (k + p) + 1 /\ k + (p + 2) = (k + p) + 2
      /\ p < Len(t) /\ p + 1 < Len(t) /\ k + p \in Nat
  BY <1>1
<1>3. d[(k + p) + 1] = CR /\ d[(k + p) + 2] = LF
  BY <1>2, LineEndInside
<1>4. At(t, p) = t[p + 1] /\ At(t, p + 1) = t[p + 2]
  BY <1>2 DEF At
<1> QED
  BY <1>1, <1>2, <1>3, <1>4 DEF IsCRLF, t

\* From the beginning of one of them on up to the blank line, those are the lines.
LEMMA BlockLines ==
    ASSUME NEW S, NEW d \in Seq(S), NEW lines, IsBlock(lines, S),
           NEW at \in [0..Len(lines) -> Nat], BlockAt(d, lines, at), NEW i \in 1..Len(lines)
    PROVE  /\ at[Len(lines)] - 2 - at[i - 1] \in Nat
           /\ Lines(Substr(d, at[i - 1], at[Len(lines)] - 2 - at[i - 1])) = SubSeq(lines, i, Len(lines))
<1> DEFINE n == Len(lines)
           b == at[i - 1]
           c == at[n] - 2 - b
           t == Substr(d, b, c)
           m == n - i + 1
           those == SubSeq(lines, i, n)
           from == [k \in 0..m |-> at[k + i - 1] - b]
<1>1. /\ n \in Nat /\ n > 0
      /\ \A l \in 0..n : \A k \in 0..l : at[k] <= at[l]
      /\ \A k \in 1..n :
            /\ lines[k] \in Seq(S) /\ CR \notin ToSet(lines[k]) /\ Len(lines[k]) \in Nat /\ Len(lines[k]) > 0
            /\ k \in 0..n /\ k - 1 \in 0..n /\ at[k - 1] \in Nat /\ at[k] \in Nat
  BY BlockGrows
<1>2. at[0] = 0 /\ \A k \in 1..n :
          /\ at[k] = at[k - 1] + Len(lines[k]) + 2 /\ Stands(d, at[k - 1], lines[k])
          /\ IsCRLF(d, at[k - 1] + Len(lines[k])) /\ at[k] <= Len(d)
  BY DEF BlockAt
<1>3. m \in Nat /\ m > 0 /\ i - 1 \in 0..n /\ b \in Nat /\ i \in 1..n
  BY <1>1
<1>4. those \in Seq(Seq(S)) /\ Len(those) = m /\ \A k \in 1..m : those[k] = lines[k + i - 1]
  <2>1. lines \in Seq(Seq(S))
    BY DEF IsBlock
  <2> HIDE DEF n
  <2>2. n = Len(lines)
    BY DEF n
  <2>3. i \in Int /\ n \in Int /\ i <= n /\ n - i + 1 = m /\ m \in Nat
    BY <1>1, <1>3
  <2>7. \A j \in i..n : lines[j] \in Seq(S)
    BY <1>1, <1>3
  <2>4. those \in Seq(Seq(S)) /\ Len(those) = n - i + 1 /\ \A k \in 1..(n - i + 1) : those[k] = lines[i + k - 1]
    <3> HIDE DEF m, those
    <3> DEFINE T == Seq(S)
    <3>1. \A j \in i..n : lines[j] \in T
      BY <2>7
    <3> HIDE DEF T
    <3>2. /\ SubSeq(lines, i, n) \in Seq(T)
          /\ Len(SubSeq(lines, i, n)) = IF i <= n THEN n - i + 1 ELSE 0
          /\ \A k \in 1..(n - i + 1) : SubSeq(lines, i, n)[k] = lines[i + k - 1]
      BY <2>3, <3>1, SubSeqProperties
    <3>3. those = SubSeq(lines, i, n)
      BY <2>2 DEF those
    <3> QED
      BY <2>3, <3>2, <3>3 DEF T
  <2> HIDE DEF those
  <2>5. \A k \in 1..m : those[k] = lines[i + k - 1]
    BY <2>3, <2>4
  <2>6. \A k \in 1..m : i + k - 1 = k + i - 1
    BY <1>3
  <2> HIDE DEF m
  <2> QED
    BY <2>3, <2>4, <2>5, <2>6
<1>5. \A k \in 0..m : from[k] = at[k + i - 1] - b
  OBVIOUS
<1> HIDE DEF n, from, those
<1>6. ASSUME NEW k \in 1..m
      PROVE  /\ k + i - 1 \in 1..n /\ k - 1 + i - 1 = (k + i - 1) - 1 /\ k - 1 \in 0..m /\ k \in 0..m
             /\ (k + i - 1) - 1 \in 0..n /\ i - 1 \in 0..((k + i - 1) - 1) /\ k + i - 1 \in 0..n
             /\ n \in 0..n
  BY <1>1, <1>3
<1>7. c \in Nat /\ b + c <= Len(d) /\ b + c = at[n] - 2
  <2>1. n \in 1..n /\ i - 1 \in 0..(n - 1) /\ n - 1 \in 0..n
    BY <1>1, <1>3
  <2> DEFINE p == at[n - 1]
             e == at[n]
             l == Len(lines[n])
  <2>2. p \in Nat /\ b <= p /\ l \in Nat /\ e = p + l + 2 /\ e <= Len(d) /\ b \in Nat /\ Len(d) \in Nat
    BY <1>1, <1>2, <1>3, <2>1, SMTT(20)
  <2> HIDE DEF p, e, l, b
  <2>3. e - 2 - b \in Nat /\ b + (e - 2 - b) <= Len(d) /\ b + (e - 2 - b) = e - 2
    BY <2>2
  <2> QED
    BY <2>3 DEF e
<1>8. t \in Seq(S) /\ Len(t) = c
  <2> HIDE DEF b, c
  <2> QED
    BY <1>3, <1>7, SubstrInside
<1>9. ASSUME NEW k \in 1..m
      PROVE  /\ from[k - 1] \in Nat /\ CR \notin ToSet(those[k]) /\ Stands(t, from[k - 1], those[k])
             /\ from[k] = from[k - 1] + Len(those[k]) + 2
             /\ k < m => IsCRLF(t, from[k - 1] + Len(those[k]))
             /\ k = m => from[k - 1] + Len(those[k]) = c
  <2> DEFINE r == k + i - 1
             p == at[r - 1]
             w == lines[r]
             q == at[r]
             l == Len(w)
             e == at[n]
             f == from[k - 1]
             g == from[k]
  <2>1. r \in 1..n /\ r - 1 \in 0..n /\ i - 1 \in 0..(r - 1) /\ r \in 0..n /\ n \in 0..n
    BY <1>6
  <2>2. /\ w \in Seq(S) /\ CR \notin ToSet(w) /\ l \in Nat /\ p \in Nat /\ q \in Nat /\ q = p + l + 2
        /\ Stands(d, p, w) /\ IsCRLF(d, p + l)
    BY <1>1, <1>2, <2>1
  <2>3. b <= p /\ q <= e /\ e \in Nat
    <3>1. r \in 0..n /\ e \in Nat
      BY <1>1, <2>1
    <3> QED
      BY <1>1, <2>1, <3>1
  <2>4. f = p - b /\ g = q - b
    BY <1>5, <1>6
  <2>5. those[k] = w
    BY <1>4
  <2>6. k = m <=> r = n
    BY <1>1, <1>3
  <2>7. r < n => q + 3 <= e
    <3> SUFFICES ASSUME r < n PROVE q + 3 <= e
      OBVIOUS
    <3> DEFINE u == at[r + 1]
               v == Len(lines[r + 1])
    <3>1. r + 1 \in 1..n /\ (r + 1) - 1 = r /\ r + 1 \in 0..n
      BY <1>1, <2>1
    <3>2. u = at[(r + 1) - 1] + v + 2 /\ v \in Nat /\ v > 0 /\ u \in Nat
      BY <1>1, <1>2, <3>1
    <3>3. u = q + v + 2
      BY <3>1, <3>2
    <3>4. u <= e
      BY <1>1, <2>1, <3>1
    <3>5. q \in Nat /\ e \in Nat
      BY <2>2, <2>3
    <3> HIDE DEF u, v, q, e
    <3> QED
      BY <3>2, <3>3, <3>4, <3>5
  <2> HIDE DEF r, p, w, q, e, f, g
  <2>8. f \in Nat /\ b + f = p /\ f + l <= c /\ g = f + l + 2 /\ b + (f + l) = p + l /\ f + l \in Nat
    <3>1. b + c = e - 2
      BY <1>7 DEF e
    <3> HIDE DEF b, c
    <3> QED
      BY <1>3, <1>7, <2>2, <2>3, <2>4, <3>1
  <2>9. Stands(t, f, w)
    <3> HIDE DEF b, c
    <3>1. b + f = p
      BY <2>8
    <3>2. Stands(d, b + f, w)
      BY <2>2, <3>1
    <3> QED
      BY <1>3, <1>7, <2>2, <2>8, <3>2, StandsInPart
  <2>10. k < m => IsCRLF(t, f + l)
    <3> SUFFICES ASSUME k < m PROVE IsCRLF(t, f + l)
      OBVIOUS
    <3>1. r < n
      BY <1>1, <1>3, <2>1, <2>6
    <3>2. f + l + 2 <= c
      <4>1. b + c = e - 2 /\ b \in Nat /\ c \in Nat
        BY <1>3, <1>7 DEF e
      <4> HIDE DEF b, c
      <4> QED
        BY <2>2, <2>3, <2>4, <2>7, <2>8, <3>1, <4>1
    <3> DEFINE x == f + l
    <3>3. x \in Nat /\ x + 2 <= c /\ IsCRLF(d, b + x)
      BY <2>2, <2>8, <3>2
    <3> HIDE DEF b, c, x
    <3>4. IsCRLF(t, x)
      BY <1>3, <1>7, <3>3, LineEndInside2
    <3> QED
      BY <3>4 DEF x
  <2>11. k = m => f + l = c
    <3> SUFFICES ASSUME k = m PROVE f + l = c
      OBVIOUS
    <3>1. q = e
      BY <2>6 DEF q, e
    <3>2. b + c = e - 2 /\ b \in Nat /\ c \in Nat
      BY <1>3, <1>7 DEF e
    <3>3. b + f = p /\ f \in Nat /\ l \in Nat /\ p \in Nat /\ q = p + l + 2
      BY <2>2, <2>8
    <3> HIDE DEF b, c, l
    <3> QED
      BY <3>1, <3>2, <3>3
  <2>12. Len(those[k]) = l
    BY <2>5
  <2> HIDE DEF l
  <2> QED
    BY <2>2, <2>5, <2>8, <2>9, <2>10, <2>11, <2>12 DEF f, g
<1>10. LinesAt(t, those, from)
  <2>1. those # <<>> /\ m \in 1..m
    BY <1>3, <1>4
  <2>2. from[0] = 0
    <3>1. 0 \in 0..m /\ 0 + i - 1 = i - 1
      BY <1>3
    <3>2. from[0] = b - b
      BY <1>5, <3>1
    <3> QED
      BY <1>3, <3>2
  <2> HIDE DEF t, m, b, c
  <2> QED
    BY <1>4, <1>8, <1>9, <2>1, <2>2 DEF LinesAt
<1>11. Lines(t) = those
  <2> HIDE DEF t
  <2> QED
    BY <1>4, <1>8, <1>10, LinesAre
<1> QED
  BY <1>7, <1>11 DEF n, those

LEMMA TopParsed ==
    ASSUME NEW S, CR \in S, LF \in S, NEW lines, IsBlock(lines, S), Len(lines) >= 2,
           NEW rest \in Seq(S), NEW d, d = Block(lines) \o (CRLF \o rest), Len(d) < WordSize
    PROVE  /\ d \in Seq(S) /\ Separator(d) # npos /\ Delimited(d)
           /\ Separator(d) + 4 = Len(d) - Len(rest)
           /\ Lines(HeaderText(d)) = SubSeq(lines, 2, Len(lines))
<1> DEFINE n == Len(lines)
           b == Len(Block(lines))
<1>1. /\ d \in Seq(S) /\ IsCRLF(d, b) /\ b \in Nat /\ Len(d) = b + 2 + Len(rest)
      /\ \E at \in [0..n -> Nat] : BlockAt(d, lines, at) /\ at[n] = b
  BY BlockFound
<1>2. PICK at \in [0..n -> Nat] : BlockAt(d, lines, at) /\ at[n] = b
  BY <1>1
<1>3. /\ n \in Nat /\ n >= 2
      /\ \A l \in 0..n : \A k \in 0..l : at[k] <= at[l]
      /\ \A k \in 1..n :
            /\ lines[k] \in Seq(S) /\ CR \notin ToSet(lines[k]) /\ Len(lines[k]) \in Nat /\ Len(lines[k]) > 0
            /\ k \in 0..n /\ k - 1 \in 0..n /\ at[k - 1] \in Nat /\ at[k] \in Nat
  BY <1>2, BlockGrows
<1>4. Separator(d) = b - 2 /\ Separator(d) \in Nat /\ FindCRLF(d, 0) = Len(lines[1])
  <2>1. IsCRLF(d, at[Len(lines)])
    BY <1>1, <1>2
  <2> QED
    BY <1>1, <1>2, <2>1, BlankOfBlock, ZenonT(40)
<1>5. at[0] = 0 /\ \A k \in 1..n : at[k] = at[k - 1] + Len(lines[k]) + 2
  BY <1>2 DEF BlockAt
<1>6. 2 \in 1..n /\ 1 \in 1..n /\ 2 - 1 = 1 /\ 1 - 1 = 0
  BY <1>3
<1>7. at[1] = FindCRLF(d, 0) + 2 /\ at[1] \in Nat
  <2> HIDE DEF n
  <2>1. at[1] = at[0] + Len(lines[1]) + 2 /\ Len(lines[1]) \in Nat
    BY <1>3, <1>5, <1>6
  <2> QED
    BY <1>4, <1>5, <2>1
<1>8. at[n] - 2 - at[1] \in Nat /\ Lines(Substr(d, at[1], at[n] - 2 - at[1])) = SubSeq(lines, 2, n)
  <2> DEFINE i == 2
             p == i - 1
  <2>1. i \in 1..Len(lines)
    BY <1>6
  <2>2. p = 1
    OBVIOUS
  <2> HIDE DEF i
  <2>3. at[n] - 2 - at[p] \in Nat /\ Lines(Substr(d, at[p], at[n] - 2 - at[p])) = SubSeq(lines, i, n)
    BY <1>1, <1>2, <2>1, BlockLines
  <2> HIDE DEF p
  <2> QED
    BY <2>2, <2>3 DEF i
<1> HIDE DEF n, b
<1>9. HeaderText(d) = Substr(d, at[1], at[n] - 2 - at[1])
  <2> DEFINE f == FindCRLF(d, 0)
             s == Separator(d)
             l == s - f - 2
  <2>1. l = at[n] - 2 - at[1] /\ l \in Nat
    <3> DEFINE x == at[1]
               y == at[n]
    <3>1. s = y - 2 /\ x = f + 2 /\ x \in Nat /\ y - 2 - x \in Nat /\ y = b /\ b \in Nat
      BY <1>1, <1>2, <1>4, <1>7, <1>8
    <3> HIDE DEF x, y, f, s
    <3>2. f = x - 2
      <4>1. f \in Nat
        BY <1>3, <1>4, <1>6 DEF f
      <4> QED
        BY <3>1, <4>1
    <3>3. l = y - 2 - x
      BY <3>1, <3>2
    <3> QED
      BY <3>1, <3>3 DEF x, y
  <2>2. l < WordSize
    <3>1. s \in Nat /\ s < Len(d) /\ Len(d) \in Nat /\ f \in Nat
      <4>1. Len(rest) \in Nat
        OBVIOUS
      <4>2. f \in Nat
        BY <1>3, <1>4, <1>6
      <4> DEFINE m == Len(rest)
                 z == Len(d)
      <4>3. s = b - 2 /\ s \in Nat /\ b \in Nat /\ z = b + 2 + m /\ m \in Nat
        BY <1>1, <1>4, <4>1
      <4> HIDE DEF s, z, m
      <4>4. s \in Nat /\ s < z /\ z \in Nat
        BY <4>3
      <4> QED
        BY <4>2, <4>4 DEF z
    <3>2. WordSize \in Nat
      BY WordSizeType
    <3> HIDE DEF f, s
    <3> QED
      BY <2>1, <3>1, <3>2
  <2>3. l % WordSize = l
    <3> HIDE DEF l
    <3> QED
      BY <2>1, <2>2, WordSizeType
  <2>4. HeaderText(d) = Substr(d, f + 2, l % WordSize)
    BY DEF HeaderText
  <2> HIDE DEF f, l
  <2> QED
    BY <1>7, <2>1, <2>3, <2>4 DEF f
<1>10. Separator(d) # npos
  BY <1>4 DEF npos
<1>11. Separator(d) # FindCRLF(d, 0)
  <2> DEFINE x == at[1]
             y == at[n]
             f == FindCRLF(d, 0)
  <2>1. Separator(d) = y - 2 /\ x = f + 2 /\ y - 2 - x \in Nat /\ x \in Nat /\ y \in Nat /\ f \in Nat
    BY <1>1, <1>2, <1>3, <1>4, <1>6, <1>7, <1>8
  <2> HIDE DEF x, y, f
  <2> QED
    BY <2>1 DEF f
<1>12. Delimited(d)
  BY <1>10, <1>11 DEF Delimited
<1>13. Separator(d) + 4 = Len(d) - Len(rest)
  <2>1. Len(rest) \in Nat
    OBVIOUS
  <2> QED
    BY <1>1, <1>4, <2>1
<1> QED
  BY <1>1, <1>8, <1>9, <1>10, <1>12, <1>13 DEF n

\* What is held of the head of a complete request is that of the whole.
LEMMA HeadersParsed ==
    ASSUME NEW S, NEW raw \in Seq(S), Delimited(raw), NEW n \in 0..Len(raw),
           Parse(Substr(raw, 0, n)).status = "SUCCESS"
    PROVE  parseHeaders(HeaderText(raw)) /\ Parse(Substr(raw, 0, n)).headers = Fields(HeaderText(raw))
<1> DEFINE p == Substr(raw, 0, n)
<1>1. HasHead(p) /\ Separator(p) # npos /\ Parse(p).headers = Fields(HeaderText(p))
  BY HeadHeld
<1> HIDE DEF p
<1>2. Separator(p) = IF Separator(raw) # npos /\ Separator(raw) + 4 <= n THEN Separator(raw) ELSE npos
  BY BlankInPart DEF p
<1>3. Separator(raw) # npos /\ Separator(raw) + 4 <= n
  BY <1>1, <1>2
<1>4. HeaderText(p) = HeaderText(raw)
  BY <1>3, PartHead DEF p
<1> QED
  BY <1>1, <1>4 DEF HasHead, p

-----------------------------------------------------------------------------
(* Sessions *)

LEMMA CookieHeaderIs ==
    ASSUME NEW S, NEW s \in Seq(S), s # <<>>, s[1] \notin Blank, s[Len(s)] \notin Blank
    PROVE  trimSpaces(Tail(<<Cookie, Space>> \o s)) = s
<1> DEFINE T == S \cup {Cookie, Space}
           two == <<Cookie, Space>>
           line == two \o s
           tail == Tail(line)
           l == Len(s)
           e == l + 1
<1>1. s \in Seq(T) /\ l \in Nat /\ l > 0 /\ \A i \in 1..l : s[i] \in T
  <2>1. l \in Nat /\ s = [i \in 1..l |-> s[i]] /\ \A i \in 1..l : s[i] \in T
    OBVIOUS
  <2>2. s \in Seq(T)
    BY <2>1
  <2> QED
    BY <2>1, <2>2
<1>2. two \in Seq(T) /\ Len(two) = 2 /\ two[2] = Space
  OBVIOUS
<1> HIDE DEF T, two
<1>3. /\ line \in Seq(T) /\ Len(line) = 2 + l
      /\ \A i \in 1..(2 + l) : line[i] = IF i <= 2 THEN two[i] ELSE s[i - 2]
  <2>1. line \in Seq(T) /\ Len(line) = Len(two) + Len(s)
        /\ \A i \in 1..(Len(two) + Len(s)) : line[i] = IF i <= Len(two) THEN two[i] ELSE s[i - Len(two)]
    BY <1>1, <1>2, ConcatProperties
  <2> HIDE DEF line
  <2> QED
    BY <1>2, <2>1
<1> HIDE DEF line
<1>4. tail \in Seq(T) /\ Len(tail) = e /\ \A i \in 1..e : tail[i] = line[i + 1]
  <2>1. line # <<>>
    BY <1>1, <1>3
  <2>2. tail \in Seq(T) /\ Len(tail) = (2 + l) - 1
    BY <1>3, <2>1
  <2>3. \A i \in 1..((2 + l) - 1) : tail[i] = line[i + 1]
    BY <1>3, <2>1
  <2>4. (2 + l) - 1 = e
    BY <1>1
  <2> HIDE DEF tail, e
  <2> QED
    BY <2>2, <2>3, <2>4
<1> HIDE DEF tail
<1>5. tail[1] = Space
  <2>1. 1 \in 1..e /\ 1 + 1 = 2 /\ 2 \in 1..(2 + l) /\ 2 <= 2
    BY <1>1
  <2> QED
    BY <1>2, <1>3, <1>4, <2>1
<1>6. \A i \in 1..l : tail[1 + i] = s[i]
  <2> SUFFICES ASSUME NEW i \in 1..l PROVE tail[1 + i] = s[i]
    OBVIOUS
  <2> DEFINE j == 1 + i
             k == j + 1
  <2>1. j \in 1..e /\ k \in 1..(2 + l) /\ ~(k <= 2) /\ k - 2 = i
    BY <1>1
  <2> HIDE DEF k
  <2>2. line[k] = s[i]
    BY <1>3, <2>1
  <2>3. tail[j] = line[k]
    BY <1>4, <2>1 DEF k
  <2> QED
    BY <2>2, <2>3
<1>7. Trim(tail, Blank) = SubSeq(tail, 2, e)
  <2>1. 2 \in 1..Len(tail) /\ e \in 2..Len(tail)
    BY <1>1, <1>4
  <2>2. tail[2] \notin Blank /\ tail[e] \notin Blank
    <3>1. 1 \in 1..l /\ l \in 1..l /\ 1 + 1 = 2 /\ 1 + l = e
      BY <1>1
    <3>2. tail[1 + 1] = s[1] /\ tail[1 + l] = s[l]
      BY <1>6, <3>1
    <3> QED
      BY <3>1, <3>2
  <2>3. \A k \in 1..Len(tail) : k < 2 \/ e < k => tail[k] \in Blank
    <3> SUFFICES ASSUME NEW k \in 1..Len(tail), k < 2 \/ e < k PROVE tail[k] \in Blank
      OBVIOUS
    <3>1. k = 1
      BY <1>1, <1>4
    <3> QED
      BY <1>5, <3>1, Blanks
  <2> DEFINE a == 2
  <2> HIDE DEF a, e
  <2>4. a \in 1..Len(tail) /\ e \in a..Len(tail) /\ tail[a] \notin Blank /\ tail[e] \notin Blank
        /\ \A k \in 1..Len(tail) : k < a \/ e < k => tail[k] \in Blank
    BY <2>1, <2>2, <2>3 DEF a
  <2>5. Trim(tail, Blank) = SubSeq(tail, a, e)
    BY <1>4, <2>4, TrimIs
  <2> QED
    BY <2>5 DEF a
<1>8. SubSeq(tail, 2, e) = s
  <2> DEFINE x == SubSeq(tail, 2, e)
  <2>1. 2 \in Int /\ e \in Int /\ 2 <= e /\ e - 2 + 1 = l /\ \A i \in 2..e : tail[i] \in T
    <3>1. \A i \in 1..e : tail[i] \in T
      BY <1>4
    <3> QED
      BY <1>1, <3>1
  <2>2. x \in Seq(T) /\ Len(x) = l /\ \A i \in 1..l : x[i] = tail[2 + i - 1]
    BY <2>1, SubSeqProperties
  <2>3. \A i \in 1..l : 2 + i - 1 = 1 + i
    BY <1>1
  <2> HIDE DEF x
  <2>4. \A i \in 1..l : x[i] = s[i]
    BY <1>6, <2>2, <2>3
  <2>5. x = s
    BY <1>1, <2>2, <2>4, SeqEqual
  <2> QED
    BY <2>5 DEF x
<1>9. trimSpaces(tail) = s
  BY <1>7, <1>8, Blanks
<1> QED
  BY <1>9 DEF tail, line, two

LEMMA LastCookie ==
    ASSUME NEW S, NEW text \in Seq(S), NEW lines \in Seq(Seq(S)), lines = Lines(text),
           parseHeaders(text), NEW c \in 1..Len(lines),
           NEW s \in Seq(S), lines[c] = <<Cookie, Space>> \o s,
           \A k \in 1..Len(lines) : lines[k] # <<>> /\ lines[k][1] = Cookie => k <= c
    PROVE  LineFor("cookie", text) = lines[c] /\ lines[c] # <<>>
<1> DEFINE found == {k \in DOMAIN lines : lines[k] # <<>> /\ lines[k][1] = Cookie}
           n == Len(lines)
<1>1. n \in Nat /\ DOMAIN lines = 1..n
  OBVIOUS
<1>2. lines[c] # <<>> /\ lines[c][1] = Cookie
  <2> DEFINE T == S \cup {Cookie, Space}
             two == <<Cookie, Space>>
             w == two \o s
  <2>1. s \in Seq(T)
    <3>1. Len(s) \in Nat /\ s = [i \in 1..Len(s) |-> s[i]] /\ \A i \in 1..Len(s) : s[i] \in T
      OBVIOUS
    <3> QED
      BY <3>1
  <2>2. two \in Seq(T) /\ Len(two) = 2 /\ two[1] = Cookie /\ Len(s) \in Nat
    OBVIOUS
  <2> HIDE DEF T, two
  <2>3. w \in Seq(T) /\ Len(w) = Len(two) + Len(s)
        /\ \A i \in 1..(Len(two) + Len(s)) : w[i] = IF i <= Len(two) THEN two[i] ELSE s[i - Len(two)]
    BY <2>1, <2>2, ConcatProperties
  <2>4. 1 \in 1..(Len(two) + Len(s)) /\ 1 <= Len(two) /\ Len(two) + Len(s) # 0
    BY <2>2
  <2> HIDE DEF w
  <2>5. w[1] = Cookie /\ w # <<>>
    BY <2>2, <2>3, <2>4
  <2>6. lines[c] = w
    BY DEF w, two
  <2> QED
    BY <2>5, <2>6
<1>3. c \in found /\ found \in SUBSET (1..n) /\ \A k \in found : k <= c
  BY <1>1, <1>2
<1>4. Max(found) = c
  <2> HIDE DEF found
  <2>1. Max(found) \in found /\ \A k \in found : k <= Max(found)
    BY <1>1, <1>3, MaxOf
  <2> DEFINE m == Max(found)
  <2>2. m <= c /\ c <= m /\ m \in 1..n
    BY <1>3, <2>1
  <2> HIDE DEF m
  <2>3. m = c
    BY <1>1, <2>2
  <2> QED
    BY <2>3 DEF m
<1> DEFINE those == {k \in DOMAIN lines : /\ lines[k] # <<>> /\ lines[k][1] \in LinesOf["cookie"]
                                         /\ \A j \in 1..(k - 1) : HasColon(lines[j])}
<1>5. LineFor("cookie", text) = IF those = {} THEN <<>> ELSE lines[Max(those)]
  BY DEF LineFor
<1>6. those = found
  <2>1. LinesOf["cookie"] = {Cookie}
    BY DEF LinesOf
  <2>2. \A j \in 1..n : HasColon(lines[j])
    BY DEF parseHeaders, ToSet
  <2>3. \A k \in 1..n : \A j \in 1..(k - 1) : j \in 1..n
    BY <1>1
  <2> HIDE DEF n
  <2> QED
    BY <1>1, <2>1, <2>2, <2>3
<1> HIDE DEF those, found
<1> QED
  BY <1>2, <1>3, <1>4, <1>5, <1>6

\* A request of who was given a session: among its headers is one of cookies, the last of
\* its kind, and among those the one that was set, and no other value of it.
Carried(r) == ToSet(r.bytes) \cup {CR, LF, Space, Semicolon}
IsReturning(r) ==
    \E lines, jar \in Seq(Seq(Carried(r))), rest \in Seq(Carried(r)) :
       \E c \in 2..Len(lines) :
          /\ r.bytes = Block(lines) \o (CRLF \o rest) /\ Len(r.bytes) < WordSize
          /\ IsBlock(lines, Carried(r))
          /\ lines[c] = <<Cookie, Space>> \o Separated(jar)
          /\ \A k \in 2..Len(lines) : lines[k][1] = Cookie => k <= c
          /\ IsJar(jar, Carried(r)) /\ Keeps(jar, "SESSION_ID", r.session)

LEMMA CookieReturned ==
    ASSUME NEW r, IsReturning(r)
    PROVE  /\ r.bytes \in Seq(Carried(r)) /\ Delimited(r.bytes)
           /\ parseHeaders(HeaderText(r.bytes)) =>
                getCookie(cookieHeader(Fields(HeaderText(r.bytes))), <<"SESSION_ID">>) = <<r.session>>
<1> DEFINE S == Carried(r)
           d == r.bytes
           name == "SESSION_ID"
           value == r.session
<1>1. PICK lines \in Seq(Seq(S)), jar \in Seq(Seq(S)), rest \in Seq(S) :
         \E c \in 2..Len(lines) :
          /\ d = Block(lines) \o (CRLF \o rest) /\ Len(d) < WordSize
          /\ IsBlock(lines, S)
          /\ lines[c] = <<Cookie, Space>> \o Separated(jar)
          /\ \A k \in 2..Len(lines) : lines[k][1] = Cookie => k <= c
          /\ IsJar(jar, S) /\ Keeps(jar, name, value)
  BY DEF IsReturning
<1>2. PICK c \in 2..Len(lines) :
          /\ d = Block(lines) \o (CRLF \o rest) /\ Len(d) < WordSize
          /\ IsBlock(lines, S)
          /\ lines[c] = <<Cookie, Space>> \o Separated(jar)
          /\ \A k \in 2..Len(lines) : lines[k][1] = Cookie => k <= c
          /\ IsJar(jar, S) /\ Keeps(jar, name, value)
  BY <1>1
<1>3. CR \in S /\ LF \in S /\ Space \in S /\ Semicolon \in S
  BY DEF Carried
<1>4. name # "="
  OBVIOUS
<1> HIDE DEF S, d, name, value
<1> DEFINE n == Len(lines)
           those == SubSeq(lines, 2, n)
           s == Separated(jar)
<1>5. n \in Nat /\ n >= 2 /\ c \in 2..n
  BY <1>2
<1>6. d \in Seq(S) /\ Delimited(d) /\ Lines(HeaderText(d)) = those
  BY <1>2, <1>3, <1>5, TopParsed
<1>7. /\ s \in Seq(S) /\ s # <<>> /\ s[1] \notin Blank /\ s[Len(s)] \notin Blank
      /\ getCookie(s, <<name>>) = <<value>>
  <2>1. s \in Seq(S) /\ s # <<>> /\ s[1] \notin Blank /\ s[Len(s)] \notin Blank
    BY <1>2, <1>3, JarSplit
  <2>2. getCookie(s, <<name>>) = <<value>>
    BY <1>2, <1>3, <1>4, CookieFound
  <2> QED
    BY <2>1, <2>2
<1> HIDE DEF s
<1>8. those \in Seq(Seq(S)) /\ Len(those) = n - 1 /\ \A k \in 1..(n - 1) : those[k] = lines[k + 1]
  <2> DEFINE T == Seq(S)
  <2>1. 2 \in Int /\ n \in Int /\ 2 <= n /\ n - 2 + 1 = n - 1 /\ \A j \in 2..n : lines[j] \in T
    BY <1>1, <1>5
  <2> HIDE DEF T
  <2>2. those \in Seq(T) /\ Len(those) = n - 2 + 1 /\ \A k \in 1..(n - 2 + 1) : those[k] = lines[2 + k - 1]
    BY <2>1, SubSeqProperties
  <2> HIDE DEF those, n
  <2>3. \A k \in 1..(n - 1) : 2 + k - 1 = k + 1
    BY <1>5
  <2> QED
    BY <2>1, <2>2, <2>3 DEF T
<1> HIDE DEF those
<1> DEFINE text == HeaderText(d)
<1>9. text \in Seq(S) /\ Lines(text) = those
  <2>1. Separator(d) # npos
    BY <1>2, <1>3, <1>5, TopParsed
  <2>2. FindCRLF(d, 0) # npos
    BY <1>6, <2>1, BlankBehindLine
  <2> QED
    BY <1>6, <2>2, HeadType
<1> HIDE DEF text
<1>10. ASSUME parseHeaders(text)
      PROVE  LineFor("cookie", text) = <<Cookie, Space>> \o s /\ LineFor("cookie", text) # <<>>
  <2> DEFINE e == c - 1
  <2>1. e \in 1..(n - 1) /\ e + 1 = c
    BY <1>5
  <2>2. those[e] = <<Cookie, Space>> \o s
    BY <1>2, <1>8, <2>1 DEF s
  <2>3. ASSUME NEW k \in 1..Len(those), those[k][1] = Cookie PROVE k <= e
    <3>1. k \in 1..(n - 1) /\ k + 1 \in 2..n
      BY <1>5, <1>8
    <3>2. lines[k + 1][1] = Cookie
      BY <1>8, <2>3, <3>1
    <3>3. k + 1 <= c
      BY <1>2, <3>1, <3>2 DEF n
    <3> QED
      BY <1>5, <3>1, <3>3
  <2>4. e \in 1..Len(those)
    BY <1>8, <2>1
  <2> HIDE DEF e
  <2>5. \A k \in 1..Len(those) : those[k] # <<>> /\ those[k][1] = Cookie => k <= e
    BY <2>3
  <2>6. those \in Seq(Seq(S)) /\ s \in Seq(S)
    BY <1>7, <1>8
  <2>7. LineFor("cookie", text) = those[e] /\ those[e] # <<>>
    BY <1>9, <1>10, <2>2, <2>4, <2>5, <2>6, LastCookie
  <2> QED
    BY <2>2, <2>7
<1>11. ASSUME parseHeaders(text) PROVE cookieHeader(Fields(text)) = s
  <2>1. trimSpaces(Tail(<<Cookie, Space>> \o s)) = s
    BY <1>7, CookieHeaderIs
  <2> QED
    BY <1>10, <1>11, <2>1, FieldsAre, KeysAre DEF cookieHeader
<1> QED
  BY <1>6, <1>7, <1>11 DEF S, d, name, value, text

SentReturning == \A r \in Sent : r.session # "" => IsReturning(r)

\* Who sends back the cookie that Set-Cookie gave it is known by its session, among whichever
\* cookies and headers it stands, and wherever the reads of the request end.
THEOREM SessionsKept == ASSUME SentTexts, SentReturning PROVE Spec => []SessionKept
<1>1. Parsed => SessionKept
  <2> SUFFICES ASSUME Parsed, sent.session # "", status = "SUCCESS"
               PROVE  getCookie(cookieHeader(headers), <<"SESSION_ID">>) = <<sent.session>>
    BY DEF SessionKept
  <2> DEFINE outcome == Parse(Part(received))
  <2>1. IsReturning(sent) /\ received \in 0..Len(sent.bytes)
    BY DEF Parsed, SentReturning
  <2>2. outcome.status = "SUCCESS" /\ headers = outcome.headers
    BY DEF Parsed
  <2>3. /\ sent.bytes \in Seq(Carried(sent)) /\ Delimited(sent.bytes)
        /\ parseHeaders(HeaderText(sent.bytes)) =>
             getCookie(cookieHeader(Fields(HeaderText(sent.bytes))), <<"SESSION_ID">>) = <<sent.session>>
    BY <2>1, CookieReturned
  <2>4. parseHeaders(HeaderText(sent.bytes)) /\ outcome.headers = Fields(HeaderText(sent.bytes))
    BY <2>1, <2>2, <2>3, HeadersParsed DEF Part
  <2> HIDE DEF outcome
  <2> QED
    BY <2>2, <2>3, <2>4
<1>2. Spec => []Parsed
  BY HoldsParsed
<1> QED
  BY <1>1, <1>2, PTL

-----------------------------------------------------------------------------
(* What pieces make of a text *)

Ended(lines) == [k \in 1..Len(lines) |-> Line(lines[k])]

LEMMA EndedType ==
    ASSUME NEW S, CR \in S, LF \in S, NEW lines \in Seq(Seq(S))
    PROVE  /\ Ended(lines) \in Seq(Seq(S)) /\ Len(Ended(lines)) = Len(lines)
           /\ \A k \in 1..Len(lines) : Ended(lines)[k] = Line(lines[k])
           /\ Block(lines) = FlattenSeq(Ended(lines)) /\ Block(lines) \in Seq(S)
<1> DEFINE n == Len(lines)
           e == Ended(lines)
<1>1. n \in Nat /\ \A k \in 1..n : lines[k] \in Seq(S)
  OBVIOUS
<1>2. \A k \in 1..n : Line(lines[k]) \in Seq(S)
  BY <1>1, CRLFType
<1>3. e = [k \in 1..n |-> Line(lines[k])]
  BY DEF Ended
<1> HIDE DEF n, e
<1>4. e \in Seq(Seq(S)) /\ Len(e) = n /\ \A k \in 1..n : e[k] = Line(lines[k])
  <2> DEFINE T == Seq(S)
  <2>1. \A k \in 1..n : Line(lines[k]) \in T
    BY <1>2
  <2> HIDE DEF T
  <2>2. e \in Seq(T) /\ Len(e) = n
    BY <1>1, <1>3, <2>1
  <2> QED
    BY <1>3, <2>2 DEF T
<1>5. Block(lines) = FlattenSeq(e)
  BY DEF Block, Ended, e
<1>6. Block(lines) \in Seq(S)
  BY <1>4, <1>5, Flattened
<1> QED
  BY <1>4, <1>5, <1>6 DEF n, e

LEMMA BlockConcat ==
    ASSUME NEW S, CR \in S, LF \in S, NEW a \in Seq(Seq(S)), NEW b \in Seq(Seq(S))
    PROVE  Block(a \o b) = Block(a) \o Block(b)
<1> DEFINE m == Len(a)
           n == Len(b)
           c == a \o b
           x == Ended(a)
           y == Ended(b)
           z == Ended(c)
<1>1. /\ c \in Seq(Seq(S)) /\ Len(c) = m + n /\ m \in Nat /\ n \in Nat
      /\ \A k \in 1..(m + n) : c[k] = IF k <= m THEN a[k] ELSE b[k - m]
  BY ConcatProperties
<1>2. x \in Seq(Seq(S)) /\ Len(x) = m /\ \A k \in 1..m : x[k] = Line(a[k])
  BY EndedType
<1>3. y \in Seq(Seq(S)) /\ Len(y) = n /\ \A k \in 1..n : y[k] = Line(b[k])
  BY EndedType
<1> HIDE DEF c
<1>4. z \in Seq(Seq(S)) /\ Len(z) = Len(c) /\ \A k \in 1..Len(c) : z[k] = Line(c[k])
  BY <1>1, EndedType
<1> HIDE DEF x, y, z, m, n
<1>5. x \o y \in Seq(Seq(S)) /\ Len(x \o y) = m + n
      /\ \A k \in 1..(m + n) : (x \o y)[k] = IF k <= m THEN x[k] ELSE y[k - m]
  BY <1>2, <1>3, ConcatProperties
<1>6. ASSUME NEW k \in 1..(m + n) PROVE z[k] = (x \o y)[k]
  <2>1. z[k] = Line(c[k])
    BY <1>1, <1>4
  <2>2. CASE k <= m
    <3>1. k \in 1..m
      BY <1>1, <2>2
    <3> QED
      BY <1>1, <1>2, <1>5, <2>1, <2>2, <3>1
  <2>3. CASE ~(k <= m)
    <3> DEFINE h == k - m
    <3>1. h \in 1..n
      BY <1>1, <2>3
    <3>2. c[k] = b[h] /\ (x \o y)[k] = y[h]
      BY <1>1, <1>5, <2>3
    <3> HIDE DEF h
    <3> QED
      BY <1>3, <2>1, <3>1, <3>2
  <2> QED
    BY <2>2, <2>3
<1>7. z = x \o y
  <2> DEFINE u == x \o y
             T == Seq(S)
  <2>1. z \in Seq(T) /\ u \in Seq(T) /\ Len(z) = Len(u) /\ \A k \in 1..Len(z) : z[k] = u[k]
    BY <1>1, <1>4, <1>5, <1>6
  <2> HIDE DEF u, T
  <2>2. z = u
    BY <2>1, SeqEqual
  <2> QED
    BY <2>2 DEF u
<1>8. FlattenSeq(x \o y) = FlattenSeq(x) \o FlattenSeq(y)
  BY <1>2, <1>3, FlattenConcat
<1>9. /\ Block(a) = FlattenSeq(x) /\ Block(b) = FlattenSeq(y) /\ Block(c) = FlattenSeq(z)
  <2>1. Block(a) = FlattenSeq(x) /\ Block(b) = FlattenSeq(y)
    BY EndedType DEF x, y
  <2>2. Block(c) = FlattenSeq(z)
    BY <1>1, EndedType DEF z
  <2> QED
    BY <2>1, <2>2
<1> QED
  BY <1>7, <1>8, <1>9 DEF c

LEMMA BlockOne ==
    ASSUME NEW S, CR \in S, LF \in S, NEW w \in Seq(S)
    PROVE  Block(<<w>>) = Line(w)
<1> DEFINE v == Line(w)
           one == <<w>>
<1>1. v \in Seq(S)
  BY CRLFType
<1>2. one \in Seq(Seq(S)) /\ Len(one) = 1 /\ one[1] = w
  OBVIOUS
<1> HIDE DEF one
<1>3. Ended(one) \in Seq(Seq(S)) /\ Len(Ended(one)) = 1 /\ Ended(one)[1] = v
      /\ Block(one) = FlattenSeq(Ended(one))
  BY <1>2, EndedType
<1> HIDE DEF v
<1>4. Ended(one) = <<v>>
  BY <1>3, OneStands
<1>5. FlattenSeq(<<v>>) = v
  BY <1>1, FlattenOne
<1> QED
  BY <1>3, <1>4, <1>5 DEF one, v

LEMMA BlockEmpty == Block(<<>>) = <<>>
<1> DEFINE none == <<>>
<1>1. Len(none) = 0
  OBVIOUS
<1>2. Ended(none) = <<>>
  BY <1>1 DEF Ended
<1>3. Block(none) = FlattenSeq(Ended(none))
  BY DEF Block, Ended
<1> QED
  BY <1>2, <1>3, FlattenEmpty

-----------------------------------------------------------------------------
(* What clients make of what is sent back *)

\* Different numbers are written differently, none as a line end, and three of the codes so.
Printed ==
    /\ \A m, n \in Nat : ToString(m) = ToString(n) => m = n
    /\ \A n \in Nat : ToString(n) # CR
    /\ ToString(200) = "200" /\ ToString(204) = "204" /\ ToString(304) = "304"

LEMMA BlockParts ==
    ASSUME NEW S, CR \in S, LF \in S, NEW lines, IsBlock(lines, S), NEW rest \in Seq(S),
           NEW d, d = Block(lines) \o (CRLF \o rest)
    PROVE  /\ d \in Seq(S) /\ Separator(d) \in Nat /\ Separator(d) = Len(Block(lines)) - 2
           /\ Lines(Substr(d, 0, Separator(d))) = lines
           /\ Substr(d, Separator(d) + 4, Len(d)) = rest
<1> DEFINE b == Len(Block(lines))
           n == Len(lines)
           l == Len(rest)
           blank == Separator(d)
<1>1. /\ d \in Seq(S) /\ IsCRLF(d, b) /\ b \in Nat /\ Stands(d, b + 2, rest) /\ Len(d) = b + 2 + l
      /\ \E at \in [0..n -> Nat] : BlockAt(d, lines, at) /\ at[n] = b
  BY BlockFound DEF b, n, l
<1>2. PICK at \in [0..n -> Nat] : BlockAt(d, lines, at) /\ at[n] = b
  BY <1>1
<1>3. n \in Nat /\ n > 0 /\ l \in Nat /\ lines \in Seq(Seq(S))
  BY DEF IsBlock
<1> HIDE DEF b, l
<1>4. blank = b - 2 /\ blank \in Nat
  <2>1. IsCRLF(d, at[Len(lines)])
    BY <1>1, <1>2
  <2>2. Separator(d) = at[Len(lines)] - 2 /\ Separator(d) \in Nat
    BY <1>1, <1>2, <2>1, BlankOfBlock
  <2> QED
    BY <1>2, <2>2
<1> HIDE DEF blank
<1>5. Lines(Substr(d, 0, blank)) = lines
  <2> DEFINE i == 1
             p == i - 1
  <2>1. i \in 1..Len(lines)
    BY <1>3
  <2>2. p = 0 /\ at[p] = 0
    BY <1>2 DEF BlockAt
  <2> HIDE DEF i
  <2>3. Lines(Substr(d, at[p], at[n] - 2 - at[p])) = SubSeq(lines, i, n)
    BY <1>1, <1>2, <2>1, BlockLines
  <2>4. SubSeq(lines, i, n) = lines
    BY <1>3, SubSeqFull DEF i
  <2>5. at[n] - 2 - at[p] = blank
    BY <1>2, <1>4, <2>2
  <2> HIDE DEF p
  <2> QED
    BY <2>2, <2>3, <2>4, <2>5
<1>6. Substr(d, blank + 4, Len(d)) = rest
  <2> DEFINE k == blank + 4
             m == Len(d)
  <2>1. k \in 0..m /\ m \in Nat /\ m <= k + m /\ m - k = l /\ k = b + 2 /\ k \in Nat
    BY <1>1, <1>3, <1>4
  <2> HIDE DEF k
  <2>2. Substr(d, k, m) = Substr(d, k, l)
    <3>1. Substr(d, k, m) = Substr(d, k, m - k)
      BY <1>1, <2>1, SubstrRest
    <3> QED
      BY <2>1, <3>1
  <2>3. Substr(d, k, Len(rest)) = rest
    BY <1>1, <2>1, StandsSubstr
  <2> QED
    BY <2>2, <2>3 DEF k, l
<1> QED
  BY <1>1, <1>4, <1>5, <1>6 DEF blank, b

LEMMA ReadIs ==
    ASSUME NEW S, CR \in S, LF \in S, NEW lines, IsBlock(lines, S), NEW rest \in Seq(S),
           NEW sizes, sizes = LastNamed(lines, "content-length:"),
           NEW code, code = lines[1][3],
           NEW answer, answer = Read(Block(lines) \o (CRLF \o rest))
    PROVE  /\ answer.code = code /\ answer.lines = Tail(lines)
           /\ code \in {"204", "304"} => answer.body = <<>> /\ answer.over = Len(rest)
           /\ code \notin {"204", "304"} /\ sizes = <<>> => answer.body = rest /\ answer.over = 0
           /\ code \notin {"204", "304"} /\ sizes # <<>> /\ sizes[1] = ToString(Len(rest))
                /\ Len(rest) <= MaxLength /\ Printed => answer.body = rest /\ answer.over = 0
<1> DEFINE d == Block(lines) \o (CRLF \o rest)
           b == Len(Block(lines))
           n == Len(lines)
           l == Len(rest)
           blank == Find(d, CRLF \o CRLF, 0)
           size == CASE code \in {"204", "304"} -> 0
                     [] code \notin {"204", "304"} /\ sizes = <<>> -> l
                     [] code \notin {"204", "304"} /\ sizes # <<>> ->
                          CHOOSE k \in 0..MaxLength : ToString(k) = sizes[1]
<1>1. /\ blank = Separator(d) /\ d \in Seq(S)
      /\ Lines(Substr(d, 0, Separator(d))) = lines /\ Substr(d, Separator(d) + 4, Len(d)) = rest
  <2> HIDE DEF d
  <2>1. /\ d \in Seq(S) /\ Lines(Substr(d, 0, Separator(d))) = lines
        /\ Substr(d, Separator(d) + 4, Len(d)) = rest
    BY BlockParts DEF d
  <2>2. Find(d, CRLF \o CRLF, 0) = Separator(d)
    BY <2>1, BlankFind
  <2> QED
    BY <2>1, <2>2
<1>3. l \in Nat
  OBVIOUS
<1> HIDE DEF d, l, blank
<1>5. Lines(Substr(d, 0, blank)) = lines
  BY <1>1
<1>6. Substr(d, blank + 4, Len(d)) = rest
  BY <1>1
<1>7. answer = [code |-> code, lines |-> Tail(lines), body |-> Substr(rest, 0, size), over |-> Len(rest) - size]
  <2>1. answer = Read(d)
    BY DEF d
  <2> QED
    BY <1>5, <1>6, <2>1 DEF Read, blank, l
<1>8. answer.code = code /\ answer.lines = Tail(lines) /\ answer.body = Substr(rest, 0, size) /\ answer.over = l - size
  <2> HIDE DEF size
  <2> QED
    BY <1>7 DEF l
<1>9. Substr(rest, 0, l) = rest /\ l - l = 0
  <2>1. Substr(rest, 0, Len(rest)) = rest
    BY SubstrWhole
  <2> QED
    BY <1>3, <2>1 DEF l
<1>10. ASSUME code \in {"204", "304"} PROVE answer.body = <<>> /\ answer.over = l
  <2>1. size = 0
    BY <1>10
  <2>2. Substr(rest, 0, 0) = <<>>
    <3>1. Substr(rest, 0, 0) = SubSeq(rest, 1, 0)
      <4> DEFINE z == 0
      <4>1. z \in Nat /\ z + z <= Len(rest)
        BY <1>3 DEF l
      <4> HIDE DEF z
      <4>2. Substr(rest, z, z) = SubSeq(rest, z + 1, z + z)
        BY <4>1, SubstrInside
      <4> QED
        BY <4>2 DEF z
    <3> QED
      BY <3>1
  <2> HIDE DEF size
  <2> QED
    BY <1>3, <1>8, <2>1, <2>2
<1>11. ASSUME code \notin {"204", "304"}, sizes = <<>> PROVE answer.body = rest /\ answer.over = 0
  <2>1. size = l
    BY <1>11
  <2> HIDE DEF size
  <2> QED
    BY <1>8, <1>9, <2>1
<1>12. ASSUME code \notin {"204", "304"}, sizes # <<>>, sizes[1] = ToString(l), l <= MaxLength, Printed
       PROVE  answer.body = rest /\ answer.over = 0
  <2> DEFINE Is(k) == ToString(k) = sizes[1]
             found == CHOOSE k \in 0..MaxLength : Is(k)
  <2>1. size = found
    BY <1>12
  <2>2. l \in 0..MaxLength /\ Is(l)
    BY <1>3, <1>12, ReadingAssumption
  <2>3. found \in 0..MaxLength /\ Is(found)
    BY <2>2
  <2>4. found = l
    <3> HIDE DEF found
    <3>1. found \in Nat /\ ToString(found) = ToString(l)
      BY <1>12, <2>3
    <3> QED
      BY <1>3, <1>12, <3>1 DEF Printed
  <2> HIDE DEF size, found
  <2> QED
    BY <1>8, <1>9, <2>1, <2>4
<1> QED
  BY <1>8, <1>10, <1>11, <1>12 DEF l

AreLines(lines, S) ==
    lines \in Seq(Seq(S)) /\ \A k \in 1..Len(lines) : lines[k] # <<>> /\ CR \notin ToSet(lines[k])
NoneNamed(lines, name) == \A k \in 1..Len(lines) : lines[k][1] # name

LEMMA LinesConcat ==
    ASSUME NEW S, NEW a, AreLines(a, S), NEW b, AreLines(b, S)
    PROVE  /\ AreLines(a \o b, S) /\ ToSet(a \o b) = ToSet(a) \cup ToSet(b)
           /\ \A name : NoneNamed(a, name) /\ NoneNamed(b, name) => NoneNamed(a \o b, name)
<1> DEFINE m == Len(a)
           n == Len(b)
           c == a \o b
           T == Seq(S)
<1>1. a \in Seq(T) /\ b \in Seq(T) /\ m \in Nat /\ n \in Nat /\ DOMAIN a = 1..m /\ DOMAIN b = 1..n
  BY DEF AreLines
<1>2. /\ \A k \in 1..m : a[k] # <<>> /\ CR \notin ToSet(a[k])
      /\ \A k \in 1..n : b[k] # <<>> /\ CR \notin ToSet(b[k])
  BY DEF AreLines
<1> HIDE DEF T
<1>3. /\ c \in Seq(T) /\ Len(c) = m + n
      /\ \A k \in 1..(m + n) : c[k] = IF k <= m THEN a[k] ELSE b[k - m]
  BY <1>1, ConcatProperties
<1> HIDE DEF c, m, n
<1>4. DOMAIN c = 1..(m + n)
  BY <1>1, <1>3
<1>5. ASSUME NEW k \in 1..(m + n)
      PROVE  \/ k \in 1..m /\ c[k] = a[k]
             \/ k - m \in 1..n /\ c[k] = b[k - m]
  BY <1>1, <1>3
<1>6. \A k \in 1..m : k \in 1..(m + n) /\ c[k] = a[k]
  BY <1>1, <1>3
<1>7. \A k \in 1..n : m + k \in 1..(m + n) /\ c[m + k] = b[k]
  <2> SUFFICES ASSUME NEW k \in 1..n PROVE m + k \in 1..(m + n) /\ c[m + k] = b[k]
    OBVIOUS
  <2> DEFINE h == m + k
  <2>1. h \in 1..(m + n) /\ ~(h <= m) /\ h - m = k
    BY <1>1
  <2> HIDE DEF h
  <2>2. c[h] = b[k]
    BY <1>3, <2>1
  <2> QED
    BY <2>1, <2>2 DEF h
<1>8. AreLines(c, S)
  <2>1. \A k \in 1..(m + n) : c[k] # <<>> /\ CR \notin ToSet(c[k])
    BY <1>2, <1>5 DEF m, n
  <2> QED
    BY <1>3, <2>1 DEF AreLines, T
<1>9. ToSet(c) = ToSet(a) \cup ToSet(b)
  <2>1. ToSet(c) = {c[k] : k \in 1..(m + n)} /\ ToSet(a) = {a[k] : k \in 1..m} /\ ToSet(b) = {b[k] : k \in 1..n}
    BY <1>1, <1>4 DEF ToSet
  <2> QED
    BY <1>5, <1>6, <1>7, <2>1
<1>10. ASSUME NEW name, NoneNamed(a, name), NoneNamed(b, name) PROVE NoneNamed(c, name)
  <2>1. (\A k \in 1..m : a[k][1] # name) /\ \A k \in 1..n : b[k][1] # name
    BY <1>10 DEF NoneNamed, m, n
  <2>2. \A k \in 1..(m + n) : c[k][1] # name
    BY <1>5, <2>1
  <2> QED
    BY <1>3, <2>2 DEF NoneNamed
<1> QED
  BY <1>8, <1>9, <1>10 DEF c

LEMMA LinesOne ==
    ASSUME NEW S, NEW w \in Seq(S), w # <<>>, CR \notin ToSet(w)
    PROVE  /\ AreLines(<<w>>, S) /\ ToSet(<<w>>) = {w}
           /\ \A name : w[1] # name => NoneNamed(<<w>>, name)
<1> DEFINE one == <<w>>
<1>1. one \in Seq(Seq(S)) /\ Len(one) = 1 /\ one[1] = w /\ DOMAIN one = 1..1 /\ \A k \in 1..1 : k = 1
  OBVIOUS
<1> HIDE DEF one
<1>2. AreLines(one, S)
  BY <1>1 DEF AreLines
<1>3. ToSet(one) = {w}
  BY <1>1 DEF ToSet
<1>4. \A name : w[1] # name => NoneNamed(one, name)
  BY <1>1 DEF NoneNamed
<1> QED
  BY <1>2, <1>3, <1>4 DEF one

LEMMA LinesNone == \A S : AreLines(<<>>, S) /\ ToSet(<<>>) = {} /\ \A name : NoneNamed(<<>>, name)
<1> TAKE S
<1>1. AreLines(<<>>, S)
  BY DEF AreLines
<1>2. ToSet(<<>>) = {}
  BY DEF ToSet
<1>3. \A name : NoneNamed(<<>>, name)
  BY DEF NoneNamed
<1> QED
  BY <1>1, <1>2, <1>3

LEMMA NoneIsNamed ==
    ASSUME NEW S, NEW lines, AreLines(lines, S), NEW name, NoneNamed(lines, name)
    PROVE  LastNamed(lines, name) = <<>>
<1>1. DOMAIN lines = 1..Len(lines)
  BY DEF AreLines
<1>2. {k \in DOMAIN lines : lines[k] # <<>> /\ lines[k][1] = name} = {}
  BY <1>1 DEF NoneNamed
<1> QED
  BY <1>2 DEF LastNamed

LEMMA LastNamedIs ==
    ASSUME NEW S, NEW a, AreLines(a, S), NEW w \in Seq(S), w # <<>>, NEW b, AreLines(b, S),
           NEW name, w[1] = name, NoneNamed(b, name)
    PROVE  LastNamed(a \o (<<w>> \o b), name) = Tail(w)
<1> DEFINE m == Len(a)
           n == Len(b)
           one == <<w>>
           r == one \o b
           c == a \o r
           T == Seq(S)
<1>1. a \in Seq(T) /\ b \in Seq(T) /\ m \in Nat /\ n \in Nat /\ one \in Seq(T) /\ Len(one) = 1 /\ one[1] = w
  BY DEF AreLines
<1> HIDE DEF T, one
<1>2. r \in Seq(T) /\ Len(r) = 1 + n /\ \A k \in 1..(1 + n) : r[k] = IF k <= 1 THEN one[k] ELSE b[k - 1]
  <2>1. r \in Seq(T) /\ Len(r) = Len(one) + n
        /\ \A k \in 1..(Len(one) + n) : r[k] = IF k <= Len(one) THEN one[k] ELSE b[k - Len(one)]
    BY <1>1, ConcatProperties
  <2> HIDE DEF r
  <2> QED
    BY <1>1, <2>1
<1> HIDE DEF r
<1>3. c \in Seq(T) /\ Len(c) = m + (1 + n) /\ \A k \in 1..(m + (1 + n)) : c[k] = IF k <= m THEN a[k] ELSE r[k - m]
  <2>1. c \in Seq(T) /\ Len(c) = m + Len(r)
        /\ \A k \in 1..(m + Len(r)) : c[k] = IF k <= m THEN a[k] ELSE r[k - m]
    BY <1>1, <1>2, ConcatProperties
  <2> HIDE DEF c, m, n
  <2> QED
    BY <1>2, <2>1
<1> HIDE DEF c
<1>4. DOMAIN c = 1..(m + (1 + n))
  BY <1>1, <1>3
<1> HIDE DEF m, n
<1> DEFINE e == m + 1
<1>5. c[e] = w /\ e \in DOMAIN c
  <2>1. e \in 1..(m + (1 + n)) /\ ~(e <= m) /\ e - m = 1 /\ 1 \in 1..(1 + n)
    BY <1>1
  <2> HIDE DEF e
  <2>2. c[e] = r[1]
    BY <1>3, <2>1
  <2>3. r[1] = one[1]
    BY <1>2, <2>1
  <2> QED
    BY <1>1, <1>4, <2>1, <2>2, <2>3
<1>6. ASSUME NEW k \in DOMAIN c, k > e PROVE c[k][1] # name
  <2> DEFINE h == k - m
             i == h - 1
  <2>1. k \in 1..(m + (1 + n)) /\ ~(k <= m) /\ h \in 1..(1 + n) /\ ~(h <= 1) /\ i \in 1..n
    BY <1>1, <1>4, <1>6
  <2> HIDE DEF h
  <2>2. c[k] = r[h]
    BY <1>3, <2>1 DEF h
  <2>3. r[h] = b[i]
    BY <1>2, <2>1
  <2> HIDE DEF i
  <2>4. b[i][1] # name
    BY <2>1 DEF NoneNamed, n
  <2> QED
    BY <2>2, <2>3, <2>4
<1> DEFINE found == {k \in DOMAIN c : c[k] # <<>> /\ c[k][1] = name}
<1>7. e \in found /\ found \in SUBSET (1..(m + (1 + n))) /\ m + (1 + n) \in Nat
  BY <1>1, <1>4, <1>5
<1>8. Max(found) \in found /\ \A k \in found : k <= Max(found)
  <2> HIDE DEF found
  <2> DEFINE z == m + (1 + n)
  <2>1. z \in Nat /\ found \in SUBSET (1..z) /\ found # {}
    BY <1>7
  <2> HIDE DEF z
  <2> QED
    BY <2>1, MaxOf
<1>9. Max(found) = e
  <2> DEFINE x == Max(found)
  <2>1. x \in DOMAIN c /\ c[x][1] = name /\ e <= x
    BY <1>7, <1>8
  <2>2. x \in Int /\ e \in Int
    BY <1>1, <1>4, <2>1
  <2> HIDE DEF x
  <2>3. ~(x > e)
    BY <1>6, <2>1
  <2> HIDE DEF e
  <2> QED
    BY <2>1, <2>2, <2>3 DEF x
<1>10. LastNamed(c, name) = Tail(c[Max(found)])
  <2>1. found # {}
    BY <1>7
  <2> QED
    BY <2>1 DEF LastNamed
<1>11. LastNamed(c, name) = Tail(w)
  <2> HIDE DEF found
  <2> QED
    BY <1>5, <1>9, <1>10
<1> QED
  BY <1>11 DEF c, r, one

\* What stands in every answer
Tokens == {"HTTP/1.0", Space, "date:", "now", "server:", "webserv/1.0", "content-type:", "text/html",
           "content-length:", "connection:", "close"}

LEMMA TokensDiffer ==
    /\ CR \notin Tokens /\ Space \in Tokens
    /\ "HTTP/1.0" # "content-length:" /\ "date:" # "content-length:" /\ "server:" # "content-length:"
    /\ "connection:" # "content-length:"
<1>1. CR \notin Tokens /\ Space \in Tokens
  BY Zenon DEF Tokens, CR, Space
<1> QED
  BY <1>1

LEMMA PairLine ==
    ASSUME NEW S, NEW x \in S, NEW y \in S, x # CR, y # CR
    PROVE  /\ <<x>> \o <<y>> \in Seq(S) /\ <<x>> \o <<y>> # <<>> /\ CR \notin ToSet(<<x>> \o <<y>>)
           /\ (<<x>> \o <<y>>)[1] = x /\ Tail(<<x>> \o <<y>>) = <<y>> /\ Header(x, <<y>>) = Line(<<x>> \o <<y>>)
<1> DEFINE w == <<x, y>>
<1>1. <<x>> \o <<y>> = w
  BY TwoAreOne
<1>2. w \in Seq(S) /\ w # <<>> /\ w[1] = x /\ w[2] = y /\ DOMAIN w = 1..2 /\ Len(w) = 2
  OBVIOUS
<1>3. Tail(w) = <<y>>
  OBVIOUS
<1> HIDE DEF w
<1>4. CR \notin ToSet(w)
  <2>1. \A k \in 1..2 : k = 1 \/ k = 2
    OBVIOUS
  <2> QED
    BY <1>2, <2>1 DEF ToSet
<1>5. Header(x, <<y>>) = Line(<<x>> \o <<y>>)
  BY DEF Header, Line
<1> QED
  BY <1>1, <1>2, <1>3, <1>4, <1>5

\* The status line, and then Date and Server
StatusLine(code) == <<"HTTP/1.0", Space, ToString(code)>>
Two == <<<<"date:">> \o <<"now">>>> \o <<<<"server:">> \o <<"webserv/1.0">>>>

LEMMA PreambleIs ==
    ASSUME NEW S, CR \in S, LF \in S, Tokens \subseteq S, NEW code, ToString(code) \in S, ToString(code) # CR
    PROVE  /\ Preamble(code) = Block(<<StatusLine(code)>> \o Two)
           /\ StatusLine(code) \in Seq(S) /\ StatusLine(code)[1] = "HTTP/1.0"
           /\ StatusLine(code)[3] = ToString(code)
           /\ AreLines(<<StatusLine(code)>>, S) /\ AreLines(Two, S)
           /\ NoneNamed(<<StatusLine(code)>>, "content-length:") /\ NoneNamed(Two, "content-length:")
<1> DEFINE s == StatusLine(code)
           d == <<"date:">> \o <<"now">>
           v == <<"server:">> \o <<"webserv/1.0">>
<1>1. /\ {"HTTP/1.0", "date:", "now", "server:", "webserv/1.0"} \subseteq Tokens
  BY Zenon DEF Tokens
<1>2. Space \in S /\ Space # CR /\ "HTTP/1.0" \in S /\ "HTTP/1.0" # CR /\ "date:" \in S /\ "date:" # CR
      /\ "now" \in S /\ "now" # CR /\ "server:" \in S /\ "server:" # CR /\ "webserv/1.0" \in S /\ "webserv/1.0" # CR
  BY <1>1, TokensDiffer
<1>3. s \in Seq(S) /\ s # <<>> /\ s[1] = "HTTP/1.0" /\ s[3] = ToString(code) /\ CR \notin ToSet(s)
  <2> DEFINE x == "HTTP/1.0"
             z == ToString(code)
  <2>1. x \in S /\ z \in S /\ x # CR /\ z # CR /\ s = <<x, Space, z>>
    BY <1>2 DEF StatusLine
  <2> HIDE DEF x, z, s
  <2>2. s \in Seq(S) /\ s # <<>> /\ s[1] = x /\ s[2] = Space /\ s[3] = z /\ DOMAIN s = 1..3
    BY <1>2, <2>1
  <2>3. \A k \in 1..3 : k = 1 \/ k = 2 \/ k = 3
    OBVIOUS
  <2>4. CR \notin ToSet(s)
    BY <1>2, <2>1, <2>2, <2>3 DEF ToSet
  <2> QED
    BY <2>2, <2>4 DEF x, z
<1>4. d \in Seq(S) /\ d # <<>> /\ CR \notin ToSet(d) /\ d[1] = "date:" /\ Header("date:", <<"now">>) = Line(d)
  BY <1>2, PairLine
<1>5. v \in Seq(S) /\ v # <<>> /\ CR \notin ToSet(v) /\ v[1] = "server:" /\ Header("server:", <<"webserv/1.0">>) = Line(v)
  BY <1>2, PairLine
<1> HIDE DEF s, d, v
<1>6. AreLines(<<s>>, S) /\ AreLines(<<d>>, S) /\ AreLines(<<v>>, S)
  BY <1>3, <1>4, <1>5, LinesOne
<1>7. NoneNamed(<<s>>, "content-length:") /\ NoneNamed(<<d>>, "content-length:") /\ NoneNamed(<<v>>, "content-length:")
  <2>1. s[1] # "content-length:" /\ d[1] # "content-length:" /\ v[1] # "content-length:"
    BY <1>3, <1>4, <1>5, TokensDiffer
  <2> QED
    BY <1>3, <1>4, <1>5, <2>1, LinesOne
<1>8. AreLines(<<d>> \o <<v>>, S) /\ NoneNamed(<<d>> \o <<v>>, "content-length:")
  BY <1>6, <1>7, LinesConcat
<1>9. Two = <<d>> \o <<v>>
  BY DEF Two, d, v
<1>10. Preamble(code) = (Line(s) \o Line(d)) \o Line(v)
  <2>1. <<"HTTP/1.0", " ", ToString(code)>> = s
    BY Zenon DEF s, StatusLine, Space
  <2> QED
    BY <1>4, <1>5, <2>1 DEF Preamble, Line
<1>11. Block(<<s>> \o (<<d>> \o <<v>>)) = (Line(s) \o Line(d)) \o Line(v)
  <2> DEFINE a == <<s>>
             b == <<d>>
             c == <<v>>
  <2>1. Block(a) = Line(s) /\ Block(b) = Line(d) /\ Block(c) = Line(v)
    BY <1>3, <1>4, <1>5, BlockOne
  <2>2. a \in Seq(Seq(S)) /\ b \in Seq(Seq(S)) /\ c \in Seq(Seq(S))
    BY <1>3, <1>4, <1>5
  <2>3. Line(s) \in Seq(S) /\ Line(d) \in Seq(S) /\ Line(v) \in Seq(S)
    BY <1>3, <1>4, <1>5, CRLFType
  <2> HIDE DEF a, b, c
  <2>4. Block(b \o c) = Block(b) \o Block(c) /\ b \o c \in Seq(Seq(S))
    BY <2>2, BlockConcat, ConcatProperties
  <2>5. Block(a \o (b \o c)) = Block(a) \o Block(b \o c)
    BY <2>2, <2>4, BlockConcat
  <2>6. Line(s) \o (Line(d) \o Line(v)) = (Line(s) \o Line(d)) \o Line(v)
    BY <2>3, ConcatAssociative, SMTT(20)
  <2> QED
    BY <2>1, <2>4, <2>5, <2>6 DEF a, b, c
<1>12. s \in Seq(S) /\ s[1] = "HTTP/1.0" /\ s[3] = ToString(code)
  BY <1>3
<1> QED
  BY <1>6, <1>7, <1>8, <1>9, <1>10, <1>11, <1>12 DEF s

\* What the server relays is what the script wrote, behind a status line of its own.
LEMMA Relayed ==
    ASSUME NEW S, CR \in S, LF \in S, NEW own, IsBlock(own, S), NEW rest \in Seq(S),
           Preamble(200) \in Seq(S)
    PROVE  buildCgiResponse(Block(own) \o (CRLF \o rest))
             = (Preamble(200) \o Block(own)) \o (CRLF \o rest)
<1> DEFINE d == Block(own) \o (CRLF \o rest)
           sep == Separator(d)
           n == Len(own)
<1>1. /\ sep \in Nat /\ Lines(Substr(d, 0, sep)) = own /\ Substr(d, sep + 4, Len(d)) = rest
  BY BlockParts
<1>2. n \in Nat /\ n > 0 /\ DOMAIN own = 1..n /\ own[n] # <<>> /\ own \in Seq(Seq(S))
  BY DEF IsBlock
<1> HIDE DEF d, sep
<1>3. Relay(Substr(d, 0, sep)) = Block(own)
  <2>1. Last(own) # <<>>
    BY <1>2 DEF Last
  <2>2. Relay(Substr(d, 0, sep)) = FlattenSeq([k \in DOMAIN own |-> own[k] \o CRLF])
    BY <1>1, <2>1 DEF Relay
  <2> QED
    BY <1>2, <2>2 DEF Block, Line, n
<1>4. buildCgiResponse(d) = Preamble(200) \o Block(own) \o CRLF \o rest
  <2>1. sep # npos
    BY <1>1 DEF npos
  <2> QED
    BY <1>1, <1>3, <2>1 DEF buildCgiResponse, sep
<1>5. Preamble(200) \o Block(own) \o CRLF \o rest = (Preamble(200) \o Block(own)) \o (CRLF \o rest)
  <2> DEFINE p == Preamble(200)
             b == Block(own)
             c == CRLF
             a == p \o b
  <2>1. p \in Seq(S) /\ b \in Seq(S) /\ c \in Seq(S)
    BY <1>2, EndedType, CRLFType
  <2> HIDE DEF p, b, c
  <2>2. a \in Seq(S)
    BY <2>1, ConcatProperties
  <2> HIDE DEF a
  <2>3. (a \o c) \o rest = a \o (c \o rest)
    BY <2>1, <2>2, ConcatAssociative, SMTT(20)
  <2> QED
    BY <2>3 DEF a, p, b, c
<1> QED
  BY <1>4, <1>5 DEF d

LEMMA CgiRead ==
    ASSUME NEW S, CR \in S, LF \in S, Tokens \subseteq S, "200" \in S, Printed,
           NEW own, IsBlock(own, S), NoneNamed(own, "content-length:"), NEW rest \in Seq(S),
           NEW answer, answer = Read(buildCgiResponse(Block(own) \o (CRLF \o rest)))
    PROVE  /\ answer.code = "200" /\ answer.body = rest /\ answer.over = 0
           /\ ToSet(own) \subseteq ToSet(answer.lines)
<1> DEFINE s == StatusLine(200)
           one == <<s>>
           front == one \o Two
           back == Two \o own
           lines == front \o own
           T == Seq(S)
<1>1. ToString(200) = "200" /\ "200" # CR
  <2>1. "200" # CR
    BY Zenon DEF CR
  <2> QED
    BY <2>1 DEF Printed
<1>2. /\ Preamble(200) = Block(front) /\ s \in T /\ s[3] = "200"
      /\ AreLines(one, S) /\ AreLines(Two, S)
      /\ NoneNamed(one, "content-length:") /\ NoneNamed(Two, "content-length:")
  <2> DEFINE c == 200
  <2>1. ToString(c) = "200" /\ ToString(c) \in S /\ ToString(c) # CR
    BY <1>1
  <2> HIDE DEF c
  <2>2. /\ Preamble(c) = Block(<<StatusLine(c)>> \o Two) /\ StatusLine(c) \in T /\ StatusLine(c)[3] = ToString(c)
        /\ AreLines(<<StatusLine(c)>>, S) /\ AreLines(Two, S)
        /\ NoneNamed(<<StatusLine(c)>>, "content-length:") /\ NoneNamed(Two, "content-length:")
    BY <2>1, PreambleIs
  <2> QED
    BY <2>1, <2>2 DEF c
<1>3. AreLines(own, S) /\ own \in Seq(T) /\ Two \in Seq(T)
  BY <1>2 DEF AreLines, IsBlock
<1> HIDE DEF s, T
<1>4. lines = one \o back /\ back \in Seq(T) /\ front \in Seq(T) /\ one \in Seq(T)
  <2> HIDE DEF one
  <2>1. one \in Seq(T)
    BY <1>2 DEF AreLines, T
  <2>2. (one \o Two) \o own = one \o (Two \o own) /\ Two \o own \in Seq(T) /\ one \o Two \in Seq(T)
    BY <1>3, <2>1, ConcatAssociative, ConcatProperties, SMTT(30)
  <2> QED
    BY <2>1, <2>2
<1>5. Tail(lines) = back /\ lines # <<>> /\ lines[1] = s
  <2> HIDE DEF back
  <2>1. Tail(one \o back) = back /\ one \o back # <<>> /\ (one \o back)[1] = s
    BY <1>2, <1>4, TailOfOne
  <2> HIDE DEF one, lines
  <2> QED
    BY <1>4, <2>1
<1> HIDE DEF one
<1>6. AreLines(front, S) /\ NoneNamed(front, "content-length:")
  BY <1>2, LinesConcat
<1>7. AreLines(back, S) /\ ToSet(back) = ToSet(Two) \cup ToSet(own)
  BY <1>2, <1>3, LinesConcat
<1>8. Block(front \o own) = Block(front) \o Block(own)
  <2> HIDE DEF front
  <2> QED
    BY <1>3, <1>4, BlockConcat DEF T
<1> HIDE DEF front, back
<1>9. AreLines(lines, S) /\ NoneNamed(lines, "content-length:")
  BY <1>3, <1>6, LinesConcat
<1>10. IsBlock(lines, S) /\ LastNamed(lines, "content-length:") = <<>>
  BY <1>5, <1>9, NoneIsNamed DEF AreLines, IsBlock
<1>11. answer = Read(Block(lines) \o (CRLF \o rest))
  <2>1. Block(front) \in Seq(S)
    BY <1>4, EndedType DEF T
  <2>2. buildCgiResponse(Block(own) \o (CRLF \o rest)) = (Preamble(200) \o Block(own)) \o (CRLF \o rest)
    BY <1>2, <2>1, Relayed
  <2> QED
    BY <1>2, <1>8, <2>2
<1> HIDE DEF lines
<1>12. answer.code = "200" /\ answer.lines = back
  <2> DEFINE code == lines[1][3]
             sizes == LastNamed(lines, "content-length:")
  <2>1. answer.code = code /\ answer.lines = Tail(lines)
    BY <1>10, <1>11, ReadIs
  <2> QED
    BY <1>2, <1>5, <2>1
<1>13. answer.body = rest /\ answer.over = 0
  <2> DEFINE code == lines[1][3]
             sizes == LastNamed(lines, "content-length:")
  <2>1. code = "200" /\ "200" \notin {"204", "304"} /\ sizes = <<>>
    BY <1>2, <1>5, <1>10
  <2>2. code \notin {"204", "304"} /\ sizes = <<>> => answer.body = rest /\ answer.over = 0
    BY <1>10, <1>11, ReadIs
  <2> QED
    BY <2>1, <2>2
<1> QED
  BY <1>7, <1>12, <1>13

LEMMA MessageHeld ==
    ASSUME NEW r, IsMessage(r), NEW n \in 0..Len(r.bytes),
           NEW outcome, outcome = Parse(Substr(r.bytes, 0, n)), outcome.status = "SUCCESS"
    PROVE  /\ r.bytes \in Seq(Letters(r)) /\ Delimited(r.bytes)
           /\ r.body \in Seq(Letters(r)) /\ outcome.body = r.body
           /\ outcome.headers = Fields(HeaderText(r.bytes))
           /\ IsEncoded(Fields(HeaderText(r.bytes)), r.encoded, r.body, Letters(r))
<1> DEFINE S == Letters(r)
           d == r.bytes
<1>1. PICK head \in Seq(S), next \in Seq(S) :
       /\ IsHead(head) /\ r.encoded \in Seq(S) /\ r.body \in Seq(S)
       /\ d = head \o (r.encoded \o next)
       /\ Len(d) < WordSize
       /\ Separator(head) = FindCRLF(head, 0) => r.encoded \o next = <<>>
       /\ IsEncoded(Fields(HeaderText(head)), r.encoded, r.body, S)
  BY DEF IsMessage
<1>2. outcome.body = r.body
  <2>1. outcome.status # "INCOMPLETE"
    OBVIOUS
  <2> QED
    BY <2>1, MessageParsed
<1> HIDE DEF S
<1> DEFINE rest == r.encoded \o next
<1>3. rest \in Seq(S)
  BY <1>1, ConcatProperties
<1>4. d = head \o rest /\ Len(d) < WordSize /\ (Separator(head) = FindCRLF(head, 0) => rest = <<>>)
  BY <1>1
<1>5. d \in Seq(S) /\ Delimited(d) /\ HeaderText(d) = HeaderText(head)
  <2> HIDE DEF rest, d
  <2>1. Len(head \o rest) < WordSize
    BY <1>4
  <2>2. LET e == head \o rest IN e \in Seq(S) /\ Delimited(e) /\ HeaderText(e) = HeaderText(head)
    BY <1>1, <1>3, <1>4, <2>1, HeadFound
  <2> QED
    BY <1>4, <2>2
<1>6. outcome.headers = Fields(HeaderText(d))
  <2>1. n \in 0..Len(d) /\ Parse(Substr(d, 0, n)).status = "SUCCESS" /\ outcome = Parse(Substr(d, 0, n))
    OBVIOUS
  <2> HIDE DEF d
  <2>2. Parse(Substr(d, 0, n)).headers = Fields(HeaderText(d))
    BY <1>5, <2>1, HeadersParsed
  <2> QED
    BY <2>1, <2>2
<1> QED
  BY <1>1, <1>2, <1>5, <1>6 DEF S

LEMMA LengthTold ==
    ASSUME NEW S, NEW text, NEW encoded, NEW b \in Seq(S), IsEncoded(text, encoded, b, S)
    PROVE  LET length == addPostEnv(text, b)
           IN  Substr(b, 0, IF length = NoLength THEN 0 ELSE length) = b
<1> DEFINE length == addPostEnv(text, b)
           n == IF length = NoLength THEN 0 ELSE length
<1>1. Len(b) \in Nat /\ NoLength = -1
  BY DEF NoLength
<1>2. Chunked # ""
  BY Zenon DEF Chunked
<1>3. n = Len(b)
  <2>1. CASE transferEncoding(text) # ""
    <3>1. length = Len(b)
      BY <2>1 DEF addPostEnv
    <3> HIDE DEF length
    <3> QED
      BY <1>1, <3>1
  <2>2. CASE transferEncoding(text) = "" /\ contentLength(text) # ""
    <3>1. length = Lengths[contentLength(text)]
      BY <2>2 DEF addPostEnv
    <3>2. Lengths[contentLength(text)] = Len(b)
      BY <1>2, <2>2 DEF IsEncoded
    <3> HIDE DEF length
    <3> QED
      BY <1>1, <3>1, <3>2
  <2>3. CASE transferEncoding(text) = "" /\ contentLength(text) = ""
    <3>1. length = NoLength
      BY <2>3 DEF addPostEnv
    <3>2. b = <<>>
      BY <1>2, <2>3 DEF IsEncoded
    <3> HIDE DEF length
    <3> QED
      BY <3>1, <3>2
  <2> QED
    BY <2>1, <2>2, <2>3
<1>4. Substr(b, 0, Len(b)) = b
  BY SubstrWhole
<1> HIDE DEF n
<1> QED
  BY <1>3, <1>4 DEF n

\* What the server is told by a script that answers: the headers it wrote, a type, its body
TypeLine == <<"content-type:", "x">>

LEMMA ScriptLines ==
    ASSUME NEW S, {"set-cookie:", "content-type:", "x"} \subseteq S, NEW lines \in ScriptHeaders
    PROVE  /\ AreLines(lines, S) /\ NoneNamed(lines, "content-length:")
           /\ AreLines(<<TypeLine>>, S) /\ NoneNamed(<<TypeLine>>, "content-length:")
           /\ TypeLine \in Seq(S) /\ ToSet(<<TypeLine>>) = {TypeLine}
<1>1. "set-cookie:" # CR /\ "content-type:" # CR /\ "x" # CR
  BY Zenon DEF CR
<1> DEFINE c == <<"set-cookie:", "x">>
<1>2. c \in Seq(S) /\ c # <<>> /\ CR \notin ToSet(c) /\ c[1] = "set-cookie:"
  <2>1. c = <<"set-cookie:">> \o <<"x">>
    BY TwoAreOne
  <2> HIDE DEF c
  <2> QED
    BY <1>1, <2>1, PairLine
<1>3. TypeLine \in Seq(S) /\ TypeLine # <<>> /\ CR \notin ToSet(TypeLine) /\ TypeLine[1] = "content-type:"
  <2>1. TypeLine = <<"content-type:">> \o <<"x">>
    BY TwoAreOne DEF TypeLine
  <2> QED
    BY <1>1, <2>1, PairLine
<1>4. lines = <<>> \/ lines = <<c>>
  BY DEF ScriptHeaders
<1> HIDE DEF c
<1>5. AreLines(<<c>>, S) /\ NoneNamed(<<c>>, "content-length:")
  <2>1. c[1] # "content-length:"
    BY <1>2
  <2> QED
    BY <1>2, <2>1, LinesOne
<1>6. AreLines(<<TypeLine>>, S) /\ NoneNamed(<<TypeLine>>, "content-length:") /\ ToSet(<<TypeLine>>) = {TypeLine}
  <2>1. TypeLine[1] # "content-length:"
    BY <1>3
  <2> QED
    BY <1>3, <2>1, LinesOne
<1>7. AreLines(lines, S) /\ NoneNamed(lines, "content-length:")
  BY <1>4, <1>5, LinesNone
<1> QED
  BY <1>3, <1>6, <1>7

LEMMA EchoIs ==
    ASSUME NEW S, CR \in S, LF \in S, NEW lines, AreLines(lines, S),
           AreLines(<<TypeLine>>, S), TypeLine \in Seq(S), body \in Seq(S),
           LET length == addPostEnv(headers, body)
           IN  Substr(body, 0, IF length = NoLength THEN 0 ELSE length) = body
    PROVE  Echo(lines) = Block(lines \o <<TypeLine>>) \o (CRLF \o body)
<1> DEFINE b == Block(lines)
           t == Line(TypeLine)
           one == <<TypeLine>>
           c == CRLF
           own == lines \o one
<1>1. Echo(lines) = b \o t \o c \o body
  <2>1. DOMAIN lines = 1..Len(lines)
    BY DEF AreLines
  <2> QED
    BY <2>1 DEF Echo, Block, TypeLine
<1>2. lines \in Seq(Seq(S)) /\ one \in Seq(Seq(S))
  BY DEF AreLines
<1>3. b \in Seq(S) /\ t \in Seq(S) /\ c \in Seq(S) /\ Block(one) = t
  BY <1>2, EndedType, CRLFType, BlockOne
<1> HIDE DEF one
<1>4. Block(own) = b \o Block(one)
  BY <1>2, BlockConcat
<1> HIDE DEF own
<1> DEFINE a == b \o t
<1>5. Echo(lines) = a \o (c \o body) /\ a = Block(own)
  <2> HIDE DEF b, t, c
  <2>1. a \in Seq(S) /\ a = Block(own)
    BY <1>3, <1>4, ConcatProperties
  <2>2. (a \o c) \o body = a \o (c \o body)
    <3> HIDE DEF a
    <3>1. c \in Seq(S)
      BY <1>3
    <3>2. a \in Seq(S)
      BY <2>1
    <3>3. body \in Seq(S)
      OBVIOUS
    <3> QED
      BY <3>1, <3>2, <3>3, FourParts
  <2> QED
    BY <1>1, <2>1, <2>2
<1> HIDE DEF a
<1> QED
  BY <1>5 DEF own, one, c

\* Who sends something and gets it back from a script, through two conversions, gets what it
\* sent, however it was encoded and whatever it holds, and with it the headers of the script.
THEOREM EchoesArrive == ASSUME SentTexts, SentMessages, Printed PROVE Spec => []EchoArrives
<1>1. Parsed => EchoArrives
  <2> SUFFICES ASSUME Parsed, sent.valid, status = "SUCCESS", NEW lines \in ScriptHeaders,
                      NEW answer, answer = Read(buildCgiResponse(Echo(lines)))
               PROVE  /\ answer.code = "200" /\ answer.body = sent.body /\ answer.over = 0
                      /\ ToSet(lines) \cup {TypeLine} \subseteq ToSet(answer.lines)
    BY DEF EchoArrives, TypeLine
  <2> DEFINE outcome == Parse(Part(received))
             mine == {"set-cookie:", "content-type:", "x", "200"}
             S == Letters(sent) \cup Tokens \cup mine
             own == lines \o <<TypeLine>>
  <2>1. IsMessage(sent) /\ received \in 0..Len(sent.bytes)
    BY DEF Parsed, SentMessages
  <2>2. outcome.status = "SUCCESS" /\ headers = outcome.headers /\ body = outcome.body
    BY DEF Parsed
  <2>3. /\ sent.body \in Seq(Letters(sent)) /\ outcome.body = sent.body
        /\ outcome.headers = Fields(HeaderText(sent.bytes))
        /\ IsEncoded(Fields(HeaderText(sent.bytes)), sent.encoded, sent.body, Letters(sent))
    BY <2>1, <2>2, MessageHeld DEF Part
  <2> HIDE DEF outcome
  <2>4. body = sent.body /\ body \in Seq(Letters(sent)) /\ IsEncoded(headers, sent.encoded, body, Letters(sent))
    BY <2>2, <2>3
  <2>5. LET length == addPostEnv(headers, body)
        IN  Substr(body, 0, IF length = NoLength THEN 0 ELSE length) = body
    BY <2>4, LengthTold
  <2>6. CR \in S /\ LF \in S /\ Tokens \subseteq S /\ "200" \in S /\ mine \subseteq S /\ Letters(sent) \subseteq S
    BY DEF Letters
  <2>7. {"set-cookie:", "content-type:", "x"} \subseteq S
    BY <2>6
  <2> HIDE DEF S, mine
  <2>8. body \in Seq(S)
    BY <2>4, <2>6
  <2>9. /\ AreLines(lines, S) /\ NoneNamed(lines, "content-length:")
        /\ AreLines(<<TypeLine>>, S) /\ NoneNamed(<<TypeLine>>, "content-length:")
        /\ TypeLine \in Seq(S) /\ ToSet(<<TypeLine>>) = {TypeLine}
    BY <2>7, ScriptLines
  <2>10. Echo(lines) = Block(own) \o (CRLF \o body)
    BY <2>5, <2>6, <2>8, <2>9, EchoIs
  <2>11. /\ AreLines(own, S) /\ NoneNamed(own, "content-length:")
         /\ ToSet(own) = ToSet(lines) \cup {TypeLine}
    BY <2>9, LinesConcat
  <2>12. IsBlock(own, S)
    <3>1. own # <<>>
      <4> HIDE DEF own
      <4> QED
        BY <2>11, LinesNone
    <3> QED
      BY <2>11, <3>1 DEF AreLines, IsBlock
  <2> HIDE DEF own
  <2>13. /\ answer.code = "200" /\ answer.body = body /\ answer.over = 0
         /\ ToSet(own) \subseteq ToSet(answer.lines)
    BY <2>6, <2>8, <2>10, <2>11, <2>12, CgiRead
  <2> QED
    BY <2>4, <2>11, <2>13
<1>2. Spec => []Parsed
  BY HoldsParsed
<1> QED
  BY <1>1, <1>2, PTL

\* The lines of an answer: the first, Date and Server, those of the handler, those behind them
AllLines(code, own, more) == ((<<StatusLine(code)>> \o Two) \o own) \o more

IsHeader(code, own, more, S) ==
    /\ CR \in S /\ LF \in S /\ Tokens \subseteq S /\ ToString(code) \in S /\ ToString(code) # CR
    /\ AreLines(own, S) /\ AreLines(more, S)

Heads(lines, code, own, more, S) ==
    /\ IsBlock(lines, S) /\ lines[1][3] = ToString(code)
    /\ ToSet(own) \subseteq ToSet(Tail(lines))
    /\ AreLines((<<StatusLine(code)>> \o Two) \o own, S)
    /\ Block(lines) = (Preamble(code) \o Block(own)) \o Block(more)
    /\ Preamble(code) \in Seq(S) /\ Block(own) \in Seq(S) /\ Block(more) \in Seq(S)

LEMMA AllLinesAre ==
    ASSUME NEW S, NEW code, NEW own, NEW more, IsHeader(code, own, more, S),
           NEW lines, lines = AllLines(code, own, more)
    PROVE  Heads(lines, code, own, more, S)
<1>0. /\ CR \in S /\ LF \in S /\ Tokens \subseteq S /\ ToString(code) \in S /\ ToString(code) # CR
      /\ AreLines(own, S) /\ AreLines(more, S)
  BY DEF IsHeader
<1> DEFINE s == StatusLine(code)
           one == <<s>>
           front == one \o Two
           head == front \o own
           back == Two \o (own \o more)
           T == Seq(S)
<1>1. /\ Preamble(code) = Block(front) /\ s \in T /\ s[3] = ToString(code)
      /\ AreLines(one, S) /\ AreLines(Two, S)
  BY <1>0, PreambleIs
<1>2. own \in Seq(T) /\ Two \in Seq(T) /\ more \in Seq(T) /\ one \in Seq(T)
  BY <1>0, <1>1 DEF AreLines
<1> HIDE DEF s, T
<1>3. lines = one \o back /\ back \in Seq(T) /\ front \in Seq(T) /\ head \in Seq(T)
  <2> HIDE DEF one
  <2> DEFINE tail == own \o more
  <2>1. tail \in Seq(T) /\ front \in Seq(T)
    BY <1>2, ConcatProperties
  <2> HIDE DEF tail
  <2>2. back \in Seq(T)
    BY <1>2, <2>1, ConcatProperties DEF tail
  <2>3. front \o tail = one \o back
    <3>1. (one \o Two) \o tail = one \o (Two \o tail)
      BY <1>2, <2>1, ConcatAssociative, SMTT(20)
    <3> QED
      BY <3>1 DEF tail
  <2> HIDE DEF front, back
  <2>4. (front \o own) \o more = front \o tail /\ front \o own \in Seq(T)
    <3>1. (front \o own) \o more = front \o (own \o more) /\ front \o own \in Seq(T)
      <4>1. front \in Seq(T)
        BY <2>1
      <4>2. own \in Seq(T) /\ more \in Seq(T)
        BY <1>2
      <4>3. (front \o own) \o more = front \o (own \o more)
        BY <4>1, <4>2, FourParts
      <4>4. front \o own \in Seq(T)
        BY <4>1, <4>2, ConcatProperties
      <4> QED
        BY <4>3, <4>4
    <3> QED
      BY <3>1 DEF tail
  <2>5. lines = (front \o own) \o more
    BY DEF AllLines, front, one, s
  <2> QED
    BY <2>1, <2>2, <2>3, <2>4, <2>5
<1>4. Tail(lines) = back /\ lines # <<>> /\ lines[1] = s
  <2> HIDE DEF back
  <2>1. Tail(one \o back) = back /\ one \o back # <<>> /\ (one \o back)[1] = s
    BY <1>1, <1>3, TailOfOne DEF T
  <2> HIDE DEF one
  <2> QED
    BY <1>3, <2>1
<1> HIDE DEF one
<1>5. AreLines(front, S)
  BY <1>1, LinesConcat
<1>6. ToSet(own) \subseteq ToSet(back)
  <2>1. AreLines(own \o more, S) /\ ToSet(own \o more) = ToSet(own) \cup ToSet(more)
    BY <1>0, LinesConcat
  <2> DEFINE tail == own \o more
  <2> HIDE DEF tail
  <2>2. ToSet(Two \o tail) = ToSet(Two) \cup ToSet(tail)
    BY <1>1, <2>1, LinesConcat DEF tail
  <2> QED
    BY <2>1, <2>2 DEF tail
<1> HIDE DEF front, back
<1>7. AreLines(head, S)
  BY <1>0, <1>5, LinesConcat
<1> HIDE DEF head
<1>8. lines = head \o more
  BY DEF AllLines, head, front, one, s
<1>9. AreLines(lines, S)
  BY <1>0, <1>7, <1>8, LinesConcat
<1>10. Block(lines) = (Preamble(code) \o Block(own)) \o Block(more)
  <2>1. Block(head) = Block(front) \o Block(own)
    BY <1>2, <1>3, <1>0, BlockConcat DEF head, T
  <2>2. Block(lines) = Block(head) \o Block(more)
    BY <1>2, <1>3, <1>8, <1>0, BlockConcat DEF T
  <2> QED
    BY <1>1, <2>1, <2>2
<1>11. Block(front) \in Seq(S) /\ Block(own) \in Seq(S) /\ Block(more) \in Seq(S)
  BY <1>0, <1>2, <1>3, EndedType DEF T
<1>12. IsBlock(lines, S)
  BY <1>4, <1>9 DEF AreLines, IsBlock
<1>13. AreLines((<<StatusLine(code)>> \o Two) \o own, S)
  BY <1>7 DEF head, front, one, s
<1> QED
  BY <1>1, <1>4, <1>6, <1>10, <1>11, <1>12, <1>13 DEF Heads

\* What is read of lines and what is behind them
IsRead(answer, lines, rest, S) ==
    /\ CR \in S /\ LF \in S /\ IsBlock(lines, S) /\ rest \in Seq(S)
    /\ answer = Read(Block(lines) \o (CRLF \o rest))

LEMMA ReadSays ==
    ASSUME NEW S, NEW lines, NEW rest, NEW answer, IsRead(answer, lines, rest, S)
    PROVE  /\ answer.code = lines[1][3] /\ answer.lines = Tail(lines)
           /\ lines[1][3] \in {"204", "304"} => answer.body = <<>> /\ answer.over = Len(rest)
           /\ LET sizes == LastNamed(lines, "content-length:")
              IN  lines[1][3] \notin {"204", "304"} /\ sizes # <<>> /\ sizes[1] = ToString(Len(rest))
                    /\ Len(rest) <= MaxLength /\ Printed => answer.body = rest /\ answer.over = 0
<1> DEFINE c == lines[1][3]
           sizes == LastNamed(lines, "content-length:")
<1>1. /\ CR \in S /\ LF \in S /\ IsBlock(lines, S) /\ rest \in Seq(S)
      /\ answer = Read(Block(lines) \o (CRLF \o rest))
  BY DEF IsRead
<1>2. c = lines[1][3] /\ sizes = LastNamed(lines, "content-length:")
  OBVIOUS
<1> HIDE DEF c, sizes
<1>3. answer.code = c /\ answer.lines = Tail(lines)
  BY <1>1, <1>2, ReadIs
<1>4. c \in {"204", "304"} => answer.body = <<>> /\ answer.over = Len(rest)
  BY <1>1, <1>2, ReadIs
<1>5. c \notin {"204", "304"} /\ sizes # <<>> /\ sizes[1] = ToString(Len(rest))
        /\ Len(rest) <= MaxLength /\ Printed => answer.body = rest /\ answer.over = 0
  BY <1>1, <1>2, ReadIs
<1> QED
  BY <1>3, <1>4, <1>5 DEF c, sizes

\* An answer with lines of its own
IsAnswer(resp, own, S) ==
    /\ CR \in S /\ LF \in S /\ Tokens \subseteq S
    /\ resp.statusCode \in Nat /\ resp.contentType = "text/html" /\ resp.body \in Seq(S)
    /\ {ToString(resp.statusCode), ToString(Len(resp.body))} \subseteq S /\ Len(resp.body) <= MaxLength
    /\ HasBody(resp) \/ resp.body = <<>>
    /\ AreLines(own, S) /\ OwnHeaders(resp) = Block(own)

LEMMA CodesPrinted ==
    ASSUME Printed, NEW code \in Nat
    PROVE  ToString(code) # CR /\ (ToString(code) \in {"204", "304"} <=> code \in {204, 304})
<1>1. ToString(code) # CR
  BY DEF Printed
<1>2. code \in {204, 304} => ToString(code) \in {"204", "304"}
  BY DEF Printed
<1>3. ToString(code) \in {"204", "304"} => code \in {204, 304}
  <2> DEFINE m == 204
             n == 304
  <2>1. m \in Nat /\ n \in Nat /\ ToString(m) = "204" /\ ToString(n) = "304"
    BY DEF Printed
  <2> HIDE DEF m, n
  <2>2. (ToString(code) = ToString(m) => code = m) /\ (ToString(code) = ToString(n) => code = n)
    BY <2>1 DEF Printed
  <2> QED
    BY <2>1, <2>2 DEF m, n
<1> QED
  BY <1>1, <1>2, <1>3

ClosingLine == <<"connection:">> \o <<"close">>

LEMMA ClosingIs ==
    ASSUME NEW S, CR \in S, LF \in S, Tokens \subseteq S
    PROVE  /\ ClosingLine \in Seq(S) /\ Header("connection:", <<"close">>) = Line(ClosingLine)
           /\ AreLines(<<ClosingLine>>, S) /\ NoneNamed(<<ClosingLine>>, "content-length:")
           /\ Block(<<ClosingLine>>) = Line(ClosingLine)
<1> DEFINE w == ClosingLine
<1>1. /\ w \in Seq(S) /\ w # <<>> /\ CR \notin ToSet(w) /\ w[1] = "connection:"
      /\ Header("connection:", <<"close">>) = Line(w)
  <2>1. {"connection:", "close"} \subseteq Tokens
    BY Zenon DEF Tokens
  <2>2. "connection:" \in S /\ "close" \in S /\ "connection:" # CR /\ "close" # CR
    BY <2>1, TokensDiffer
  <2> QED
    BY <2>2, PairLine DEF ClosingLine
<1>2. w[1] # "content-length:"
  BY <1>1, TokensDiffer
<1> QED
  BY <1>1, <1>2, LinesOne, BlockOne

\* An answer without a body, 204 and 304, ends with its header.
LEMMA BareRead ==
    ASSUME NEW S, NEW resp, NEW own, IsAnswer(resp, own, S), ~HasBody(resp), Printed,
           NEW answer, answer = Read(build(resp))
    PROVE  /\ answer.code = ToString(resp.statusCode) /\ answer.body = resp.body /\ answer.over = 0
           /\ ToSet(own) \subseteq ToSet(answer.lines)
<1> DEFINE code == resp.statusCode
           more == <<ClosingLine>>
           lines == AllLines(code, own, more)
           none == <<>>
<1>1. /\ CR \in S /\ LF \in S /\ Tokens \subseteq S /\ AreLines(own, S)
      /\ code \in {204, 304} /\ code \in Nat /\ ToString(code) \in S
      /\ resp.body = <<>> /\ OwnHeaders(resp) = Block(own)
  BY DEF IsAnswer, HasBody
<1>2. ToString(code) # CR /\ ToString(code) \in {"204", "304"}
  BY <1>1, CodesPrinted
<1>3. /\ ClosingLine \in Seq(S) /\ Header("connection:", <<"close">>) = Line(ClosingLine)
      /\ AreLines(more, S) /\ Block(more) = Line(ClosingLine)
  BY <1>1, ClosingIs
<1>4. build(resp) = Preamble(code) \o Block(own) \o none \o Line(ClosingLine) \o CRLF \o none
  BY <1>1, <1>3 DEF build, HasBody, LengthAndType
<1>5. IsHeader(code, own, more, S)
  BY <1>1, <1>2, <1>3 DEF IsHeader
<1>6. lines = AllLines(code, own, more)
  OBVIOUS
<1> HIDE DEF more, code, lines
<1>7. /\ IsBlock(lines, S) /\ lines[1][3] = ToString(code)
      /\ ToSet(own) \subseteq ToSet(Tail(lines))
      /\ Block(lines) = (Preamble(code) \o Block(own)) \o Block(more)
      /\ Preamble(code) \in Seq(S) /\ Block(own) \in Seq(S) /\ Block(more) \in Seq(S)
  <2>1. Heads(lines, code, own, more, S)
    BY <1>5, <1>6, AllLinesAre
  <2> QED
    BY <2>1 DEF Heads
<1>8. build(resp) = Block(lines) \o (CRLF \o none)
  <2> DEFINE p == Preamble(code) \o Block(own)
             v == Line(ClosingLine)
             c == CRLF
  <2>1. p \in Seq(S) /\ v \in Seq(S) /\ c \in Seq(S) /\ none \in Seq(S)
    <3>1. p \in Seq(S)
      BY <1>7, ConcatProperties
    <3> QED
      BY <1>1, <1>3, <3>1, CRLFType
  <2>2. build(resp) = (((p \o none) \o v) \o c) \o none
    BY <1>4
  <2>3. Block(lines) = p \o v
    BY <1>3, <1>7
  <2> HIDE DEF p, v, c
  <2>4. p \o none = p
    BY <2>1, ConcatEmptySeq
  <2> DEFINE pv == p \o v
  <2>5. pv \in Seq(S)
    BY <2>1, ConcatProperties
  <2> HIDE DEF pv, none
  <2>6. (pv \o c) \o none = pv \o (c \o none)
    <3>1. pv \in Seq(S)
      BY <2>5
    <3>2. c \in Seq(S) /\ none \in Seq(S)
      BY <2>1
    <3> QED
      BY <3>1, <3>2, FourParts
  <2> QED
    BY <2>2, <2>3, <2>4, <2>6 DEF pv, c
<1>9. none \in Seq(S) /\ Len(none) = 0
  OBVIOUS
<1> HIDE DEF none
<1>10. IsRead(answer, lines, none, S)
  BY <1>1, <1>7, <1>8, <1>9 DEF IsRead
<1>11. answer.code = lines[1][3] /\ answer.lines = Tail(lines) /\ answer.body = <<>> /\ answer.over = 0
  <2>1. lines[1][3] \in {"204", "304"}
    BY <1>2, <1>7
  <2>2. /\ answer.code = lines[1][3] /\ answer.lines = Tail(lines)
        /\ lines[1][3] \in {"204", "304"} => answer.body = <<>> /\ answer.over = Len(none)
    BY <1>10, ReadSays
  <2> QED
    BY <1>9, <2>1, <2>2
<1> QED
  BY <1>1, <1>7, <1>11 DEF code

ContentLine == <<"content-type:">> \o <<"text/html">>
LengthLine(n) == <<"content-length:">> \o <<ToString(n)>>

IsLengthLine(n, S) ==
    /\ LengthLine(n) \in Seq(S) /\ LengthLine(n) # <<>> /\ LengthLine(n)[1] = "content-length:"
    /\ Tail(LengthLine(n)) = <<ToString(n)>>
    /\ Header("content-length:", <<ToString(n)>>) = Line(LengthLine(n))
    /\ AreLines(<<LengthLine(n)>>, S) /\ Block(<<LengthLine(n)>>) = Line(LengthLine(n))

LEMMA LengthLineIs ==
    ASSUME NEW S, CR \in S, LF \in S, Tokens \subseteq S, NEW n, ToString(n) \in S, ToString(n) # CR
    PROVE  IsLengthLine(n, S)
<1> DEFINE x == "content-length:"
           y == ToString(n)
           w == <<x>> \o <<y>>
<1>1. x \in Tokens
  BY Zenon DEF Tokens
<1>2. x \in S /\ x # CR /\ y \in S /\ y # CR
  BY <1>1, TokensDiffer
<1> HIDE DEF x, y
<1>3. w \in Seq(S) /\ w # <<>> /\ CR \notin ToSet(w) /\ w[1] = x /\ Tail(w) = <<y>> /\ Header(x, <<y>>) = Line(w)
  BY <1>2, PairLine
<1> HIDE DEF w
<1>4. AreLines(<<w>>, S) /\ Block(<<w>>) = Line(w)
  BY <1>3, LinesOne, BlockOne
<1>5. LengthLine(n) = w
  BY DEF LengthLine, w, x, y
<1> QED
  BY <1>3, <1>4, <1>5 DEF IsLengthLine, x, y

LEMMA ContentIs ==
    ASSUME NEW S, CR \in S, LF \in S, Tokens \subseteq S
    PROVE  /\ ContentLine \in Seq(S) /\ Header("content-type:", <<"text/html">>) = Line(ContentLine)
           /\ AreLines(<<ContentLine>>, S) /\ Block(<<ContentLine>>) = Line(ContentLine)
<1> DEFINE w == ContentLine
<1>1. w \in Seq(S) /\ w # <<>> /\ CR \notin ToSet(w) /\ Header("content-type:", <<"text/html">>) = Line(w)
  <2>1. {"content-type:", "text/html"} \subseteq Tokens
    BY Zenon DEF Tokens
  <2>2. "content-type:" \in S /\ "text/html" \in S /\ "content-type:" # CR /\ "text/html" # CR
    BY <2>1, TokensDiffer
  <2> QED
    BY <2>2, PairLine DEF ContentLine
<1> QED
  BY <1>1, LinesOne, BlockOne

\* The lines behind those of the handler
LastThree(n) == <<ContentLine>> \o (<<LengthLine(n)>> \o <<ClosingLine>>)

IsLastThree(n, S) ==
    /\ AreLines(LastThree(n), S)
    /\ Block(LastThree(n)) = (Line(ContentLine) \o Line(LengthLine(n))) \o Line(ClosingLine)
    /\ Line(ContentLine) \in Seq(S) /\ Line(LengthLine(n)) \in Seq(S) /\ Line(ClosingLine) \in Seq(S)
    /\ \A lines : AreLines(lines, S) => LastNamed(lines \o LastThree(n), "content-length:") = <<ToString(n)>>

LEMMA LastThreeAre ==
    ASSUME NEW S, CR \in S, LF \in S, Tokens \subseteq S, NEW n, ToString(n) \in S, ToString(n) # CR
    PROVE  IsLastThree(n, S)
<1> DEFINE a == <<ContentLine>>
           b == <<LengthLine(n)>>
           c == <<ClosingLine>>
           bc == b \o c
           T == Seq(S)
           name == "content-length:"
<1>1. AreLines(a, S) /\ Block(a) = Line(ContentLine) /\ Line(ContentLine) \in Seq(S)
  BY ContentIs, CRLFType
<1>2. /\ LengthLine(n) \in Seq(S) /\ LengthLine(n) # <<>> /\ LengthLine(n)[1] = name
      /\ Tail(LengthLine(n)) = <<ToString(n)>>
      /\ AreLines(b, S) /\ Block(b) = Line(LengthLine(n)) /\ Line(LengthLine(n)) \in Seq(S)
  <2>1. IsLengthLine(n, S)
    BY LengthLineIs
  <2> QED
    BY <2>1, CRLFType DEF IsLengthLine
<1>3. AreLines(c, S) /\ Block(c) = Line(ClosingLine) /\ NoneNamed(c, name) /\ Line(ClosingLine) \in Seq(S)
  BY ClosingIs, CRLFType
<1>4. a \in Seq(T) /\ b \in Seq(T) /\ c \in Seq(T)
  BY <1>1, <1>2, <1>3 DEF AreLines
<1>5. LastThree(n) = a \o bc
  BY DEF LastThree
<1>6. ASSUME NEW lines, AreLines(lines, S)
      PROVE  LastNamed(lines \o LastThree(n), name) = <<ToString(n)>>
  <2> DEFINE la == lines \o a
  <2>1. AreLines(la, S)
    BY <1>1, <1>6, LinesConcat
  <2> HIDE DEF la, c, name
  <2>2. LastNamed(la \o (<<LengthLine(n)>> \o c), name) = Tail(LengthLine(n))
    BY <1>2, <1>3, <2>1, LastNamedIs
  <2> HIDE DEF a, b
  <2>3. bc \in Seq(T)
    BY <1>4, ConcatProperties
  <2> HIDE DEF bc
  <2>4. (lines \o a) \o bc = lines \o (a \o bc)
    <3>1. lines \in Seq(T)
      BY <1>6 DEF AreLines
    <3> HIDE DEF T
    <3>2. a \in Seq(T)
      BY <1>4
    <3>3. bc \in Seq(T)
      BY <2>3
    <3> QED
      BY <3>1, <3>2, <3>3, FourParts
  <2>5. bc = <<LengthLine(n)>> \o c
    BY DEF bc, b
  <2> QED
    BY <1>2, <1>5, <2>2, <2>4, <2>5 DEF la
<1> HIDE DEF a, b, c
<1>7. AreLines(bc, S) /\ Block(bc) = Block(b) \o Block(c)
  <2>1. AreLines(bc, S)
    BY <1>2, <1>3, LinesConcat
  <2>2. Block(bc) = Block(b) \o Block(c)
    BY <1>4, BlockConcat
  <2> QED
    BY <2>1, <2>2
<1> HIDE DEF bc
<1>8. AreLines(a \o bc, S) /\ Block(a \o bc) = Block(a) \o Block(bc)
  <2>1. AreLines(a \o bc, S)
    BY <1>1, <1>7, LinesConcat
  <2>2. bc \in Seq(T)
    BY <1>7 DEF AreLines
  <2>3. Block(a \o bc) = Block(a) \o Block(bc)
    BY <1>4, <2>2, BlockConcat
  <2> QED
    BY <2>1, <2>3
<1>9. Block(LastThree(n)) = (Line(ContentLine) \o Line(LengthLine(n))) \o Line(ClosingLine)
  <2> DEFINE x == Line(ContentLine)
             y == Line(LengthLine(n))
             z == Line(ClosingLine)
  <2>1. x \in Seq(S)
    BY <1>1
  <2>2. y \in Seq(S)
    BY <1>2
  <2>3. z \in Seq(S)
    BY <1>3
  <2>4. Block(a \o bc) = x \o (y \o z)
    BY <1>1, <1>2, <1>3, <1>7, <1>8
  <2> HIDE DEF x, y, z
  <2>5. (x \o y) \o z = x \o (y \o z)
    BY <2>1, <2>2, <2>3, FourParts, SMTT(20)
  <2> QED
    BY <1>5, <2>4, <2>5 DEF x, y, z
<1>10. AreLines(LastThree(n), S)
  BY <1>5, <1>8
<1> QED
  BY <1>1, <1>2, <1>3, <1>6, <1>9, <1>10 DEF IsLastThree

\* An answer with a body says how long it is, and ends with it.
LEMMA FullRead ==
    ASSUME NEW S, NEW resp, NEW own, IsAnswer(resp, own, S), HasBody(resp), Printed,
           NEW answer, answer = Read(build(resp))
    PROVE  /\ answer.code = ToString(resp.statusCode) /\ answer.body = resp.body /\ answer.over = 0
           /\ ToSet(own) \subseteq ToSet(answer.lines)
<1> DEFINE code == resp.statusCode
           text == resp.body
           n    == Len(text)
           more == LastThree(n)
           lines == AllLines(code, own, more)
<1>1. /\ CR \in S /\ LF \in S /\ Tokens \subseteq S /\ AreLines(own, S)
      /\ code \notin {204, 304} /\ code \in Nat /\ ToString(code) \in S
      /\ text \in Seq(S) /\ ToString(n) \in S /\ n <= MaxLength /\ n \in Nat
      /\ OwnHeaders(resp) = Block(own)
  BY DEF IsAnswer, HasBody
<1>2. ToString(code) # CR /\ ToString(code) \notin {"204", "304"} /\ ToString(n) # CR
  <2> HIDE DEF n, code
  <2> QED
    BY <1>1, CodesPrinted
<1>3. IsLastThree(n, S)
  <2> HIDE DEF n
  <2> QED
    BY <1>1, <1>2, LastThreeAre
<1>4. build(resp) = Preamble(code) \o Block(own) \o (Line(ContentLine) \o Line(LengthLine(n)))
                    \o Line(ClosingLine) \o CRLF \o text
  <2>1. Header("content-type:", <<"text/html">>) = Line(ContentLine)
    BY <1>1, ContentIs
  <2>2. Header("connection:", <<"close">>) = Line(ClosingLine)
    BY <1>1, ClosingIs
  <2>3. IsLengthLine(n, S)
    <3> HIDE DEF n
    <3> QED
      BY <1>1, <1>2, LengthLineIs
  <2>4. Header("content-length:", <<ToString(n)>>) = Line(LengthLine(n))
    BY <2>3 DEF IsLengthLine
  <2>5. resp.contentType = "text/html" /\ "text/html" # ""
    BY DEF IsAnswer
  <2>6. LengthAndType(resp) = Line(ContentLine) \o Line(LengthLine(n))
    BY <2>1, <2>4, <2>5 DEF LengthAndType, SizeOf
  <2> QED
    BY <1>1, <2>2, <2>6 DEF build
<1>5. AreLines(more, S)
  BY <1>3 DEF IsLastThree
<1> HIDE DEF n
<1>6. IsHeader(code, own, more, S)
  BY <1>1, <1>2, <1>5 DEF IsHeader
<1>7. lines = AllLines(code, own, more)
  OBVIOUS
<1> HIDE DEF more, code, lines
<1>8. Heads(lines, code, own, more, S)
  BY <1>6, <1>7, AllLinesAre
<1>9. /\ IsBlock(lines, S) /\ lines[1][3] = ToString(code)
      /\ ToSet(own) \subseteq ToSet(Tail(lines))
      /\ AreLines((<<StatusLine(code)>> \o Two) \o own, S)
  BY <1>8 DEF Heads
<1>10. LastNamed(lines, "content-length:") = <<ToString(n)>>
  <2> DEFINE a == (<<StatusLine(code)>> \o Two) \o own
  <2>1. AreLines(a, S) /\ lines = a \o more
    BY <1>7, <1>9 DEF AllLines
  <2> HIDE DEF a
  <2>2. LastNamed(a \o LastThree(n), "content-length:") = <<ToString(n)>>
    BY <1>3, <2>1 DEF IsLastThree
  <2> QED
    BY <2>1, <2>2 DEF more
<1>11. build(resp) = Block(lines) \o (CRLF \o text)
  <2> DEFINE p == Preamble(code) \o Block(own)
             x == Line(ContentLine) \o Line(LengthLine(n))
             v == Line(ClosingLine)
             c == CRLF
  <2>1. p \in Seq(S)
    BY <1>8, ConcatProperties DEF Heads
  <2>2. x \in Seq(S) /\ v \in Seq(S)
    BY <1>3, ConcatProperties DEF IsLastThree
  <2>3. c \in Seq(S)
    BY <1>1, CRLFType
  <2>4. text \in Seq(S)
    BY <1>1
  <2>5. build(resp) = (((p \o x) \o v) \o c) \o text
    BY <1>4
  <2>6. Block(lines) = p \o (x \o v)
    <3>1. Block(more) = x \o v
      BY <1>3 DEF IsLastThree, more
    <3>2. Block(lines) = p \o Block(more)
      BY <1>8 DEF Heads
    <3> QED
      BY <3>1, <3>2
  <2> HIDE DEF p, x, v, c, text
  <2>7. (((p \o x) \o v) \o c) \o text = (p \o (x \o v)) \o (c \o text)
    <3> DEFINE u == p \o (x \o v)
    <3>1. (p \o x) \o v = u
      BY <2>1, <2>2, FourParts
    <3>2. u \in Seq(S)
      BY <2>1, <2>2, ConcatProperties
    <3> HIDE DEF u
    <3>3. (u \o c) \o text = u \o (c \o text)
      BY <3>2, <2>3, <2>4, FourParts
    <3> QED
      BY <3>1, <3>3 DEF u
  <2> QED
    BY <2>5, <2>6, <2>7 DEF c
<1>12. IsRead(answer, lines, text, S)
  BY <1>1, <1>9, <1>11 DEF IsRead
<1>13. /\ lines[1][3] \notin {"204", "304"}
       /\ LET sizes == LastNamed(lines, "content-length:") IN sizes # <<>> /\ sizes[1] = ToString(Len(text))
  <2> DEFINE one == <<ToString(n)>>
             y == ToString(n)
  <2>1. one # <<>> /\ one[1] = y
    <3> HIDE DEF y
    <3> QED
      BY DEF y
  <2> HIDE DEF one
  <2> QED
    BY <1>2, <1>9, <1>10, <2>1 DEF one, n
<1> HIDE DEF text
<1>14. Len(text) <= MaxLength
  BY <1>1 DEF n
<1>15. answer.code = lines[1][3] /\ answer.lines = Tail(lines) /\ answer.body = text /\ answer.over = 0
  BY <1>12, <1>13, <1>14, ReadSays
<1> QED
  BY <1>9, <1>15 DEF code, text

LEMMA LinesOfBlock ==
    ASSUME NEW S, CR \in S, LF \in S, NEW lines, IsBlock(lines, S), NEW t \in Seq(S), Block(lines) = t \o CRLF
    PROVE  Lines(t) = lines
<1> DEFINE b == Block(lines)
           c == CRLF
           none == <<>>
           d == b \o (c \o none)
           n == Len(t)
           sep == Separator(d)
<1>1. none \in Seq(S) /\ c \in Seq(S) /\ Len(c) = 2 /\ b = t \o c
  BY CRLFType
<1>2. d \in Seq(S) /\ sep = Len(b) - 2 /\ Lines(Substr(d, 0, sep)) = lines
  BY <1>1, BlockParts
<1> HIDE DEF b, c, none, sep
<1>3. b \in Seq(S) /\ Len(b) = n + 2 /\ n \in Nat
  <2>1. t \o c \in Seq(S) /\ Len(t \o c) = n + Len(c)
    BY <1>1, ConcatProperties
  <2> QED
    BY <1>1, <2>1
<1>4. sep = n
  BY <1>2, <1>3
<1>5. Stands(d, 0, b)
  <2> DEFINE e == c \o none
  <2>1. e \in Seq(S)
    BY <1>1, ConcatProperties
  <2> HIDE DEF e
  <2>2. Stands(b \o e, 0, b)
    BY <1>3, <2>1, StandsFirst
  <2> QED
    BY <2>2 DEF e
<1> HIDE DEF d
<1>6. Stands(d, 0, t)
  <2>1. Stands(d, 0, t \o c)
    BY <1>1, <1>5
  <2> QED
    BY <1>1, <1>2, <2>1, PieceStands
<1>7. Substr(d, 0, n) = t
  <2>1. 0 \in Nat
    OBVIOUS
  <2> QED
    BY <1>2, <1>6, <2>1, StandsSubstr
<1> QED
  BY <1>2, <1>4, <1>7

\* A header of the map, and the lines it comes to
IsOwn(h, own, S) ==
    /\ h.key \notin {"content-type:", "content-length:"}
    /\ IsBlock(own, S) /\ AreLines(own, S) /\ <<h.key>> \o h.value \in Seq(S)
    /\ Header(h.key, h.value) = Block(own)

LEMMA OwnLines ==
    ASSUME NEW S, CR \in S, LF \in S, NEW h, NEW own, IsOwn(h, own, S)
    PROVE  Lines(<<h.key>> \o h.value) = own
<1> DEFINE t == <<h.key>> \o h.value
<1>1. IsBlock(own, S) /\ t \in Seq(S) /\ Block(own) = t \o CRLF
  BY DEF IsOwn, Header
<1> HIDE DEF t
<1>2. Lines(t) = own
  BY <1>1, LinesOfBlock
<1> QED
  BY <1>2 DEF t

LEMMA OwnOf ==
    ASSUME NEW S, CR \in S, LF \in S, NEW h, NEW own, IsOwn(h, own, S)
    PROVE  /\ (IF h.key \in {"content-type:", "content-length:"} THEN <<>> ELSE Header(h.key, h.value)) = Block(own)
           /\ Block(own) \in Seq(S) /\ own \in Seq(Seq(S))
<1>1. own \in Seq(Seq(S))
  BY DEF IsOwn, AreLines
<1>2. Block(own) \in Seq(S)
  BY <1>1, EndedType
<1> QED
  BY <1>1, <1>2 DEF IsOwn

LEMMA NoOwn == ASSUME NEW resp, resp.headers = <<>> PROVE OwnHeaders(resp) = Block(<<>>)
<1> DEFINE f == [k \in DOMAIN resp.headers |->
                   IF resp.headers[k].key \in {"content-type:", "content-length:"} THEN <<>>
                   ELSE Header(resp.headers[k].key, resp.headers[k].value)]
<1>1. f = <<>>
  OBVIOUS
<1>2. OwnHeaders(resp) = FlattenSeq(f)
  BY DEF OwnHeaders
<1> HIDE DEF f
<1> QED
  BY <1>1, <1>2, FlattenEmpty, BlockEmpty

LEMMA OneOwn ==
    ASSUME NEW S, CR \in S, LF \in S, NEW h, NEW own, IsOwn(h, own, S), NEW resp, resp.headers = <<h>>
    PROVE  OwnHeaders(resp) = Block(own)
<1> DEFINE f == [k \in DOMAIN resp.headers |->
                   IF resp.headers[k].key \in {"content-type:", "content-length:"} THEN <<>>
                   ELSE Header(resp.headers[k].key, resp.headers[k].value)]
           b == Block(own)
           T == Seq(S)
<1>1. b \in T /\ (IF h.key \in {"content-type:", "content-length:"} THEN <<>> ELSE Header(h.key, h.value)) = b
  BY OwnOf
<1>2. DOMAIN resp.headers = 1..1 /\ resp.headers[1] = h /\ \A k \in 1..1 : k = 1
  OBVIOUS
<1>3. OwnHeaders(resp) = FlattenSeq(f)
  BY DEF OwnHeaders
<1> HIDE DEF b, T
<1>4. f = [k \in 1..1 |-> b]
  BY <1>1, <1>2
<1> HIDE DEF f
<1>5. f \in Seq(T) /\ Len(f) = 1 /\ f[1] = b
  <2> DEFINE n == 1
  <2>1. n \in Nat /\ 1 \in 1..n /\ f = [k \in 1..n |-> b]
    BY <1>4
  <2> HIDE DEF n
  <2>2. f \in Seq(T) /\ Len(f) = n /\ f[1] = b
    BY <1>1, <2>1
  <2> QED
    BY <2>2 DEF n
<1>6. f = <<b>>
  BY <1>5, OneStands
<1>7. FlattenSeq(<<b>>) = b
  BY <1>1, FlattenOne DEF T
<1> QED
  BY <1>3, <1>6, <1>7 DEF b

LEMMA TwoOwn ==
    ASSUME NEW S, CR \in S, LF \in S, NEW g, NEW first, IsOwn(g, first, S), NEW h, NEW second, IsOwn(h, second, S),
           NEW resp, resp.headers = <<g, h>>
    PROVE  OwnHeaders(resp) = Block(first \o second)
<1> DEFINE f == [k \in DOMAIN resp.headers |->
                   IF resp.headers[k].key \in {"content-type:", "content-length:"} THEN <<>>
                   ELSE Header(resp.headers[k].key, resp.headers[k].value)]
           a == Block(first)
           b == Block(second)
           T == Seq(S)
<1>1. a \in T /\ (IF g.key \in {"content-type:", "content-length:"} THEN <<>> ELSE Header(g.key, g.value)) = a
      /\ first \in Seq(T)
  BY OwnOf
<1>2. b \in T /\ (IF h.key \in {"content-type:", "content-length:"} THEN <<>> ELSE Header(h.key, h.value)) = b
      /\ second \in Seq(T)
  BY OwnOf
<1>3. /\ DOMAIN resp.headers = 1..2 /\ resp.headers[1] = g /\ resp.headers[2] = h
      /\ \A k \in 1..2 : k = 1 \/ k = 2
  OBVIOUS
<1>4. OwnHeaders(resp) = FlattenSeq(f)
  BY DEF OwnHeaders
<1>5. Block(first \o second) = a \o b
  BY <1>1, <1>2, BlockConcat
<1> HIDE DEF a, b, T
<1>6. f = [k \in 1..2 |-> IF k = 1 THEN a ELSE b]
  BY <1>1, <1>2, <1>3
<1> HIDE DEF f
<1> DEFINE e == <<a, b>>
<1>7. f = e
  <2>1. f \in Seq(T) /\ Len(f) = 2 /\ f[1] = a /\ f[2] = b
    <3> DEFINE n == 2
               Of(k) == IF k = 1 THEN a ELSE b
    <3>1. n \in Nat /\ 1 \in 1..n /\ 2 \in 1..n /\ f = [k \in 1..n |-> Of(k)]
      BY <1>6
    <3>2. Of(1) = a /\ Of(2) = b /\ \A k : Of(k) \in T
      BY <1>1, <1>2
    <3> HIDE DEF n, Of
    <3>3. f \in Seq(T) /\ Len(f) = n /\ f[1] = Of(1) /\ f[2] = Of(2)
      BY <3>1, <3>2
    <3> QED
      BY <3>2, <3>3 DEF n
  <2>2. e \in Seq(T) /\ Len(e) = 2 /\ e[1] = a /\ e[2] = b
    BY <1>1, <1>2
  <2> HIDE DEF e
  <2>3. \A k \in 1..Len(f) : f[k] = e[k]
    BY <1>3, <2>1, <2>2
  <2> QED
    BY <2>1, <2>2, <2>3, SeqEqual
<1>8. FlattenSeq(e) = a \o b
  <2> DEFINE x == <<a>>
             y == <<b>>
  <2>1. e = x \o y
    BY TwoAreOne
  <2>2. x \in Seq(Seq(S)) /\ y \in Seq(Seq(S))
    BY <1>1, <1>2 DEF T
  <2>3. FlattenSeq(x) = a /\ FlattenSeq(y) = b
    BY <1>1, <1>2, FlattenOne DEF T
  <2> HIDE DEF x, y, e
  <2>4. FlattenSeq(x \o y) = FlattenSeq(x) \o FlattenSeq(y)
    BY <2>2, FlattenConcat
  <2> QED
    BY <2>1, <2>3, <2>4
<1> QED
  BY <1>4, <1>5, <1>7, <1>8

\* What SetCookie writes, in two lines
CookieTokens == {"set-cookie:", "SESSION_ID", "=", "s1", Semicolon, Space, "Path=/", "member1", "ELAMRANI"}
SessionValue == <<"SESSION_ID", "=", "s1", Semicolon, Space, "Path=/">>
MemberLine   == <<"set-cookie:", "member1", "=", "ELAMRANI", Semicolon, Space, "Path=/">>
CookieLines  == <<<<"set-cookie:">> \o SessionValue>> \o <<MemberLine>>

LEMMA CookieParts ==
    ASSUME NEW S, CookieTokens \subseteq S
    PROVE  /\ <<"set-cookie:">> \in Seq(S) /\ CR \notin ToSet(<<"set-cookie:">>)
           /\ SessionValue \in Seq(S) /\ CR \notin ToSet(SessionValue)
           /\ MemberLine \in Seq(S) /\ CR \notin ToSet(MemberLine) /\ MemberLine # <<>>
<1>1. CR \notin CookieTokens
  BY Zenon DEF CookieTokens, CR, Semicolon, Space
<1> DEFINE C == CookieTokens
<1>2. /\ "set-cookie:" \in C /\ "SESSION_ID" \in C /\ "=" \in C /\ "s1" \in C /\ Semicolon \in C /\ Space \in C
      /\ "Path=/" \in C /\ "member1" \in C /\ "ELAMRANI" \in C
  BY Zenon DEF CookieTokens
<1> HIDE DEF C
<1>3. \A w : w \in Seq(C) => w \in Seq(S) /\ CR \notin ToSet(w)
  <2> SUFFICES ASSUME NEW w \in Seq(C) PROVE w \in Seq(S) /\ CR \notin ToSet(w)
    OBVIOUS
  <2>1. C \subseteq S /\ CR \notin C
    BY <1>1 DEF C
  <2>2. \A k \in DOMAIN w : w[k] \in C
    OBVIOUS
  <2>3. w \in Seq(S)
    BY <2>1
  <2>4. CR \notin ToSet(w)
    BY <2>1, <2>2 DEF ToSet
  <2> QED
    BY <2>3, <2>4
<1>4. <<"set-cookie:">> \in Seq(C)
  BY <1>2
<1>5. SessionValue \in Seq(C)
  BY <1>2 DEF SessionValue
<1>6. MemberLine \in Seq(C) /\ MemberLine # <<>>
  BY <1>2 DEF MemberLine
<1> QED
  BY <1>3, <1>4, <1>5, <1>6

LEMMA CookieOwn ==
    ASSUME NEW S, CR \in S, LF \in S, CookieTokens \subseteq S
    PROVE  IsOwn(SetCookie("s1"), CookieLines, S)
<1> DEFINE h == SetCookie("s1")
           k == <<"set-cookie:">>
           v == SessionValue
           m == MemberLine
           c == CRLF
           l == k \o v
           one == <<l>>
           two == <<m>>
<1>1. /\ k \in Seq(S) /\ CR \notin ToSet(k) /\ v \in Seq(S) /\ CR \notin ToSet(v)
      /\ m \in Seq(S) /\ CR \notin ToSet(m) /\ m # <<>>
  BY CookieParts
<1>2. c \in Seq(S)
  BY CRLFType
<1>3. h.key = "set-cookie:" /\ h.value = (v \o c) \o m
  BY Zenon DEF SetCookie, SessionValue, MemberLine, Semicolon, Space
<1>4. CookieLines = one \o two /\ k # <<>>
  BY DEF CookieLines
<1>5. <<h.key>> \o h.value = k \o ((v \o c) \o m)
  BY <1>3
<1>6. Header(h.key, h.value) = (k \o ((v \o c) \o m)) \o c
  BY <1>5 DEF Header
<1>7. h.key \notin {"content-type:", "content-length:"}
  BY <1>3
<1> HIDE DEF h, k, v, m
<1>8. l \in Seq(S) /\ l # <<>> /\ CR \notin ToSet(l)
  <2>1. l \in Seq(S) /\ Len(l) = Len(k) + Len(v)
    BY <1>1, ConcatProperties
  <2>2. Len(k) \in Nat /\ Len(v) \in Nat /\ Len(k) # 0
    BY <1>1, <1>4
  <2>3. CR \notin ToSet(l)
    BY <1>1, NotInEither
  <2> HIDE DEF l
  <2>4. Len(l) # 0
    BY <2>1, <2>2
  <2> QED
    BY <2>1, <2>3, <2>4
<1>9. k \o ((v \o c) \o m) \in Seq(S) /\ (k \o ((v \o c) \o m)) \o c = (l \o c) \o (m \o c)
  <2> HIDE DEF c
  <2> DEFINE vc == v \o c
             lc == l \o c
  <2>1. vc \in Seq(S)
    BY <1>1, <1>2, ConcatProperties
  <2>2. lc \in Seq(S)
    <3> HIDE DEF l
    <3> QED
      BY <1>2, <1>8, ConcatProperties
  <2>3. lc = k \o vc
    BY <1>1, <1>2, FourParts
  <2> HIDE DEF vc, lc
  <2>4. (k \o vc) \o m = k \o (vc \o m)
    BY <1>1, <2>1, FourParts, SMTT(20)
  <2>5. (lc \o m) \o c = lc \o (m \o c)
    BY <1>1, <1>2, <2>2, FourParts
  <2>6. lc \o m \in Seq(S)
    BY <1>1, <2>2, ConcatProperties
  <2> QED
    BY <2>3, <2>4, <2>5, <2>6 DEF vc, lc
<1> HIDE DEF l
<1>10. AreLines(one, S) /\ AreLines(two, S) /\ Block(one) = Line(l) /\ Block(two) = Line(m)
  BY <1>1, <1>8, LinesOne, BlockOne
<1>11. one \in Seq(Seq(S)) /\ two \in Seq(Seq(S)) /\ one # <<>> /\ Len(one) = 1 /\ two # <<>> /\ Len(two) = 1
  BY <1>1, <1>8
<1> HIDE DEF one, two
<1>12. AreLines(CookieLines, S) /\ Block(CookieLines) = Line(l) \o Line(m)
  <2>1. AreLines(one \o two, S)
    BY <1>10, LinesConcat
  <2>2. Block(one \o two) = Block(one) \o Block(two)
    BY <1>11, BlockConcat
  <2> QED
    BY <1>4, <1>10, <2>1, <2>2
<1>13. CookieLines # <<>>
  <2> DEFINE both == one \o two
  <2>1. both \in Seq(Seq(S)) /\ Len(both) = Len(one) + Len(two)
    <3> DEFINE T == Seq(S)
    <3>1. one \in Seq(T) /\ two \in Seq(T)
      BY <1>11
    <3> HIDE DEF T
    <3>2. both \in Seq(T) /\ Len(both) = Len(one) + Len(two)
      BY <3>1, ConcatProperties
    <3> QED
      BY <3>2 DEF T
  <2> HIDE DEF both
  <2>2. both # <<>>
    BY <1>11, <2>1
  <2> QED
    BY <1>4, <2>2 DEF both
<1>14. IsBlock(CookieLines, S)
  BY <1>12, <1>13 DEF IsBlock, AreLines
<1>15. Header(h.key, h.value) = Block(CookieLines)
  BY <1>6, <1>9, <1>12 DEF Line, c
<1>16. <<h.key>> \o h.value \in Seq(S)
  BY <1>5, <1>9
<1> QED
  BY <1>7, <1>12, <1>14, <1>15, <1>16 DEF IsOwn, h

\* The line of a redirect
LocationHeader(uri) == [key |-> "location:", value |-> uri]
LocationLines(uri)  == <<<<"location:">> \o uri>>

LEMMA LocationOwn ==
    ASSUME NEW S, CR \in S, LF \in S, "location:" \in S, NEW uri \in Seq(S), CR \notin ToSet(uri)
    PROVE  IsOwn(LocationHeader(uri), LocationLines(uri), S)
<1> DEFINE h == LocationHeader(uri)
           k == <<"location:">>
           l == k \o uri
           one == <<l>>
<1>1. h.key = "location:" /\ h.value = uri /\ h.key \notin {"content-type:", "content-length:"}
  BY DEF LocationHeader
<1>2. k \in Seq(S) /\ Len(k) = 1 /\ CR \notin ToSet(k)
  <2>1. "location:" # CR
    BY Zenon DEF CR
  <2>2. k \in Seq(S) /\ Len(k) = 1 /\ DOMAIN k = 1..1 /\ k[1] = "location:" /\ \A i \in 1..1 : i = 1
    OBVIOUS
  <2> QED
    BY <2>1, <2>2 DEF ToSet
<1>3. <<h.key>> \o h.value = l /\ Header(h.key, h.value) = l \o CRLF
  BY <1>1 DEF Header
<1> HIDE DEF h, k
<1>4. l \in Seq(S) /\ l # <<>> /\ CR \notin ToSet(l)
  <2>1. l \in Seq(S) /\ Len(l) = Len(k) + Len(uri)
    BY <1>2, ConcatProperties
  <2>4. Len(uri) \in Nat
    OBVIOUS
  <2>2. CR \notin ToSet(l)
    BY <1>2, NotInEither
  <2> HIDE DEF l
  <2>3. Len(l) # 0
    BY <1>2, <2>1, <2>4
  <2> QED
    BY <2>1, <2>2, <2>3
<1>5. LocationLines(uri) = one
  BY DEF LocationLines, k
<1> HIDE DEF l
<1>6. AreLines(one, S) /\ Block(one) = Line(l) /\ one # <<>>
  BY <1>4, LinesOne, BlockOne
<1> HIDE DEF one
<1>7. IsBlock(one, S)
  BY <1>6 DEF IsBlock, AreLines
<1>8. <<h.key>> \o h.value \in Seq(S) /\ Header(h.key, h.value) = Block(one)
  BY <1>3, <1>4, <1>6 DEF Line
<1> QED
  BY <1>1, <1>5, <1>6, <1>7, <1>8 DEF IsOwn, h

\* An answer that arrives: with its code, its body and nothing behind it, and all its headers
Arrives(resp) ==
    LET answer == Read(build(resp))
    IN  /\ answer.code = ToString(resp.statusCode)
        /\ answer.body = resp.body /\ answer.over = 0
        /\ \A h \in ToSet(resp.headers) : ToSet(Lines(<<h.key>> \o h.value)) \subseteq ToSet(answer.lines)

LEMMA AnswerRead ==
    ASSUME NEW S, NEW resp, NEW own, IsAnswer(resp, own, S), Printed,
           \A h \in ToSet(resp.headers) : ToSet(Lines(<<h.key>> \o h.value)) \subseteq ToSet(own)
    PROVE  Arrives(resp)
<1> DEFINE answer == Read(build(resp))
<1>1. answer = Read(build(resp))
  OBVIOUS
<1> HIDE DEF answer
<1>2. /\ answer.code = ToString(resp.statusCode) /\ answer.body = resp.body /\ answer.over = 0
      /\ ToSet(own) \subseteq ToSet(answer.lines)
  <2>1. CASE HasBody(resp)
    BY <1>1, <2>1, FullRead
  <2>2. CASE ~HasBody(resp)
    BY <1>1, <2>2, BareRead
  <2> QED
    BY <2>1, <2>2
<1>3. \A h \in ToSet(resp.headers) : ToSet(Lines(<<h.key>> \o h.value)) \subseteq ToSet(answer.lines)
  BY <1>2
<1> QED
  BY <1>1, <1>2, <1>3 DEF Arrives

\* What the tests of the answers below have in common
IsFor(code, text, S) ==
    /\ CR \in S /\ LF \in S /\ Tokens \subseteq S /\ CookieTokens \subseteq S /\ "location:" \in S
    /\ code \in Nat /\ text \in Seq(S) /\ {ToString(code), ToString(Len(text))} \subseteq S
    /\ Len(text) <= MaxLength /\ (code \in {204, 304} => text = <<>>)

LEMMA ResponseIs ==
    ASSUME NEW S, NEW code, NEW text, IsFor(code, text, S), NEW hs,
           NEW resp, resp = Response(code, hs, text), NEW own, AreLines(own, S), OwnHeaders(resp) = Block(own)
    PROVE  IsAnswer(resp, own, S)
<1>1. resp.statusCode = code /\ resp.contentType = "text/html" /\ resp.body = text
  BY DEF Response
<1>2. /\ CR \in S /\ LF \in S /\ Tokens \subseteq S
      /\ code \in Nat /\ text \in Seq(S) /\ {ToString(code), ToString(Len(text))} \subseteq S
      /\ Len(text) <= MaxLength /\ (code \in {204, 304} => text = <<>>)
  BY DEF IsFor
<1>3. HasBody(resp) \/ resp.body = <<>>
  BY <1>1, <1>2 DEF HasBody
<1> QED
  BY <1>1, <1>2, <1>3 DEF IsAnswer

\* With cookies, and with a redirect
LEMMA CookieArrives ==
    ASSUME NEW S, NEW code, NEW text, IsFor(code, text, S), Printed
    PROVE  Arrives(Response(code, <<SetCookie("s1")>>, text))
<1> DEFINE h == SetCookie("s1")
           hs == <<h>>
           resp == Response(code, hs, text)
<1>1. CR \in S /\ LF \in S /\ CookieTokens \subseteq S
  BY DEF IsFor
<1>2. IsOwn(h, CookieLines, S)
  BY <1>1, CookieOwn
<1>3. resp = Response(code, hs, text) /\ resp.headers = <<h>>
  BY DEF Response
<1> HIDE DEF h
<1>4. ToSet(resp.headers) = {h}
  <2>1. DOMAIN <<h>> = 1..1 /\ <<h>>[1] = h /\ \A k \in 1..1 : k = 1
    OBVIOUS
  <2> HIDE DEF resp
  <2> QED
    BY <1>3, <2>1 DEF ToSet
<1> HIDE DEF resp
<1>5. OwnHeaders(resp) = Block(CookieLines)
  BY <1>1, <1>2, <1>3, OneOwn
<1>6. AreLines(CookieLines, S) /\ Lines(<<h.key>> \o h.value) = CookieLines
  BY <1>1, <1>2, OwnLines DEF IsOwn
<1> HIDE DEF hs
<1>7. IsAnswer(resp, CookieLines, S)
  BY <1>3, <1>5, <1>6, ResponseIs
<1>8. Arrives(resp)
  BY <1>4, <1>6, <1>7, AnswerRead
<1> QED
  BY <1>8 DEF resp, hs, h

LEMMA RedirectArrives ==
    ASSUME NEW S, NEW code, NEW text, IsFor(code, text, S), Printed,
           NEW uri \in Seq(S), CR \notin ToSet(uri)
    PROVE  Arrives(Response(code, <<LocationHeader(uri), SetCookie("s1")>>, text))
<1> DEFINE g == LocationHeader(uri)
           h == SetCookie("s1")
           hs == <<g, h>>
           resp == Response(code, hs, text)
           first == LocationLines(uri)
           own == first \o CookieLines
<1>1. CR \in S /\ LF \in S /\ CookieTokens \subseteq S /\ "location:" \in S
  BY DEF IsFor
<1>2. IsOwn(g, first, S) /\ IsOwn(h, CookieLines, S)
  BY <1>1, CookieOwn, LocationOwn
<1>3. resp = Response(code, hs, text) /\ resp.headers = <<g, h>>
  BY DEF Response
<1> HIDE DEF g, h, first
<1>4. ToSet(resp.headers) = {g, h}
  <2>1. DOMAIN <<g, h>> = 1..2 /\ <<g, h>>[1] = g /\ <<g, h>>[2] = h /\ \A k \in 1..2 : k = 1 \/ k = 2
    OBVIOUS
  <2> HIDE DEF resp
  <2> QED
    BY <1>3, <2>1, SMTT(30) DEF ToSet
<1> HIDE DEF resp
<1>5. OwnHeaders(resp) = Block(own)
  BY <1>1, <1>2, <1>3, TwoOwn
<1>6. /\ AreLines(first, S) /\ Lines(<<g.key>> \o g.value) = first
      /\ AreLines(CookieLines, S) /\ Lines(<<h.key>> \o h.value) = CookieLines
  BY <1>1, <1>2, OwnLines DEF IsOwn
<1>7. AreLines(own, S) /\ ToSet(own) = ToSet(first) \cup ToSet(CookieLines)
  BY <1>6, LinesConcat
<1> HIDE DEF hs, own
<1>8. IsAnswer(resp, own, S)
  BY <1>3, <1>5, <1>7, ResponseIs
<1>9. \A x \in ToSet(resp.headers) : ToSet(Lines(<<x.key>> \o x.value)) \subseteq ToSet(own)
  <2> SUFFICES ASSUME NEW x \in ToSet(resp.headers) PROVE ToSet(Lines(<<x.key>> \o x.value)) \subseteq ToSet(own)
    OBVIOUS
  <2>1. CASE x = g
    BY <1>6, <1>7, <2>1
  <2>2. CASE x = h
    BY <1>6, <1>7, <2>2
  <2> QED
    BY <1>4, <2>1, <2>2
<1>10. Arrives(resp)
  BY <1>8, <1>9, AnswerRead
<1> QED
  BY <1>10 DEF resp, hs, g, h

LEMMA PlainArrives ==
    ASSUME NEW S, NEW code, NEW text, IsFor(code, text, S), Printed
    PROVE  Arrives(Response(code, <<>>, text))
<1> DEFINE hs == <<>>
           resp == Response(code, hs, text)
           own == <<>>
<1>1. resp = Response(code, hs, text) /\ resp.headers = <<>>
  BY DEF Response
<1> HIDE DEF resp
<1>2. OwnHeaders(resp) = Block(own)
  BY <1>1, NoOwn
<1>3. AreLines(own, S)
  BY LinesNone
<1>4. \A h \in ToSet(resp.headers) : ToSet(Lines(<<h.key>> \o h.value)) \subseteq ToSet(own)
  <2>1. ToSet(resp.headers) = {}
    BY <1>1, LinesNone
  <2> QED
    BY <2>1
<1> HIDE DEF hs, own
<1>5. IsAnswer(resp, own, S)
  BY <1>1, <1>2, <1>3, ResponseIs
<1>6. Arrives(resp)
  BY <1>4, <1>5, AnswerRead
<1> QED
  BY <1>6 DEF resp, hs

\* A name has no line end in it, and a body is no longer than lengths are.
IsAnswerable(r) ==
    /\ r.target.uri \in Seq(ToSet(r.target.uri) \ {CR}) /\ Len(r.body) <= MaxLength
SentAnswerable == \A r \in Sent : r.valid => IsAnswerable(r)

Numbers == {ToString(n) : n \in Nat}

LEMMA AllArrive ==
    ASSUME Printed, MaxLength > 0, NEW L, CR \in L, LF \in L, NEW text \in Seq(L), Len(text) <= MaxLength,
           NEW uri, uri \in Seq(ToSet(uri) \ {CR})
    PROVE  /\ Arrives(Response(200, <<SetCookie("s1")>>, text))
           /\ Arrives(Response(301, <<LocationHeader(uri), SetCookie("s1")>>, <<"page">>))
           /\ Arrives(Response(204, <<SetCookie("s1")>>, <<>>))
           /\ Arrives(Response(404, <<>>, <<"page">>))
<1> DEFINE S == L \cup Tokens \cup CookieTokens \cup Numbers \cup {"location:", "page"} \cup ToSet(uri)
           page == <<"page">>
           none == <<>>
<1>1. /\ L \subseteq S /\ Tokens \subseteq S /\ CookieTokens \subseteq S /\ Numbers \subseteq S
      /\ "location:" \in S /\ "page" \in S /\ ToSet(uri) \subseteq S
  OBVIOUS
<1> HIDE DEF S
<1>2. CR \in S /\ LF \in S /\ text \in Seq(S) /\ page \in Seq(S) /\ none \in Seq(S)
      /\ Len(page) = 1 /\ Len(none) = 0 /\ Len(text) \in Nat
  BY <1>1
<1>3. MaxLength \in Nat
  BY ReadingAssumption
<1> HIDE DEF page, none
<1>4. \A n \in Nat : ToString(n) \in S
  BY <1>1 DEF Numbers
<1>5. ASSUME NEW code \in Nat, NEW t \in Seq(S), Len(t) <= MaxLength, code \in {204, 304} => t = <<>>
      PROVE  IsFor(code, t, S)
  <2> DEFINE n == Len(t)
  <2>1. n \in Nat
    OBVIOUS
  <2>2. ToString(code) \in S /\ ToString(n) \in S
    <3> HIDE DEF n
    <3> QED
      BY <1>4, <2>1
  <2> QED
    BY <1>1, <1>2, <1>5, <2>2 DEF IsFor
<1>6. Arrives(Response(200, <<SetCookie("s1")>>, text))
  <2>1. IsFor(200, text, S)
    BY <1>2, <1>5
  <2> QED
    BY <2>1, CookieArrives
<1>7. Arrives(Response(301, <<LocationHeader(uri), SetCookie("s1")>>, page))
  <2>1. IsFor(301, page, S)
    <3> DEFINE c == 301
    <3>1. page \in Seq(S) /\ Len(page) <= MaxLength
      BY <1>2, <1>3
    <3>2. c \in Nat /\ (c \in {204, 304} => page = <<>>)
      OBVIOUS
    <3> HIDE DEF c
    <3>3. IsFor(c, page, S)
      BY <1>5, <3>1, <3>2
    <3> QED
      BY <3>3 DEF c
  <2>2. uri \in Seq(S) /\ CR \notin ToSet(uri)
    <3>1. \A k \in DOMAIN uri : uri[k] \in ToSet(uri) \ {CR}
      OBVIOUS
    <3>2. CR \notin ToSet(uri)
      BY <3>1 DEF ToSet
    <3> QED
      BY <1>1, <3>2
  <2> QED
    BY <2>1, <2>2, RedirectArrives
<1>8. Arrives(Response(204, <<SetCookie("s1")>>, none))
  <2>1. IsFor(204, none, S)
    <3> DEFINE c == 204
    <3>1. none \in Seq(S) /\ Len(none) <= MaxLength
      BY <1>2, <1>3
    <3>2. c \in Nat /\ (c \in {204, 304} => none = <<>>)
      BY DEF none
    <3> HIDE DEF c
    <3>3. IsFor(c, none, S)
      BY <1>5, <3>1, <3>2
    <3> QED
      BY <3>3 DEF c
  <2> QED
    BY <2>1, CookieArrives
<1>9. Arrives(Response(404, <<>>, page))
  <2>1. IsFor(404, page, S)
    <3> DEFINE c == 404
    <3>1. page \in Seq(S) /\ Len(page) <= MaxLength
      BY <1>2, <1>3
    <3>2. c \in Nat /\ (c \in {204, 304} => page = <<>>)
      OBVIOUS
    <3> HIDE DEF c
    <3>3. IsFor(c, page, S)
      BY <1>5, <3>1, <3>2
    <3> QED
      BY <3>3 DEF c
  <2> QED
    BY <2>1, PlainArrives
<1> QED
  BY <1>6, <1>7, <1>8, <1>9 DEF page, none

\* Whatever an answer carries, the file that was uploaded, a redirect to what was named, no
\* body at all, an error: who reads it has its body and its headers, and is then at its end.
THEOREM AnswersArrive ==
    ASSUME SentTexts, SentMessages, SentAimed, SentAnswerable, Printed, MaxLength > 0
    PROVE  Spec => []AnswerArrives
<1>1. Parsed => AnswerArrives
  <2> SUFFICES ASSUME Parsed, sent.valid, status = "SUCCESS", NEW resp \in Answers
               PROVE  Arrives(resp)
    BY DEF AnswerArrives, Arrives
  <2> DEFINE outcome == Parse(Part(received))
             L == Letters(sent)
  <2>1. IsMessage(sent) /\ IsAimed(sent) /\ IsAnswerable(sent) /\ received \in 0..Len(sent.bytes)
    BY DEF Parsed, SentMessages, SentAimed, SentAnswerable
  <2>2. outcome.status = "SUCCESS" /\ target = outcome.target /\ body = outcome.body
    BY DEF Parsed
  <2>3. sent.body \in Seq(L) /\ outcome.body = sent.body
    BY <2>1, <2>2, MessageHeld DEF Part
  <2>4. outcome.target = sent.target
    BY <2>1, <2>2, AimedParsed DEF Part
  <2>5. CR \in L /\ LF \in L
    BY DEF Letters
  <2>6. sent.target.uri \in Seq(ToSet(sent.target.uri) \ {CR}) /\ Len(sent.body) <= MaxLength
    BY <2>1 DEF IsAnswerable
  <2> HIDE DEF outcome, L
  <2>7. PICK text \in Seq(L) : text = body /\ Len(text) <= MaxLength
    BY <2>2, <2>3, <2>6
  <2> DEFINE uri == sent.target.uri
  <2>8. uri = target.uri /\ uri \in Seq(ToSet(uri) \ {CR})
    BY <2>2, <2>4, <2>6
  <2> HIDE DEF uri
  <2>9. /\ Arrives(Response(200, <<SetCookie("s1")>>, text))
        /\ Arrives(Response(301, <<LocationHeader(uri), SetCookie("s1")>>, <<"page">>))
        /\ Arrives(Response(204, <<SetCookie("s1")>>, <<>>))
        /\ Arrives(Response(404, <<>>, <<"page">>))
    BY <2>5, <2>7, <2>8, AllArrive
  <2>10. \/ resp = Response(200, <<SetCookie("s1")>>, text)
         \/ resp = Response(301, <<LocationHeader(uri), SetCookie("s1")>>, <<"page">>)
         \/ resp = Response(204, <<SetCookie("s1")>>, <<>>)
         \/ resp = Response(404, <<>>, <<"page">>)
    BY <2>7, <2>8 DEF Answers, makeError, LocationHeader
  <2> QED
    BY <2>9, <2>10
<1>2. Spec => []Parsed
  BY HoldsParsed
<1> QED
  BY <1>1, <1>2, PTL

-----------------------------------------------------------------------------
(* Forms *)

\* What find() looks at is what stands there.
LEMMA StandsThere ==
    ASSUME NEW S, NEW d \in Seq(S), NEW j \in Nat, NEW w \in Seq(S), w # <<>>
    PROVE  j \in Positions(d) /\ Substr(d, j, Len(w)) = w <=> Stands(d, j, w)
<1> DEFINE m == Len(w)
           n == Len(d)
           s == Substr(d, j, m)
<1>1. m \in Nat /\ m > 0 /\ n \in Nat
  OBVIOUS
<1>2. ASSUME Stands(d, j, w) PROVE j \in Positions(d) /\ s = w
  <2>1. s = w
    BY <1>2, StandsSubstr
  <2>2. j + m <= n
    BY <1>2 DEF Stands
  <2> HIDE DEF m, n, s
  <2>3. j \in 0..(n - 1)
    BY <1>1, <2>2
  <2> QED
    BY <2>1, <2>3 DEF Positions, n
<1>3. ASSUME j \in Positions(d), s = w PROVE Stands(d, j, w)
  <2>1. j < n /\ Len(s) = m
    BY <1>1, <1>3 DEF Positions
  <2>2. s = SubSeq(d, j + 1, Min2(j + m, n))
    BY DEF Substr
  <2>3. j + m <= n
    <3> SUFFICES ASSUME n < j + m PROVE FALSE
      BY <1>1
    <3>1. s = SubSeq(d, j + 1, n)
      <4> HIDE DEF m, n, s
      <4> QED
        BY <1>1, <2>2 DEF Min2
    <3>2. Len(SubSeq(d, j + 1, n)) = n - j
      BY <1>1, <2>1
    <3> HIDE DEF m, n, s
    <3> QED
      BY <1>1, <2>1, <3>1, <3>2
  <2>4. \A i \in 1..m : s[i] = d[j + i]
    BY <1>1, <2>3, SubstrInside
  <2> QED
    BY <1>3, <2>3, <2>4 DEF Stands
<1> QED
  BY <1>2, <1>3

LEMMA PatternFind ==
    ASSUME NEW S, NEW d \in Seq(S), NEW w \in Seq(S), w # <<>>, NEW k \in Nat, NEW p \in Nat, k <= p,
           Stands(d, p, w), \A j \in Nat : k <= j /\ j < p => ~Stands(d, j, w)
    PROVE  Find(d, w, k) = p
<1> DEFINE P == {j \in Positions(d) : j >= k /\ Substr(d, j, Len(w)) = w}
<1>1. P \in SUBSET Nat
  BY DEF Positions
<1>2. p \in P
  <2>1. p \in Positions(d) /\ Substr(d, p, Len(w)) = w
    BY StandsThere
  <2> QED
    BY <2>1
<1>3. \A j \in P : p <= j
  <2> SUFFICES ASSUME NEW j \in P PROVE p <= j
    OBVIOUS
  <2>1. j \in Nat /\ k <= j /\ j \in Positions(d) /\ Substr(d, j, Len(w)) = w
    BY <1>1
  <2>2. Stands(d, j, w)
    BY <2>1, StandsThere
  <2> QED
    BY <2>1, <2>2
<1>4. Find(d, w, k) = First(P)
  BY DEF Find
<1> HIDE DEF P
<1> QED
  BY <1>1, <1>2, <1>3, <1>4, FirstIs

LEMMA PatternNone ==
    ASSUME NEW S, NEW d \in Seq(S), NEW w \in Seq(S), w # <<>>, NEW k \in Nat,
           \A j \in Nat : k <= j => ~Stands(d, j, w)
    PROVE  Find(d, w, k) = npos
<1> DEFINE P == {j \in Positions(d) : j >= k /\ Substr(d, j, Len(w)) = w}
<1>1. P = {}
  <2> SUFFICES ASSUME NEW j \in P PROVE FALSE
    OBVIOUS
  <2>1. j \in Nat /\ k <= j /\ j \in Positions(d) /\ Substr(d, j, Len(w)) = w
    BY DEF Positions
  <2>2. Stands(d, j, w)
    BY <2>1, StandsThere
  <2> QED
    BY <2>1, <2>2
<1>2. Find(d, w, k) = First(P)
  BY DEF Find
<1> HIDE DEF P
<1> QED
  BY <1>1, <1>2 DEF First

\* What a key is followed by, with or without quotes
LEMMA ValueTrimmed ==
    ASSUME NEW x, NEW key, NEW b, NEW q, NEW C, x # key, b \notin C, q \in C
    PROVE  LET t == <<x, key, b>>
               u == <<x, key, q, b, q>>
           IN  /\ Find(t, <<key>>, 0) = 1 /\ Trim(Substr(t, 2, Len(t)), C) = <<b>>
               /\ Find(u, <<key>>, 0) = 1 /\ Trim(Substr(u, 2, Len(u)), C) = <<b>>
<1> DEFINE t == <<x, key, b>>
           u == <<x, key, q, b, q>>
           S == {x, key, b, q}
           v == <<b>>
           w == <<q, b, q>>
<1>1. t \in Seq(S) /\ Len(t) = 3 /\ t[1] = x /\ t[2] = key /\ t[3] = b
  OBVIOUS
<1>2. u \in Seq(S) /\ Len(u) = 5 /\ u[1] = x /\ u[2] = key /\ u[3] = q /\ u[4] = b /\ u[5] = q
  OBVIOUS
<1>3. v \in Seq(S) /\ Len(v) = 1 /\ v[1] = b
  OBVIOUS
<1>4. w \in Seq(S) /\ Len(w) = 3 /\ w[1] = q /\ w[2] = b /\ w[3] = q
  OBVIOUS
<1> HIDE DEF t, u, v, w, S
<1>5. Substr(t, 2, Len(t)) = v /\ SubSeq(v, 1, 1) = v
  <2>1. Stands(t, 2, v) /\ Stands(v, 0, v)
    BY <1>1, <1>3 DEF Stands
  <2>2. Substr(t, 2, Len(v)) = v /\ Substr(v, 0, Len(v)) = v
    BY <1>1, <1>3, <2>1, StandsSubstr
  <2> QED
    BY <1>1, <1>3, <2>2 DEF Substr, Min2
<1>6. Substr(u, 2, Len(u)) = w /\ SubSeq(w, 2, 2) = v
  <2>1. Stands(u, 2, w)
    <3>1. u[2 + 1] = w[1] /\ u[2 + 2] = w[2] /\ u[2 + 3] = w[3]
      BY <1>2, <1>4
    <3>2. \A i \in 1..3 : i = 1 \/ i = 2 \/ i = 3
      OBVIOUS
    <3> QED
      BY <1>2, <1>4, <3>1, <3>2 DEF Stands
  <2>2. Stands(w, 1, v)
    BY <1>3, <1>4 DEF Stands
  <2>3. Substr(u, 2, Len(w)) = w /\ Substr(w, 1, Len(v)) = v
    BY <1>2, <1>3, <1>4, <2>1, <2>2, StandsSubstr
  <2> QED
    BY <1>2, <1>3, <1>4, <2>3 DEF Substr, Min2
<1>7. ASSUME NEW y \in Seq(S), 3 <= Len(y), y[1] = x, y[2] = key
      PROVE  Find(y, <<key>>, 0) = 1
  <2>1. At(y, 0) = x /\ At(y, 1) = key
    BY <1>7 DEF At
  <2>2. \A j \in Nat : 0 <= j /\ j < 1 => At(y, j) \notin {key}
    BY <2>1
  <2>3. NextOf(y, {key}, 0) = 1
    <3> DEFINE one == 1
               zero == 0
               K == {key}
    <3>1. one \in Nat /\ zero \in Nat /\ zero <= one /\ one < Len(y) /\ At(y, one) \in K
      BY <1>7, <2>1
    <3>2. \A j \in Nat : zero <= j /\ j < one => At(y, j) \notin K
      BY <2>2
    <3> HIDE DEF one, zero, K
    <3>3. NextOf(y, K, zero) = one
      BY <3>1, <3>2, NextIs
    <3> QED
      BY <3>3 DEF one, zero, K
  <2> QED
    BY <2>3, CharacterFind
<1>8. Trim(v, C) = v
  <2> DEFINE n == 1
  <2>1. n \in 1..Len(v) /\ n \in n..Len(v) /\ v[n] \notin C /\ \A k \in 1..Len(v) : k < n \/ n < k => v[k] \in C
    BY <1>3
  <2> HIDE DEF n
  <2>2. Trim(v, C) = SubSeq(v, n, n)
    BY <1>3, <2>1, TrimIs
  <2> QED
    BY <1>5, <2>2 DEF n
<1>9. Trim(w, C) = v
  <2> DEFINE n == 2
  <2>1. n \in 1..Len(w) /\ n \in n..Len(w) /\ w[n] \notin C /\ \A k \in 1..Len(w) : k < n \/ n < k => w[k] \in C
    BY <1>4
  <2> HIDE DEF n
  <2>2. Trim(w, C) = SubSeq(w, n, n)
    BY <1>4, <2>1, TrimIs
  <2> QED
    BY <1>6, <2>2 DEF n
<1>10. Find(t, <<key>>, 0) = 1 /\ Find(u, <<key>>, 0) = 1
  <2>1. 3 <= Len(t) /\ 3 <= Len(u)
    BY <1>1, <1>2
  <2>2. Find(t, <<key>>, 0) = 1
    BY <1>1, <1>7, <2>1
  <2>3. Find(u, <<key>>, 0) = 1
    BY <1>2, <1>7, <2>1
  <2> QED
    BY <2>2, <2>3
<1> QED
  BY <1>5, <1>6, <1>8, <1>9, <1>10 DEF t, u, v

Quote == "\""

\* Both forms of the header name the same boundary.
LEMMA BoundaryIs ==
    ASSUME NEW type \in {Form, QuotedForm}
    PROVE  extractBoundary(MediaType[type]) = <<"B">>
<1> DEFINE x == "multipart/form-data; "
           key == "boundary="
           b == "B"
           C == {Space, Quote}
<1>1. x # key /\ b \notin C /\ Quote \in C
  BY Zenon DEF Space, Quote
<1>2. MediaType[type] \in {<<x, key, b>>, <<x, key, Quote, b, Quote>>}
  <2>1. MediaType[type] = IF type = Form THEN <<x, key, b>> ELSE <<x, key, Quote, b, Quote>>
    BY Zenon DEF MediaType, Quote
  <2> HIDE DEF x, key, b
  <2> QED
    BY <2>1
<1>3. extractBoundary(MediaType[type])
        = LET pos == Find(MediaType[type], <<key>>, 0)
          IN  IF pos = npos THEN <<>> ELSE Trim(Substr(MediaType[type], pos + 1, Len(MediaType[type])), C)
  BY Zenon DEF extractBoundary, Space, Quote
<1> HIDE DEF x, key, b, C
<1> DEFINE t == MediaType[type]
<1> HIDE DEF t
<1>4. Find(t, <<key>>, 0) = 1 /\ Trim(Substr(t, 2, Len(t)), C) = <<b>>
  <2> DEFINE q == Quote
             one == <<x, key, b>>
             two == <<x, key, q, b, q>>
  <2>1. q \in C /\ t \in {one, two}
    BY <1>1, <1>2 DEF t
  <2> HIDE DEF q
  <2>2. /\ Find(one, <<key>>, 0) = 1 /\ Trim(Substr(one, 2, Len(one)), C) = <<b>>
        /\ Find(two, <<key>>, 0) = 1 /\ Trim(Substr(two, 2, Len(two)), C) = <<b>>
    BY <1>1, <2>1, ValueTrimmed
  <2> HIDE DEF one, two
  <2> QED
    BY <2>1, <2>2
<1>5. extractBoundary(t) = Trim(Substr(t, 2, Len(t)), C)
  BY <1>3, <1>4 DEF t, npos
<1> QED
  BY <1>4, <1>5 DEF t, b

\* A line, or the line with a character behind it that is trimmed away
LEMMA EndTrimmed ==
    ASSUME NEW S, NEW w \in Seq(S), w # <<>>, NEW C, NEW c \in S, c \in C, w[1] \notin C, w[Len(w)] \notin C
    PROVE  /\ Trim(w, C) = w /\ Trim(w \o <<c>>, C) = w
           /\ w \o <<c>> \in Seq(S) /\ Len(w \o <<c>>) = Len(w) + 1
           /\ \A i \in 1..Len(w) : (w \o <<c>>)[i] = w[i]
           /\ (w \o <<c>>)[Len(w) + 1] = c
<1> DEFINE n == Len(w)
           m == n + 1
           one == 1
           e == w \o <<c>>
<1>1. n \in Nat /\ n > 0 /\ one = 1 /\ one \in 1..n /\ n \in one..n /\ m = n + 1
  OBVIOUS
<1>2. e \in Seq(S) /\ Len(e) = m /\ (\A i \in 1..n : e[i] = w[i]) /\ e[m] = c
  <2> DEFINE v == <<c>>
  <2>1. v \in Seq(S) /\ Len(v) = 1 /\ v[1] = c
    OBVIOUS
  <2> HIDE DEF v
  <2>2. /\ w \o v \in Seq(S) /\ Len(w \o v) = Len(w) + Len(v)
        /\ \A i \in 1..(Len(w) + Len(v)) : (w \o v)[i] = IF i <= Len(w) THEN w[i] ELSE v[i - Len(w)]
    BY <2>1, ConcatProperties
  <2>3. e = w \o v
    BY DEF v
  <2> HIDE DEF e
  <2>4. \A i \in 1..n : e[i] = w[i]
    BY <1>1, <2>1, <2>2, <2>3
  <2>5. e[m] = v[m - n]
    BY <1>1, <2>1, <2>2, <2>3
  <2> QED
    BY <1>1, <2>1, <2>2, <2>3, <2>4, <2>5
<1>3. Trim(w, C) = SubSeq(w, one, n)
  <2>1. w[one] \notin C /\ w[n] \notin C /\ \A k \in 1..n : k < one \/ n < k => w[k] \in C
    BY <1>1
  <2> HIDE DEF one
  <2> QED
    BY <1>1, <2>1, TrimIs
<1>4. SubSeq(w, one, n) = w
  BY SubSeqFull
<1> HIDE DEF e, m
<1>5. Trim(e, C) = SubSeq(e, one, n)
  <2>1. e[one] \notin C /\ e[n] \notin C
    BY <1>1, <1>2
  <2>2. \A k \in 1..m : k < one \/ n < k => k = m
    BY <1>1
  <2>3. \A k \in 1..m : k < one \/ n < k => e[k] \in C
    BY <1>2, <2>2
  <2>4. one \in 1..m /\ n \in one..m
    BY <1>1
  <2> HIDE DEF one, n
  <2> QED
    BY <1>2, <2>1, <2>3, <2>4, TrimIs
<1>6. SubSeq(e, one, n) = w
  <2>1. Stands(e, 0, w)
    BY <1>1, <1>2 DEF Stands
  <2>2. 0 \in Nat /\ 0 + n <= Len(e)
    BY <1>1, <1>2
  <2>3. Substr(e, 0, n) = w /\ Substr(e, 0, n) = SubSeq(e, 0 + 1, 0 + n)
    BY <1>1, <1>2, <2>1, <2>2, StandsSubstr, SubstrInside
  <2> QED
    BY <1>1, <2>3
<1> QED
  BY <1>2, <1>3, <1>4, <1>5, <1>6 DEF e, m

Edge == {Space, CR}

LEMMA EdgeIs == CR \in Edge /\ CR # LF /\ \A s : Trim(s, Edge) = Trim(s, {" ", CR})
<1>1. \A s : Trim(s, Edge) = Trim(s, {" ", CR})
  BY Zenon DEF Edge, Space
<1>2. CR \in Edge
  BY DEF Edge
<1>3. CR # LF
  BY Zenon DEF CR, LF
<1> QED
  BY <1>1, <1>2, <1>3

\* Lines that nothing is trimmed from, on which no line of the part ends
IsTrimmed(lines) ==
    \A k \in 1..Len(lines) :
       LF \notin ToSet(lines[k]) /\ lines[k][1] \notin Edge /\ lines[k][Len(lines[k])] \notin Edge

\* What lies between the line feeds of a block, all but the last with its CR
Parted(lines) == [k \in 1..Len(lines) |-> IF k < Len(lines) THEN lines[k] \o <<CR>> ELSE lines[k]]

LEMMA BlockSplit ==
    ASSUME NEW S, CR \in S, LF \in S, NEW lines, IsBlock(lines, S), IsTrimmed(lines), NEW rest \in Seq(S),
           NEW d, d = Block(lines) \o (CRLF \o rest)
    PROVE  Split(Substr(d, 0, Len(Block(lines)) - 2), {LF}) = Parted(lines)
<1> DEFINE n == Len(lines)
           b == Len(Block(lines))
           t == Substr(d, 0, b - 2)
           parts == Parted(lines)
           T == Seq(S)
<1>1. /\ d \in Seq(S) /\ b \in Nat /\ b + 2 <= Len(d)
      /\ \E at \in [0..n -> Nat] : BlockAt(d, lines, at) /\ at[n] = b
  <2>1. Len(rest) \in Nat
    OBVIOUS
  <2>2. Len(d) = b + 2 + Len(rest)
    BY BlockFound DEF b, n
  <2>3. b \in Nat /\ d \in Seq(S) /\ \E at \in [0..n -> Nat] : BlockAt(d, lines, at) /\ at[n] = b
    BY BlockFound DEF b, n
  <2>4. b + 2 <= Len(d)
    <3> HIDE DEF b
    <3> QED
      BY <2>1, <2>2, <2>3
  <2> QED
    BY <2>3, <2>4
<1>2. PICK at \in [0..n -> Nat] : BlockAt(d, lines, at) /\ at[n] = b
  BY <1>1
<1> HIDE DEF b
<1>3. /\ n \in Nat /\ n > 0
      /\ \A l \in 0..n : \A k \in 0..l : at[k] <= at[l]
      /\ \A k \in 1..n :
            /\ lines[k] \in T /\ Len(lines[k]) \in Nat /\ Len(lines[k]) > 0
            /\ k \in 0..n /\ k - 1 \in 0..n /\ at[k - 1] \in Nat /\ at[k] \in Nat
  BY <1>2, BlockGrows
<1>4. ASSUME NEW k \in 1..n
      PROVE  /\ at[k] = at[k - 1] + Len(lines[k]) + 2 /\ Stands(d, at[k - 1], lines[k])
             /\ IsCRLF(d, at[k - 1] + Len(lines[k])) /\ at[k] <= Len(d)
             /\ LF \notin ToSet(lines[k]) /\ lines[k][1] \notin Edge /\ lines[k][Len(lines[k])] \notin Edge
             /\ at[k] <= b
  <2>1. at[k] <= at[n]
    BY <1>3
  <2> QED
    BY <1>2, <2>1 DEF BlockAt, IsTrimmed
<1>5. at[0] = 0
  BY <1>2 DEF BlockAt
<1> HIDE DEF n, T
<1>6. ASSUME NEW k \in 1..n
      PROVE  /\ lines[k] \o <<CR>> \in T /\ Len(lines[k] \o <<CR>>) = Len(lines[k]) + 1
             /\ LF \notin ToSet(lines[k] \o <<CR>>)
             /\ Stands(d, at[k - 1], lines[k] \o <<CR>>)
             /\ At(d, at[k - 1] + Len(lines[k]) + 1) = LF
  <2> DEFINE w == lines[k]
             p == at[k - 1]
             e == w \o <<CR>>
             l == Len(w)
  <2>1. w \in Seq(S) /\ l \in Nat /\ l > 0 /\ p \in Nat /\ p + l + 2 <= Len(d) /\ Stands(d, p, w)
        /\ IsCRLF(d, p + l) /\ LF \notin ToSet(w) /\ w[1] \notin Edge /\ w[l] \notin Edge
    BY <1>3, <1>4 DEF T
  <2>2. w # <<>> /\ Len(w) = l
    BY <2>1
  <2> HIDE DEF w, p, l
  <2>3. e \in Seq(S) /\ Len(e) = l + 1 /\ (\A i \in 1..l : e[i] = w[i]) /\ e[l + 1] = CR
    <3> DEFINE c == CR
               C == Edge
    <3>1. c \in S /\ c \in C /\ w[1] \notin C /\ w[Len(w)] \notin C
      BY <2>1, <2>2, EdgeIs
    <3> HIDE DEF c, C
    <3>2. /\ w \o <<c>> \in Seq(S) /\ Len(w \o <<c>>) = Len(w) + 1
          /\ \A i \in 1..Len(w) : (w \o <<c>>)[i] = w[i]
          /\ (w \o <<c>>)[Len(w) + 1] = c
      BY <2>1, <2>2, <3>1, EndTrimmed
    <3> QED
      BY <2>2, <3>2 DEF c
  <2>4. At(d, p + l) = CR /\ At(d, p + l + 1) = LF
    BY <2>1 DEF IsCRLF
  <2>5. d[p + l + 1] = CR
    BY <1>1, <2>1, <2>4, SMTT(20) DEF At
  <2>6. \A i \in 1..l : d[p + i] = w[i]
    BY <2>1, <2>2 DEF Stands
  <2> HIDE DEF e
  <2>7. Stands(d, p, e)
    <3>1. \A i \in 1..(l + 1) : d[p + i] = e[i]
      <4> SUFFICES ASSUME NEW i \in 1..(l + 1) PROVE d[p + i] = e[i]
        OBVIOUS
      <4>1. CASE i \in 1..l
        BY <2>3, <2>6, <4>1
      <4>2. CASE i = l + 1
        <5>1. p + i = p + l + 1
          BY <2>1, <4>2
        <5> QED
          BY <2>3, <2>5, <4>2, <5>1
      <4> QED
        BY <2>1, <4>1, <4>2
    <3>2. p + (l + 1) <= Len(d)
      BY <1>1, <2>1
    <3> QED
      BY <2>3, <3>1, <3>2 DEF Stands
  <2>8. LF \notin ToSet(e)
    <3>1. \A i \in 1..(l + 1) : e[i] # LF
      <4> SUFFICES ASSUME NEW i \in 1..(l + 1) PROVE e[i] # LF
        OBVIOUS
      <4>1. CASE i \in 1..l
        <5>1. \A m \in 1..Len(w) : w[m] # LF
          BY <2>1 DEF ToSet
        <5> QED
          BY <2>2, <2>3, <4>1, <5>1
      <4>2. CASE i = l + 1
        BY <2>3, <4>2, EdgeIs
      <4> QED
        BY <2>1, <4>1, <4>2
    <3> QED
      BY <2>3, <3>1 DEF ToSet
  <2> QED
    BY <2>3, <2>4, <2>7, <2>8 DEF e, w, p, l, T
<1>7. t \in Seq(S) /\ Len(t) = b - 2 /\ b - 2 \in Nat /\ b - 2 <= Len(d)
  <2>1. n \in 1..n
    BY <1>3
  <2>2. b = at[n - 1] + Len(lines[n]) + 2 /\ at[n - 1] \in Nat /\ Len(lines[n]) \in Nat
    BY <1>2, <1>3, <1>4, <2>1
  <2> DEFINE p == at[n - 1]
             q == Len(lines[n])
             zero == 0
             m == b - 2
  <2>3. b = p + q + 2 /\ p \in Nat /\ q \in Nat
    BY <2>2
  <2> HIDE DEF p, q
  <2>4. m \in Nat /\ zero \in Nat /\ zero + m <= Len(d) /\ m <= Len(d)
    BY <1>1, <2>3
  <2>5. t = Substr(d, zero, m)
    BY DEF t
  <2> HIDE DEF zero, m, t
  <2>6. Substr(d, zero, m) \in Seq(S) /\ Len(Substr(d, zero, m)) = m
    BY <1>1, <2>4, SubstrInside
  <2> QED
    BY <2>4, <2>5, <2>6 DEF m
<1>8. parts \in Seq(T) /\ Len(parts) = n /\ \A k \in 1..n : parts[k] = IF k < n THEN lines[k] \o <<CR>> ELSE lines[k]
  <2>1. parts = [k \in 1..n |-> IF k < n THEN lines[k] \o <<CR>> ELSE lines[k]]
    BY DEF Parted, n
  <2>2. \A k \in 1..n : lines[k] \in T /\ lines[k] \o <<CR>> \in T
    BY <1>3, <1>6
  <2> DEFINE g(k) == IF k < n THEN lines[k] \o <<CR>> ELSE lines[k]
  <2>3. parts = [k \in 1..n |-> g(k)] /\ \A k \in 1..n : g(k) \in T
    BY <2>1, <2>2
  <2> HIDE DEF parts, g
  <2>4. parts \in Seq(T) /\ Len(parts) = n /\ \A k \in 1..n : parts[k] = g(k)
    BY <1>3, <2>3
  <2> QED
    BY <2>4 DEF g
<1> HIDE DEF parts, t
<1>9. ASSUME NEW k \in 1..n
      PROVE  /\ at[k - 1] \in Nat /\ LF \notin ToSet(parts[k]) /\ Stands(t, at[k - 1], parts[k])
             /\ k < n => /\ at[k] = at[k - 1] + Len(parts[k]) + 1
                         /\ at[k - 1] + Len(parts[k]) < Len(t) /\ At(t, at[k - 1] + Len(parts[k])) = LF
  <2> DEFINE p == at[k - 1]
             w == parts[k]
             l == Len(w)
  <2>1. p \in Nat /\ w \in Seq(S) /\ l \in Nat /\ LF \notin ToSet(w) /\ Stands(d, p, w)
    <3>1. w = IF k < n THEN lines[k] \o <<CR>> ELSE lines[k]
      BY <1>8
    <3>2. p \in Nat
      BY <1>3
    <3> HIDE DEF w, p
    <3>3. w \in T /\ LF \notin ToSet(w)
      BY <1>3, <1>4, <1>6, <3>1
    <3>4. Stands(d, p, w)
      BY <1>4, <1>6, <3>1 DEF p
    <3> QED
      BY <3>2, <3>3, <3>4 DEF T
  <2>2. p + l <= b - 2 /\ (k < n => at[k] = p + l + 1 /\ p + l < b - 2 /\ At(d, p + l) = LF)
    <3> DEFINE q == Len(lines[k])
    <3>1. /\ q \in Nat /\ at[k] = p + q + 2 /\ at[k] <= b /\ b \in Nat
          /\ l = IF k < n THEN q + 1 ELSE q
          /\ At(d, p + q + 1) = LF
      BY <1>1, <1>3, <1>4, <1>6, <1>8
    <3>2. k < n => at[k] + 2 < b
      <4> SUFFICES ASSUME k < n PROVE at[k] + 2 < b
        OBVIOUS
      <4>1. k + 1 \in 1..n /\ k + 1 - 1 = k
        BY <1>3
      <4>2. at[k + 1] = at[k] + Len(lines[k + 1]) + 2 /\ at[k + 1] <= b /\ Len(lines[k + 1]) \in Nat /\ Len(lines[k + 1]) > 0
        BY <1>3, <1>4, <4>1
      <4> HIDE DEF p, q
      <4>3. at[k] \in Nat
        BY <2>1, <3>1
      <4> QED
        BY <3>1, <4>2, <4>3
    <3> HIDE DEF p, q, l
    <3> QED
      BY <2>1, <3>1, <3>2
  <2> HIDE DEF p, w
  <2>3. Stands(t, p, w)
    <3>1. 0 \in Nat /\ 0 + (b - 2) <= Len(d) /\ b - 2 \in Nat /\ p + Len(w) <= b - 2 /\ 0 + p = p
      BY <1>1, <1>7, <2>1, <2>2
    <3>2. Stands(Substr(d, 0, b - 2), p, w)
      BY <1>1, <2>1, <3>1, StandsInPart
    <3> QED
      BY <3>2 DEF t
  <2>4. k < n => At(t, p + l) = LF
    <3> SUFFICES ASSUME k < n PROVE At(t, p + l) = LF
      OBVIOUS
    <3> DEFINE j == p + l
               m == b - 2
    <3>1. j \in Nat /\ j < m /\ At(d, j) = LF /\ m \in 0..Len(d)
      BY <1>1, <1>7, <2>1, <2>2
    <3>2. t = Substr(d, 0, m)
      BY DEF t
    <3> HIDE DEF j, m
    <3>3. \A i \in Nat : i < m => At(Substr(d, 0, m), i) = At(d, i)
      BY <1>1, <3>1, PartSays, ZenonT(40)
    <3>4. At(t, j) = LF
      BY <3>1, <3>2, <3>3
    <3> QED
      BY <3>4 DEF j
  <2> QED
    BY <1>7, <2>1, <2>2, <2>3, <2>4 DEF p, w
<1>10. at[n - 1] + Len(parts[n]) = Len(t)
  <2>1. n \in 1..n /\ ~(n < n)
    BY <1>3
  <2>2. b = at[n - 1] + Len(lines[n]) + 2 /\ parts[n] = lines[n] /\ at[n - 1] \in Nat /\ Len(lines[n]) \in Nat
    BY <1>2, <1>3, <1>4, <1>8, <2>1
  <2> QED
    BY <1>1, <1>7, <2>2, SMTT(30)
<1>11. PartsAt(t, {LF}, parts, at)
  <2>1. parts # <<>> /\ Len(parts) = n
    BY <1>3, <1>8
  <2>2. \A k \in 1..n : ToSet(parts[k]) \cap {LF} = {}
    BY <1>9
  <2> HIDE DEF parts
  <2> QED
    BY <1>5, <1>9, <1>10, <2>1, <2>2 DEF PartsAt
<1> QED
  <2>1. parts \in Seq(Seq(S))
    BY <1>8 DEF T
  <2>2. Split(t, {LF}) = parts
    BY <1>7, <1>11, <2>1, PartsAre
  <2> QED
    BY <2>2 DEF t, parts, b

LEMMA PartLinesAre ==
    ASSUME NEW S, CR \in S, LF \in S, NEW lines, IsBlock(lines, S), IsTrimmed(lines), NEW rest \in Seq(S),
           NEW d, d = Block(lines) \o (CRLF \o rest)
    PROVE  PartLines(Substr(d, 0, Len(Block(lines)) - 2)) = lines
<1> DEFINE n == Len(lines)
           t == Substr(d, 0, Len(Block(lines)) - 2)
           parts == Parted(lines)
           trimmed == [k \in DOMAIN parts |-> Trim(parts[k], Edge)]
<1>1. Split(t, {LF}) = parts
  BY BlockSplit
<1> HIDE DEF t
<1>2. PartLines(t) = trimmed
  <2>1. PartLines(t) = [k \in DOMAIN Split(t, {LF}) |-> Trim(Split(t, {LF})[k], {" ", CR})]
    BY DEF PartLines
  <2>2. PartLines(t) = [k \in DOMAIN Split(t, {LF}) |-> Trim(Split(t, {LF})[k], Edge)]
    BY <2>1, EdgeIs, Zenon
  <2> HIDE DEF parts
  <2> QED
    BY <1>1, <2>2
<1>3. DOMAIN parts = 1..n /\ \A k \in 1..n : parts[k] = IF k < n THEN lines[k] \o <<CR>> ELSE lines[k]
  BY DEF Parted
<1>4. n \in Nat /\ lines \in [1..n -> Seq(S)]
  BY DEF IsBlock
<1>5. \A k \in 1..n : lines[k] # <<>> /\ lines[k][1] \notin Edge /\ lines[k][Len(lines[k])] \notin Edge
  BY DEF IsBlock, IsTrimmed
<1> HIDE DEF n, parts
<1>6. \A k \in 1..n : Trim(parts[k], Edge) = lines[k]
  <2> SUFFICES ASSUME NEW k \in 1..n PROVE Trim(parts[k], Edge) = lines[k]
    OBVIOUS
  <2> DEFINE w == lines[k]
             c == CR
  <2>1. w \in Seq(S) /\ w # <<>> /\ w[1] \notin Edge /\ w[Len(w)] \notin Edge /\ c \in S /\ c \in Edge
    BY <1>4, <1>5, EdgeIs
  <2>2. parts[k] = IF k < n THEN w \o <<c>> ELSE w
    BY <1>3
  <2> HIDE DEF w, c
  <2>3. Trim(w, Edge) = w /\ Trim(w \o <<c>>, Edge) = w
    BY <2>1, EndTrimmed
  <2>4. Trim(parts[k], Edge) = w
    BY <2>2, <2>3
  <2> QED
    BY <2>4 DEF w
<1>7. trimmed = [k \in 1..n |-> lines[k]]
  BY <1>3, <1>6
<1>8. lines = [k \in 1..n |-> lines[k]]
  BY <1>4
<1> QED
  BY <1>2, <1>7, <1>8 DEF t

LEMMA LastLine ==
    ASSUME NEW S, NEW lines, IsBlock(lines, S), NEW name, NEW c \in 1..Len(lines), lines[c][1] = name,
           \A k \in 1..Len(lines) : lines[k][1] = name => k <= c
    PROVE  LastNamed(lines, name) = Tail(lines[c])
<1> DEFINE n == Len(lines)
           found == {k \in DOMAIN lines : lines[k] # <<>> /\ lines[k][1] = name}
<1>1. DOMAIN lines = 1..n /\ n \in Nat /\ \A k \in 1..n : lines[k] # <<>>
  BY DEF IsBlock
<1>2. found \in SUBSET (1..n) /\ c \in found /\ \A k \in found : k <= c
  BY <1>1
<1>3. LastNamed(lines, name) = IF found = {} THEN <<>> ELSE Tail(lines[Max(found)])
  BY DEF LastNamed
<1> HIDE DEF found, n
<1>4. Max(found) \in found /\ \A k \in found : k <= Max(found)
  BY <1>1, <1>2, MaxOf
<1>5. Max(found) = c
  <2> DEFINE m == Max(found)
  <2>1. m \in 1..n /\ c \in 1..n /\ m <= c /\ c <= m
    BY <1>2, <1>4
  <2> HIDE DEF m
  <2>2. m = c
    BY <1>1, <2>1
  <2> QED
    BY <2>2 DEF m
<1> QED
  BY <1>2, <1>3, <1>5

\* The next of a character, behind something without it
LEMMA FoundBehind ==
    ASSUME NEW S, NEW d \in Seq(S), NEW k \in Nat, NEW w \in Seq(S), Stands(d, k, w),
           NEW c, c \notin ToSet(w), k + Len(w) < Len(d), At(d, k + Len(w)) = c
    PROVE  Find(d, <<c>>, k) = k + Len(w)
<1> DEFINE p == k + Len(w)
           C == {c}
<1>1. p \in Nat /\ k <= p /\ p < Len(d) /\ At(d, p) \in C
  OBVIOUS
<1>2. \A i \in 1..Len(w) : w[i] \notin C
  BY DEF ToSet
<1> HIDE DEF C
<1>3. \A j \in Nat : k <= j /\ j < k + Len(w) => At(d, j) \notin C
  BY <1>2, NoneStands
<1> HIDE DEF p
<1>4. NextOf(d, C, k) = p
  BY <1>1, <1>3, NextIs DEF p
<1>5. Find(d, <<c>>, k) = NextOf(d, {c}, k)
  BY CharacterFind
<1> QED
  BY <1>4, <1>5 DEF C, p

LEMMA NoneBehind ==
    ASSUME NEW S, NEW d \in Seq(S), NEW k \in Nat, NEW w \in Seq(S), Stands(d, k, w),
           NEW c, c \notin ToSet(w), k + Len(w) = Len(d)
    PROVE  Find(d, <<c>>, k) = npos
<1> DEFINE C == {c}
<1>2. \A i \in 1..Len(w) : w[i] \notin C
  BY DEF ToSet
<1> HIDE DEF C
<1>3. \A j \in Nat : k <= j /\ j < k + Len(w) => At(d, j) \notin C
  BY <1>2, NoneStands
<1>4. NextOf(d, C, k) = npos
  BY <1>3, NextFound
<1>5. Find(d, <<c>>, k) = NextOf(d, {c}, k)
  BY CharacterFind
<1> QED
  BY <1>4, <1>5 DEF C

LEMMA AttributeIs ==
    ASSUME NEW header, NEW attr
    PROVE  extractAttribute(header, attr) =
             LET key    == Find(header, <<attr>>, 0)
                 quoted == Find(header, <<attr, Quote>>, 0)
                 close  == Find(header, <<Quote>>, quoted + 2)
                 end    == Find(header, <<Semicolon>>, key)
             IN  IF key = npos THEN <<>>
                 ELSE IF quoted # npos
                 THEN IF close = npos THEN <<>> ELSE Substr(header, quoted + 2, close - quoted - 2)
                 ELSE Trim(IF end = npos THEN Substr(header, key + 1, Len(header))
                           ELSE Substr(header, key + 1, end - key - 1), Edge)
BY Zenon DEF extractAttribute, Quote, Semicolon, Edge, Space

\* A name between quotes
QuotedIn(header, attr, name, S) ==
    \E pre, more \in Seq(S) :
       /\ header = pre \o (<<attr, Quote>> \o (name \o (<<Quote>> \o more)))
       /\ attr \notin ToSet(pre) /\ Quote \notin ToSet(name)

\* A name without them, up to a semicolon or the end
PlainIn(header, attr, name, S) ==
    \E pre, more \in Seq(S) :
       /\ header = pre \o (<<attr>> \o (name \o more))
       /\ attr \notin ToSet(pre) /\ Semicolon \notin ToSet(name)
       /\ more # <<>> => more[1] = Semicolon
       /\ name # <<>> /\ name[1] \notin Edge /\ name[Len(name)] \notin Edge
       /\ \A k \in 1..(Len(header) - 1) : ~(header[k] = attr /\ header[k + 1] = Quote)

LEMMA QuotedFound ==
    ASSUME NEW S, NEW attr \in S, Quote \in S, attr # Quote, NEW name \in Seq(S), NEW header,
           QuotedIn(header, attr, name, S)
    PROVE  extractAttribute(header, attr) = name
<1>1. PICK pre \in Seq(S), more \in Seq(S) :
         /\ header = pre \o (<<attr, Quote>> \o (name \o (<<Quote>> \o more)))
         /\ attr \notin ToSet(pre) /\ Quote \notin ToSet(name)
  BY DEF QuotedIn
<1> DEFINE q == Quote
           open == <<attr, q>>
           shut == <<q>>
           rest == shut \o more
           value == name \o rest
           a == Len(pre)
           l == Len(name)
<1>2. open \in Seq(S) /\ Len(open) = 2 /\ open # <<>> /\ shut \in Seq(S) /\ Len(shut) = 1 /\ shut[1] = q
  OBVIOUS
<1>3. rest \in Seq(S) /\ value \in Seq(S) /\ Len(rest) >= 1 /\ rest[1] = q
  <2>1. rest \in Seq(S) /\ Len(rest) = Len(shut) + Len(more) /\ Len(more) \in Nat /\ rest[1] = shut[1]
    <3> HIDE DEF shut
    <3>1. /\ rest \in Seq(S) /\ Len(rest) = Len(shut) + Len(more)
          /\ \A i \in 1..(Len(shut) + Len(more)) : rest[i] = IF i <= Len(shut) THEN shut[i] ELSE more[i - Len(shut)]
      BY <1>2, ConcatProperties
    <3>2. Len(more) \in Nat /\ 1 \in 1..(Len(shut) + Len(more)) /\ 1 <= Len(shut)
      BY <1>2
    <3> QED
      BY <3>1, <3>2
  <2> HIDE DEF rest
  <2>2. value \in Seq(S)
    BY <2>1, ConcatProperties
  <2> QED
    BY <1>2, <2>1, <2>2
<1>4. a \in Nat /\ l \in Nat
  OBVIOUS
<1>5. header = pre \o (open \o value) /\ value = name \o rest
  BY <1>1 DEF value, rest, shut, open
<1> HIDE DEF open, shut, rest, value
<1>6. header \in Seq(S) /\ Stands(header, 0, pre) /\ Stands(header, a, open) /\ Stands(header, a + 2, value)
  <2>1. header = pre \o (open \o value)
    BY <1>5
  <2>2. header \in Seq(S) /\ Stands(header, 0, pre) /\ Stands(header, Len(pre), open)
    BY <1>2, <1>3, <2>1, ThreeStand
  <2>3. Stands(header, Len(pre) + Len(open), value)
    BY <1>2, <1>3, <2>1, ThreeStand
  <2> QED
    BY <1>2, <2>2, <2>3
<1>7. Stands(header, a + 2, name) /\ Stands(header, a + 2 + l, rest)
  <2> DEFINE k == a + 2
  <2>1. k \in Nat /\ Stands(header, k, value)
    BY <1>4, <1>6
  <2>2. value = name \o rest
    BY <1>5
  <2> HIDE DEF k
  <2>3. Stands(header, k, name) /\ Stands(header, k + Len(name), rest)
    BY <1>3, <1>6, <2>1, <2>2, StandsParts
  <2> QED
    BY <2>3 DEF k
<1>8. a + 2 <= Len(header) /\ header[a + 1] = attr /\ header[a + 2] = q
  BY <1>4, <1>6, PairStands DEF open
<1>9. a + 2 + l < Len(header) /\ At(header, a + 2 + l) = q
  <2>1. a + 2 + l + Len(rest) <= Len(header) /\ header[a + 2 + l + 1] = rest[1] /\ Len(header) \in Nat /\ Len(rest) \in Nat
    BY <1>3, <1>6, <1>7 DEF Stands
  <2> HIDE DEF a, l
  <2> QED
    BY <1>3, <1>4, <2>1 DEF At
<1> HIDE DEF q
<1>10. Find(header, <<attr>>, 0) = a
  <2>1. 0 + Len(pre) = a /\ a < Len(header) /\ At(header, a) = attr
    BY <1>4, <1>6, <1>8 DEF At
  <2> DEFINE zero == 0
  <2>2. zero \in Nat /\ zero + Len(pre) = a /\ Stands(header, zero, pre)
    BY <1>6, <2>1
  <2>4. header \in Seq(S) /\ attr \notin ToSet(pre) /\ zero + Len(pre) < Len(header) /\ At(header, zero + Len(pre)) = attr
    BY <1>1, <1>6, <2>1, <2>2
  <2> HIDE DEF zero
  <2>3. Find(header, <<attr>>, zero) = zero + Len(pre)
    BY <2>2, <2>4, FoundBehind
  <2> QED
    BY <2>2, <2>3 DEF zero
<1>11. Find(header, open, 0) = a
  <2>1. \A j \in Nat : j < a => ~Stands(header, j, open)
    <3> SUFFICES ASSUME NEW j \in Nat, j < a, Stands(header, j, open) PROVE FALSE
      OBVIOUS
    <3>1. header[j + 1] = attr
      BY <1>6, PairStands DEF open
    <3>2. j + 1 \in 1..Len(pre)
      BY <1>4
    <3>3. header[0 + (j + 1)] = pre[j + 1]
      BY <1>6, <3>2 DEF Stands
    <3>4. pre[j + 1] \in ToSet(pre)
      BY <3>2 DEF ToSet
    <3> QED
      BY <1>1, <3>1, <3>3, <3>4
  <2> DEFINE zero == 0
  <2>2. zero \in Nat /\ zero <= a /\ \A j \in Nat : zero <= j /\ j < a => ~Stands(header, j, open)
    BY <1>4, <2>1
  <2>3. open # <<>>
    BY <1>2
  <2> HIDE DEF zero
  <2>4. Find(header, open, zero) = a
    BY <1>2, <1>4, <1>6, <2>2, <2>3, PatternFind
  <2> QED
    BY <2>4 DEF zero
<1> DEFINE k == a + 2
<1>12. Find(header, <<q>>, k) = k + l
  <2>1. k \in Nat /\ Stands(header, k, name) /\ k + Len(name) < Len(header) /\ At(header, k + Len(name)) = q
    BY <1>4, <1>7, <1>9
  <2> HIDE DEF k
  <2>2. q \notin ToSet(name)
    BY <1>1 DEF q
  <2> QED
    BY <1>6, <2>1, <2>2, FoundBehind
<1>13. Substr(header, k, l) = name
  <2>1. k \in Nat /\ Stands(header, k, name)
    BY <1>4, <1>7
  <2> HIDE DEF k
  <2> QED
    BY <1>6, <2>1, StandsSubstr
<1> HIDE DEF a, l
<1>14. a # npos /\ k + l # npos /\ (k + l) - a - 2 = l /\ k = a + 2
  BY <1>4 DEF npos
<1> HIDE DEF k
<1>15. extractAttribute(header, attr) = Substr(header, a + 2, (k + l) - a - 2)
  <2>1. Find(header, <<attr, Quote>>, 0) = a /\ Find(header, <<Quote>>, a + 2) = k + l
    BY <1>11, <1>12, <1>14 DEF open, q
  <2> QED
    BY <1>10, <1>14, <2>1, AttributeIs
<1> QED
  BY <1>13, <1>14, <1>15

LEMMA PlainFound ==
    ASSUME NEW S, NEW attr \in S, Semicolon \in S, CR \in S, attr # Semicolon, NEW name \in Seq(S), NEW header,
           PlainIn(header, attr, name, S)
    PROVE  extractAttribute(header, attr) = name
<1>1. PICK pre \in Seq(S), more \in Seq(S) :
         /\ header = pre \o (<<attr>> \o (name \o more))
         /\ attr \notin ToSet(pre) /\ Semicolon \notin ToSet(name)
         /\ more # <<>> => more[1] = Semicolon
         /\ name # <<>> /\ name[1] \notin Edge /\ name[Len(name)] \notin Edge
         /\ \A k \in 1..(Len(header) - 1) : ~(header[k] = attr /\ header[k + 1] = Quote)
  BY DEF PlainIn
<1> DEFINE one == <<attr>>
           own == one \o name
           value == name \o more
           a == Len(pre)
           l == Len(name)
<1>2. one \in Seq(S) /\ Len(one) = 1 /\ one[1] = attr
  OBVIOUS
<1> HIDE DEF one
<1>3. value \in Seq(S) /\ own \in Seq(S) /\ Len(own) = 1 + l /\ a \in Nat /\ l \in Nat
  <2>1. value \in Seq(S)
    BY ConcatProperties
  <2>2. own \in Seq(S) /\ Len(own) = Len(one) + l
    BY <1>2, ConcatProperties
  <2>3. a \in Nat /\ l \in Nat
    OBVIOUS
  <2> HIDE DEF value, own, a, l
  <2> QED
    BY <1>2, <2>1, <2>2, <2>3
<1>4. header = pre \o (one \o value) /\ header = pre \o (own \o more)
  <2>1. own \o more = one \o value
    BY <1>2, ConcatAssociative, SMTT(20)
  <2>2. header = pre \o (one \o value)
    BY <1>1 DEF one
  <2> HIDE DEF own, value
  <2> QED
    BY <2>1, <2>2
<1>5. Semicolon \notin ToSet(own)
  <2>1. Semicolon \notin ToSet(one)
    BY <1>2 DEF ToSet, one
  <2> QED
    BY <1>1, <1>2, <2>1, NotInEither
<1> HIDE DEF value, own
<1>6. /\ header \in Seq(S) /\ Stands(header, 0, pre) /\ Stands(header, a, own) /\ Stands(header, a + (1 + l), more)
      /\ Len(header) = a + (1 + l) + Len(more) /\ Len(more) \in Nat
  <2>1. header = pre \o (own \o more)
    BY <1>4
  <2>2. header \in Seq(S) /\ Stands(header, 0, pre) /\ Stands(header, Len(pre), own)
    BY <1>3, <2>1, ThreeStand
  <2>3. Stands(header, Len(pre) + Len(own), more) /\ Len(header) = Len(pre) + Len(own) + Len(more)
    <3> HIDE DEF a, l
    <3>1. Stands(header, Len(pre) + Len(own), more)
      BY <1>3, <2>1, ThreeStand
    <3>2. Len(header) = Len(pre) + Len(own) + Len(more)
      <4> DEFINE e == own \o more
      <4>1. e \in Seq(S) /\ Len(e) = Len(own) + Len(more)
        BY <1>3, ConcatProperties
      <4>2. header = pre \o e
        BY <2>1
      <4> HIDE DEF e
      <4>3. Len(header) = Len(pre) + Len(e)
        BY <4>1, <4>2, ConcatProperties
      <4>4. Len(pre) \in Nat /\ Len(own) \in Nat /\ Len(more) \in Nat
        BY <1>3
      <4> QED
        BY <4>1, <4>3, <4>4
    <3> QED
      BY <3>1, <3>2
  <2>4. Len(more) \in Nat
    OBVIOUS
  <2> QED
    BY <1>3, <2>2, <2>3, <2>4
<1>7. Stands(header, a, one) /\ Stands(header, a + 1, name)
  BY <1>2, <1>3, <1>6, StandsParts DEF own
<1>8. a < Len(header) /\ At(header, a) = attr
  <2>1. header[a + 1] = one[1] /\ Len(header) \in Nat
    BY <1>2, <1>6, <1>7 DEF Stands
  <2> HIDE DEF a, l
  <2> QED
    BY <1>2, <1>3, <1>6, <2>1 DEF At
<1>9. Find(header, <<attr>>, 0) = a
  <2> DEFINE zero == 0
  <2>1. zero \in Nat /\ zero + Len(pre) = a /\ Stands(header, zero, pre)
    BY <1>3, <1>6
  <2>4. header \in Seq(S) /\ attr \notin ToSet(pre) /\ zero + Len(pre) < Len(header) /\ At(header, zero + Len(pre)) = attr
    BY <1>1, <1>6, <1>8, <2>1
  <2> HIDE DEF zero
  <2>2. Find(header, <<attr>>, zero) = zero + Len(pre)
    BY <2>1, <2>4, FoundBehind
  <2> QED
    BY <2>1, <2>2 DEF zero
<1>10. Find(header, <<attr, Quote>>, 0) = npos
  <2> DEFINE open == <<attr, Quote>>
             zero == 0
  <2>1. \A j \in Nat : zero <= j => ~Stands(header, j, open)
    <3> SUFFICES ASSUME NEW j \in Nat, Stands(header, j, open) PROVE FALSE
      OBVIOUS
    <3>1. j + 2 <= Len(header) /\ header[j + 1] = attr /\ header[j + 2] = Quote
      BY <1>6, PairStands
    <3> DEFINE k == j + 1
    <3>2. k \in 1..(Len(header) - 1) /\ k + 1 = j + 2
      BY <1>6, <3>1
    <3>3. header[k] = attr /\ header[k + 1] = Quote
      BY <3>1, <3>2
    <3> HIDE DEF k
    <3> QED
      BY <1>1, <3>2, <3>3
  <2>2. zero \in Nat /\ open # <<>>
    OBVIOUS
  <2>3. open \in Seq(S \cup {Quote}) /\ header \in Seq(S \cup {Quote})
    BY <1>6
  <2> HIDE DEF zero, open
  <2>4. Find(header, open, zero) = npos
    BY <2>1, <2>2, <2>3, PatternNone
  <2> QED
    BY <2>4 DEF zero, open
<1> DEFINE k == a + 1
           end == Find(header, <<Semicolon>>, a)
           given == IF end = npos THEN Substr(header, k, Len(header)) ELSE Substr(header, k, end - a - 1)
<1>12. Substr(header, k, l) = name
  <2>1. k \in Nat /\ Stands(header, k, name)
    BY <1>3, <1>7
  <2> HIDE DEF k
  <2> QED
    BY <1>6, <2>1, StandsSubstr
<1>13. ASSUME more = <<>> PROVE given = name
  <2>1. a + Len(own) = Len(header)
    BY <1>3, <1>6, <1>13
  <2>2. end = npos
    BY <1>3, <1>5, <1>6, <2>1, NoneBehind
  <2>3. k \in 0..Len(header) /\ Len(header) \in Nat /\ Len(header) <= k + Len(header) /\ Len(header) - k = l
    <3> HIDE DEF a, l
    <3> QED
      BY <1>3, <1>6, <2>1
  <2> HIDE DEF end, k
  <2>4. Substr(header, k, Len(header)) = Substr(header, k, Len(header) - k)
    BY <1>6, <2>3, SubstrRest
  <2> QED
    BY <1>12, <2>2, <2>3, <2>4
<1>14. ASSUME more # <<>> PROVE given = name
  <2>1. Len(more) > 0 /\ more[1] = Semicolon
    BY <1>1, <1>6, <1>14
  <2>2. a + Len(own) < Len(header) /\ At(header, a + Len(own)) = Semicolon
    <3>1. header[a + (1 + l) + 1] = more[1]
      BY <1>6, <2>1 DEF Stands
    <3> HIDE DEF a, l
    <3>2. a + (1 + l) < Len(header)
      BY <1>3, <1>6, <2>1
    <3> QED
      BY <1>3, <2>1, <3>1, <3>2 DEF At
  <2>3. end = a + Len(own)
    <3>1. own \in Seq(S) /\ Stands(header, a, own) /\ header \in Seq(S) /\ Semicolon \notin ToSet(own) /\ a \in Nat
      BY <1>3, <1>5, <1>6
    <3> HIDE DEF a
    <3> QED
      BY <2>2, <3>1, FoundBehind
  <2> HIDE DEF end, k, a, l
  <2>4. end # npos /\ end - a - 1 = l
    BY <1>3, <2>3 DEF npos
  <2> QED
    BY <1>12, <2>4
<1>15. given = name
  BY <1>13, <1>14
<1> HIDE DEF end, k, a
<1>16. Trim(name, Edge) = name
  <2> DEFINE c == CR
             C == Edge
  <2>1. c \in S /\ c \in C /\ name[1] \notin C /\ name[Len(name)] \notin C
    BY <1>1, EdgeIs
  <2> HIDE DEF c, C
  <2>3. name # <<>>
    BY <1>1
  <2>2. Trim(name, C) = name
    BY <2>1, <2>3, EndTrimmed
  <2> QED
    BY <2>2 DEF C
<1>17. a # npos
  BY <1>3 DEF npos
<1>18. extractAttribute(header, attr) = Trim(given, Edge)
  BY <1>9, <1>10, <1>17, AttributeIs DEF given, k, end
<1> QED
  BY <1>15, <1>16, <1>18

\* The last line that says so names the file of the part.
NamesFile(lines, name, S) ==
    \E c \in 1..Len(lines) :
       /\ lines[c][1] = "content-disposition:"
       /\ \A k \in 1..Len(lines) : lines[k][1] = "content-disposition:" => k <= c
       /\ QuotedIn(Tail(lines[c]), "filename=", name, S) \/ PlainIn(Tail(lines[c]), "filename=", name, S)

\* Such lines, written with these marks
IsHeaderOf(lines, name, S) ==
    /\ {CR, LF, Semicolon, Quote, "filename=", "--", "B"} \subseteq S
    /\ IsBlock(lines, S) /\ IsTrimmed(lines) /\ name \in Seq(S) /\ name # <<>> /\ NamesFile(lines, name, S)

IsPartOf(part, name, data, S) == part \in Seq(S) /\ ParsePart(part) = [filename |-> name, data |-> data]

LEMMA PartParsed ==
    ASSUME NEW S, NEW lines, NEW name, IsHeaderOf(lines, name, S),
           NEW data \in Seq(S), NEW part, part = Block(lines) \o (CRLF \o data)
    PROVE  IsPartOf(part, name, data, S)
<1>0. /\ CR \in S /\ LF \in S /\ Semicolon \in S /\ Quote \in S /\ "filename=" \in S
      /\ IsBlock(lines, S) /\ IsTrimmed(lines) /\ name \in Seq(S) /\ name # <<>> /\ NamesFile(lines, name, S)
  BY DEF IsHeaderOf
<1> DEFINE attr == "filename="
           disposition == "content-disposition:"
           sep == Separator(part)
           top == Substr(part, 0, sep)
<1>1. part \in Seq(S) /\ sep \in Nat /\ sep = Len(Block(lines)) - 2 /\ Substr(part, sep + 4, Len(part)) = data
  <2> DEFINE d == part
  <2>1. d = Block(lines) \o (CRLF \o data)
    OBVIOUS
  <2> HIDE DEF d
  <2>2. d \in Seq(S) /\ Separator(d) \in Nat /\ Separator(d) = Len(Block(lines)) - 2
    BY <1>0, <2>1, BlockParts
  <2>3. Substr(d, Separator(d) + 4, Len(d)) = data
    BY <1>0, <2>1, BlockParts
  <2> QED
    BY <2>2, <2>3 DEF d
<1>2. Find(part, CRLF \o CRLF, 0) = sep /\ sep # npos
  <2> DEFINE d == part
  <2>1. d \in Seq(S) /\ Separator(d) = sep /\ sep \in Nat
    BY <1>1
  <2> HIDE DEF d, sep
  <2>2. Find(d, CRLF \o CRLF, 0) = Separator(d)
    BY <2>1, BlankFind
  <2>3. sep # npos
    BY <2>1 DEF npos
  <2> QED
    BY <2>1, <2>2, <2>3 DEF d
<1>3. PartLines(top) = lines
  BY <1>0, <1>1, PartLinesAre
<1>4. PICK c \in 1..Len(lines) :
         /\ lines[c][1] = disposition
         /\ \A k \in 1..Len(lines) : lines[k][1] = disposition => k <= c
         /\ QuotedIn(Tail(lines[c]), attr, name, S) \/ PlainIn(Tail(lines[c]), attr, name, S)
  BY <1>0 DEF NamesFile
<1>5. attr \in S /\ attr # Quote /\ attr # Semicolon
  <2>1. attr # Quote /\ attr # Semicolon
    BY Zenon DEF Quote, Semicolon
  <2> QED
    BY <1>0, <2>1
<1>6. ParsePart(part)
        = LET crlf == Find(part, CRLF \o CRLF, 0)
              lf   == Find(part, <<LF, LF>>, 0)
              end  == IF crlf # npos THEN crlf ELSE lf
              text == Substr(part, IF crlf # npos THEN end + 4 ELSE end + 2, Len(part))
              filename == extractAttribute(parsePartHeaders(Substr(part, 0, end), disposition), attr)
          IN  IF end = npos \/ filename = <<>> THEN NoFile ELSE [filename |-> filename, data |-> text]
  BY DEF ParsePart
<1>7. parsePartHeaders(top, disposition) = LastNamed(PartLines(top), disposition)
  BY DEF parsePartHeaders
<1> HIDE DEF attr, disposition, top, sep
<1>8. parsePartHeaders(top, disposition) = Tail(lines[c])
  <2>1. LastNamed(lines, disposition) = Tail(lines[c])
    BY <1>0, <1>4, LastLine
  <2> QED
    BY <1>3, <1>7, <2>1
<1>9. extractAttribute(Tail(lines[c]), attr) = name
  BY <1>0, <1>4, <1>5, QuotedFound, PlainFound
<1>10. ParsePart(part)
        = LET filename == extractAttribute(parsePartHeaders(top, disposition), attr)
          IN  IF filename = <<>> THEN NoFile ELSE [filename |-> filename, data |-> Substr(part, sep + 4, Len(part))]
  BY <1>2, <1>6 DEF top
<1> QED
  BY <1>0, <1>1, <1>8, <1>9, <1>10 DEF IsPartOf

\* A form that has such a part first: the delimiter on a line of its own, the part, and the
\* delimiter on the next line, which is nowhere between
IsForm(d, lines, data, S) ==
    \E around, rest \in Seq(S) :
       LET part == Block(lines) \o (CRLF \o data)
           next == Len(around) + 4 + Len(part) + 2
       IN  /\ d = around \o (Line(Delimiter) \o (part \o (CRLF \o (Delimiter \o rest))))
           /\ \A j \in Nat : j < next /\ Stands(d, j, Delimiter) => j = Len(around)

LEMMA DelimiterIs ==
    /\ Len(Delimiter) = 2 /\ Delimiter # <<>> /\ Delimiter = <<"--">> \o <<"B">>
    /\ \A S : "--" \in S /\ "B" \in S => Delimiter \in Seq(S)
<1>1. Delimiter = <<"--">> \o <<"B">>
  BY TwoAreOne DEF Delimiter
<1>2. Len(Delimiter) = 2 /\ Delimiter # <<>>
  BY DEF Delimiter
<1>3. \A S : "--" \in S /\ "B" \in S => Delimiter \in Seq(S)
  BY DEF Delimiter
<1> QED
  BY <1>1, <1>2, <1>3

\* What the pieces of a form are at
LEMMA FormStands ==
    ASSUME NEW S, CR \in S, LF \in S, "--" \in S, "B" \in S, NEW around \in Seq(S), NEW part \in Seq(S),
           NEW rest \in Seq(S),
           NEW d, d = around \o (Line(Delimiter) \o (part \o (CRLF \o (Delimiter \o rest))))
    PROVE  LET a == Len(around)
               q == a + 4 + Len(part)
           IN  /\ d \in Seq(S) /\ a \in Nat /\ q \in Nat /\ Stands(d, a, Delimiter) /\ IsCRLF(d, a + 2)
               /\ Stands(d, a + 4, part) /\ IsCRLF(d, q) /\ Stands(d, q + 2, Delimiter)
<1> DEFINE a == Len(around)
           l == Len(part)
           delimiter == Delimiter
           line == Line(delimiter)
           c == CRLF
           last == delimiter \o rest
           ended == c \o last
           more == part \o ended
           k == a + 4
           q == k + l
<1>1. /\ delimiter \in Seq(S) /\ Len(delimiter) = 2 /\ line \in Seq(S) /\ Len(line) = 4
      /\ c \in Seq(S) /\ Len(c) = 2 /\ IsCRLF(c, 0)
  <2>1. delimiter \in Seq(S) /\ Len(delimiter) = 2
    BY DelimiterIs
  <2> HIDE DEF delimiter
  <2>2. line \in Seq(S) /\ Len(line) = Len(delimiter) + 2
    BY <2>1, CRLFType
  <2> QED
    BY <2>1, <2>2, CRLFType
<1>2. a \in Nat /\ l \in Nat /\ k \in Nat /\ q \in Nat
  OBVIOUS
<1> HIDE DEF delimiter, c
<1>3. last \in Seq(S)
  BY <1>1, ConcatProperties
<1>4. ended \in Seq(S)
  <2> HIDE DEF last
  <2> QED
    BY <1>1, <1>3, ConcatProperties
<1>5. more \in Seq(S)
  <2> HIDE DEF ended
  <2> QED
    BY <1>4, ConcatProperties
<1>6. d = around \o (line \o more)
  BY DEF delimiter, c
<1> HIDE DEF line, more
<1>7. d \in Seq(S) /\ Stands(d, a, line) /\ Stands(d, k, more)
  <2>1. d \in Seq(S) /\ Stands(d, Len(around), line)
    BY <1>1, <1>5, <1>6, ThreeStand
  <2>2. Stands(d, Len(around) + Len(line), more)
    BY <1>1, <1>5, <1>6, ThreeStand
  <2> QED
    BY <1>1, <2>1, <2>2
<1> HIDE DEF k, a
<1>8. Stands(d, a, delimiter) /\ IsCRLF(d, a + 2)
  <2>1. Stands(d, a, Line(delimiter))
    BY <1>7 DEF line
  <2>2. Stands(d, a, delimiter) /\ IsCRLF(d, a + Len(delimiter))
    BY <1>1, <1>2, <1>7, <2>1, StandsLine
  <2> QED
    BY <1>1, <2>2
<1>9. Stands(d, k, part) /\ Stands(d, q, ended)
  <2>1. Stands(d, k, part \o ended)
    BY <1>7 DEF more
  <2> HIDE DEF ended
  <2>2. Stands(d, k, part) /\ Stands(d, k + Len(part), ended)
    BY <1>2, <1>4, <1>7, <2>1, StandsParts
  <2> QED
    BY <2>2
<1> HIDE DEF q
<1>10. Stands(d, q, c) /\ Stands(d, q + 2, last)
  <2>1. Stands(d, q, c \o last)
    BY <1>9
  <2> HIDE DEF last
  <2>2. Stands(d, q, c) /\ Stands(d, q + Len(c), last)
    BY <1>1, <1>2, <1>3, <1>7, <2>1, StandsParts
  <2> QED
    BY <1>1, <2>2
<1>11. IsCRLF(d, q)
  <2> DEFINE zero == 0
  <2>1. zero \in Nat /\ zero + 2 <= Len(c) /\ q + zero = q /\ IsCRLF(c, zero)
    BY <1>1, <1>2
  <2> HIDE DEF zero
  <2>2. IsCRLF(d, q + zero) <=> IsCRLF(c, zero)
    BY <1>1, <1>2, <1>7, <1>10, <2>1, StandsAt
  <2> QED
    BY <2>1, <2>2
<1>12. Stands(d, q + 2, delimiter)
  <2> DEFINE j == q + 2
  <2>1. j \in Nat /\ Stands(d, j, delimiter \o rest)
    BY <1>2, <1>10
  <2> HIDE DEF j
  <2>2. Stands(d, j, delimiter)
    BY <1>1, <1>7, <2>1, StandsParts
  <2> QED
    BY <2>2 DEF j
<1>13. k = a + 4 /\ q = a + 4 + l
  BY <1>2 DEF k, q
<1> QED
  BY <1>2, <1>7, <1>8, <1>9, <1>11, <1>12, <1>13 DEF a, delimiter

LEMMA FormParsed ==
    ASSUME NEW S, NEW lines, NEW name, IsHeaderOf(lines, name, S),
           NEW data \in Seq(S), NEW d, IsForm(d, lines, data, S), Len(d) < WordSize,
           NEW type \in {Form, QuotedForm}
    PROVE  parseTheThing(MediaType[type], d) = [filename |-> name, data |-> data]
<1> DEFINE part == Block(lines) \o (CRLF \o data)
           l == Len(part)
           file == [filename |-> name, data |-> data]
           t == MediaType[type]
<1>0. CR \in S /\ LF \in S /\ "--" \in S /\ "B" \in S
  BY DEF IsHeaderOf
<1>1. PICK around \in Seq(S), rest \in Seq(S) :
         /\ d = around \o (Line(Delimiter) \o (part \o (CRLF \o (Delimiter \o rest))))
         /\ \A j \in Nat : j < Len(around) + 4 + l + 2 /\ Stands(d, j, Delimiter) => j = Len(around)
  BY DEF IsForm
<1>2. part \in Seq(S) /\ ParsePart(part) = file
  <2> DEFINE e == part
  <2>1. e = Block(lines) \o (CRLF \o data)
    OBVIOUS
  <2> HIDE DEF e
  <2>2. IsPartOf(e, name, data, S)
    BY <2>1, PartParsed
  <2> QED
    BY <2>2 DEF IsPartOf, e
<1> DEFINE a == Len(around)
           q == a + 4 + l
           k == a + 4
           delimiter == Delimiter
<1> HIDE DEF part, file, t
<1>3. /\ d \in Seq(S) /\ a \in Nat /\ q \in Nat /\ Stands(d, a, delimiter) /\ IsCRLF(d, a + 2)
      /\ Stands(d, k, part) /\ IsCRLF(d, q) /\ Stands(d, q + 2, delimiter)
  BY <1>0, <1>1, <1>2, FormStands
<1>4. \A j \in Nat : j < q + 2 /\ Stands(d, j, delimiter) => j = a
  BY <1>1
<1>5. delimiter \in Seq(S) /\ delimiter # <<>> /\ Len(delimiter) = 2 /\ delimiter = <<"--">> \o <<"B">>
  BY <1>0, DelimiterIs
<1>6. l \in Nat /\ WordSize \in Nat \ {0} /\ \A i \in Nat : i < WordSize => i % WordSize = i
  <2>1. l \in Nat
    BY <1>2
  <2> HIDE DEF l
  <2>2. WordSize \in Nat \ {0}
    BY ReadingAssumption
  <2> QED
    BY <2>1, <2>2, WordSizeType
<1>7. k \in Nat /\ k = a + 4 /\ q = k + l
  BY <1>3, <1>6
<1> HIDE DEF a, q, k, delimiter, l
<1>8. Find(d, delimiter, 0) = a
  <2> DEFINE zero == 0
  <2>1. zero \in Nat /\ zero <= a /\ a < q + 2
    BY <1>3, <1>6, <1>7
  <2>2. \A j \in Nat : zero <= j /\ j < a => ~Stands(d, j, delimiter)
    BY <1>3, <1>4, <2>1
  <2> HIDE DEF zero
  <2>3. Find(d, delimiter, zero) = a
    BY <1>3, <1>5, <2>1, <2>2, PatternFind
  <2> QED
    BY <2>3 DEF zero
<1>9. Find(d, delimiter, k) = q + 2
  <2> DEFINE next == q + 2
  <2>1. next \in Nat /\ k <= next /\ Stands(d, next, delimiter)
    BY <1>3, <1>6, <1>7
  <2>2. \A j \in Nat : k <= j /\ j < next => ~Stands(d, j, delimiter)
    BY <1>3, <1>4, <1>7
  <2> HIDE DEF next
  <2>3. Find(d, delimiter, k) = next
    BY <1>3, <1>5, <1>7, <2>1, <2>2, PatternFind
  <2> QED
    BY <2>3 DEF next
<1>10. SkipLineEnd(d, a + 2) = k
  <2>1. At(d, a + 2) = CR /\ At(d, a + 2 + 1) = LF /\ a + 2 + 1 + 1 = k
    BY <1>3, <1>7 DEF IsCRLF
  <2> QED
    BY <2>1 DEF SkipLineEnd
<1>11. CutLineEnd(d, q + 2) = q
  <2>1. (q + 2) - 2 = q
    BY <1>3
  <2> QED
    BY <1>3, <2>1 DEF CutLineEnd
<1>12. (q - k) % WordSize = l
  <2>1. q - k = l
    BY <1>3, <1>6, <1>7
  <2>2. l < WordSize
    <3>1. k + l <= Len(d) /\ Len(d) \in Nat
      BY <1>3 DEF Stands, l
    <3> QED
      BY <1>6, <1>7, <3>1
  <2>3. l % WordSize = l
    BY <1>6, <2>2
  <2> QED
    BY <2>1, <2>3
<1>13. Substr(d, k, l) = part
  BY <1>2, <1>3, <1>7, StandsSubstr DEF l
<1>14. extractBoundary(t) = <<"B">>
  BY BoundaryIs DEF t
<1>15. parseTheThing(t, d) = ParsePart(part)
  <2> DEFINE boundary == extractBoundary(t)
             own == <<"--">> \o boundary
             first == Find(d, own, 0)
             pos == SkipLineEnd(d, first + Len(own))
             next == Find(d, own, pos)
  <2>1. parseTheThing(t, d)
          = IF boundary = <<>> \/ first = npos \/ next = npos THEN NoFile
            ELSE ParsePart(Substr(d, pos, (CutLineEnd(d, next) - pos) % WordSize))
    BY DEF parseTheThing
  <2>2. own = delimiter /\ boundary # <<>>
    BY <1>5, <1>14
  <2> HIDE DEF own, boundary
  <2>3. first = a /\ a # npos
    BY <1>3, <1>8, <2>2 DEF npos
  <2> HIDE DEF first
  <2>4. pos = k
    BY <1>5, <1>10, <2>2, <2>3
  <2> HIDE DEF pos
  <2>5. next = q + 2 /\ q + 2 # npos
    BY <1>3, <1>9, <2>2, <2>4 DEF npos
  <2> HIDE DEF next
  <2>6. Substr(d, pos, (CutLineEnd(d, next) - pos) % WordSize) = part
    BY <1>11, <1>12, <1>13, <2>4, <2>5
  <2> QED
    BY <2>1, <2>2, <2>3, <2>5, <2>6
<1> QED
  BY <1>2, <1>15 DEF t, file

\* What the letters of an upload are among
Marks(r) == Letters(r) \cup {Semicolon, Quote, "filename=", "--", "B"}

\* A form whose first part is a file with a name
IsUpload(r) ==
    /\ contentType(Fields(HeaderText(r.bytes))) \in {Form, QuotedForm} /\ Len(r.body) < WordSize
    /\ \E lines, name : \E data \in Seq(Marks(r)) :
          /\ r.file = [filename |-> name, data |-> data] /\ IsHeaderOf(lines, name, Marks(r))
          /\ IsForm(r.body, lines, data, Marks(r))
SentUploads == \A r \in Sent : r.file # NoFile => IsMessage(r) /\ IsUpload(r)

\* Whoever sends a file in a form has it saved under its name and with all its data,
\* whatever line ends that holds, in whichever way the name and the boundary are written
\* and the body is encoded, and however it is cut into reads.
THEOREM UploadsArrive == ASSUME SentTexts, SentUploads PROVE Spec => []UploadArrives
<1>1. Parsed => UploadArrives
  <2> SUFFICES ASSUME Parsed, sent.file # NoFile, status = "SUCCESS"
               PROVE  parseTheThing(MediaType[contentType(headers)], body) = sent.file
    BY DEF UploadArrives
  <2> DEFINE outcome == Parse(Part(received))
             S == Marks(sent)
  <2>1. IsMessage(sent) /\ IsUpload(sent) /\ received \in 0..Len(sent.bytes)
    BY DEF Parsed, SentUploads
  <2>2. outcome.status = "SUCCESS" /\ headers = outcome.headers /\ body = outcome.body
    BY DEF Parsed
  <2>3. outcome.body = sent.body /\ outcome.headers = Fields(HeaderText(sent.bytes))
    BY <2>1, <2>2, MessageHeld DEF Part
  <2> HIDE DEF outcome
  <2>4. PICK lines, name : \E data \in Seq(S) :
          /\ sent.file = [filename |-> name, data |-> data] /\ IsHeaderOf(lines, name, S)
          /\ IsForm(sent.body, lines, data, S)
    BY <2>1 DEF IsUpload
  <2>5. PICK data \in Seq(S) :
          /\ sent.file = [filename |-> name, data |-> data] /\ IsHeaderOf(lines, name, S)
          /\ IsForm(sent.body, lines, data, S)
    BY <2>4
  <2>7. contentType(headers) \in {Form, QuotedForm} /\ body = sent.body /\ Len(body) < WordSize
    BY <2>1, <2>2, <2>3 DEF IsUpload
  <2> HIDE DEF S
  <2> DEFINE type == contentType(headers)
  <2>8. type \in {Form, QuotedForm} /\ IsForm(body, lines, data, S)
    BY <2>5, <2>7
  <2> HIDE DEF type
  <2>9. parseTheThing(MediaType[type], body) = [filename |-> name, data |-> data]
    BY <2>5, <2>7, <2>8, FormParsed
  <2> QED
    BY <2>5, <2>9 DEF type
<1>2. Spec => []Parsed
  BY HoldsParsed
<1> QED
  BY <1>1, <1>2, PTL
=============================================================================
