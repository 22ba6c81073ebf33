------------------------- MODULE ConfigParserProofs -------------------------
(***************************************************************************)
(* Proofs about ConfigParser, for files of any words and any length: what  *)
(* is accepted is usable, and is a configuration Startup begins with.      *)
(***************************************************************************)
EXTENDS ConfigParser, TLAPS

CONSTANTS MaxBlocks, MaxFd, SizeMax   \* those of Startup

\* createServers, called with what parseConfig returned
Handed == [k \in 1..Len(servers) |-> [host |-> servers[k].host, port |-> servers[k].port]]

ToStartup ==
    INSTANCE Startup WITH
        Host <- Text \cup {"0.0.0.0"}, AnyHost <- "0.0.0.0", Port <- Text,
        conf <- Handed, blocks <- Handed, list <- <<>>, i <- 0, step <- "next",
        guard <- 0, open <- {}, status <- 2

\* A server block under construction: all of UsableServer but its port.
SoundServer(s) ==
    /\ s.port # "" => s.port \in Text /\ isvalidport(s.port)
    /\ s.host # ""
    /\ Keyed(s.error_pages, 300..599)
    /\ \A k \in 1..Len(s.locations) : UsableLocation(s.locations[k])
    /\ \A j, k \in 1..Len(s.locations) : s.locations[j].path = s.locations[k].path => j = k

Sound  == \A k \in 1..Len(servers) : SoundServer(servers[k])
\* Blocks that are closed have their port.
Closed == \A k \in 1..Len(servers) :
             k < Len(servers) \/ state = "GLOBAL" => servers[k].port # ""
Judged == verdict = "accepted" => Complete

IInv == TypeOK /\ Sound /\ Closed /\ Judged

-----------------------------------------------------------------------------
LEMMA InitInv == Init => IInv
  BY DEF Init, IInv, TypeOK, Sound, Closed, Judged

\* What is read at i + n is a word of the file.
LEMMA WordInText ==
    ASSUME TypeOK, NEW n \in Nat, i + n <= Len(tokens)
    PROVE  Word(n) \in Text
  BY DEF TypeOK, Word

\* The current server is the last one of the list.
LEMMA CurrentServer ==
    ASSUME TypeOK, Sound, state # "GLOBAL"
    PROVE  /\ Len(servers) \in 1..Len(servers) /\ Len(servers) \in Nat
           /\ current_server = servers[Len(servers)]
           /\ current_server \in Server /\ SoundServer(current_server)
  <1>1. Len(servers) \in Nat /\ Len(servers) # 0
    BY DEF TypeOK
  <1> QED
    BY <1>1 DEF TypeOK, Sound, current_server

\* ... and the current location its last location.
LEMMA CurrentLocation ==
    ASSUME TypeOK, Sound, state = "LOCATION"
    PROVE  /\ Len(current_server.locations) \in 1..Len(current_server.locations)
           /\ Len(current_server.locations) \in Nat
           /\ current_location = current_server.locations[Len(current_server.locations)]
           /\ current_location \in Location /\ UsableLocation(current_location)
  <1>1. current_server \in Server /\ SoundServer(current_server)
    BY CurrentServer
  <1>2. current_server.locations \in Seq(Location) /\ current_server.locations # <<>>
    BY <1>1 DEF TypeOK, Server
  <1>3. Len(current_server.locations) \in Nat /\ Len(current_server.locations) # 0
    BY <1>2
  <1>4. Len(current_server.locations) \in 1..Len(current_server.locations)
    BY <1>3
  <1>5. current_server.locations[Len(current_server.locations)] \in Location
    BY <1>2, <1>4
  <1>6. UsableLocation(current_server.locations[Len(current_server.locations)])
    BY <1>1, <1>4 DEF SoundServer
  <1> QED
    BY <1>3, <1>4, <1>5, <1>6 DEF current_location

-----------------------------------------------------------------------------
\* The open server gets another value.
LEMMA ReplaceServer ==
    ASSUME IInv, Reading, state # "GLOBAL", NEW s \in Server, SoundServer(s),
           servers' = [servers EXCEPT ![Len(servers)] = s],
           state = "LOCATION" => s.locations # <<>>,
           NEW n \in Nat, Advance(n), state' = state,
           server_seen' \subseteq STRING, location_seen' \subseteq STRING
    PROVE  IInv'
  <1> DEFINE L == Len(servers)
  <1>1. L \in 1..L /\ L \in Nat
    BY CurrentServer DEF IInv
  <1>2. /\ servers' \in Seq(Server) /\ Len(servers') = L
        /\ servers'[L] = s
        /\ \A k \in 1..L : k # L => servers'[k] = servers[k]
    BY <1>1 DEF IInv, TypeOK
  <1>3. TypeOK'
    <2>1. i' \in Nat \ {0} /\ tokens' = tokens /\ verdict' = verdict
      BY DEF Advance, IInv, TypeOK
    <2>2. servers' # <<>>
      <3>1. L # 0
        BY <1>1
      <3>2. Len(<<>>) = 0
        OBVIOUS
      <3> QED
        BY <1>2, <3>1, <3>2
    <2>3. current_server' = s
      BY <1>2 DEF current_server
    <2> QED
      BY <1>2, <2>1, <2>2, <2>3 DEF IInv, TypeOK
  <1>4. Sound'
    <2>1. ASSUME NEW k \in 1..L PROVE SoundServer(servers'[k])
      <3>1. CASE k = L
        BY <1>2, <3>1
      <3>2. CASE k # L
        BY <1>2, <3>2 DEF IInv, Sound
      <3> QED
        BY <3>1, <3>2
    <2> QED
      BY <1>2, <2>1 DEF Sound
  <1>5. Closed'
    <2>1. ASSUME NEW k \in 1..L, k < L PROVE servers'[k].port # ""
      <3>1. k # L /\ k \in 1..Len(servers)
        BY <1>1, <2>1
      <3>2. servers[k].port # ""
        BY <2>1, <3>1 DEF IInv, Closed
      <3> QED
        BY <1>2, <3>1, <3>2
    <2>2. state' # "GLOBAL"
      OBVIOUS
    <2> QED
      BY <1>2, <2>1, <2>2 DEF Closed
  <1>6. Judged'
    BY DEF Reading, Advance, IInv, Judged
  <1> QED
    BY <1>3, <1>4, <1>5, <1>6 DEF IInv

\* The open location gets another value, and keeps its path.
LEMMA ReplaceLocation ==
    ASSUME IInv, Reading, state = "LOCATION", NEW l \in Location, UsableLocation(l),
           l.path = current_location.path,
           NEW n \in Nat, Advance(n), SetLocation(l)
    PROVE  IInv'
  <1> DEFINE L == Len(servers)
             ls == current_server.locations
             K == Len(ls)
             new == [ls EXCEPT ![K] = l]
             s == [current_server EXCEPT !.locations = new]
  <1>1. /\ L \in 1..L /\ current_server = servers[L]
        /\ current_server \in Server /\ SoundServer(current_server)
    BY CurrentServer DEF IInv
  <1>2. /\ K \in 1..K /\ K \in Nat /\ current_location = ls[K]
    BY CurrentLocation DEF IInv
  <1>3. ls \in Seq(Location)
    BY <1>1 DEF Server
  <1>4. /\ new \in Seq(Location) /\ Len(new) = K /\ new[K] = l /\ new # <<>>
        /\ \A k \in 1..K : k # K => new[k] = ls[k]
    BY <1>2, <1>3
  <1>5. s \in Server
    BY <1>1, <1>4 DEF Server
  <1>6. SoundServer(s)
    <2>1. s.locations = new /\ s.port = current_server.port /\ s.host = current_server.host
          /\ s.error_pages = current_server.error_pages
      BY <1>1 DEF Server
    <2>2. \A k \in 1..K : new[k].path = ls[k].path
      BY <1>2, <1>4
    <2> HIDE DEF s, new
    <2>3. \A k \in 1..K : UsableLocation(new[k])
      BY <1>1, <1>4 DEF SoundServer
    <2>4. \A j, k \in 1..K : new[j].path = new[k].path => j = k
      BY <1>1, <2>2 DEF SoundServer
    <2>5. /\ s.port # "" => s.port \in Text /\ isvalidport(s.port)
          /\ s.host # ""
          /\ Keyed(s.error_pages, 300..599)
      BY ZenonT(30), <1>1, <2>1 DEF SoundServer
    <2>6. Len(s.locations) = K
      BY <1>4, <2>1
    <2>7. /\ \A k \in 1..Len(s.locations) : UsableLocation(s.locations[k])
          /\ \A j, k \in 1..Len(s.locations) : s.locations[j].path = s.locations[k].path => j = k
      BY <2>1, <2>3, <2>4, <2>6
    <2> QED
      BY <2>5, <2>7 DEF SoundServer
  <1>7. servers' = [servers EXCEPT ![L] = s]
    BY <1>1, <1>3 DEF SetLocation
  <1>8. /\ state' = state /\ server_seen' \subseteq STRING
        /\ location_seen' \subseteq STRING
    <2>1. tokens[i] \in STRING
      <3>1. i \in 1..Len(tokens) /\ tokens \in Seq(Text)
        BY DEF Reading, IInv, TypeOK
      <3>2. tokens[i] \in Text
        BY <3>1
      <3>3. Text \subseteq STRING
        BY LexAssumption
      <3> QED
        BY <3>2, <3>3, Zenon
    <2> QED
      BY <2>1 DEF SetLocation, mark_seen, IInv, TypeOK
  <1>9. s.locations # <<>>
    BY <1>1, <1>4 DEF Server
  <1> HIDE DEF s
  <1> QED
    BY <1>5, <1>6, <1>7, <1>8, <1>9, ReplaceServer

-----------------------------------------------------------------------------
\* Another pair with a key of its own
LEMMA AddPair ==
    ASSUME NEW map, NEW keys, Keyed(map, keys), NEW k \in keys, ~Defines(map, k), NEW v
    PROVE  Keyed(map \cup {<<k, v>>}, keys)
  <1>1. \A p \in map : p[1] # k
    BY DEF Defines
  <1> QED
    BY <1>1 DEF Keyed

\* What Lex says of a word
LEMMA LexOf ==
    ASSUME NEW w \in Text
    PROVE  /\ Lex[w].number \in Int \cup {NaN} /\ Lex[w].stem \in Text /\ Lex[w].unit \in Nat
           /\ Lex[w].host \in Text \cup {NoHost} /\ Lex[w].port \in Text
  BY LexAssumption

\* Sizes wrap, but stay sizes.
LEMMA SizeIsNat ==
    ASSUME NEW w \in Text, IsSize(w)
    PROVE  isvalid_client_number(w) \in Nat
  <1>1. WordSize \in Nat \ {0}
    BY LexAssumption
  <1>2. Lex[Lex[w].stem].number \in Int /\ Lex[w].unit \in Int
    BY <1>1, LexOf DEF IsSize
  <1> DEFINE product == Lex[Lex[w].stem].number * Lex[w].unit
  <1>3. product \in Int
    BY <1>2
  <1> HIDE DEF product
  <1>4. product % WordSize \in Nat
    BY <1>1, <1>3
  <1> QED
    BY <1>4 DEF isvalid_client_number, product

\* A directive has its arguments inside the file.
LEMMA Arguments ==
    ASSUME TypeOK, NEW n \in Nat, Ends(n)
    PROVE  \A k \in 1..n : Word(k) \in Text
  <1>1. i + n <= Len(tokens) /\ i \in Nat /\ Len(tokens) \in Nat
    <2>1. tokens \in Seq(Text) /\ i \in Nat
      BY DEF TypeOK
    <2>2. i + n <= Len(tokens)
      BY DEF Ends
    <2>3. Len(tokens) \in Nat
      BY <2>1
    <2> QED
      BY <2>1, <2>2, <2>3
  <1>2. ASSUME NEW k \in 1..n PROVE Word(k) \in Text
    <2>1. k \in Nat /\ i + k <= Len(tokens)
      BY <1>1
    <2> QED
      BY <2>1, WordInText
  <1> QED
    BY <1>2

LEMMA MarkSeen == ASSUME TypeOK, Reading, NEW seen \in SUBSET STRING PROVE mark_seen(seen) \subseteq STRING
  <1>1. tokens[i] \in Text
    BY DEF Reading, TypeOK
  <1>2. Text \subseteq STRING
    BY LexAssumption
  <1>3. tokens[i] \in STRING
    BY <1>1, <1>2, Zenon
  <1> QED
    BY <1>3 DEF mark_seen

\* A directive that leaves a sound server block
LEMMA ServerStep ==
    ASSUME IInv, Reading, state = "SERVER", NEW s \in Server, SoundServer(s),
           NEW n \in Nat, Advance(n), SetServer(s)
    PROVE  IInv'
  <1>1. server_seen' \subseteq STRING /\ location_seen' \subseteq STRING
    BY MarkSeen DEF SetServer, IInv, TypeOK
  <1> QED
    BY <1>1, ReplaceServer DEF SetServer

\* listen, error_page, client_max_body_size, root and index of a server
LEMMA ServerDirectiveKeeps == IInv /\ ServerDirective => IInv'
  <1>1. SUFFICES ASSUME IInv, ServerDirective PROVE IInv'
    OBVIOUS
  <1>2. Reading /\ state = "SERVER" /\ TypeOK
    BY <1>1 DEF ServerDirective, IsListen, IsErrorPage, IsMaxBodySize, IsServerRoot, IsServerIndex,
                OnceInServer, InServer, At, IInv
  <1>3. current_server \in Server /\ SoundServer(current_server)
    BY <1>1, <1>2, CurrentServer DEF IInv
  <1>4. CASE IsListen /\ Advance(2) /\ SetServer([current_server EXCEPT
                       !.port = IF Lex[Word(1)].host = NoHost THEN Word(1) ELSE Lex[Word(1)].port,
                       !.host = IF Lex[Word(1)].host = NoHost THEN @ ELSE Lex[Word(1)].host])
    <2> DEFINE port == IF Lex[Word(1)].host = NoHost THEN Word(1) ELSE Lex[Word(1)].port
               host == IF Lex[Word(1)].host = NoHost THEN current_server.host ELSE Lex[Word(1)].host
               s == [current_server EXCEPT !.port = port, !.host = host]
    <2>1. Word(1) \in Text
      BY <1>2, <1>4, Arguments DEF IsListen, OnceInServer
    <2>2. /\ port \in Text /\ isvalidport(port)
          /\ host \in Text \cup {"0.0.0.0"} /\ host # ""
      <3>1. current_server.host \in Text \cup {"0.0.0.0"} /\ current_server.host # ""
        BY <1>3 DEF Server, SoundServer
      <3>2. split_listen(Word(1))
        BY <1>4 DEF IsListen
      <3> QED
        BY <2>1, <3>1, <3>2, LexOf DEF split_listen
    <2> HIDE DEF port, host
    <2>3. s \in Server
      BY <1>3, <2>2 DEF Server
    <2>4. SoundServer(s)
      <3>1. /\ s.port = port /\ s.host = host /\ s.error_pages = current_server.error_pages
            /\ s.locations = current_server.locations
        BY <1>3 DEF Server
      <3> HIDE DEF s
      <3> QED
        BY <1>3, <2>2, <3>1 DEF SoundServer
    <2>5. SetServer(s)
      BY <1>4 DEF port, host
    <2> HIDE DEF s
    <2> QED
      BY <1>1, <1>2, <1>4, <2>3, <2>4, <2>5, ServerStep
  <1>5. CASE IsErrorPage /\ Advance(3)
             /\ SetServer([current_server EXCEPT !.error_pages = @ \cup {<<Lex[Word(1)].number, Word(2)>>}])
    <2> DEFINE code == Lex[Word(1)].number
               pages == current_server.error_pages \cup {<<code, Word(2)>>}
               s == [current_server EXCEPT !.error_pages = pages]
    <2>1. Word(1) \in Text /\ Word(2) \in Text
      BY <1>2, <1>5, Arguments DEF IsErrorPage
    <2>2. code \in 300..599 /\ ~Defines(current_server.error_pages, code)
      BY <1>5 DEF IsErrorPage, isvalid_error_number
    <2>3. Keyed(pages, 300..599)
      <3> DEFINE codes == 300..599
                 old   == current_server.error_pages
      <3>1. Keyed(old, codes) /\ code \in codes /\ ~Defines(old, code)
        BY <1>3, <2>2 DEF SoundServer
      <3> HIDE DEF code, codes, old, s
      <3>2. Keyed(old \cup {<<code, Word(2)>>}, codes)
        BY <3>1, AddPair, Zenon
      <3> QED
        BY <3>2 DEF codes, old
    <2>4. pages \in SUBSET (Int \X Text)
      <3>1. current_server.error_pages \in SUBSET (Int \X Text)
        BY <1>3 DEF Server
      <3>2. code \in Int
        BY <2>2
      <3>3. <<code, Word(2)>> \in Int \X Text
        BY <2>1, <3>2
      <3> QED
        BY <3>1, <3>3
    <2> HIDE DEF pages
    <2>5. s \in Server
      BY <1>3, <2>4 DEF Server
    <2>6. SoundServer(s)
      <3>1. /\ s.port = current_server.port /\ s.host = current_server.host /\ s.error_pages = pages
            /\ s.locations = current_server.locations
        BY <1>3 DEF Server
      <3> HIDE DEF s
      <3> QED
        BY ZenonT(30), <1>3, <2>3, <3>1 DEF SoundServer
    <2>7. SetServer(s)
      BY <1>5 DEF pages
    <2> HIDE DEF s
    <2> QED
      BY <1>1, <1>2, <1>5, <2>5, <2>6, <2>7, ServerStep
  <1>6. CASE IsMaxBodySize /\ Advance(2)
             /\ SetServer([current_server EXCEPT !.client_max_body_size = isvalid_client_number(Word(1))])
    <2> DEFINE size == isvalid_client_number(Word(1))
               s == [current_server EXCEPT !.client_max_body_size = size]
    <2>1. size \in Nat
      BY <1>2, <1>6, Arguments, SizeIsNat DEF IsMaxBodySize, OnceInServer
    <2> HIDE DEF size
    <2>2. s \in Server
      BY <1>3, <2>1 DEF Server
    <2>3. SoundServer(s)
      <3>1. /\ s.port = current_server.port /\ s.host = current_server.host
            /\ s.error_pages = current_server.error_pages
            /\ s.locations = current_server.locations
        BY <1>3 DEF Server
      <3> HIDE DEF s
      <3> QED
        BY <1>3, <3>1 DEF SoundServer
    <2>4. SetServer(s)
      BY <1>6 DEF size
    <2> HIDE DEF s
    <2> QED
      BY <1>1, <1>2, <1>6, <2>2, <2>3, <2>4, ServerStep
  <1>7. CASE IsServerRoot /\ Advance(2) /\ SetServer([current_server EXCEPT !.root = Word(1)])
    <2> DEFINE s == [current_server EXCEPT !.root = Word(1)]
    <2>1. Word(1) \in Text
      BY <1>2, <1>7, Arguments DEF IsServerRoot, OnceInServer
    <2>2. s \in Server
      BY <1>3, <2>1 DEF Server
    <2>3. SoundServer(s)
      <3>1. /\ s.port = current_server.port /\ s.host = current_server.host
            /\ s.error_pages = current_server.error_pages
            /\ s.locations = current_server.locations
        BY <1>3 DEF Server
      <3> HIDE DEF s
      <3> QED
        BY <1>3, <3>1 DEF SoundServer
    <2> HIDE DEF s
    <2> QED
      BY <1>1, <1>2, <1>7, <2>2, <2>3, ServerStep DEF s
  <1>8. CASE IsServerIndex /\ Advance(2) /\ SetServer([current_server EXCEPT !.index = Word(1)])
    <2> DEFINE s == [current_server EXCEPT !.index = Word(1)]
    <2>1. Word(1) \in Text
      BY <1>2, <1>8, Arguments DEF IsServerIndex, OnceInServer
    <2>2. s \in Server
      BY <1>3, <2>1 DEF Server
    <2>3. SoundServer(s)
      <3>1. /\ s.port = current_server.port /\ s.host = current_server.host
            /\ s.error_pages = current_server.error_pages
            /\ s.locations = current_server.locations
        BY <1>3 DEF Server
      <3> HIDE DEF s
      <3> QED
        BY <1>3, <3>1 DEF SoundServer
    <2> HIDE DEF s
    <2> QED
      BY <1>1, <1>2, <1>8, <2>2, <2>3, ServerStep DEF s
  <1> QED
    BY <1>1, <1>4, <1>5, <1>6, <1>7, <1>8 DEF ServerDirective

-----------------------------------------------------------------------------
\* A directive that leaves a usable location
LEMMA LocationStep ==
    ASSUME IInv, InLocation(tokens[i]), NEW l \in Location, UsableLocation(l),
           l.path = current_location.path, NEW n \in Nat, Advance(n), SetLocation(l)
    PROVE  IInv'
  BY ReplaceLocation DEF InLocation, At

\* root, index, autoindex, allowed_methods, upload_pass, cgi_pass and return of a
\* location
LEMMA LocationDirectiveKeeps == IInv /\ LocationDirective => IInv'
  <1>1. SUFFICES ASSUME IInv, LocationDirective PROVE IInv'
    OBVIOUS
  <1>2. InLocation(tokens[i]) /\ TypeOK /\ Sound /\ state = "LOCATION"
    BY <1>1 DEF LocationDirective, IsRoot, IsIndex, IsAutoindex, IsAllowedMethods, IsUploadPass, IsCgiPass,
                IsReturn, OnceInLocation, InLocation, At, IInv
  <1>3. current_location \in Location /\ UsableLocation(current_location)
    BY <1>2, CurrentLocation
  <1> DEFINE cur == current_location
  \* A field that UsableLocation does not look at
  <1>4. ASSUME NEW l \in Location, l.path = cur.path, l.cgi_pass = cur.cgi_pass,
               l.redirect = cur.redirect
        PROVE  UsableLocation(l)
    BY <1>3, <1>4 DEF UsableLocation
  <1>5. CASE IsRoot /\ Advance(2) /\ SetLocation([current_location EXCEPT !.root = Word(1)])
    <2> DEFINE l == [current_location EXCEPT !.root = Word(1)]
    <2>1. Word(1) \in Text
      BY <1>2, <1>5, Arguments DEF IsRoot, OnceInLocation
    <2>2. l \in Location /\ l.path = cur.path /\ l.cgi_pass = cur.cgi_pass /\ l.redirect = cur.redirect
      BY <1>3, <2>1 DEF Location
    <2> HIDE DEF l
    <2> QED
      BY <1>1, <1>2, <1>4, <1>5, <2>2, LocationStep DEF l
  <1>6. CASE IsIndex /\ Advance(2) /\ SetLocation([current_location EXCEPT !.index = Word(1)])
    <2> DEFINE l == [current_location EXCEPT !.index = Word(1)]
    <2>1. Word(1) \in Text
      BY <1>2, <1>6, Arguments DEF IsIndex, OnceInLocation
    <2>2. l \in Location /\ l.path = cur.path /\ l.cgi_pass = cur.cgi_pass /\ l.redirect = cur.redirect
      BY <1>3, <2>1 DEF Location
    <2> HIDE DEF l
    <2> QED
      BY <1>1, <1>2, <1>4, <1>6, <2>2, LocationStep DEF l
  <1>7. CASE IsAutoindex /\ Advance(2)
             /\ SetLocation([current_location EXCEPT !.autoindex = (Word(1) = "on")])
    <2> DEFINE l == [current_location EXCEPT !.autoindex = (Word(1) = "on")]
    <2>1. l \in Location /\ l.path = cur.path /\ l.cgi_pass = cur.cgi_pass /\ l.redirect = cur.redirect
      BY <1>3 DEF Location
    <2> HIDE DEF l
    <2> QED
      BY <1>1, <1>2, <1>4, <1>7, <2>1, LocationStep DEF l
  <1>8. ASSUME NEW n \in 1..Len(tokens), IsAllowedMethods(n), Advance(n + 1),
               SetLocation([current_location EXCEPT !.methods = @ \cup {Word(k) : k \in 1..n}])
        PROVE  IInv'
    <2> DEFINE new == cur.methods \cup {Word(k) : k \in 1..n}
               l == [current_location EXCEPT !.methods = new]
    <2>1. new \in SUBSET {"GET", "POST", "DELETE"}
      BY <1>3, <1>8 DEF IsAllowedMethods, Location
    <2>2. SetLocation(l)
      BY <1>8
    <2> HIDE DEF new
    <2>3. l \in Location /\ l.path = cur.path /\ l.cgi_pass = cur.cgi_pass /\ l.redirect = cur.redirect
      BY <1>3, <2>1 DEF Location
    <2>4. n + 1 \in Nat
      BY <1>8
    <2> HIDE DEF l
    <2> QED
      BY <1>1, <1>2, <1>4, <1>8, <2>2, <2>3, <2>4, LocationStep
  <1>9. CASE IsUploadPass /\ Advance(2) /\ SetLocation([current_location EXCEPT !.upload_pass = Word(1)])
    <2> DEFINE l == [current_location EXCEPT !.upload_pass = Word(1)]
    <2>1. Word(1) \in Text
      BY <1>2, <1>9, Arguments DEF IsUploadPass, OnceInLocation
    <2>2. l \in Location /\ l.path = cur.path /\ l.cgi_pass = cur.cgi_pass /\ l.redirect = cur.redirect
      BY <1>3, <2>1 DEF Location
    <2> HIDE DEF l
    <2> QED
      BY <1>1, <1>2, <1>4, <1>9, <2>2, LocationStep DEF l
  <1>10. CASE IsCgiPass /\ Advance(3)
              /\ SetLocation([current_location EXCEPT !.cgi_pass = @ \cup {<<Word(1), Word(2)>>}])
    <2> DEFINE ext == Word(1)
               pass == cur.cgi_pass \cup {<<ext, Word(2)>>}
               l == [current_location EXCEPT !.cgi_pass = pass]
    <2>1. ext \in Text /\ Word(2) \in Text
      BY <1>2, <1>10, Arguments DEF IsCgiPass
    <2>2. ext \in Extensions /\ ~Defines(cur.cgi_pass, ext)
      BY <1>10, <2>1 DEF IsCgiPass, Extensions
    <2>3. pass \in SUBSET (Text \X Text)
      <3>1. cur.cgi_pass \in SUBSET (Text \X Text)
        BY <1>3 DEF Location
      <3>2. <<ext, Word(2)>> \in Text \X Text
        BY <2>1
      <3> QED
        BY <3>1, <3>2
    <2>4. SetLocation(l)
      BY <1>10
    <2>5. Keyed(pass, Extensions)
      <3>1. Keyed(cur.cgi_pass, Extensions)
        BY <1>3 DEF UsableLocation
      <3> HIDE DEF ext, cur, l
      <3>2. \A v : Keyed(cur.cgi_pass \cup {<<ext, v>>}, Extensions)
        BY <2>2, <3>1, AddPair, Zenon
      <3> QED
        BY <3>2, Zenon
    <2> HIDE DEF pass
    <2>6. l \in Location /\ l.path = cur.path /\ l.cgi_pass = pass /\ l.redirect = cur.redirect
      BY <1>3, <2>3 DEF Location
    <2> HIDE DEF l
    <2>7. UsableLocation(l)
      BY <1>3, <2>5, <2>6 DEF UsableLocation
    <2> QED
      BY <1>1, <1>2, <1>10, <2>4, <2>6, <2>7, LocationStep
  <1>11. CASE IsReturn /\ Advance(3)
              /\ SetLocation([current_location EXCEPT !.redirect = @ \cup {<<Lex[Word(1)].number, Word(2)>>}])
    <2> DEFINE code == Lex[Word(1)].number
               redirect == {<<code, Word(2)>>}
               l == [current_location EXCEPT !.redirect = redirect]
    <2>1. Word(1) \in Text /\ Word(2) \in Text
      BY <1>2, <1>11, Arguments DEF IsReturn
    <2>2. code \in 300..399 /\ cur.redirect = {}
      BY <1>11 DEF IsReturn, isvalid_return_number
    <2>3. redirect \in SUBSET (Int \X Text) /\ Keyed(redirect, 300..399) /\ \A p, q \in redirect : p = q
      BY <2>1, <2>2 DEF Keyed
    <2>4. SetLocation(l)
      <3>1. cur.redirect \cup {<<code, Word(2)>>} = redirect
        BY <2>2
      <3> QED
        BY <1>11, <3>1
    <2> HIDE DEF redirect
    <2>5. l \in Location /\ l.path = cur.path /\ l.cgi_pass = cur.cgi_pass /\ l.redirect = redirect
      BY <1>3, <2>3 DEF Location
    <2> HIDE DEF l
    <2>6. UsableLocation(l)
      BY <1>3, <2>3, <2>5 DEF UsableLocation
    <2> QED
      BY <1>1, <1>2, <1>11, <2>4, <2>5, <2>6, LocationStep
  <1> QED
    BY <1>1, <1>5, <1>6, <1>7, <1>8, <1>9, <1>10, <1>11 DEF LocationDirective

-----------------------------------------------------------------------------
\* A new server block behind closed ones
LEMMA OpenServerKeeps == IInv /\ OpenServer => IInv'
  <1>1. SUFFICES ASSUME IInv, OpenServer PROVE IInv'
    OBVIOUS
  <1> DEFINE L == Len(servers)
  <1>2. new_server \in Server /\ SoundServer(new_server)
    <2>1. /\ new_server.port = "" /\ new_server.host = "0.0.0.0" /\ new_server.error_pages = {}
          /\ new_server.locations = <<>>
      BY DEF new_server
    <2>2. new_server \in Server
      BY DEF new_server, Server
    <2>3. Keyed({}, 300..599)
      BY DEF Keyed
    <2>4. /\ \A k \in 1..Len(new_server.locations) : UsableLocation(new_server.locations[k])
          /\ \A j, k \in 1..Len(new_server.locations) :
                new_server.locations[j].path = new_server.locations[k].path => j = k
      <3>1. Len(new_server.locations) = 0
        <4>1. Len(<<>>) = 0
          OBVIOUS
        <4> HIDE DEF new_server
        <4> QED
          BY <2>1, <4>1
      <3>2. 1..Len(new_server.locations) = {}
        BY <3>1
      <3> QED
        BY <3>2
    <2>5. "0.0.0.0" # ""
      OBVIOUS
    <2>6. new_server.host # "" /\ Keyed(new_server.error_pages, 300..599)
      BY <2>1, <2>3, <2>5
    <2>7. SoundServer(new_server)
      BY <2>1, <2>4, <2>6 DEF SoundServer
    <2> QED
      BY <2>2, <2>7
  <1>3. /\ servers \in Seq(Server) /\ state = "GLOBAL" /\ state' = "SERVER"
        /\ servers' = Append(servers, new_server)
        /\ i \in Nat \ {0} /\ i' = i + 1 + 1 /\ UNCHANGED <<tokens, verdict, location_seen>>
        /\ server_seen' = {} /\ verdict = "none"
    BY <1>1 DEF OpenServer, OpensServer, WhenOpened, ClearSeen, At, Reading, Advance, IInv, TypeOK
  <1>4. /\ L \in Nat /\ servers' \in Seq(Server) /\ Len(servers') = L + 1
        /\ servers'[L + 1] = new_server
        /\ \A k \in 1..L : servers'[k] = servers[k]
    BY <1>2, <1>3
  <1>5. TypeOK'
    <2>1. servers' # <<>>
      <3>1. Len(<<>>) = 0
        OBVIOUS
      <3> QED
        BY <1>4, <3>1
    <2>2. i' \in Nat \ {0}
      BY <1>3
    <2> QED
      BY <1>1, <1>3, <1>4, <2>1, <2>2 DEF IInv, TypeOK
  <1>6. Sound'
    <2>1. ASSUME NEW k \in 1..(L + 1) PROVE SoundServer(servers'[k])
      <3>1. CASE k = L + 1
        BY <1>2, <1>4, <3>1
      <3>2. CASE k # L + 1
        <4>1. k \in 1..L
          BY <1>4, <3>2
        <4> QED
          BY <1>1, <1>4, <4>1 DEF IInv, Sound
      <3> QED
        BY <3>1, <3>2
    <2> QED
      BY <1>4, <2>1 DEF Sound
  <1>7. Closed'
    <2>1. ASSUME NEW k \in 1..(L + 1), k < L + 1 PROVE servers'[k].port # ""
      <3>1. k \in 1..L
        BY <1>4, <2>1
      <3>2. servers[k].port # ""
        BY <1>1, <1>3, <3>1 DEF IInv, Closed
      <3> QED
        BY <1>4, <3>1, <3>2
    <2>2. state' # "GLOBAL"
      BY <1>3
    <2> QED
      BY <1>4, <2>1, <2>2 DEF Closed
  <1>8. Judged'
    BY <1>3 DEF Judged
  <1> QED
    BY <1>5, <1>6, <1>7, <1>8 DEF IInv

\* A new location, with a path that the server does not have yet
LEMMA OpenLocationKeeps == IInv /\ OpenLocation => IInv'
  <1>1. SUFFICES ASSUME IInv, OpenLocation PROVE IInv'
    OBVIOUS
  <1> DEFINE L == Len(servers)
             ls == current_server.locations
             K == Len(ls)
             l == new_location(Word(1))
             new == Append(ls, l)
             s == [current_server EXCEPT !.locations = new]
  <1>2. /\ Reading /\ state = "SERVER" /\ state' = "LOCATION" /\ Advance(2) /\ i + 2 <= Len(tokens)
        /\ Lex[Word(1)].head = "/" /\ (\A k \in 1..K : ls[k].path # Word(1))
        /\ servers' = [servers EXCEPT ![L].locations = new]
        /\ location_seen' = {} /\ UNCHANGED server_seen
    <2>1. /\ OpensLocation /\ state' = "LOCATION" /\ Advance(2)
          /\ location_seen' = {} /\ UNCHANGED server_seen
      BY <1>1 DEF OpenLocation, ClearSeen
    <2>2. /\ Reading /\ state = "SERVER" /\ i + 2 <= Len(tokens)
          /\ Lex[Word(1)].head = "/" /\ (\A k \in 1..K : ls[k].path # Word(1))
      BY <2>1 DEF OpensLocation, At
    <2>3. L \in 1..L /\ current_server = servers[L]
      BY <1>1, <2>2, CurrentServer DEF IInv
    <2>4. L \in DOMAIN servers
      BY <1>1, <2>3 DEF IInv, TypeOK
    <2>5. servers' = [servers EXCEPT ![L].locations = Append(@, l)]
      BY <1>1 DEF OpenLocation
    <2>6. servers' = [servers EXCEPT ![L].locations = new]
      <3> HIDE DEF l, L
      <3> QED
        BY <2>3, <2>4, <2>5
    <2> QED
      BY <2>1, <2>2, <2>6
  <1>3. /\ L \in 1..L /\ L \in Nat /\ current_server = servers[L]
        /\ current_server \in Server /\ SoundServer(current_server)
    BY <1>1, <1>2, CurrentServer DEF IInv
  <1>4. Word(1) \in Text
    <2>1. i + 1 <= Len(tokens) /\ TypeOK
      BY <1>1, <1>2 DEF IInv, TypeOK
    <2> QED
      BY <2>1, WordInText
  <1>5. /\ l \in Location /\ l.path = Word(1) /\ UsableLocation(l)
    <2>1. /\ l.path = Word(1) /\ l.cgi_pass = {} /\ l.redirect = {} /\ l \in Location
      BY <1>4 DEF new_location, Location
    <2>2. Keyed({}, Extensions) /\ Keyed({}, 300..399)
      BY DEF Keyed
    <2> HIDE DEF l
    <2> QED
      BY <1>2, <2>1, <2>2 DEF UsableLocation
  <1> HIDE DEF l
  <1>6. ls \in Seq(Location)
    BY <1>3 DEF Server
  <1>7. /\ K \in Nat /\ new \in Seq(Location) /\ Len(new) = K + 1 /\ new[K + 1] = l
        /\ \A k \in 1..K : new[k] = ls[k]
    BY <1>5, <1>6
  <1> HIDE DEF new
  <1>8. /\ s \in Server /\ s.locations = new /\ s.port = current_server.port
        /\ s.host = current_server.host /\ s.error_pages = current_server.error_pages
    BY <1>3, <1>7 DEF Server
  <1>9. servers' = [servers EXCEPT ![L] = s]
    BY <1>2, <1>3
  <1> HIDE DEF s
  <1>10. SoundServer(s)
    <2>1. ASSUME NEW k \in 1..(K + 1) PROVE UsableLocation(new[k])
      <3>1. CASE k = K + 1
        BY <1>5, <1>7, <3>1
      <3>2. CASE k # K + 1
        <4>1. k \in 1..K
          BY <1>7, <3>2
        <4> QED
          BY <1>3, <1>7, <4>1 DEF SoundServer
      <3> QED
        BY <3>1, <3>2
    <2>2. ASSUME NEW j \in 1..(K + 1), NEW k \in 1..(K + 1), new[j].path = new[k].path PROVE j = k
      <3>1. CASE j \in 1..K /\ k \in 1..K
        BY <1>3, <1>7, <2>2, <3>1 DEF SoundServer
      <3>2. CASE j = K + 1 /\ k \in 1..K
        BY <1>2, <1>5, <1>7, <2>2, <3>2
      <3>3. CASE j \in 1..K /\ k = K + 1
        BY <1>2, <1>5, <1>7, <2>2, <3>3
      <3>4. (j \in 1..K \/ j = K + 1) /\ (k \in 1..K \/ k = K + 1)
        BY <1>7
      <3> QED
        BY <3>1, <3>2, <3>3, <3>4
    <2>3. /\ s.port # "" => s.port \in Text /\ isvalidport(s.port)
          /\ s.host # "" /\ Keyed(s.error_pages, 300..599)
      BY ZenonT(30), <1>3, <1>8 DEF SoundServer
    <2>4. Len(s.locations) = K + 1
      BY <1>7, <1>8
    <2>5. /\ \A k \in 1..Len(s.locations) : UsableLocation(s.locations[k])
          /\ \A j, k \in 1..Len(s.locations) : s.locations[j].path = s.locations[k].path => j = k
      BY <1>8, <2>1, <2>2, <2>4
    <2> QED
      BY <2>3, <2>5 DEF SoundServer
  <1>11. s.locations # <<>>
    <2>1. Len(<<>>) = 0
      OBVIOUS
    <2> QED
      BY <1>7, <1>8, <2>1
  <1>12. /\ servers' \in Seq(Server) /\ Len(servers') = L /\ servers'[L] = s
         /\ \A k \in 1..L : k # L => servers'[k] = servers[k]
    <2>1. servers \in Seq(Server)
      BY <1>1 DEF IInv, TypeOK
    <2> QED
      BY <1>3, <1>8, <1>9, <2>1
  <1>13. TypeOK'
    <2>1. i' \in Nat \ {0} /\ tokens' = tokens /\ verdict' = verdict
      BY <1>1, <1>2 DEF Advance, IInv, TypeOK
    <2>2. servers' # <<>>
      <3>1. L # 0 /\ Len(<<>>) = 0
        BY <1>3
      <3> QED
        BY <1>12, <3>1
    <2>3. current_server' = s
      BY <1>12 DEF current_server
    <2> QED
      BY <1>1, <1>2, <1>11, <1>12, <2>1, <2>2, <2>3 DEF IInv, TypeOK
  <1>14. Sound'
    <2>1. ASSUME NEW k \in 1..L PROVE SoundServer(servers'[k])
      <3>1. CASE k = L
        BY <1>10, <1>12, <3>1
      <3>2. CASE k # L
        BY <1>1, <1>12, <3>2 DEF IInv, Sound
      <3> QED
        BY <3>1, <3>2
    <2> QED
      BY <1>12, <2>1 DEF Sound
  <1>15. Closed'
    <2>1. ASSUME NEW k \in 1..L, k < L PROVE servers'[k].port # ""
      <3>1. k # L /\ k \in 1..Len(servers)
        BY <1>3, <2>1
      <3>2. servers[k].port # ""
        BY <1>1, <2>1, <3>1 DEF IInv, Closed
      <3> QED
        BY <1>12, <3>1, <3>2
    <2>2. state' # "GLOBAL"
      BY <1>2
    <2> QED
      BY <1>12, <2>1, <2>2 DEF Closed
  <1>16. Judged'
    BY <1>2 DEF Reading, Advance, Judged
  <1> QED
    BY <1>13, <1>14, <1>15, <1>16 DEF IInv

\* A block is closed; a server only with its port.
LEMMA CloseKeeps == IInv /\ Close => IInv'
  <1>1. SUFFICES ASSUME IInv, Close PROVE IInv'
    OBVIOUS
  <1>2. /\ verdict' = "none" /\ i' = i + 0 + 1 /\ i \in Nat /\ state # "GLOBAL"
        /\ UNCHANGED <<tokens, servers, server_seen, location_seen>>
        /\ state' = IF state = "LOCATION" THEN "SERVER" ELSE "GLOBAL"
    BY <1>1 DEF Close, ClosesLocation, ClosesServer, At, Reading, Advance, IInv, TypeOK
  <1>3. TypeOK'
    <2>1. i' \in Nat \ {0}
      BY <1>2
    <2> QED
      BY <1>1, <1>2, <2>1 DEF IInv, TypeOK
  <1>4. Sound'
    BY <1>1, <1>2 DEF IInv, Sound
  <1>5. Closed'
    <2>1. CASE state = "LOCATION"
      BY <1>1, <1>2, <2>1 DEF IInv, Closed
    <2>2. CASE state # "LOCATION"
      <3>1. current_server.port # ""
        BY <1>1, <2>2 DEF Close, ClosesLocation, ClosesServer
      <3>2. Len(servers) \in Nat
        BY <1>1 DEF IInv, TypeOK
      <3>3. ASSUME NEW k \in 1..Len(servers) PROVE servers[k].port # ""
        <4>1. CASE k = Len(servers)
          BY <3>1, <4>1 DEF current_server
        <4>2. CASE k # Len(servers)
          <5>1. k < Len(servers)
            BY <3>2, <4>2
          <5> QED
            BY <1>1, <5>1 DEF IInv, Closed
        <4> QED
          BY <4>1, <4>2
      <3> QED
        BY <1>2, <3>3 DEF Closed
    <2> QED
      BY <2>1, <2>2
  <1>6. Judged'
    BY <1>2 DEF Judged
  <1> QED
    BY <1>3, <1>4, <1>5, <1>6 DEF IInv

\* A semicolon by itself, and the verdicts
LEMMA RestKeeps == IInv /\ (SkipSemicolon \/ Reject \/ Finish \/ UNCHANGED vars) => IInv'
  <1>1. SUFFICES ASSUME IInv, SkipSemicolon \/ Reject \/ Finish \/ UNCHANGED vars PROVE IInv'
    OBVIOUS
  <1>2. UNCHANGED <<tokens, state, servers, server_seen, location_seen>>
    BY <1>1 DEF SkipSemicolon, Reject, Finish, Conclude, Advance, vars
  <1>3. i' \in Nat \ {0} /\ verdict' \in {"none", "accepted", "rejected"}
    <2>1. i \in Nat \ {0} /\ verdict \in {"none", "accepted", "rejected"}
      BY <1>1 DEF IInv, TypeOK
    <2>2. CASE SkipSemicolon
      <3>1. i' = i + 0 + 1 /\ verdict' = verdict
        BY <2>2 DEF SkipSemicolon, Advance
      <3> QED
        BY <2>1, <3>1
    <2>3. CASE Reject
      BY <2>1, <2>3 DEF Reject, Conclude
    <2>4. CASE Finish
      BY <2>1, <2>4 DEF Finish, Conclude
    <2>5. CASE UNCHANGED vars
      BY <2>1, <2>5 DEF vars
    <2> QED
      BY <1>1, <2>2, <2>3, <2>4, <2>5
  <1>4. TypeOK'
    <2>1. current_server' = current_server
      BY <1>2 DEF current_server
    <2> QED
      BY <1>1, <1>2, <1>3, <2>1 DEF IInv, TypeOK
  <1>5. Sound' /\ Closed'
    BY <1>1, <1>2 DEF IInv, Sound, Closed
  <1>6. Judged'
    <2>1. verdict' = "accepted" => Complete
      BY <1>1 DEF IInv, Judged, SkipSemicolon, At, Reading, Reject, Finish, Conclude, Advance, vars
    <2>2. Complete' = Complete
      BY <1>2 DEF Complete, NoDuplicateBind
    <2> QED
      BY <2>1, <2>2 DEF Judged
  <1> QED
    BY <1>4, <1>5, <1>6 DEF IInv

LEMMA NextKeeps == IInv /\ [Next]_vars => IInv'
  BY OpenServerKeeps, OpenLocationKeeps, CloseKeeps, ServerDirectiveKeeps, LocationDirectiveKeeps,
     RestKeeps
  DEF Next, Read, Done

LEMMA Invariance == Spec => []IInv
  <1> QED
    BY InitInv, NextKeeps, PTL DEF Spec

-----------------------------------------------------------------------------
\* Whatever the file, the pointers of the parser lead to blocks that are open.
THEOREM TypeCorrect == Spec => []TypeOK
  <1>1. IInv => TypeOK
    BY DEF IInv
  <1> QED
    BY Invariance, <1>1, PTL

\* Whatever the file, what is accepted is usable.
THEOREM AcceptedIsUsable == Spec => []Usable
  <1>1. IInv => Usable
    <2>1. SUFFICES ASSUME IInv, verdict = "accepted"
                   PROVE  /\ servers # <<>>
                          /\ \A k \in 1..Len(servers) : UsableServer(servers[k])
                          /\ \A a, b \in 1..Len(servers) :
                                servers[a].host = servers[b].host /\ servers[a].port = servers[b].port => a = b
      BY DEF Usable
    <2>2. state = "GLOBAL" /\ servers # <<>> /\ NoDuplicateBind
      BY <2>1 DEF IInv, Judged, Complete
    <2>3. ASSUME NEW k \in 1..Len(servers) PROVE UsableServer(servers[k])
      <3>1. SoundServer(servers[k]) /\ servers[k].port # ""
        BY <2>1, <2>2 DEF IInv, Sound, Closed
      <3> QED
        BY <3>1 DEF SoundServer, UsableServer
    <2>4. ASSUME NEW a \in 1..Len(servers), NEW b \in 1..Len(servers),
                 servers[a].host = servers[b].host, servers[a].port = servers[b].port
          PROVE  a = b
      <3>1. ~(a < b) /\ ~(b < a)
        BY <2>2, <2>4 DEF NoDuplicateBind
      <3> QED
        BY <3>1
    <2> QED
      BY <2>2, <2>3, <2>4
  <1> QED
    BY Invariance, <1>1, PTL

\* What is accepted, if not too long, is where Startup begins: one address per
\* block, none of them twice.
THEOREM AcceptedCanStart ==
    Spec => [](verdict = "accepted" /\ Len(servers) <= MaxBlocks => ToStartup!Init)
  <1> DEFINE L == Len(servers)
             Addresses == [host : Text \cup {"0.0.0.0"}, port : Text]
  <1>1. ASSUME IInv, Usable, verdict = "accepted", L <= MaxBlocks
        PROVE  ToStartup!Init
    <2>1. /\ servers # <<>> /\ \A k \in 1..L : UsableServer(servers[k])
          /\ \A a, b \in 1..L :
                servers[a].host = servers[b].host /\ servers[a].port = servers[b].port => a = b
      BY <1>1 DEF Usable
    <2>2. servers \in Seq(Server) /\ L \in Nat /\ L # 0
      BY <1>1, <2>1 DEF IInv, TypeOK
    <2>3. L \in 1..MaxBlocks
      BY <1>1, <2>2
    <2>4. ASSUME NEW k \in 1..L
          PROVE  [host |-> servers[k].host, port |-> servers[k].port] \in Addresses
      <3>1. servers[k].host \in Text \cup {"0.0.0.0"}
        <4>1. servers[k] \in Server
          BY <2>2
        <4> QED
          BY <4>1 DEF Server
      <3>2. servers[k].port \in Text
        BY <2>1 DEF UsableServer
      <3> QED
        BY <3>1, <3>2
    <2>5. Handed \in [1..L -> Addresses]
      BY <2>4 DEF Handed
    <2>6. ASSUME NEW a \in 1..L, NEW b \in 1..L, Handed[a] = Handed[b] PROVE a = b
      <3>1. servers[a].host = servers[b].host /\ servers[a].port = servers[b].port
        BY <2>6 DEF Handed
      <3> QED
        BY <2>1, <3>1
    <2>7. DOMAIN Handed = 1..L
      BY DEF Handed
    <2>8. ToStartup!IsInjective(Handed)
      BY <2>6, <2>7 DEF ToStartup!IsInjective
    <2>9. Handed \in ToStartup!Configurations
      BY <2>3, <2>5, <2>8 DEF ToStartup!Configurations, ToStartup!Address
    <2> QED
      BY <2>9 DEF ToStartup!Init, ToStartup!NoFd, ToStartup!Running
  <1> QED
    BY <1>1, Invariance, AcceptedIsUsable, PTL

-----------------------------------------------------------------------------
(* What has been read stays as it was read *)

\* What one location directive, or one server directive, has set no later one changes;
\* to the maps they only add.
KeepsLocation(l, m) ==
    /\ m.path = l.path
    /\ l.root # "" => m.root = l.root
    /\ l.index # "" => m.index = l.index
    /\ l.autoindex = TRUE => m.autoindex = TRUE
    /\ l.methods # {} => m.methods = l.methods
    /\ l.upload_pass # "" => m.upload_pass = l.upload_pass
    /\ l.cgi_pass \subseteq m.cgi_pass
    /\ l.redirect # {} => m.redirect = l.redirect

KeepsFields(s, t) ==
    /\ s.port # "" => t.port = s.port /\ t.host = s.host
    /\ s.root # "" => t.root = s.root
    /\ s.index # "" => t.index = s.index
    /\ s.client_max_body_size # new_server.client_max_body_size => t.client_max_body_size = s.client_max_body_size
    /\ s.error_pages \subseteq t.error_pages

KeepsServer(s, t) ==
    /\ KeepsFields(s, t)
    /\ Len(s.locations) <= Len(t.locations)
    /\ \A k \in 1..Len(s.locations) : KeepsLocation(s.locations[k], t.locations[k])

Keeps ==
    /\ Len(servers) <= Len(servers')
    /\ \A k \in 1..Len(servers) : KeepsServer(servers[k], servers'[k])

\* A block that is closed is not the one a directive is for, though the parser
\* remembers no more of it than that it is not the last one, or that none is open.
Stays(list, next, k, open) == k < Len(list) \/ ~open => next[k] = list[k]

ClosedStay ==
    \A k \in 1..Len(servers) :
       /\ Stays(servers, servers', k, state # "GLOBAL")
       /\ \A j \in 1..Len(servers[k].locations) :
             Stays(servers[k].locations, servers'[k].locations, j, state = "LOCATION")

\* What is set in the open blocks is marked as seen: the sets are of these blocks
\* and of no earlier ones, and nothing is set without its mark.
MarkedServer(s, seen) ==
    /\ s.port # "" => "listen" \in seen
    /\ s.client_max_body_size # new_server.client_max_body_size => "client_max_body_size" \in seen
    /\ s.root # "" => "root" \in seen
    /\ s.index # "" => "index" \in seen

MarkedLocation(l, seen) ==
    /\ l.root # "" => "root" \in seen
    /\ l.index # "" => "index" \in seen
    /\ l.autoindex = TRUE => "autoindex" \in seen
    /\ l.methods # {} => "allowed_methods" \in seen
    /\ l.upload_pass # "" => "upload_pass" \in seen

Marked ==
    /\ state # "GLOBAL" => MarkedServer(current_server, server_seen)
    /\ state = "LOCATION" => MarkedLocation(current_location, location_seen)

\* A block that is what it was
LEMMA KeepsItself ==
    /\ \A l : KeepsLocation(l, l)
    /\ \A s \in Server : KeepsServer(s, s)
  <1>1. \A l : KeepsLocation(l, l)
    BY DEF KeepsLocation
  <1>2. \A s \in Server : Len(s.locations) \in Nat
    <2>1. \A s \in Server : s.locations \in Seq(Location)
      BY DEF Server
    <2> QED
      BY <2>1
  <1> QED
    BY <1>1, <1>2 DEF KeepsServer, KeepsFields

\* A directive of a server marks itself, and sets what had not been set.
LEMMA ServerDirectiveAdds ==
    ASSUME IInv, Marked, ServerDirective
    PROVE  /\ state = "SERVER"
           /\ \E s : /\ SetServer(s) /\ s \in Server
                     /\ s.locations = current_server.locations
                     /\ KeepsFields(current_server, s)
                     /\ MarkedServer(s, server_seen')
  <1>1. Reading /\ state = "SERVER" /\ TypeOK
    BY DEF ServerDirective, IsListen, IsErrorPage, IsMaxBodySize, IsServerRoot, IsServerIndex,
           OnceInServer, InServer, At, IInv
  <1>2. current_server \in Server /\ MarkedServer(current_server, server_seen)
    BY <1>1, CurrentServer DEF IInv, Marked
  <1> DEFINE cur == current_server
             Goal == \E s : /\ SetServer(s) /\ s \in Server
                            /\ s.locations = cur.locations
                            /\ KeepsFields(cur, s)
                            /\ MarkedServer(s, server_seen')
  <1>3. CASE IsListen /\ SetServer([current_server EXCEPT
                       !.port = IF Lex[Word(1)].host = NoHost THEN Word(1) ELSE Lex[Word(1)].port,
                       !.host = IF Lex[Word(1)].host = NoHost THEN @ ELSE Lex[Word(1)].host])
    <2> DEFINE port == IF Lex[Word(1)].host = NoHost THEN Word(1) ELSE Lex[Word(1)].port
               host == IF Lex[Word(1)].host = NoHost THEN current_server.host ELSE Lex[Word(1)].host
               s == [current_server EXCEPT !.port = port, !.host = host]
    <2>1. Word(1) \in Text
      BY <1>1, <1>3, Arguments DEF IsListen, OnceInServer
    <2>2. port \in Text /\ host \in Text \cup {"0.0.0.0"}
      <3>1. current_server.host \in Text \cup {"0.0.0.0"}
        BY <1>2 DEF Server
      <3> QED
        BY <2>1, <3>1, LexOf
    <2>3. SetServer(s)
      BY <1>3 DEF port, host
    <2> HIDE DEF port, host
    <2>4. /\ s \in Server /\ s.locations = cur.locations /\ s.root = cur.root /\ s.index = cur.index
          /\ s.client_max_body_size = cur.client_max_body_size /\ s.error_pages = cur.error_pages
      BY <1>2, <2>2 DEF Server
    <2> HIDE DEF s
    <2>5. "listen" \notin server_seen /\ tokens[i] = "listen"
      BY <1>3 DEF IsListen, OnceInServer, FirstIn, InServer, At
    <2>6. server_seen' = server_seen \cup {"listen"}
      BY <2>3, <2>5 DEF SetServer, mark_seen
    <2>7. KeepsFields(cur, s)
      BY <1>2, <2>3, <2>4, <2>5, <2>6 DEF KeepsFields, MarkedServer
    <2>8. MarkedServer(s, server_seen')
      BY <1>2, <2>3, <2>4, <2>5, <2>6 DEF MarkedServer
    <2> QED
      BY <1>1, <2>3, <2>4, <2>5, <2>6, <2>7, <2>8
  <1>4. CASE IsErrorPage
             /\ SetServer([current_server EXCEPT !.error_pages = @ \cup {<<Lex[Word(1)].number, Word(2)>>}])
    <2> DEFINE pages == current_server.error_pages \cup {<<Lex[Word(1)].number, Word(2)>>}
               s == [current_server EXCEPT !.error_pages = pages]
    <2>1. Word(1) \in Text /\ Word(2) \in Text
      BY <1>1, <1>4, Arguments DEF IsErrorPage
    <2>2. pages \in SUBSET (Int \X Text) /\ cur.error_pages \subseteq pages
      <3>1. Lex[Word(1)].number \in Int
        BY <1>4 DEF IsErrorPage, isvalid_error_number
      <3>2. <<Lex[Word(1)].number, Word(2)>> \in Int \X Text
        BY <2>1, <3>1
      <3>3. cur.error_pages \in SUBSET (Int \X Text)
        BY <1>2 DEF Server
      <3> QED
        BY <3>2, <3>3
    <2>3. SetServer(s)
      BY <1>4
    <2> HIDE DEF pages
    <2>4. /\ s \in Server /\ s.locations = cur.locations /\ s.root = cur.root /\ s.index = cur.index
          /\ s.client_max_body_size = cur.client_max_body_size /\ s.error_pages = pages
          /\ s.port = cur.port /\ s.host = cur.host
      BY <1>2, <2>2 DEF Server
    <2> HIDE DEF s
    <2>5. server_seen \subseteq server_seen'
      BY <2>3 DEF SetServer, mark_seen
    <2>6. KeepsFields(cur, s)
      BY <1>2, <2>2, <2>3, <2>4, <2>5 DEF KeepsFields, MarkedServer
    <2>7. MarkedServer(s, server_seen')
      BY <1>2, <2>2, <2>3, <2>4, <2>5 DEF MarkedServer
    <2> QED
      BY <1>1, <2>2, <2>3, <2>4, <2>5, <2>6, <2>7
  <1>5. CASE IsMaxBodySize
             /\ SetServer([current_server EXCEPT !.client_max_body_size = isvalid_client_number(Word(1))])
    <2> DEFINE size == isvalid_client_number(Word(1))
               s == [current_server EXCEPT !.client_max_body_size = size]
    <2>1. size \in Nat
      <3>1. Word(1) \in Text
        BY <1>1, <1>5, Arguments DEF IsMaxBodySize, OnceInServer
      <3> QED
        BY <1>5, <3>1, SizeIsNat DEF IsMaxBodySize
    <2>2. SetServer(s)
      BY <1>5
    <2> HIDE DEF size
    <2>3. /\ s \in Server /\ s.locations = cur.locations /\ s.root = cur.root /\ s.index = cur.index
          /\ s.error_pages = cur.error_pages /\ s.port = cur.port /\ s.host = cur.host
      BY <1>2, <2>1 DEF Server
    <2> HIDE DEF s
    <2>4. "client_max_body_size" \notin server_seen /\ tokens[i] = "client_max_body_size"
      BY <1>5 DEF IsMaxBodySize, OnceInServer, FirstIn, InServer, At
    <2>5. server_seen' = server_seen \cup {"client_max_body_size"}
      BY <2>2, <2>4 DEF SetServer, mark_seen
    <2>6. KeepsFields(cur, s)
      BY <1>2, <2>2, <2>3, <2>4, <2>5 DEF KeepsFields, MarkedServer
    <2>7. MarkedServer(s, server_seen')
      BY <1>2, <2>2, <2>3, <2>4, <2>5 DEF MarkedServer
    <2> QED
      BY <1>1, <2>2, <2>3, <2>4, <2>5, <2>6, <2>7
  <1>6. CASE IsServerRoot /\ SetServer([current_server EXCEPT !.root = Word(1)])
    <2> DEFINE s == [current_server EXCEPT !.root = Word(1)]
    <2>1. Word(1) \in Text
      BY <1>1, <1>6, Arguments DEF IsServerRoot, OnceInServer
    <2>2. SetServer(s)
      BY <1>6
    <2>3. /\ s \in Server /\ s.locations = cur.locations /\ s.index = cur.index
          /\ s.client_max_body_size = cur.client_max_body_size
          /\ s.error_pages = cur.error_pages /\ s.port = cur.port /\ s.host = cur.host
      BY <1>2, <2>1 DEF Server
    <2> HIDE DEF s
    <2>4. "root" \notin server_seen /\ tokens[i] = "root"
      BY <1>6 DEF IsServerRoot, OnceInServer, FirstIn, InServer, At
    <2>5. server_seen' = server_seen \cup {"root"}
      BY <2>2, <2>4 DEF SetServer, mark_seen
    <2>6. KeepsFields(cur, s)
      BY <1>2, <2>2, <2>3, <2>4, <2>5 DEF KeepsFields, MarkedServer
    <2>7. MarkedServer(s, server_seen')
      BY <1>2, <2>2, <2>3, <2>4, <2>5 DEF MarkedServer
    <2> QED
      BY <1>1, <2>2, <2>3, <2>4, <2>5, <2>6, <2>7
  <1>7. CASE IsServerIndex /\ SetServer([current_server EXCEPT !.index = Word(1)])
    <2> DEFINE s == [current_server EXCEPT !.index = Word(1)]
    <2>1. Word(1) \in Text
      BY <1>1, <1>7, Arguments DEF IsServerIndex, OnceInServer
    <2>2. SetServer(s)
      BY <1>7
    <2>3. /\ s \in Server /\ s.locations = cur.locations /\ s.root = cur.root
          /\ s.client_max_body_size = cur.client_max_body_size
          /\ s.error_pages = cur.error_pages /\ s.port = cur.port /\ s.host = cur.host
      BY <1>2, <2>1 DEF Server
    <2> HIDE DEF s
    <2>4. "index" \notin server_seen /\ tokens[i] = "index"
      BY <1>7 DEF IsServerIndex, OnceInServer, FirstIn, InServer, At
    <2>5. server_seen' = server_seen \cup {"index"}
      BY <2>2, <2>4 DEF SetServer, mark_seen
    <2>6. KeepsFields(cur, s)
      BY <1>2, <2>2, <2>3, <2>4, <2>5 DEF KeepsFields, MarkedServer
    <2>7. MarkedServer(s, server_seen')
      BY <1>2, <2>2, <2>3, <2>4, <2>5 DEF MarkedServer
    <2> QED
      BY <1>1, <2>2, <2>3, <2>4, <2>5, <2>6, <2>7
  <1> HIDE DEF Goal
  <1>8. Goal
    BY <1>3, <1>4, <1>5, <1>6, <1>7 DEF ServerDirective, Goal
  <1> QED
    BY <1>1, <1>8 DEF Goal

\* So does a directive of a location.
LEMMA LocationDirectiveAdds ==
    ASSUME IInv, Marked, LocationDirective
    PROVE  /\ state = "LOCATION"
           /\ \E l : /\ SetLocation(l) /\ l \in Location
                     /\ KeepsLocation(current_location, l)
                     /\ MarkedLocation(l, location_seen')
  <1>1. Reading /\ state = "LOCATION" /\ TypeOK /\ Sound
    BY DEF LocationDirective, IsRoot, IsIndex, IsAutoindex, IsAllowedMethods, IsUploadPass, IsCgiPass,
           IsReturn, OnceInLocation, InLocation, At, IInv
  <1>2. current_location \in Location /\ MarkedLocation(current_location, location_seen)
    BY <1>1, CurrentLocation DEF Marked
  <1> DEFINE cur == current_location
             Goal == \E l : /\ SetLocation(l) /\ l \in Location
                            /\ KeepsLocation(cur, l)
                            /\ MarkedLocation(l, location_seen')
  <1>3. CASE IsRoot /\ SetLocation([current_location EXCEPT !.root = Word(1)])
    <2> DEFINE l == [current_location EXCEPT !.root = Word(1)]
    <2>1. Word(1) \in Text
      BY <1>1, <1>3, Arguments DEF IsRoot, OnceInLocation
    <2>2. SetLocation(l)
      BY <1>3
    <2>3. /\ l \in Location /\ l.path = cur.path /\ l.index = cur.index /\ l.autoindex = cur.autoindex
          /\ l.methods = cur.methods /\ l.upload_pass = cur.upload_pass
          /\ l.cgi_pass = cur.cgi_pass /\ l.redirect = cur.redirect
      BY <1>2, <2>1 DEF Location
    <2> HIDE DEF l
    <2>4. "root" \notin location_seen /\ tokens[i] = "root"
      BY <1>3 DEF IsRoot, OnceInLocation, FirstIn, InLocation, At
    <2>5. location_seen' = location_seen \cup {"root"}
      BY <2>2, <2>4 DEF SetLocation, mark_seen
    <2>6. KeepsLocation(cur, l)
      BY <1>2, <2>2, <2>3, <2>4, <2>5 DEF KeepsLocation, MarkedLocation
    <2>7. MarkedLocation(l, location_seen')
      BY <1>2, <2>2, <2>3, <2>4, <2>5 DEF MarkedLocation
    <2> QED
      BY <1>1, <2>2, <2>3, <2>4, <2>5, <2>6, <2>7
  <1>4. CASE IsIndex /\ SetLocation([current_location EXCEPT !.index = Word(1)])
    <2> DEFINE l == [current_location EXCEPT !.index = Word(1)]
    <2>1. Word(1) \in Text
      BY <1>1, <1>4, Arguments DEF IsIndex, OnceInLocation
    <2>2. SetLocation(l)
      BY <1>4
    <2>3. /\ l \in Location /\ l.path = cur.path /\ l.root = cur.root /\ l.autoindex = cur.autoindex
          /\ l.methods = cur.methods /\ l.upload_pass = cur.upload_pass
          /\ l.cgi_pass = cur.cgi_pass /\ l.redirect = cur.redirect
      BY <1>2, <2>1 DEF Location
    <2> HIDE DEF l
    <2>4. "index" \notin location_seen /\ tokens[i] = "index"
      BY <1>4 DEF IsIndex, OnceInLocation, FirstIn, InLocation, At
    <2>5. location_seen' = location_seen \cup {"index"}
      BY <2>2, <2>4 DEF SetLocation, mark_seen
    <2>6. KeepsLocation(cur, l)
      BY <1>2, <2>2, <2>3, <2>4, <2>5 DEF KeepsLocation, MarkedLocation
    <2>7. MarkedLocation(l, location_seen')
      BY <1>2, <2>2, <2>3, <2>4, <2>5 DEF MarkedLocation
    <2> QED
      BY <1>1, <2>2, <2>3, <2>4, <2>5, <2>6, <2>7
  <1>5. CASE IsAutoindex /\ SetLocation([current_location EXCEPT !.autoindex = (Word(1) = "on")])
    <2> DEFINE l == [current_location EXCEPT !.autoindex = (Word(1) = "on")]
    <2>1. SetLocation(l)
      BY <1>5
    <2>2. /\ l \in Location /\ l.path = cur.path /\ l.root = cur.root /\ l.index = cur.index
          /\ l.methods = cur.methods /\ l.upload_pass = cur.upload_pass
          /\ l.cgi_pass = cur.cgi_pass /\ l.redirect = cur.redirect
      BY <1>2 DEF Location
    <2> HIDE DEF l
    <2>3. "autoindex" \notin location_seen /\ tokens[i] = "autoindex"
      BY <1>5 DEF IsAutoindex, OnceInLocation, FirstIn, InLocation, At
    <2>4. location_seen' = location_seen \cup {"autoindex"}
      BY <2>1, <2>3 DEF SetLocation, mark_seen
    <2>5. KeepsLocation(cur, l)
      BY <1>2, <2>1, <2>2, <2>3, <2>4 DEF KeepsLocation, MarkedLocation
    <2>6. MarkedLocation(l, location_seen')
      BY <1>2, <2>1, <2>2, <2>3, <2>4 DEF MarkedLocation
    <2> QED
      BY <1>1, <2>1, <2>2, <2>3, <2>4, <2>5, <2>6
  <1>6. ASSUME NEW n \in 1..Len(tokens), IsAllowedMethods(n),
               SetLocation([current_location EXCEPT !.methods = @ \cup {Word(k) : k \in 1..n}])
        PROVE  Goal
    <2> DEFINE new == cur.methods \cup {Word(k) : k \in 1..n}
               l == [current_location EXCEPT !.methods = new]
    <2>1. new \in SUBSET {"GET", "POST", "DELETE"}
      BY <1>2, <1>6 DEF IsAllowedMethods, Location
    <2>2. SetLocation(l)
      BY <1>6
    <2> HIDE DEF new
    <2>3. /\ l \in Location /\ l.path = cur.path /\ l.root = cur.root /\ l.index = cur.index
          /\ l.autoindex = cur.autoindex /\ l.upload_pass = cur.upload_pass
          /\ l.cgi_pass = cur.cgi_pass /\ l.redirect = cur.redirect
      BY <1>2, <2>1 DEF Location
    <2> HIDE DEF l
    <2>4. "allowed_methods" \notin location_seen /\ tokens[i] = "allowed_methods"
      BY <1>6 DEF IsAllowedMethods, FirstIn, InLocation, At
    <2>5. location_seen' = location_seen \cup {"allowed_methods"}
      BY <2>2, <2>4 DEF SetLocation, mark_seen
    <2>6. KeepsLocation(cur, l)
      BY <1>2, <2>2, <2>3, <2>4, <2>5 DEF KeepsLocation, MarkedLocation
    <2>7. MarkedLocation(l, location_seen')
      BY <1>2, <2>2, <2>3, <2>4, <2>5 DEF MarkedLocation
    <2> QED
      BY <1>1, <2>2, <2>3, <2>4, <2>5, <2>6, <2>7
  <1>7. CASE IsUploadPass /\ SetLocation([current_location EXCEPT !.upload_pass = Word(1)])
    <2> DEFINE l == [current_location EXCEPT !.upload_pass = Word(1)]
    <2>1. Word(1) \in Text
      BY <1>1, <1>7, Arguments DEF IsUploadPass, OnceInLocation
    <2>2. SetLocation(l)
      BY <1>7
    <2>3. /\ l \in Location /\ l.path = cur.path /\ l.root = cur.root /\ l.index = cur.index
          /\ l.autoindex = cur.autoindex /\ l.methods = cur.methods
          /\ l.cgi_pass = cur.cgi_pass /\ l.redirect = cur.redirect
      BY <1>2, <2>1 DEF Location
    <2> HIDE DEF l
    <2>4. "upload_pass" \notin location_seen /\ tokens[i] = "upload_pass"
      BY <1>7 DEF IsUploadPass, OnceInLocation, FirstIn, InLocation, At
    <2>5. location_seen' = location_seen \cup {"upload_pass"}
      BY <2>2, <2>4 DEF SetLocation, mark_seen
    <2>6. KeepsLocation(cur, l)
      BY <1>2, <2>2, <2>3, <2>4, <2>5 DEF KeepsLocation, MarkedLocation
    <2>7. MarkedLocation(l, location_seen')
      BY <1>2, <2>2, <2>3, <2>4, <2>5 DEF MarkedLocation
    <2> QED
      BY <1>1, <2>2, <2>3, <2>4, <2>5, <2>6, <2>7
  <1>8. CASE IsCgiPass /\ SetLocation([current_location EXCEPT !.cgi_pass = @ \cup {<<Word(1), Word(2)>>}])
    <2> DEFINE pass == cur.cgi_pass \cup {<<Word(1), Word(2)>>}
               l == [current_location EXCEPT !.cgi_pass = pass]
    <2>1. pass \in SUBSET (Text \X Text) /\ cur.cgi_pass \subseteq pass
      <3>1. Word(1) \in Text /\ Word(2) \in Text
        BY <1>1, <1>8, Arguments DEF IsCgiPass
      <3>2. <<Word(1), Word(2)>> \in Text \X Text
        BY <3>1
      <3>3. cur.cgi_pass \in SUBSET (Text \X Text)
        BY <1>2 DEF Location
      <3> QED
        BY <3>2, <3>3
    <2>2. SetLocation(l)
      BY <1>8
    <2> HIDE DEF pass
    <2>3. /\ l \in Location /\ l.path = cur.path /\ l.root = cur.root /\ l.index = cur.index
          /\ l.autoindex = cur.autoindex /\ l.methods = cur.methods /\ l.upload_pass = cur.upload_pass
          /\ l.cgi_pass = pass /\ l.redirect = cur.redirect
      BY <1>2, <2>1 DEF Location
    <2> HIDE DEF l
    <2>4. location_seen \subseteq location_seen'
      BY <2>2 DEF SetLocation, mark_seen
    <2>5. KeepsLocation(cur, l)
      BY <1>2, <2>1, <2>2, <2>3, <2>4 DEF KeepsLocation, MarkedLocation
    <2>6. MarkedLocation(l, location_seen')
      BY <1>2, <2>1, <2>2, <2>3, <2>4 DEF MarkedLocation
    <2> QED
      BY <1>1, <2>1, <2>2, <2>3, <2>4, <2>5, <2>6
  <1>9. CASE IsReturn
             /\ SetLocation([current_location EXCEPT !.redirect = @ \cup {<<Lex[Word(1)].number, Word(2)>>}])
    <2> DEFINE redirect == cur.redirect \cup {<<Lex[Word(1)].number, Word(2)>>}
               l == [current_location EXCEPT !.redirect = redirect]
    <2>1. redirect \in SUBSET (Int \X Text) /\ cur.redirect = {}
      <3>1. Word(2) \in Text
        BY <1>1, <1>9, Arguments DEF IsReturn
      <3>2. Lex[Word(1)].number \in Int /\ cur.redirect = {}
        BY <1>9 DEF IsReturn, isvalid_return_number
      <3> QED
        BY <3>1, <3>2
    <2>2. SetLocation(l)
      BY <1>9
    <2> HIDE DEF redirect
    <2>3. /\ l \in Location /\ l.path = cur.path /\ l.root = cur.root /\ l.index = cur.index
          /\ l.autoindex = cur.autoindex /\ l.methods = cur.methods /\ l.upload_pass = cur.upload_pass
          /\ l.cgi_pass = cur.cgi_pass
      BY <1>2, <2>1 DEF Location
    <2> HIDE DEF l
    <2>4. location_seen \subseteq location_seen'
      BY <2>2 DEF SetLocation, mark_seen
    <2>5. KeepsLocation(cur, l)
      BY <1>2, <2>1, <2>2, <2>3, <2>4 DEF KeepsLocation, MarkedLocation
    <2>6. MarkedLocation(l, location_seen')
      BY <1>2, <2>1, <2>2, <2>3, <2>4 DEF MarkedLocation
    <2> QED
      BY <1>1, <2>1, <2>2, <2>3, <2>4, <2>5, <2>6
  <1> HIDE DEF Goal
  <1>10. Goal
    BY <1>3, <1>4, <1>5, <1>6, <1>7, <1>8, <1>9 DEF LocationDirective, Goal
  <1> QED
    BY <1>1, <1>10 DEF Goal

\* Only the open server gets another value, which keeps what the old one had.
LEMMA OpenServerKeepsAll ==
    ASSUME IInv, state # "GLOBAL", NEW s \in Server, KeepsServer(current_server, s),
           servers' = [servers EXCEPT ![Len(servers)] = s],
           \A j \in 1..Len(current_server.locations) :
              Stays(current_server.locations, s.locations, j, state = "LOCATION")
    PROVE  Keeps /\ ClosedStay /\ current_server' = s
  <1> DEFINE L == Len(servers)
  <1>1. L \in 1..L /\ L \in Nat /\ current_server = servers[L]
    BY CurrentServer DEF IInv
  <1>2. /\ Len(servers') = L /\ servers'[L] = s /\ servers \in Seq(Server)
        /\ \A k \in 1..L : k # L => servers'[k] = servers[k]
    BY <1>1 DEF IInv, TypeOK
  <1>3. current_server' = s
    BY <1>2 DEF current_server
  <1>4. ASSUME NEW k \in 1..L
        PROVE  KeepsServer(servers[k], servers'[k])
    <2>1. CASE k = L
      BY <1>1, <1>2, <2>1
    <2>2. CASE k # L
      <3>1. servers[k] \in Server
        BY DEF IInv, TypeOK
      <3> QED
        BY <1>2, <2>2, <3>1, KeepsItself
    <2> QED
      BY <2>1, <2>2
  <1>5. ASSUME NEW k \in 1..L
        PROVE  /\ Stays(servers, servers', k, state # "GLOBAL")
               /\ \A j \in 1..Len(servers[k].locations) :
                     Stays(servers[k].locations, servers'[k].locations, j, state = "LOCATION")
    <2>1. CASE k = L
      <3>1. ~(k < Len(servers))
        BY <1>1, <2>1
      <3>2. servers[k] = current_server /\ servers'[k] = s
        BY <1>1, <1>2, <2>1
      <3> QED
        BY <3>1, <3>2 DEF Stays
    <2>2. CASE k # L
      BY <1>2, <2>2 DEF Stays
    <2> QED
      BY <2>1, <2>2
  <1> HIDE DEF L
  <1>6. Len(servers') = L /\ L \in Nat
    BY <1>1, <1>2
  <1>7. Keeps
    <2>1. Len(servers) <= Len(servers')
      BY <1>6 DEF L
    <2> QED
      BY <1>4, <2>1 DEF Keeps, L
  <1>8. ClosedStay
    BY <1>5 DEF ClosedStay, L
  <1> QED
    BY <1>3, <1>7, <1>8

\* No server gets another value.
LEMMA SameKeepsAll ==
    ASSUME IInv, \A k \in 1..Len(servers) : servers'[k] = servers[k], Len(servers) <= Len(servers')
    PROVE  Keeps /\ ClosedStay
  <1>1. \A k \in 1..Len(servers) : servers[k] \in Server
    BY DEF IInv, TypeOK
  <1> QED
    BY <1>1, KeepsItself DEF Keeps, ClosedStay, Stays

\* listen, error_page, client_max_body_size, root and index of a server
LEMMA ServerDirectiveStays ==
    ASSUME IInv, Marked, ServerDirective
    PROVE  Marked' /\ Keeps /\ ClosedStay
  <1>1. PICK s : /\ SetServer(s) /\ s \in Server
                 /\ s.locations = current_server.locations
                 /\ KeepsFields(current_server, s)
                 /\ MarkedServer(s, server_seen')
    BY ServerDirectiveAdds
  <1>2. state = "SERVER" /\ state' = "SERVER"
    BY <1>1, ServerDirectiveAdds DEF SetServer
  <1>3. current_server \in Server
    BY <1>2, CurrentServer DEF IInv
  <1>4. KeepsServer(current_server, s)
    <2>1. KeepsServer(current_server, current_server)
      BY <1>3, KeepsItself
    <2> QED
      BY <1>1, <2>1 DEF KeepsServer
  <1>5. \A j \in 1..Len(current_server.locations) :
           Stays(current_server.locations, s.locations, j, state = "LOCATION")
    BY <1>1 DEF Stays
  <1>6. servers' = [servers EXCEPT ![Len(servers)] = s]
    BY <1>1 DEF SetServer
  <1>7. Keeps /\ ClosedStay /\ current_server' = s
    BY <1>1, <1>2, <1>4, <1>5, <1>6, OpenServerKeepsAll
  <1> QED
    BY <1>1, <1>2, <1>7 DEF Marked

\* root, index, autoindex, allowed_methods, upload_pass, cgi_pass and return of a
\* location
LEMMA LocationDirectiveStays ==
    ASSUME IInv, Marked, LocationDirective
    PROVE  Marked' /\ Keeps /\ ClosedStay
  <1>1. PICK l : /\ SetLocation(l) /\ l \in Location
                 /\ KeepsLocation(current_location, l)
                 /\ MarkedLocation(l, location_seen')
    BY LocationDirectiveAdds
  <1>2. state = "LOCATION" /\ state' = "LOCATION" /\ server_seen' = server_seen
    BY <1>1, LocationDirectiveAdds DEF SetLocation
  <1> DEFINE L == Len(servers)
             ls == current_server.locations
             K == Len(ls)
             new == [ls EXCEPT ![K] = l]
             s == [current_server EXCEPT !.locations = new]
  <1>3. /\ L \in 1..L /\ current_server = servers[L] /\ current_server \in Server
    BY <1>2, CurrentServer DEF IInv
  <1>4. /\ K \in 1..K /\ K \in Nat /\ current_location = ls[K]
    BY <1>2, CurrentLocation DEF IInv
  <1>5. ls \in Seq(Location)
    BY <1>3 DEF Server
  <1>6. /\ new \in Seq(Location) /\ Len(new) = K /\ new[K] = l
        /\ \A k \in 1..K : k # K => new[k] = ls[k]
    BY <1>1, <1>4, <1>5
  <1>7. servers' = [servers EXCEPT ![L] = s]
    BY <1>1, <1>3, <1>5 DEF SetLocation
  <1> HIDE DEF new
  <1>8. /\ s \in Server /\ s.locations = new /\ s.root = current_server.root
        /\ s.index = current_server.index /\ s.error_pages = current_server.error_pages
        /\ s.client_max_body_size = current_server.client_max_body_size
        /\ s.port = current_server.port /\ s.host = current_server.host
    BY <1>3, <1>6 DEF Server
  <1> HIDE DEF s
  <1>9. KeepsServer(current_server, s)
    <2>1. ASSUME NEW k \in 1..K
          PROVE  KeepsLocation(ls[k], new[k])
      BY <1>1, <1>4, <1>6, KeepsItself
    <2>2. KeepsFields(current_server, s)
      BY <1>8 DEF KeepsFields
    <2>3. Len(ls) <= Len(s.locations)
      BY <1>4, <1>6, <1>8
    <2> QED
      BY <1>8, <2>1, <2>2, <2>3 DEF KeepsServer
  <1>10. ASSUME NEW j \in 1..K
         PROVE  Stays(ls, s.locations, j, state = "LOCATION")
    <2>1. j < K => j # K
      BY <1>4
    <2> QED
      BY <1>2, <1>6, <1>8, <2>1 DEF Stays
  <1>11. Keeps /\ ClosedStay /\ current_server' = s
    BY <1>2, <1>7, <1>8, <1>9, <1>10, OpenServerKeepsAll
  <1>12. current_location' = l
    BY <1>6, <1>8, <1>11 DEF current_location
  <1>13. MarkedServer(s, server_seen)
    BY <1>2, <1>8 DEF Marked, MarkedServer
  <1> QED
    BY <1>1, <1>2, <1>11, <1>12, <1>13 DEF Marked

\* A new server, or a new location in the open one, has nothing set.
LEMMA OpenStays ==
    ASSUME IInv, Marked, OpenServer \/ OpenLocation
    PROVE  Marked' /\ Keeps /\ ClosedStay
  <1>1. CASE OpenServer
    <2>1. /\ servers' = Append(servers, new_server) /\ server_seen' = {}
          /\ state' = "SERVER" /\ servers \in Seq(Server) /\ Len(servers) \in Nat
      BY <1>1 DEF OpenServer, WhenOpened, ClearSeen, IInv, TypeOK
    <2> DEFINE empty == new_server
    <2>2. /\ empty.port = "" /\ empty.root = "" /\ empty.index = ""
          /\ empty.client_max_body_size = new_server.client_max_body_size
      BY DEF new_server
    <2> HIDE DEF empty
    <2>3. /\ Len(servers') = Len(servers) + 1 /\ servers'[Len(servers) + 1] = empty
          /\ \A k \in 1..Len(servers) : servers'[k] = servers[k]
      BY <2>1 DEF empty
    <2>4. Keeps /\ ClosedStay
      BY <2>1, <2>3, SameKeepsAll
    <2>5. current_server' = empty
      BY <2>3 DEF current_server
    <2>6. MarkedServer(empty, server_seen')
      BY <2>2 DEF MarkedServer
    <2> QED
      BY <2>1, <2>4, <2>5, <2>6 DEF Marked
  <1>2. CASE OpenLocation
    <2> DEFINE L == Len(servers)
               ls == current_server.locations
               K == Len(ls)
               l == new_location(Word(1))
               new == Append(ls, l)
               s == [current_server EXCEPT !.locations = new]
    <2>1. /\ state = "SERVER" /\ state' = "LOCATION" /\ location_seen' = {} /\ server_seen' = server_seen
          /\ servers' = [servers EXCEPT ![L].locations = Append(@, l)]
          /\ Reading /\ i + 2 <= Len(tokens)
      BY <1>2 DEF OpenLocation, OpensLocation, At, ClearSeen
    <2>2. /\ L \in 1..L /\ current_server = servers[L] /\ current_server \in Server /\ L \in DOMAIN servers
      BY <2>1, CurrentServer DEF IInv, TypeOK
    <2>3. /\ l.root = "" /\ l.index = "" /\ l.autoindex = FALSE /\ l.methods = {}
          /\ l.upload_pass = ""
      BY DEF new_location
    <2>4. l \in Location
      <3>1. i + 1 <= Len(tokens) /\ TypeOK
        BY <2>1 DEF IInv, TypeOK
      <3>2. Word(1) \in Text
        BY <3>1, WordInText
      <3> QED
        BY <3>2 DEF new_location, Location
    <2> HIDE DEF l
    <2>5. servers' = [servers EXCEPT ![L] = s]
      BY <2>1, <2>2
    <2>6. ls \in Seq(Location)
      BY <2>2 DEF Server
    <2>7. /\ K \in Nat /\ new \in Seq(Location) /\ Len(new) = K + 1 /\ new[K + 1] = l
          /\ \A k \in 1..K : new[k] = ls[k]
      BY <2>4, <2>6
    <2> HIDE DEF new
    <2>8. /\ s \in Server /\ s.locations = new /\ s.root = current_server.root
          /\ s.index = current_server.index /\ s.error_pages = current_server.error_pages
          /\ s.client_max_body_size = current_server.client_max_body_size
          /\ s.port = current_server.port /\ s.host = current_server.host
      BY <2>2, <2>7 DEF Server
    <2> HIDE DEF s
    <2>9. KeepsServer(current_server, s)
      <3>1. KeepsFields(current_server, s)
        BY <2>8 DEF KeepsFields
      <3>2. \A k \in 1..K : KeepsLocation(ls[k], new[k])
        BY <2>7, KeepsItself
      <3>3. Len(ls) <= Len(s.locations)
        BY <2>7, <2>8
      <3> QED
        BY <2>8, <3>1, <3>2, <3>3 DEF KeepsServer
    <2>10. \A j \in 1..K : Stays(ls, s.locations, j, state = "LOCATION")
      BY <2>7, <2>8 DEF Stays
    <2>11. Keeps /\ ClosedStay /\ current_server' = s
      BY <2>1, <2>5, <2>8, <2>9, <2>10, OpenServerKeepsAll
    <2>12. current_location' = l
      BY <2>7, <2>8, <2>11 DEF current_location
    <2>13. MarkedServer(s, server_seen) /\ MarkedLocation(l, {})
      BY <2>1, <2>3, <2>8 DEF Marked, MarkedServer, MarkedLocation
    <2> QED
      BY <2>1, <2>11, <2>12, <2>13 DEF Marked
  <1> QED
    BY <1>1, <1>2

\* A turn that sets nothing
LEMMA RestStays ==
    ASSUME IInv, Marked, Close \/ SkipSemicolon \/ Reject \/ Finish \/ UNCHANGED vars
    PROVE  Marked' /\ Keeps /\ ClosedStay
  <1>1. /\ UNCHANGED <<servers, server_seen, location_seen>>
        /\ state' = state \/ (state = "LOCATION" /\ state' = "SERVER") \/ state' = "GLOBAL"
    BY DEF Close, ClosesLocation, ClosesServer, SkipSemicolon, Reject, Finish, Conclude, vars
  <1>2. Keeps /\ ClosedStay
    <2>1. Len(servers) <= Len(servers)
      BY DEF IInv, TypeOK
    <2> QED
      BY <1>1, <2>1, SameKeepsAll
  <1>3. current_server' = current_server /\ current_location' = current_location
    BY <1>1 DEF current_server, current_location
  <1> QED
    BY <1>1, <1>2, <1>3 DEF Marked

LEMMA StepStays ==
    ASSUME IInv, Marked, [Next]_vars
    PROVE  Marked' /\ Keeps /\ ClosedStay
  BY ServerDirectiveStays, LocationDirectiveStays, OpenStays, RestStays DEF Next, Read, Done

LEMMA MarkedAlways == Spec => []Marked
  <1>1. Init => Marked
    BY DEF Init, Marked
  <1> QED
    BY <1>1, StepStays, Invariance, PTL DEF Spec

\* No directive overrides what an earlier one of its block has set: of two that say
\* different things the file is rejected, and neither wins.
THEOREM NothingOverridden == Spec => [][Keeps]_vars
  <1> QED
    BY StepStays, Invariance, MarkedAlways, PTL DEF Spec

\* A directive only reaches the block it stands in: blocks that are closed stay as
\* they were.
THEOREM ClosedBlocksStay == Spec => [][ClosedStay]_vars
  <1> QED
    BY StepStays, Invariance, MarkedAlways, PTL DEF Spec
=============================================================================
