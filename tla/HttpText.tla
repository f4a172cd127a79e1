------------------------------- MODULE HttpText -------------------------------
(***************************************************************************)
(* CHttpUtil and CHttpCookie: what the client writes into a request and a  *)
(* server reads out of it, and back.  The parts that are percent-coded are *)
(* sequences of character codes; a header is a sequence of fields, each a  *)
(* name and a value, for the lines between two line ends.  And the body of *)
(* a response in chunks, as CHttpGetClient reads it.                       *)
(***************************************************************************)
EXTENDS Integers, Sequences, SequencesExt, FiniteSets

Space == 32
Percent == 37
Amp == 38
Plus == 43
Slash == 47
Semicolon == 59
Equal == 61
Question == 63

\* isalnum of the C locale, and the upper-case digit of a nibble.
IsAlnum(c) == c \in 48..57 \cup 65..90 \cup 97..122
HexCode(d) == IF d < 10 THEN 48 + d ELSE 55 + d

\* A failed parse.
Failed == [ok |-> FALSE]
Parsed(v) == [ok |-> TRUE, value |-> v]

\* string::find and substr: the parts of s between the characters d.
RECURSIVE Split(_, _)
Split(s, d) ==
    IF \E i \in DOMAIN s : s[i] = d
    THEN LET i == CHOOSE j \in DOMAIN s : s[j] = d /\ \A k \in 1..(j - 1) : s[k] # d
         IN  <<SubSeq(s, 1, i - 1)>> \o Split(SubSeq(s, i + 1, Len(s)), d)
    ELSE <<s>>

\* The part before the first d, and the part behind it.
Before(s, d) == Split(s, d)[1]
Behind(s, d) == SubSeq(s, Len(Before(s, d)) + 2, Len(s))
Has(s, d) == \E i \in DOMAIN s : s[i] = d

Joined(parts, sep) ==
    FlattenSeq([i \in DOMAIN parts |-> IF i = 1 THEN parts[i] ELSE sep \o parts[i]])
-------------------------------------------------------------------------------
(* Percent coding and base 64.                                             *)

\* Characters that stay as they are: -_.~ and what the caller adds.
Reserved == {45, 95, 46, 126}

\* Mutant of PercentEncode: an equals sign stays as it is.
PercentEncodeKeepsEqual(s, ext) ==
    FlattenSeq([i \in DOMAIN s |->
        IF IsAlnum(s[i]) \/ s[i] \in Reserved \cup ext \cup {Equal} THEN <<s[i]>>
        ELSE IF s[i] = Space THEN <<Plus>>
        ELSE <<Percent, HexCode(s[i] \div 16), HexCode(s[i] % 16)>>])

PercentEncode(s, ext) ==
    FlattenSeq([i \in DOMAIN s |->
        IF IsAlnum(s[i]) \/ s[i] \in Reserved \cup ext THEN <<s[i]>>
        ELSE IF s[i] = Space THEN <<Plus>>
        ELSE <<Percent, HexCode(s[i] \div 16), HexCode(s[i] % 16)>>])

\* FROMHEX: a letter gives its value, a digit gives its character code, 48 too much.
FromHex(c) == IF c \in 48..57 THEN c
              ELSE IF c \in 97..102 THEN c - 97 + 10
              ELSE IF c \in 65..70 THEN c - 65 + 10 ELSE -1

\* Bitwise or of (h << 4) and l, cut to a character: a digit's 48 sets two bits of h.
HexChar(h, l) ==
    LET high == h % 16
        low == l % 16
        extra == IF l >= 48 THEN 3 ELSE 0
        ored == (high - (high % 4)) + (IF extra = 3 THEN 3 ELSE high % 4)
    IN  16 * ored + low

RECURSIVE PercentDecode(_)
PercentDecode(s) ==
    IF s = <<>> THEN Parsed(<<>>)
    ELSE IF s[1] # Percent
    THEN LET r == PercentDecode(Tail(s))
         IN  IF r.ok THEN Parsed(<<IF s[1] = Plus THEN Space ELSE s[1]>> \o r.value) ELSE Failed
    ELSE IF Len(s) < 3 \/ FromHex(s[2]) < 0 \/ FromHex(s[3]) < 0 THEN Failed
    ELSE LET r == PercentDecode(SubSeq(s, 4, Len(s)))
         IN  IF r.ok THEN Parsed(<<HexChar(FromHex(s[2]), FromHex(s[3]))>> \o r.value) ELSE Failed

\* Base64Encode, as 6 bit groups; -1 is the padding.
Base64Encode(s) ==
    LET bit(i) == IF i > 8 * Len(s) THEN 0 ELSE (s[((i - 1) \div 8) + 1] \div (2 ^ (7 - ((i - 1) % 8)))) % 2
        group(k) == FoldLeft(LAMBDA acc, i : 2 * acc + bit(6 * (k - 1) + i), 0, <<1, 2, 3, 4, 5, 6>>)
    IN  [k \in 1..((8 * Len(s) + 5) \div 6) |-> group(k)]
        \o (CASE Len(s) % 3 = 0 -> <<>> [] Len(s) % 3 = 1 -> <<-1, -1>> [] Len(s) % 3 = 2 -> <<-1>>)

\* Base64Decode: the padding is at the end; as many zero groups take its place, and as many
\* characters are cut off.
Base64Decode(s) ==
    LET n == Cardinality({i \in DOMAIN s : s[i] = -1})
        t == [i \in DOMAIN s |-> IF s[i] = -1 THEN 0 ELSE s[i]]
        bit(i) == (t[((i - 1) \div 6) + 1] \div (2 ^ (5 - ((i - 1) % 6)))) % 2
        char(k) == FoldLeft(LAMBDA acc, i : 2 * acc + bit(8 * (k - 1) + i), 0, <<1, 2, 3, 4, 5, 6, 7, 8>>)
    IN  IF n > 2 \/ \E i \in DOMAIN s : s[i] = -1 /\ i <= Len(s) - n THEN Failed
        ELSE Parsed([k \in 1..(((6 * Len(s)) \div 8) - n) |-> char(k)])
-------------------------------------------------------------------------------
(* Queries, cookies and urls.  A map is the set of its pairs.              *)

EncodedPair(p) == PercentEncode(p[1], {}) \o <<Equal>> \o PercentEncode(p[2], {})

ParseEncodedPair(s) ==
    LET k == PercentDecode(Before(s, Equal))
        v == PercentDecode(Behind(s, Equal))
    IN  IF s = <<>> \/ ~ k.ok \/ ~ v.ok THEN Failed ELSE Parsed(<<k.value, v.value>>)

\* ParseRequestQuery, and ParseCookie with its blanks: every part is a pair; of pairs with
\* one key the last counts.
ParsePairs(parts) ==
    LET r == [i \in DOMAIN parts |-> ParseEncodedPair(parts[i])]
    IN  IF \E i \in DOMAIN r : ~ r[i].ok THEN Failed
        ELSE Parsed({r[i].value : i \in {j \in DOMAIN r :
                        \A k \in (j + 1)..Len(r) : r[k].value[1] # r[j].value[1]}})

ParseRequestQuery(s) == ParsePairs(Split(s, Amp))

RECURSIVE Trimmed(_)
Trimmed(s) == IF s # <<>> /\ s[1] = Space THEN Trimmed(Tail(s)) ELSE s

ParseCookie(s) ==
    LET parts == Split(s, Semicolon)
    IN  ParsePairs([i \in DOMAIN parts |-> IF i = 1 THEN parts[i] ELSE Trimmed(parts[i])])

\* A map is walked in some order.
InOrder(map) == SetToSeq(map)

BuildCookie(map) ==
    Joined([i \in 1..Cardinality(map) |-> EncodedPair(InOrder(map)[i])], <<Semicolon, Space>>)

BuildUrl(method, url, query) ==
    LET path == PercentEncode(url, {Slash})
        pairs == [i \in 1..Cardinality(query) |-> EncodedPair(InOrder(query)[i])]
    IN  (IF path = <<>> THEN <<Slash>> ELSE path) \o
        (IF method = "GET" /\ query # {} THEN <<Question>> \o Joined(pairs, <<Amp>>) ELSE <<>>)

ParseUrl(s) ==
    LET path == PercentDecode(Before(s, Question))
        query == IF Behind(s, Question) = <<>> THEN Parsed({}) ELSE ParseRequestQuery(Behind(s, Question))
    IN  IF path.ok /\ query.ok THEN Parsed([url |-> path.value, query |-> query.value]) ELSE Failed
-------------------------------------------------------------------------------
(* Headers.  A field is <<name, value>>; a header map holds one value each. *)

Value(map, name, default) == IF name \in DOMAIN map THEN map[name] ELSE default

\* ParseFieldLine over the lines: the first field of a name counts; the set-cookie fields are
\* put together.
ParseFields(fields) ==
    LET names == {fields[i][1] : i \in DOMAIN fields}
        of(n) == SelectSeq(fields, LAMBDA f : f[1] = n)
    IN  [n \in names |-> IF n = "set-cookie" THEN [i \in DOMAIN of(n) |-> of(n)[i][2]] ELSE of(n)[1][2]]

\* BuildRequestHeader: the request line and the fields.
BuildRequest(map, query, cookie, length) ==
    [method |-> map["method"], url |-> BuildUrl(map["method"], map["url"], query),
     fields |-> << <<"host", map["host"]>>, <<"user-agent", Value(map, "user-agent", "walleve")>> >>
        \o (IF "authorization" \in DOMAIN map THEN << <<"authorization", map["authorization"]>> >> ELSE <<>>)
        \o (IF cookie # {} THEN << <<"cookie", BuildCookie(cookie)>> >> ELSE <<>>)
        \o (IF length # 0 /\ "content-type" \in DOMAIN map
            THEN << <<"content-type", map["content-type"]>> >> ELSE <<>>)
        \o (IF length # 0 THEN << <<"content-length", length>> >> ELSE <<>>)
        \o << <<"accept", map["accept"]>>, <<"connection", map["connection"]>> >>]

\* ParseRequestHeader, with ParseCommandLine.
ParseRequest(r) ==
    LET url == ParseUrl(r.url)
        map == ParseFields(r.fields)
        cookie == IF "cookie" \in DOMAIN map THEN ParseCookie(map["cookie"]) ELSE Parsed({})
    IN  IF r.method \notin {"GET", "POST"} \/ r.url = <<>> \/ r.url[1] # Slash \/ ~ url.ok \/ ~ cookie.ok
        THEN Failed
        ELSE Parsed([method |-> r.method, url |-> url.value.url, query |-> url.value.query,
                     cookie |-> cookie.value, fields |-> map])

\* A cookie's attributes as BuildSetCookie writes them; times are opaque.
NoTime == "not_a_date_time"
BuildSetCookie(c) ==
    << <<"pair", EncodedPair(<<c.name, c.value>>)>> >>
    \o (IF c.domain # "" THEN << <<"domain", c.domain>> >> ELSE <<>>)
    \o (IF c.path # <<>> THEN << <<"path", PercentEncode(c.path, {Slash})>> >> ELSE <<>>)
    \o (IF c.expires # NoTime THEN << <<"expires", c.expires>> >> ELSE <<>>)
    \o (IF c.secure THEN << <<"secure">> >> ELSE <<>>)
    \o (IF c.httponly THEN << <<"httponly">> >> ELSE <<>>)

\* LoadFromResp: the pair, then the attributes one after the other; expires counts only as
\* long as there is no time, max-age always.
LoadFromResp(attrs) ==
    LET pair == ParseEncodedPair(attrs[1][2])
        Apply(c, a) ==
            CASE a[1] = "domain" -> [c EXCEPT !.domain = a[2]]
              [] a[1] = "path" -> LET p == PercentDecode(a[2])
                                  IN  IF p.ok THEN [c EXCEPT !.path = p.value] ELSE [c EXCEPT !.ok = FALSE]
              [] a[1] = "expires" -> IF c.expires = NoTime THEN [c EXCEPT !.expires = a[2]] ELSE c
              [] a[1] = "max-age" -> [c EXCEPT !.expires = a[2]]
              [] a[1] = "secure" -> [c EXCEPT !.secure = TRUE]
              [] a[1] = "httponly" -> [c EXCEPT !.httponly = TRUE]
              [] OTHER -> c
    IN  IF ~ pair.ok THEN Failed
        ELSE FoldLeft(Apply, [ok |-> TRUE, name |-> pair.value[1], value |-> pair.value[2],
                              domain |-> "", path |-> <<>>, expires |-> NoTime,
                              secure |-> FALSE, httponly |-> FALSE], Tail(attrs))

\* BuildResponseHeader and ParseResponseHeader: a cookie without a name, or one that comes
\* twice, spoils the response.
BuildResponse(status, map, cookies, length) ==
    [status |-> status,
     fields |-> << <<"date", "now">>, <<"server", Value(map, "server", "walleve")>> >>
        \o [i \in 1..Cardinality(cookies) |-> <<"set-cookie", BuildSetCookie(InOrder(cookies)[i])>>]
        \o << <<"connection", Value(map, "connection", "Close")>> >>
        \o (IF Value(map, "content-type", "") # "" THEN << <<"content-type", map["content-type"]>> >> ELSE <<>>)
        \o (IF Value(map, "content-type", "") = "text/event-stream" THEN << <<"cache-control", "no-cache">> >> ELSE <<>>)
        \o << <<"content-length", length>> >>
        \o (IF status = 401 THEN << <<"www-authenticate", "Basic">> >> ELSE <<>>)]

ParseResponse(r) ==
    LET map == ParseFields(r.fields)
        sent == IF "set-cookie" \in DOMAIN map THEN map["set-cookie"] ELSE <<>>
        cookies == [i \in DOMAIN sent |-> LoadFromResp(sent[i])]
    IN  IF \/ \E i \in DOMAIN cookies : ~ cookies[i].ok \/ cookies[i].name = <<>>
           \/ \E i, j \in DOMAIN cookies : i # j /\ cookies[i].name = cookies[j].name
        THEN Failed
        ELSE Parsed([status |-> r.status, fields |-> map, cookies |-> ToSet(cookies)])
-------------------------------------------------------------------------------
VARIABLE text   \* what is coded: a string, a request or a response

\* The characters that survive percent coding: FROMHEX spoils an escape with a low digit,
\* unless both bits it sets are set anyway.
Survives(c) == IsAlnum(c) \/ c \in Reserved \cup {Space} \/ c % 16 >= 10 \/ (c \div 16) % 4 = 3
SurvivesAll(s) == \A i \in DOMAIN s : Survives(s[i])

StringInverts(s) ==
    /\ Base64Decode(Base64Encode(s)) = Parsed(s)
    /\ (PercentDecode(PercentEncode(s, {})) = Parsed(s)) <=> SurvivesAll(s)

RequestInverts(map, query, cookie, length) ==
    LET r == ParseRequest(BuildRequest(map, query, cookie, length))
    IN  /\ r.ok
        /\ r.value.method = map["method"]
        /\ r.value.url = IF map["url"] = <<>> THEN <<Slash>> ELSE map["url"]
        /\ r.value.query = IF map["method"] = "GET" THEN query ELSE {}
        /\ r.value.cookie = cookie
        /\ \A name \in DOMAIN map \ {"method", "url", "content-type"} : r.value.fields[name] = map[name]

ResponseInverts(status, map, cookies, length) ==
    LET r == ParseResponse(BuildResponse(status, map, cookies, length))
    IN  IF <<>> \in {c.name : c \in cookies} THEN ~ r.ok
        ELSE /\ r.ok /\ r.value.status = status /\ r.value.fields["content-length"] = length
             /\ r.value.cookies = {[c EXCEPT !.ok = TRUE] : c \in cookies}

\* What one side writes into a header the other side reads out of it (httputil.cpp:105, 303):
\* the path, the query, the cookies with their attributes and the fields, whatever delimiters
\* their texts hold; and percent coding inverts on exactly the characters FROMHEX spares.
TextInverts ==
    CASE text.kind = "string" -> StringInverts(text.s)
      [] text.kind = "request" -> RequestInverts(text.map, text.query, text.cookie, text.length)
      [] text.kind = "response" -> ResponseInverts(text.status, text.map, text.cookies, text.length)
      [] OTHER -> TRUE
------------------------------------------------------------------------------
(* CHttpGetClient reading a chunked response body: what came with the       *)
(* header is parsed at once; then ReadUntil waits for the end of the last   *)
(* chunk.  ParseChunked takes the whole chunks out of what was received,    *)
(* and the rest goes back to the buffer.  The body is what a server sends:  *)
(* chunks of data, each after a line with its length, and an empty one, to  *)
(* the end.  Here text is a sequence of characters, a length one digit.     *)

CONSTANTS CR, LF,       \* the line end
          Digit,        \* length -> its hexadecimal digit
          Bodies        \* bound: the bodies sent, as sequences of chunks of data

VARIABLES body,         \* the body that is sent
          wire,         \* what has not been received
          ssRecv,       \* the receive buffer
          strChunked,   \* the content so far
          state         \* "header", "reading", "completed" or "error"

chunkedVars == <<body, wire, ssRecv, strChunked, state>>

Eol == <<CR, LF>>
Chunk(data) == <<Digit[Len(data)]>> \o Eol \o data \o Eol

\* The delimiter of ReadUntil, which is also the last chunk.
Delimiter == Chunk(<<>>)

Sent(b) == FlattenSeq([i \in DOMAIN b |-> Chunk(b[i])]) \o Delimiter

Occurs(p, s) == \E i \in 1..(Len(s) - Len(p) + 1) : SubSeq(s, i, i + Len(p) - 1) = p

Init ==
    /\ body \in Bodies
    /\ wire = Sent(body)
    /\ ssRecv = <<>>
    /\ strChunked = <<>>
    /\ state = "header"
------------------------------------------------------------------------------
\* The first line end of s behind position i, 0 if there is none.
LineEnd(s, i) == IF \E j \in (i + 1)..Len(s) : s[j] = LF
                 THEN CHOOSE j \in (i + 1)..Len(s) : s[j] = LF /\ \A k \in (i + 1)..(j - 1) : s[k] # LF
                 ELSE 0

\* strtoul of the line from i to its end n, which must be a length and nothing else.
IsLength(s, i, n) == n = i + 2 /\ s[i] \in {Digit[k] : k \in DOMAIN Digit} /\ s[i + 1] = CR
Length(s, i) == CHOOSE k \in DOMAIN Digit : Digit[k] = s[i]

Result(ok, content, residue, continue) ==
    [ok |-> ok, content |-> content, residue |-> residue, fContinue |-> continue]

\* Mutant of ParseChunked: a chunk that ends where the buffer does counts as not complete.
ParseChunkedOneMore(s) ==
    LET From(i) == SubSeq(s, i, Len(s))
        parse[i \in 1..(Len(s) + 1)] ==
          LET n == LineEnd(s, i - 1)
              len == Length(s, i)
              e == LineEnd(s, n + len)
          IN  IF n = 0 THEN Result(TRUE, <<>>, From(i), TRUE)
              ELSE IF ~ IsLength(s, i, n) THEN Result(FALSE, <<>>, From(i), TRUE)
              ELSE IF e \in {0, Len(s)} THEN Result(TRUE, <<>>, From(i), TRUE)
              ELSE IF SubSeq(s, n + len + 1, e) # Eol THEN Result(FALSE, <<>>, From(i), TRUE)
              ELSE IF len = 0 THEN Result(TRUE, <<>>, <<>>, FALSE)
              ELSE [parse[e + 1] EXCEPT !.content = SubSeq(s, n + 1, n + len) \o @]
    IN  parse[1]

\* ParseChunked: chunk by chunk; a chunk ends with the first line end behind its data, and
\* only the rest of its line may stand between.  A chunk that is not complete is residue.
ParseChunked(s) ==
    LET From(i) == SubSeq(s, i, Len(s))
        parse[i \in 1..(Len(s) + 1)] ==
          LET n == LineEnd(s, i - 1)
              len == Length(s, i)
              e == LineEnd(s, n + len)
          IN  IF n = 0 THEN Result(TRUE, <<>>, From(i), TRUE)
              ELSE IF ~ IsLength(s, i, n) THEN Result(FALSE, <<>>, From(i), TRUE)
              ELSE IF e = 0 THEN Result(TRUE, <<>>, From(i), TRUE)
              ELSE IF SubSeq(s, n + len + 1, e) # Eol THEN Result(FALSE, <<>>, From(i), TRUE)
              ELSE IF len = 0 THEN Result(TRUE, <<>>, <<>>, FALSE)
              ELSE [parse[e + 1] EXCEPT !.content = SubSeq(s, n + 1, n + len) \o @]
    IN  parse[1]

\* ReadUntil takes what arrives as long as the buffer does not hold the delimiter.
Receive ==
    /\ state = "reading"
    /\ ~ Occurs(Delimiter, ssRecv)
    /\ \E k \in 1..Len(wire) :
          /\ ssRecv' = ssRecv \o SubSeq(wire, 1, k)
          /\ wire' = SubSeq(wire, k + 1, Len(wire))
    /\ UNCHANGED <<body, strChunked, state>>

\* HandleReadChunked with s in the buffer: the next ReadUntil starts with the residue.
ReadChunked(s) ==
    \E r \in {ParseChunked(s)} :
        /\ strChunked' = strChunked \o r.content
        /\ state' = IF ~ r.ok THEN "error" ELSE IF r.fContinue THEN "reading" ELSE "completed"
        /\ ssRecv' = r.residue

\* The header has come, and with it any part of the body, most often without its end: it is
\* parsed in the same handler.  ReadUntil is first to wait only if nothing has come.
HandleReadHeader ==
    /\ state = "header"
    /\ \E k \in 0..Len(wire) :
          /\ wire' = SubSeq(wire, k + 1, Len(wire))
          /\ IF k > 0 THEN ReadChunked(SubSeq(wire, 1, k))
             ELSE state' = "reading" /\ UNCHANGED <<ssRecv, strChunked>>
    /\ UNCHANGED body

\* ReadUntil's completion: the delimiter is in the buffer.
HandleReadChunked ==
    /\ state = "reading"
    /\ Occurs(Delimiter, ssRecv)
    /\ ReadChunked(ssRecv)
    /\ UNCHANGED <<body, wire>>

Next == HandleReadHeader \/ Receive \/ HandleReadChunked

\* The server sends the body to the end, and completions run.
Fairness == WF_chunkedVars(Receive) /\ WF_chunkedVars(HandleReadChunked)

FairSpec == Init /\ [][Next]_chunkedVars /\ Fairness
------------------------------------------------------------------------------
\* Wherever the body is cut on its way, what was taken out of it is its beginning, and a
\* completed response has all of it.
ContentIsBody ==
    /\ IsPrefix(strChunked, FlattenSeq(body))
    /\ state = "completed" => strChunked = FlattenSeq(body)
    /\ state # "error"

\* The delimiter occurs before the end of the body: in the data of a chunk (or where a
\* longer length ends in 0 and the data begin with a line end).
DelimiterInside(b) == Occurs(Delimiter, SubSeq(Sent(b), 1, Len(Sent(b)) - 1))

\* ReadUntil returns at once with the residue it was just given, again and again: the
\* buffer holds an incomplete chunk, and the delimiter in the data of it.
Spinning ==
    /\ state = "reading" /\ Occurs(Delimiter, ssRecv) /\ DelimiterInside(body)
    /\ ParseChunked(ssRecv) = Result(TRUE, <<>>, ssRecv, TRUE)

\* Wherever the body is cut, behind the header and later, it is read to its end and nothing
\* else, unless the reader comes to spin on a delimiter inside a chunk: then the socket is
\* not read again (httpget.cpp:130, httpget.cpp:179).
ChunkedBodyRead ==
    []ContentIsBody /\ ((state # "header" ~> state = "completed") \/ <>[]Spinning)
==============================================================================
