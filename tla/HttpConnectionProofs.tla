-------------------------- MODULE HttpConnectionProofs ------------------------
(***************************************************************************)
(* What one connection does with the bytes it reads and sends, for any     *)
(* requests, files and buffer sizes.                                       *)
(***************************************************************************)
EXTENDS HttpConnection, DataLemmas

(* What a token of each kind carries.                                      *)
LEMMA TokenKinds ==
  ASSUME NEW t \in Tokens \cup {NUL}
  PROVE  /\ t.is = "line" => t.method \in Strings /\ t.path \in Paths /\ t.version \in Strings
         /\ t.is = "header" => t \in Headers
         /\ t.is = "field" => t.value \in Texts
  BY DEF Tokens, Headers, CR, LF, NUL

(* HexToInt() is -1 or a digit.                                            *)
LEMMA HexIsDigit ==
  ASSUME NEW c \in Nat
  PROVE  HexToInt(c) = -1 \/ HexToInt(c) \in Nat
  BY DEF HexToInt

(* What urlDecode() makes of the rest of a text from place i on, given     *)
(* what it makes of each shorter rest.                                     *)
Decoding(s, f, i) ==
  IF i > Len(s) THEN <<>>
  ELSE IF s[i] = 43 THEN <<32>> \o f[i + 1]
  ELSE IF IsEscape(s, i) THEN <<HexToInt(s[i + 1]) * 16 + HexToInt(s[i + 2])>> \o f[i + 3]
  ELSE <<s[i]>> \o f[i + 1]

(* The recursion in urlDecode() has a solution, and gives character codes. *)
LEMMA DecodeUnrolled ==
  ASSUME NEW s \in Texts
  PROVE  \E f : /\ UrlDecode(s) = f[1]
                /\ \A i \in 1..(Len(s) + 1) : f[i] = Decoding(s, f, i) /\ f[i] \in Texts
<1> DEFINE L == Len(s)
           Plus1(f, i) == <<32>> \o f[i + 1]
           Hex3(f, i) == <<HexToInt(s[i + 1]) * 16 + HexToInt(s[i + 2])>> \o f[i + 3]
           Char(f, i) == <<s[i]>> \o f[i + 1]
           body(f, i) == IF i > L THEN <<>>
                         ELSE IF s[i] = 43 THEN Plus1(f, i)
                         ELSE IF IsEscape(s, i) THEN Hex3(f, i)
                         ELSE Char(f, i)
           Decodes(f) == f = [i \in 1..(L + 1) |-> body(f, i)]
<1>1. L \in Nat /\ \A i \in 1..L : s[i] \in Nat
  BY DEF Texts
<1>2. ASSUME NEW i \in 1..(L + 1), NEW f, \A j \in (i + 1)..(L + 1) : f[j] \in Texts
      PROVE  body(f, i) \in Texts
  <2>1. CASE i > L
    BY <2>1 DEF Texts
  <2>2. CASE i =< L
    <3>1. i \in 1..L /\ i + 1 \in (i + 1)..(L + 1) /\ s[i] \in Nat
      BY <1>1, <2>2
    <3>2. f[i + 1] \in Seq(Nat)
      BY <1>2, <3>1 DEF Texts
    <3>3. Plus1(f, i) \in Texts /\ Char(f, i) \in Texts
      <4>1. <<32>> \in Seq(Nat) /\ <<s[i]>> \in Seq(Nat)
        BY <3>1
      <4> QED  BY <3>2, <4>1, ConcatProperties DEF Texts
    <3>4. CASE IsEscape(s, i)
      <4>1. /\ i + 1 \in 1..L /\ i + 2 \in 1..L
            /\ HexToInt(s[i + 1]) # -1 /\ HexToInt(s[i + 2]) # -1
        BY <1>1, <3>1, <3>4 DEF IsEscape
      <4>2. HexToInt(s[i + 1]) \in Nat /\ HexToInt(s[i + 2]) \in Nat
        BY <1>1, <4>1, HexIsDigit
      <4>3. <<HexToInt(s[i + 1]) * 16 + HexToInt(s[i + 2])>> \in Seq(Nat)
        BY <4>2
      <4>4. f[i + 3] \in Seq(Nat)
        BY <1>1, <1>2, <4>1 DEF Texts
      <4>5. Hex3(f, i) \in Texts
        BY <4>3, <4>4, ConcatProperties DEF Texts
      <4> HIDE DEF Plus1, Hex3, Char
      <4> QED  BY <3>1, <3>3, <4>5
    <3> HIDE DEF Plus1, Hex3, Char
    <3> QED  BY <3>1, <3>3, <3>4
  <2> HIDE DEF body
  <2> QED  BY <1>1, <2>1, <2>2
<1>3. ASSUME NEW i \in 1..(L + 1), NEW f, NEW g,
             \A j \in (i + 1)..(L + 1) : f[j] = g[j]
      PROVE  body(f, i) = body(g, i)
  <2>1. CASE i > L
    BY <2>1
  <2>2. CASE i =< L
    <3>1. i + 1 \in (i + 1)..(L + 1) /\ f[i + 1] = g[i + 1]
      BY <1>1, <1>3, <2>2
    <3>2. IsEscape(s, i) => f[i + 3] = g[i + 3]
      <4>1. IsEscape(s, i) => i + 3 \in (i + 1)..(L + 1)
        BY <1>1 DEF IsEscape
      <4> QED  BY <1>3, <4>1
    <3> QED  BY <3>1, <3>2
  <2> QED  BY <1>1, <2>1, <2>2
<1> HIDE DEF body
<1>4. \E f : Decodes(f)
  <2> DEFINE From(f, k) == \A i \in (L + 1 - k)..(L + 1) : f[i] = body(f, i)
             T == {k \in 0..L : \E f \in [1..(L + 1) -> Texts] : From(f, k)}
  <2>1. 0 \in T
    <3> DEFINE f == [i \in 1..(L + 1) |-> <<>>]
    <3>1. f \in [1..(L + 1) -> Texts]
      BY DEF Texts
    <3>2. From(f, 0)
      <4>1. body(f, L + 1) = <<>> /\ f[L + 1] = <<>>
        BY <1>1 DEF body
      <4> QED  BY <1>1, <4>1
    <3> HIDE DEF f, From
    <3> QED  BY <1>1, <3>1, <3>2
  <2>2. ASSUME NEW k \in 0..(L - 1), k \in T PROVE k + 1 \in T
    <3>1. PICK f \in [1..(L + 1) -> Texts] : From(f, k)
      BY <2>2
    <3> DEFINE m == L - k
               g == [f EXCEPT ![m] = body(f, m)]
    <3>2. m \in 1..(L + 1) /\ L + 1 - (k + 1) = m /\ L + 1 - k = m + 1
      BY <1>1
    <3> HIDE DEF m
    <3>3. body(f, m) \in Texts
      BY <1>1, <1>2, <3>2
    <3>4. g \in [1..(L + 1) -> Texts]
      BY <3>3
    <3>5. g[m] = body(f, m) /\ \A j \in (m + 1)..(L + 1) : g[j] = f[j]
      BY <1>1, <3>2
    <3> HIDE DEF g
    <3>6. ASSUME NEW i \in m..(L + 1) PROVE g[i] = body(g, i)
      <4>1. i \in 1..(L + 1)
        BY <1>1, <3>2
      <4>2. \A j \in (i + 1)..(L + 1) : g[j] = f[j]
        BY <1>1, <3>2, <3>5, <4>1
      <4>3. body(g, i) = body(f, i)
        BY <1>3, <4>1, <4>2
      <4>4. CASE i = m
        BY <3>5, <4>3, <4>4
      <4>5. CASE i # m
        <5>1. i \in (m + 1)..(L + 1)
          BY <1>1, <3>2, <4>5
        <5> QED  BY <3>1, <3>2, <3>5, <4>3, <5>1
      <4> QED  BY <4>4, <4>5
    <3>7. From(g, k + 1)
      BY <3>2, <3>6
    <3> HIDE DEF From
    <3> QED  BY <1>1, <3>4, <3>7
  <2>3. L \in T
    <3> HIDE DEF T
    <3>1. \A k \in 0..L : k \in T
      BY <1>1, <2>1, <2>2, BoundedInduction
    <3> QED  BY <1>1, <3>1
  <2>4. PICK f \in [1..(L + 1) -> Texts] : From(f, L)
    BY <2>3
  <2>5. \A i \in 1..(L + 1) : f[i] = body(f, i)
    BY <1>1, <2>4
  <2>6. f = [i \in 1..(L + 1) |-> f[i]]
    OBVIOUS
  <2>7. Decodes(f)
    BY <2>5, <2>6
  <2> HIDE DEF Decodes
  <2> QED  BY <2>7
<1>5. ASSUME NEW f, Decodes(f)
      PROVE  \A i \in 1..(L + 1) : f[i] = body(f, i) /\ f[i] \in Texts
  <2> DEFINE T == {k \in 0..L : \A i \in (L + 1 - k)..(L + 1) : f[i] \in Texts}
  <2>1. \A i \in 1..(L + 1) : f[i] = body(f, i)
    BY <1>5
  <2>2. 0 \in T
    <3>1. f[L + 1] \in Texts
      BY <1>1, <1>2, <2>1
    <3> QED  BY <1>1, <3>1
  <2>3. ASSUME NEW k \in 0..(L - 1), k \in T PROVE k + 1 \in T
    <3>1. L - k \in 1..(L + 1) /\ L + 1 - (k + 1) = L - k /\ L + 1 - k = (L - k) + 1
      BY <1>1
    <3>2. f[L - k] \in Texts
      BY <1>1, <1>2, <2>1, <2>3, <3>1
    <3> QED  BY <1>1, <2>3, <3>1, <3>2
  <2>4. L \in T
    <3> HIDE DEF T
    <3>1. \A k \in 0..L : k \in T
      BY <1>1, <2>2, <2>3, BoundedInduction
    <3> QED  BY <1>1, <3>1
  <2>5. \A i \in 1..(L + 1) : i \in (L + 1 - L)..(L + 1)
    BY <1>1
  <2> QED  BY <2>1, <2>4, <2>5
<1>6. UrlDecode(s) = (CHOOSE f : Decodes(f))[1]
  BY DEF UrlDecode, body
<1>7. \A f, i : body(f, i) = Decoding(s, f, i)
  BY DEF body, Decoding
<1> HIDE DEF Decodes
<1> QED  BY <1>4, <1>5, <1>6, <1>7

(* urlDecode() of character codes gives character codes.                   *)
LEMMA DecodedIsText ==
  ASSUME NEW s \in Texts
  PROVE  UrlDecode(s) \in Texts
<1>1. PICK f : /\ UrlDecode(s) = f[1]
               /\ \A i \in 1..(Len(s) + 1) : f[i] = Decoding(s, f, i) /\ f[i] \in Texts
  BY DecodeUnrolled
<1>2. 1 \in 1..(Len(s) + 1)
  BY LenProperties DEF Texts
<1> QED  BY <1>1, <1>2
-----------------------------------------------------------------------------
(* The parser.  parseFormUrlencoded() and parseBody() keep post_ and body_ *)
(* what they are.                                                          *)
LEMMA FormTyped ==
  ASSUME NEW body \in Seq(Tokens \cup {NUL})
  PROVE  ParseFormUrlencoded(body) \in [FormFields -> {Absent} \cup Texts]
<1> DEFINE Named(f) == {i \in 1..Len(body) : body[i].is = "field" /\ body[i].name = f}
<1>1. ASSUME NEW f \in FormFields, Named(f) # {}
      PROVE  UrlDecode(RawValue(body, Max(Named(f)))) \in Texts
  <2> DEFINE m == Max(Named(f))
  <2>1. m \in Named(f)
    <3>1. Named(f) \in SUBSET (1..Len(body)) /\ Len(body) \in Nat
      OBVIOUS
    <3> HIDE DEF Named
    <3> QED  BY <1>1, <3>1, MaxIsMember
  <2> HIDE DEF m
  <2>2. body[m].value \in Texts
    BY <2>1, TokenKinds
  <2>3. body[m].value \o <<0>> \in Texts
    <3>1. body[m].value \in Seq(Nat) /\ <<0>> \in Seq(Nat)
      BY <2>2 DEF Texts
    <3> QED  BY <3>1, ConcatProperties DEF Texts
  <2>4. RawValue(body, m) \in Texts
    BY <2>2, <2>3 DEF RawValue
  <2> QED  BY <2>4, DecodedIsText DEF m
<1>2. ASSUME NEW f \in FormFields
      PROVE  (\E i \in 1..Len(body) : body[i].is = "field" /\ body[i].name = f) => Named(f) # {}
  OBVIOUS
<1> HIDE DEF Named
<1>3. ParseFormUrlencoded(body) =
        [f \in FormFields |->
           IF \E i \in 1..Len(body) : body[i].is = "field" /\ body[i].name = f
           THEN UrlDecode(RawValue(body, Max(Named(f)))) ELSE Absent]
  BY DEF ParseFormUrlencoded, Named
<1> QED  BY <1>1, <1>2, <1>3

(* The body is cut out of the buffer, and ends in NUL where it runs over.  *)
LEMMA BodyTyped ==
  ASSUME NEW r, NEW buf \in Seq(Tokens), NEW n \in Nat, r.checked \in Nat
  PROVE  BodyOf(r, buf, n) \in Seq(Tokens \cup {NUL})
<1> DEFINE Byte(i) == IF r.checked + i =< Len(buf) THEN buf[r.checked + i] ELSE NUL
<1>1. \A i \in 1..n : Byte(i) \in Tokens \cup {NUL}
  OBVIOUS
<1>2. BodyOf(r, buf, n) = [i \in 1..n |-> Byte(i)]
  BY DEF BodyOf
<1> HIDE DEF Byte
<1> QED  BY <1>1, <1>2

(* How the members change together: a parser whose request line is read    *)
(* keeps its path, and the indices only go up to what has been read.       *)
LEMMA BodyParsed ==
  ASSUME NEW buf \in Seq(Tokens), NEW r, Parsing(r, buf)
  PROVE  /\ Parsing(ParseBody(r, buf), buf)
         /\ ParseBody(r, buf).path = r.path /\ ParseBody(r, buf).state = r.state
<1> DEFINE n == GetHeader(r, "Content-Length", 0)
           bytes == BodyOf(r, buf, n)
           form == ParseFormUrlencoded(bytes)
           cleared == [r EXCEPT !.post = NoPost]
           post == IF r.headers["Content-Type"] = "application/x-www-form-urlencoded"
                   THEN form ELSE NoPost
           filled == [cleared EXCEPT !.body = bytes, !.post = post]
<1>1. n \in Nat /\ r.checked \in Nat /\ r \in Parsers
  BY DEF Parsing, GetHeader, Parsers
<1>2. bytes \in Seq(Tokens \cup {NUL})
  BY <1>1, BodyTyped
<1>3. form \in [FormFields -> {Absent} \cup Texts]
  <2> HIDE DEF bytes
  <2> QED  BY <1>2, FormTyped
<1>4. NoPost \in [FormFields -> {Absent} \cup Texts]
  BY DEF NoPost
<1> HIDE DEF bytes, form, n
<1>5. post \in [FormFields -> {Absent} \cup Texts]
  BY <1>3, <1>4
<1> HIDE DEF post
<1>6. /\ cleared \in Parsers /\ filled \in Parsers
      /\ \A f \in {"state", "checked", "path", "headers"} : cleared[f] = r[f] /\ filled[f] = r[f]
  BY <1>1, <1>2, <1>4, <1>5 DEF Parsers
<1>7. ParseBody(r, buf) \in {cleared, filled}
  BY DEF ParseBody, n, bytes, form, post
<1> HIDE DEF cleared, filled
<1>8. /\ Parsing(cleared, buf) /\ cleared.path = r.path /\ cleared.state = r.state
      /\ Parsing(filled, buf) /\ filled.path = r.path /\ filled.state = r.state
  BY <1>6 DEF Parsing
<1> QED  BY <1>7, <1>8
(* parseLine() moves checked_idx_ alone, to where the line ends or the     *)
(* input does.                                                             *)
LEMMA LineParsed ==
  ASSUME NEW buf \in Seq(Tokens), NEW r, Parsing(r, buf)
  PROVE  /\ ParseLine(r, buf).status \in {"OPEN", "BAD", "OK"}
         /\ \E k \in 0..Len(buf) : ParseLine(r, buf).req = [r EXCEPT !.checked = k]
         /\ r.state \in {"REQUEST_LINE", "HEADERS"} /\ ParseLine(r, buf).status = "OK"
              => ParseLine(r, buf).req.checked >= 2
<1> DEFINE ends == LineEnds(r, buf)
           i == Min(ends)
           open == IF ends = {} THEN Len(buf) ELSE i
<1>1. r \in Parsers /\ r.checked \in 0..Len(buf) /\ Len(buf) \in Nat
  BY DEF Parsing, Parsers
<1>2. ends # {} => i \in 0..(Len(buf) - 1)
  <2>1. ends \in SUBSET Nat /\ ends \in SUBSET (0..(Len(buf) - 1))
    BY <1>1 DEF LineEnds
  <2> HIDE DEF ends
  <2>2. ends # {} => i \in ends
    BY <2>1, MinIsMember
  <2> QED  BY <2>1, <2>2
<1>3. r = [r EXCEPT !.checked = r.checked]
  BY <1>1 DEF Parsers
<1>4. open \in 0..Len(buf) /\ OpenAt(r, buf) = [r EXCEPT !.checked = open]
  BY <1>1, <1>2 DEF OpenAt
<1>5. ends # {} => i \in 0..Len(buf)
  BY <1>1, <1>2
<1>6. ends # {} /\ CrLf(i, buf) => i + 2 \in 0..Len(buf) /\ i + 2 >= 2
  BY <1>1, <1>2 DEF CrLf
<1> DEFINE opened == [req |-> [r EXCEPT !.checked = open], status |-> "OPEN"]
           passed == [req |-> [r EXCEPT !.checked = i + 2], status |-> "OK"]
           broken == [req |-> [r EXCEPT !.checked = i], status |-> "BAD"]
           parsed == ParseLine(r, buf)
<1>7. \/ r.state \in {"BODY", "FINISH"} /\ parsed = [req |-> r, status |-> "OK"]
      \/ parsed = opened
      \/ ends # {} /\ CrLf(i, buf) /\ parsed = passed
      \/ ends # {} /\ parsed = broken
  BY <1>4 DEF ParseLine
<1> HIDE DEF parsed, ends, i, open
<1>8. CASE r.state \in {"BODY", "FINISH"} /\ parsed = [req |-> r, status |-> "OK"]
  BY <1>1, <1>3, <1>8 DEF parsed
<1>9. CASE parsed = opened
  BY <1>4, <1>9 DEF parsed
<1>10. CASE ends # {} /\ CrLf(i, buf) /\ parsed = passed
  <2>1. [r EXCEPT !.checked = i + 2].checked = i + 2
    BY <1>1 DEF Parsers
  <2>2. parsed.status = "OK" /\ parsed.req = [r EXCEPT !.checked = i + 2]
    BY <1>10
  <2>3. parsed.req.checked >= 2
    BY <1>6, <1>10, <2>1, <2>2
  <2>4. \E k \in 0..Len(buf) : parsed.req = [r EXCEPT !.checked = k]
    BY <1>6, <1>10, <2>2
  <2> QED  BY <2>2, <2>3, <2>4 DEF parsed
<1>11. CASE ends # {} /\ parsed = broken
  BY <1>5, <1>11 DEF parsed
<1> QED  BY <1>7, <1>8, <1>9, <1>10, <1>11

(* A request line or a header that parses sets its members to what the     *)
(* token carries.                                                          *)
LEMMA RequestLineParsed ==
  ASSUME NEW buf \in Seq(Tokens), NEW r, Parsing(r, buf), r.state = "REQUEST_LINE",
         NEW text \in Seq(Tokens)
  PROVE  LET first == ParseRequestLine(r, text)
         IN  /\ Parsing(first.req, buf) /\ first.req.state = r.state
             /\ first.ok => first.req.path \in Paths
<1> DEFINE t == text[1]
           ok == /\ t.method \in {"GET", "get", "POST", "post"}
                 /\ t.version = "HTTP/1.1"
           path == IF ok /\ t.path = "/" THEN "/login.html" ELSE t.path
           req == [r EXCEPT !.method = t.method, !.path = path, !.version = t.version]
<1>1. CASE Len(text) = 1 /\ t.is = "line"
  <2>1. t.method \in Strings /\ t.path \in Paths /\ t.version \in Strings
    <3>1. t \in Tokens
      BY <1>1
    <3> QED  BY <1>1, <3>1, TokenKinds
  <2>2. path \in Paths
    BY <2>1, HttpConnectionAssumption
  <2>3. ParseRequestLine(r, text) = [req |-> req, ok |-> ok]
    BY <1>1 DEF ParseRequestLine
  <2> HIDE DEF path, t, ok
  <2>4. /\ req \in Parsers /\ req.path = path
        /\ \A f \in {"state", "checked", "headers"} : req[f] = r[f]
    BY <2>1, <2>2, HttpConnectionAssumption DEF Parsing, Parsers
  <2> HIDE DEF req
  <2> QED  BY <2>2, <2>3, <2>4 DEF Parsing
<1>2. CASE ~(Len(text) = 1 /\ t.is = "line")
  <2>1. ParseRequestLine(r, text) = [req |-> r, ok |-> FALSE]
    BY <1>2 DEF ParseRequestLine
  <2> QED  BY <2>1
<1> QED  BY <1>1, <1>2

(* ParseHeader stores a value and moves no index.                          *)
LEMMA HeaderParsed ==
  ASSUME NEW buf \in Seq(Tokens), NEW r, Parsing(r, buf), r.state = "HEADERS",
         NEW text \in Seq(Tokens)
  PROVE  /\ Parsing(ParseHeader(r, text).req, buf)
         /\ ParseHeader(r, text).req.state = r.state
<1> DEFINE t == text[1]
           req == [r EXCEPT !.headers[t.name] = t.value]
<1>1. CASE Len(text) = 1 /\ t.is = "header"
  <2>1. t \in Headers
    <3>1. t \in Tokens
      BY <1>1
    <3> QED  BY <1>1, <3>1, TokenKinds
  <2>2. /\ t.name \in HeaderNames /\ t.value \in HeaderValues
        /\ t.name = "Content-Length" => t.value \in Nat
        /\ t.name = "Cookie" => t.value \in Cookies
    BY <2>1, RequestAssumption DEF Headers, HeaderValues
  <2>3. ParseHeader(r, text) = [req |-> req, ok |-> TRUE]
    BY <1>1 DEF ParseHeader
  <2> HIDE DEF t
  <2> DEFINE headers == [r.headers EXCEPT ![t.name] = t.value]
  <2>4. r \in Parsers /\ r.headers \in [HeaderNames -> {Absent} \cup HeaderValues]
    BY DEF Parsing, Parsers
  <2>5. /\ headers \in [HeaderNames -> {Absent} \cup HeaderValues]
        /\ headers["Content-Length"] \in {Absent} \cup Nat
        /\ headers["Cookie"] \in {Absent} \cup Cookies
    BY <2>2, <2>4, RequestAssumption DEF Parsing
  <2>6. req = [r EXCEPT !.headers = headers]
    BY <2>4 DEF Parsers
  <2> HIDE DEF headers, req
  <2>7. /\ req \in Parsers /\ req.headers = headers
        /\ \A f \in {"state", "checked", "path"} : req[f] = r[f]
    BY <2>4, <2>5, <2>6 DEF Parsers
  <2> QED  BY <2>3, <2>5, <2>7 DEF Parsing
<1>2. CASE ~(Len(text) = 1 /\ t.is = "header")
  <2>1. ParseHeader(r, text) = [req |-> r, ok |-> FALSE]
    BY <1>2 DEF ParseHeader
  <2> QED  BY <2>1
<1> QED  BY <1>1, <1>2
(* One turn of parse(): the parser stays well-formed, and is past the      *)
(* request line unless the turn failed or ran out of input.                *)
Turned(turn, buf) ==
  /\ Parsing(turn.req, buf)
  /\ turn.result \in {"MORE", "INCOMPLETE", "ERROR", "SUCCESS"}
  /\ turn.result \in {"MORE", "SUCCESS"} => turn.req.state # "REQUEST_LINE"

(* A turn of the loop in parse(), whichever state it begins in.            *)
LEMMA TurnParsed ==
  ASSUME NEW buf \in Seq(Tokens), NEW r, Parsing(r, buf)
  PROVE  Turned(ParseTurn(r, buf), buf)
<1> DEFINE line == ParseLine(r, buf)
           text == SubSeq(buf, r.start + 1, line.req.checked - 2)
           at == [line.req EXCEPT !.start = line.req.checked]
           first == ParseRequestLine(at, text)
           header == ParseHeader(at, text)
           body == ParseBody(at, buf)
<1>1. r \in Parsers /\ r.start \in Nat /\ r.checked \in Nat
  BY DEF Parsing, Parsers
<1>2. line.status \in {"OPEN", "BAD", "OK"}
  BY LineParsed
<1>3. PICK k \in 0..Len(buf) : line.req = [r EXCEPT !.checked = k]
  BY LineParsed
<1>4. r.state \in {"REQUEST_LINE", "HEADERS"} /\ line.status = "OK" => line.req.checked >= 2
  BY LineParsed
<1> HIDE DEF line
<1>5. /\ line.req \in Parsers /\ line.req.checked = k
      /\ \A f \in {"state", "path", "headers"} : line.req[f] = r[f]
  BY <1>1, <1>3 DEF Parsers
<1>6. Parsing(line.req, buf)
  BY <1>5 DEF Parsing
<1>7. /\ at \in Parsers /\ at.checked = k
      /\ \A f \in {"state", "path", "headers"} : at[f] = r[f]
  BY <1>5 DEF Parsers
<1>8. Parsing(at, buf)
  BY <1>6, <1>7 DEF Parsing
<1>9. r.state \in {"REQUEST_LINE", "HEADERS"} /\ line.status = "OK" => text \in Seq(Tokens)
  <2>1. r.start + 1 \in Int /\ line.req.checked - 2 \in Int
    BY <1>1, <1>5
  <2>2. \A i \in (r.start + 1)..(line.req.checked - 2) : buf[i] \in Tokens
    BY <1>1, <1>5
  <2> QED  BY <2>1, <2>2, SubSeqProperties
<1> HIDE DEF at, text
<1>10. CASE line.status = "OPEN"
  <2>1. ParseTurn(r, buf) = [req |-> line.req, result |-> "INCOMPLETE"]
    BY <1>10 DEF ParseTurn, Turn, line, at, text
  <2> QED  BY <1>6, <2>1 DEF Turned
<1>11. CASE line.status = "BAD"
  <2>1. ParseTurn(r, buf) = [req |-> line.req, result |-> "ERROR"]
    BY <1>11 DEF ParseTurn, Turn, line, at, text
  <2> QED  BY <1>6, <2>1 DEF Turned
<1>12. CASE line.status = "OK" /\ r.state = "REQUEST_LINE"
  <2>1. Parsing(first.req, buf) /\ (first.ok => first.req.path \in Paths)
    BY <1>7, <1>8, <1>9, <1>12, RequestLineParsed
  <2> DEFINE next == [first.req EXCEPT !.state = "HEADERS"]
  <2>2. ParseTurn(r, buf) =
          IF first.ok
          THEN [req |-> next, result |-> "MORE"]
          ELSE [req |-> first.req, result |-> "ERROR"]
    BY <1>12 DEF ParseTurn, Turn, line, at, text
  <2> HIDE DEF first
  <2>3. /\ next \in Parsers /\ next.state = "HEADERS"
        /\ \A f \in {"checked", "path", "headers"} : next[f] = first.req[f]
    BY <2>1 DEF Parsing, Parsers
  <2> HIDE DEF next
  <2>4. first.ok => Parsing(next, buf)
    BY <2>1, <2>3 DEF Parsing
  <2> QED  BY <2>1, <2>2, <2>3, <2>4 DEF Turned
<1>13. CASE line.status = "OK" /\ r.state = "HEADERS"
  <2>1. Parsing(header.req, buf) /\ header.req.state = "HEADERS"
    BY <1>7, <1>8, <1>9, <1>13, HeaderParsed
  <2> DEFINE next == [at EXCEPT !.state = "BODY"]
  <2>2. ParseTurn(r, buf) =
          IF text = <<>> THEN [req |-> next, result |-> "MORE"]
          ELSE [req |-> header.req, result |-> IF header.ok THEN "MORE" ELSE "ERROR"]
    BY <1>13 DEF ParseTurn, Turn, line, at, text
  <2> HIDE DEF header
  <2>3. /\ next \in Parsers /\ next.state = "BODY"
        /\ \A f \in {"checked", "path", "headers"} : next[f] = at[f]
    BY <1>7 DEF Parsers
  <2> HIDE DEF next
  <2>4. Parsing(next, buf)
    BY <1>7, <1>8, <1>13, <2>3 DEF Parsing
  <2> QED  BY <2>1, <2>2, <2>3, <2>4 DEF Turned
<1>14. CASE line.status = "OK" /\ r.state = "BODY"
  <2>1. Parsing(body, buf) /\ body.path = at.path /\ body.state = at.state
    BY <1>8, BodyParsed
  <2> DEFINE next == [body EXCEPT !.state = "FINISH"]
  <2>2. ParseTurn(r, buf) = [req |-> next, result |-> "MORE"]
    BY <1>14 DEF ParseTurn, Turn, line, at, text
  <2> HIDE DEF body
  <2>3. /\ next \in Parsers /\ next.state = "FINISH"
        /\ \A f \in {"checked", "path", "headers"} : next[f] = body[f]
    BY <2>1 DEF Parsing, Parsers
  <2> HIDE DEF next
  <2>4. Parsing(next, buf)
    BY <1>7, <1>14, <2>1, <2>3 DEF Parsing
  <2> QED  BY <2>2, <2>3, <2>4 DEF Turned
<1>15. CASE line.status = "OK" /\ r.state = "FINISH"
  <2>1. ParseTurn(r, buf) = [req |-> at, result |-> "SUCCESS"]
    BY <1>15 DEF ParseTurn, Turn, line, at, text
  <2> QED  BY <1>7, <1>8, <1>15, <2>1 DEF Turned
<1> QED  BY <1>1, <1>2, <1>10, <1>11, <1>12, <1>13, <1>14, <1>15 DEF Parsers
-----------------------------------------------------------------------------
(* parse() on input that comes in pieces.                                  *)

(* A buffer and what it grows into.                                        *)
Begins(buf, more) == Len(buf) =< Len(more) /\ \A i \in 1..Len(buf) : more[i] = buf[i]

(* Where the first line end is, if there is one.                           *)
LEMMA FirstEnd ==
  ASSUME NEW buf \in Seq(Tokens), NEW r, Parsing(r, buf), LineEnds(r, buf) # {}
  PROVE  /\ Min(LineEnds(r, buf)) \in LineEnds(r, buf)
         /\ \A i \in LineEnds(r, buf) : Min(LineEnds(r, buf)) =< i
         /\ Min(LineEnds(r, buf)) \in 0..(Len(buf) - 1)
<1> DEFINE ends == LineEnds(r, buf)
<1>1. r.checked \in Nat /\ Len(buf) \in Nat
  BY DEF Parsing, Parsers
<1>2. ends \in SUBSET Nat /\ ends \in SUBSET (0..(Len(buf) - 1))
  BY <1>1 DEF LineEnds
<1> HIDE DEF ends
<1>3. ends # {} => Min(ends) \in ends /\ \A i \in ends : Min(ends) =< i
  BY <1>2, MinIsMember
<1>4. ends # {} => Min(ends) \in 0..(Len(buf) - 1)
  BY <1>2, <1>3
<1> QED  BY <1>3, <1>4 DEF ends

(* The number that is in a set and not above any other member.             *)
LEMMA MinIs ==
  ASSUME NEW S \in SUBSET Nat, NEW m \in S, \A x \in S : m =< x
  PROVE  Min(S) = m
<1>1. Min(S) \in S /\ Min(S) =< m
  BY MinIsMember
<1>2. m =< Min(S) /\ m \in Nat /\ Min(S) \in Nat
  BY <1>1
<1> QED  BY <1>1, <1>2

(* A line that parseLine() finds whole in what has been read so far is the *)
(* line it finds when there is more.                                       *)
LEMMA LineStays ==
  ASSUME NEW buf \in Seq(Tokens), NEW more \in Seq(Tokens), Begins(buf, more),
         NEW r, Parsing(r, buf), r.state \in {"REQUEST_LINE", "HEADERS"},
         ParseLine(r, buf).status = "OK"
  PROVE  /\ ParseLine(r, more) = ParseLine(r, buf)
         /\ ParseLine(r, buf).req.checked \in (r.checked + 2)..Len(buf)
         /\ ParseLine(r, buf).req = [r EXCEPT !.checked = ParseLine(r, buf).req.checked]
<1> DEFINE i == Min(LineEnds(r, buf))
<1>1. r.checked \in Nat /\ Len(buf) \in Nat /\ Len(more) \in Nat /\ Len(buf) =< Len(more)
  BY DEF Parsing, Parsers, Begins
<1>2. LineEnds(r, buf) # {} /\ ~CrIsLast(i, buf) /\ CrLf(i, buf)
  BY DEF ParseLine
<1>3. /\ i \in LineEnds(r, buf) /\ i \in 0..(Len(buf) - 1)
      /\ \A j \in LineEnds(r, buf) : i =< j
  BY <1>2, FirstEnd
<1>4. i \in r.checked..(Len(buf) - 1)
  BY <1>3 DEF LineEnds
<1>5. LineEnds(r, more) # {} /\ Min(LineEnds(r, more)) = i
  <2>1. LineEnds(r, more) \in SUBSET Nat
    BY <1>1 DEF LineEnds
  <2> HIDE DEF i
  <2>2. i \in LineEnds(r, more)
    BY <1>1, <1>3, <1>4 DEF LineEnds, Begins
  <2>3. ASSUME NEW j \in LineEnds(r, more) PROVE i =< j
    <3>1. j \in r.checked..(Len(more) - 1) /\ more[j + 1] \in {CR, LF}
      BY <2>3 DEF LineEnds
    <3>2. CASE j < Len(buf)
      <4>1. j \in r.checked..(Len(buf) - 1) /\ buf[j + 1] = more[j + 1]
        BY <1>1, <3>1, <3>2 DEF Begins
      <4>2. j \in LineEnds(r, buf)
        BY <3>1, <4>1 DEF LineEnds
      <4> QED  BY <1>3, <4>2
    <3>3. CASE j >= Len(buf)
      BY <1>1, <1>3, <3>1, <3>3
    <3> QED  BY <1>1, <3>1, <3>2, <3>3
  <2> QED  BY <2>1, <2>2, <2>3, MinIs
<1>6. ~CrIsLast(i, more) /\ CrLf(i, more)
  <2> HIDE DEF i
  <2> QED  BY <1>1, <1>2, <1>3 DEF CrIsLast, CrLf, Begins
<1>7. ParseLine(r, buf) = [req |-> [r EXCEPT !.checked = i + 2], status |-> "OK"]
  <2> HIDE DEF i
  <2> QED  BY <1>2 DEF ParseLine, i
<1>8. ParseLine(r, more) = [req |-> [r EXCEPT !.checked = i + 2], status |-> "OK"]
  BY <1>5, <1>6 DEF ParseLine
<1>9. [r EXCEPT !.checked = i + 2].checked = i + 2
  BY DEF Parsing, Parsers
<1>10. i + 2 \in (r.checked + 2)..Len(buf)
  BY <1>1, <1>2, <1>4 DEF CrLf
<1> HIDE DEF i
<1>11. ParseLine(r, buf).req = [r EXCEPT !.checked = i + 2]
  BY <1>7
<1>12. ParseLine(r, buf).req.checked = i + 2
  BY <1>9, <1>11
<1> QED  BY <1>7, <1>8, <1>10, <1>11, <1>12

(* A line that was open is looked at again from where it was left, with    *)
(* what has come, as it would be from where the parser stood before.       *)
LEMMA LineLookedAtAgain ==
  ASSUME NEW buf \in Seq(Tokens), NEW more \in Seq(Tokens), Begins(buf, more),
         NEW r, Parsing(r, buf), ParseLine(r, buf).status = "OPEN"
  PROVE  LET left == ParseLine(r, buf).req
         IN  /\ ParseLine(left, more) = ParseLine(r, more)
             /\ left = [r EXCEPT !.checked = left.checked]
             /\ r.state \in {"REQUEST_LINE", "HEADERS"}
<1> DEFINE ends == LineEnds(r, buf)
           i == Min(ends)
           left == ParseLine(r, buf).req
           k == IF ends = {} THEN Len(buf) ELSE i
<1>1. /\ r \in Parsers /\ r.checked \in 0..Len(buf) /\ Len(buf) \in Nat /\ Len(more) \in Nat
      /\ Len(buf) =< Len(more)
  BY DEF Parsing, Parsers, Begins
<1>2. /\ r.state \in {"REQUEST_LINE", "HEADERS"}
      /\ ends = {} \/ CrIsLast(i, buf)
      /\ left = [r EXCEPT !.checked = k]
  BY <1>1 DEF ParseLine, OpenAt, Parsers
<1>3. ends # {} => i \in ends /\ i \in 0..(Len(buf) - 1) /\ \A j \in ends : i =< j
  BY FirstEnd
<1>4. ends # {} => i \in r.checked..(Len(buf) - 1)
  BY <1>3 DEF LineEnds
<1> HIDE DEF i
<1>5. k \in r.checked..Len(buf) /\ \A j \in r.checked..(k - 1) : j \notin ends
  BY <1>1, <1>3, <1>4
<1>11. k \in Nat
  BY <1>1, <1>5
<1> HIDE DEF k, left
<1>6. left \in Parsers /\ left.checked = k /\ left.state = r.state
  BY <1>1, <1>2, <1>11 DEF Parsers
<1>7. LineEnds(left, more) = LineEnds(r, more)
  <2>1. ASSUME NEW j \in r.checked..(Len(more) - 1), more[j + 1] \in {CR, LF} PROVE j >= k
    <3>1. CASE j < k
      <4>1. j \in r.checked..(Len(buf) - 1) /\ buf[j + 1] = more[j + 1]
        BY <1>1, <1>5, <3>1 DEF Begins
      <4>2. j \in ends /\ j \in r.checked..(k - 1)
        BY <1>1, <1>5, <2>1, <3>1, <4>1 DEF LineEnds
      <4> QED  BY <1>5, <4>2
    <3> QED  BY <1>1, <1>5, <3>1
  <2> QED  BY <1>1, <1>5, <1>6, <2>1 DEF LineEnds
<1>8. \A x : [left EXCEPT !.checked = x] = [r EXCEPT !.checked = x]
  BY <1>2
<1>9. OpenAt(left, more) = OpenAt(r, more)
  BY <1>7, <1>8 DEF OpenAt
<1>10. ParseLine(left, more) = ParseLine(r, more)
  BY <1>2, <1>6, <1>7, <1>8, <1>9 DEF ParseLine
<1> QED  BY <1>2, <1>6, <1>10 DEF left

(* Two parsers that differ at most in the body they have taken.            *)
Alike(r, s) ==
  /\ r.state = s.state /\ r.start = s.start /\ r.checked = s.checked
  /\ r.method = s.method /\ r.version = s.version /\ r.headers = s.headers
  /\ r.path = s.path

(* parseLine() does not look at the body.                                  *)
LEMMA LinesAlike ==
  ASSUME NEW buf, NEW r \in Parsers, NEW s \in Parsers, Alike(r, s)
  PROVE  /\ ParseLine(r, buf).status = ParseLine(s, buf).status
         /\ Alike(ParseLine(r, buf).req, ParseLine(s, buf).req)
<1> DEFINE ends == LineEnds(r, buf)
           i == Min(ends)
           k == IF ends = {} THEN Len(buf) ELSE i
<1>1. LineEnds(s, buf) = ends
  BY DEF LineEnds, Alike
<1>2. r.state = s.state /\ r = [r EXCEPT !.checked = r.checked] /\ s = [s EXCEPT !.checked = r.checked]
  BY DEF Alike, Parsers
<1>3. OpenAt(r, buf) = [r EXCEPT !.checked = k] /\ OpenAt(s, buf) = [s EXCEPT !.checked = k]
  BY <1>1 DEF OpenAt
<1> HIDE DEF ends, i, k
<1>8. Alike(r, s) /\ \A x : Alike([r EXCEPT !.checked = x], [s EXCEPT !.checked = x])
  BY DEF Alike, Parsers
<1>4. CASE r.state \in {"BODY", "FINISH"}
  <2>1. /\ ParseLine(r, buf) = [req |-> r, status |-> "OK"]
        /\ ParseLine(s, buf) = [req |-> s, status |-> "OK"]
    BY <1>2, <1>4 DEF ParseLine
  <2> QED  BY <1>8, <2>1
<1>5. CASE r.state \notin {"BODY", "FINISH"} /\ (ends = {} \/ CrIsLast(i, buf))
  <2>1. /\ ParseLine(r, buf) = [req |-> [r EXCEPT !.checked = k], status |-> "OPEN"]
        /\ ParseLine(s, buf) = [req |-> [s EXCEPT !.checked = k], status |-> "OPEN"]
    BY <1>1, <1>2, <1>3, <1>5 DEF ParseLine, ends, i
  <2>2. /\ ParseLine(r, buf).req = [r EXCEPT !.checked = k] /\ ParseLine(r, buf).status = "OPEN"
        /\ ParseLine(s, buf).req = [s EXCEPT !.checked = k] /\ ParseLine(s, buf).status = "OPEN"
    BY <2>1
  <2> QED  BY <1>8, <2>2
<1>6. CASE r.state \notin {"BODY", "FINISH"} /\ ~(ends = {} \/ CrIsLast(i, buf)) /\ CrLf(i, buf)
  <2>1. /\ ParseLine(r, buf) = [req |-> [r EXCEPT !.checked = i + 2], status |-> "OK"]
        /\ ParseLine(s, buf) = [req |-> [s EXCEPT !.checked = i + 2], status |-> "OK"]
    BY <1>1, <1>2, <1>6 DEF ParseLine, ends, i
  <2>2. /\ ParseLine(r, buf).req = [r EXCEPT !.checked = i + 2] /\ ParseLine(r, buf).status = "OK"
        /\ ParseLine(s, buf).req = [s EXCEPT !.checked = i + 2] /\ ParseLine(s, buf).status = "OK"
    BY <2>1
  <2> QED  BY <1>8, <2>2
<1>7. CASE r.state \notin {"BODY", "FINISH"} /\ ~(ends = {} \/ CrIsLast(i, buf)) /\ ~CrLf(i, buf)
  <2>1. /\ ParseLine(r, buf) = [req |-> [r EXCEPT !.checked = i], status |-> "BAD"]
        /\ ParseLine(s, buf) = [req |-> [s EXCEPT !.checked = i], status |-> "BAD"]
    BY <1>1, <1>2, <1>7 DEF ParseLine, ends, i
  <2>2. /\ ParseLine(r, buf).req = [r EXCEPT !.checked = i] /\ ParseLine(r, buf).status = "BAD"
        /\ ParseLine(s, buf).req = [s EXCEPT !.checked = i] /\ ParseLine(s, buf).status = "BAD"
    BY <2>1
  <2> QED  BY <1>8, <2>2
<1> QED  BY <1>4, <1>5, <1>6, <1>7

(* parseBody() changes nothing but the body and the form.                  *)
LEMMA BodyAlone ==
  ASSUME NEW r \in Parsers, NEW buf
  PROVE  Alike(ParseBody(r, buf), r)
<1> DEFINE bytes == BodyOf(r, buf, GetHeader(r, "Content-Length", 0))
           post == IF r.headers["Content-Type"] = "application/x-www-form-urlencoded"
                   THEN ParseFormUrlencoded(bytes) ELSE NoPost
           cleared == [r EXCEPT !.post = NoPost]
           filled == [cleared EXCEPT !.body = bytes, !.post = post]
<1>1. ParseBody(r, buf) \in {cleared, filled}
  BY DEF ParseBody
<1> HIDE DEF bytes, post
<1>2. Alike(cleared, r) /\ Alike(filled, r)
  BY DEF Alike, Parsers
<1> QED  BY <1>1, <1>2

(* A request line or a header line is taken the same.                      *)
LEMMA WordsAlike ==
  ASSUME NEW r \in Parsers, NEW s \in Parsers, Alike(r, s), NEW text
  PROVE  /\ ParseRequestLine(r, text).ok = ParseRequestLine(s, text).ok
         /\ Alike(ParseRequestLine(r, text).req, ParseRequestLine(s, text).req)
         /\ ParseHeader(r, text).ok = ParseHeader(s, text).ok
         /\ Alike(ParseHeader(r, text).req, ParseHeader(s, text).req)
<1> DEFINE t == text[1]
           ok == /\ t.method \in {"GET", "get", "POST", "post"}
                 /\ t.version = "HTTP/1.1"
           path == IF ok /\ t.path = "/" THEN "/login.html" ELSE t.path
           lined(q) == [q EXCEPT !.method = t.method, !.path = path, !.version = t.version]
           headed(q) == [q EXCEPT !.headers[t.name] = t.value]
<1>1. Alike(lined(r), lined(s))
  <2> HIDE DEF ok, path, t
  <2> QED  BY DEF Alike, Parsers
<1>2. Alike(headed(r), headed(s))
  <2> HIDE DEF ok, path, t
  <2>1. r.headers = s.headers
    BY DEF Alike
  <2>2. \A q \in Parsers : headed(q) = [q EXCEPT !.headers = [q.headers EXCEPT ![t.name] = t.value]]
    BY DEF Parsers
  <2>3. \A h : \A q \in Parsers :
          LET p == [q EXCEPT !.headers = h]
          IN  /\ p.headers = h
              /\ \A f \in {"state", "start", "checked", "method", "version", "path"} : p[f] = q[f]
    BY DEF Parsers
  <2> QED  BY <2>1, <2>2, <2>3 DEF Alike
<1>3. \A q : ParseRequestLine(q, text) = IF Len(text) = 1 /\ t.is = "line"
                                         THEN [req |-> lined(q), ok |-> ok]
                                         ELSE [req |-> q, ok |-> FALSE]
  BY DEF ParseRequestLine
<1>4. \A q : ParseHeader(q, text) = IF Len(text) = 1 /\ t.is = "header"
                                    THEN [req |-> headed(q), ok |-> TRUE]
                                    ELSE [req |-> q, ok |-> FALSE]
  BY DEF ParseHeader
<1> HIDE DEF lined, headed, ok
<1>5. /\ ParseRequestLine(r, text).ok = ParseRequestLine(s, text).ok
      /\ Alike(ParseRequestLine(r, text).req, ParseRequestLine(s, text).req)
  <2>1. CASE Len(text) = 1 /\ t.is = "line"
    <3>1. /\ ParseRequestLine(r, text) = [req |-> lined(r), ok |-> ok]
          /\ ParseRequestLine(s, text) = [req |-> lined(s), ok |-> ok]
      BY <1>3, <2>1
    <3> QED  BY <1>1, <3>1
  <2>2. CASE ~(Len(text) = 1 /\ t.is = "line")
    <3>1. /\ ParseRequestLine(r, text) = [req |-> r, ok |-> FALSE]
          /\ ParseRequestLine(s, text) = [req |-> s, ok |-> FALSE]
      BY <1>3, <2>2
    <3> QED  BY <3>1
  <2> QED  BY <2>1, <2>2
<1>6. /\ ParseHeader(r, text).ok = ParseHeader(s, text).ok
      /\ Alike(ParseHeader(r, text).req, ParseHeader(s, text).req)
  <2>1. CASE Len(text) = 1 /\ t.is = "header"
    <3>1. /\ ParseHeader(r, text) = [req |-> headed(r), ok |-> TRUE]
          /\ ParseHeader(s, text) = [req |-> headed(s), ok |-> TRUE]
      BY <1>4, <2>1
    <3> QED  BY <1>2, <3>1
  <2>2. CASE ~(Len(text) = 1 /\ t.is = "header")
    <3>1. /\ ParseHeader(r, text) = [req |-> r, ok |-> FALSE]
          /\ ParseHeader(s, text) = [req |-> s, ok |-> FALSE]
      BY <1>4, <2>2
    <3> QED  BY <3>1
  <2> QED  BY <2>1, <2>2
<1> QED  BY <1>5, <1>6

(* What a turn has in hand once parseLine() has found a line: the parser   *)
(* past this line, its text, and what the three ways on make of them.      *)
LEMMA LineTaken ==
  ASSUME NEW buf \in Seq(Tokens), NEW r, Parsing(r, buf), ParseLine(r, buf).status = "OK"
  PROVE  LET line == ParseLine(r, buf)
             text == SubSeq(buf, r.start + 1, line.req.checked - 2)
             at == [line.req EXCEPT !.start = line.req.checked]
         IN  /\ at \in Parsers /\ Parsing(at, buf)
             /\ at.state = r.state /\ at.checked = line.req.checked /\ at.start = line.req.checked
             /\ at.method = r.method /\ at.version = r.version /\ at.headers = r.headers
             /\ at.path = r.path
             /\ r.state \in {"REQUEST_LINE", "HEADERS"} => text \in Seq(Tokens)
             /\ r.state = "REQUEST_LINE" => ParseRequestLine(at, text).req \in Parsers
             /\ r.state = "HEADERS" => ParseHeader(at, text).req \in Parsers
             /\ ParseBody(at, buf) \in Parsers
<1> DEFINE line == ParseLine(r, buf)
           text == SubSeq(buf, r.start + 1, line.req.checked - 2)
           at == [line.req EXCEPT !.start = line.req.checked]
<1>1. r \in Parsers /\ r.start \in Nat /\ r.checked \in Nat
  BY DEF Parsing, Parsers
<1>2. PICK k \in 0..Len(buf) : line.req = [r EXCEPT !.checked = k]
  BY LineParsed
<1>3. r.state \in {"REQUEST_LINE", "HEADERS"} => line.req.checked >= 2
  BY LineParsed
<1>4. line.status = "OK"
  OBVIOUS
<1> HIDE DEF line
<1>5. /\ line.req \in Parsers /\ line.req.checked = k
      /\ \A f \in {"state", "method", "version", "path", "headers"} : line.req[f] = r[f]
  BY <1>1, <1>2 DEF Parsers
<1>6. /\ at \in Parsers /\ at.checked = k /\ at.start = k
      /\ \A f \in {"state", "method", "version", "path", "headers"} : at[f] = r[f]
  BY <1>5 DEF Parsers
<1>7. Parsing(at, buf)
  BY <1>6 DEF Parsing
<1>8. r.state \in {"REQUEST_LINE", "HEADERS"} => text \in Seq(Tokens)
  <2>1. r.start + 1 \in Int /\ line.req.checked - 2 \in Int
    BY <1>1, <1>5
  <2>2. r.state \in {"REQUEST_LINE", "HEADERS"} =>
          \A i \in (r.start + 1)..(line.req.checked - 2) : buf[i] \in Tokens
    BY <1>1, <1>3, <1>5
  <2> QED  BY <2>1, <2>2, SubSeqProperties
<1> HIDE DEF at, text
<1>9. r.state = "REQUEST_LINE" => ParseRequestLine(at, text).req \in Parsers
  BY <1>6, <1>7, <1>8, RequestLineParsed DEF Parsing
<1>10. r.state = "HEADERS" => ParseHeader(at, text).req \in Parsers
  BY <1>6, <1>7, <1>8, HeaderParsed DEF Parsing
<1>11. ParseBody(at, buf) \in Parsers
  BY <1>7, BodyParsed DEF Parsing
<1> QED  BY <1>5, <1>6, <1>7, <1>8, <1>9, <1>10, <1>11 DEF line, at, text

(* Two parsers that differ in the body take the same turn.                 *)
LEMMA TurnsAlike ==
  ASSUME NEW buf \in Seq(Tokens), NEW r, NEW s, Parsing(r, buf), Parsing(s, buf), Alike(r, s)
  PROVE  /\ ParseTurn(r, buf).result = ParseTurn(s, buf).result
         /\ Alike(ParseTurn(r, buf).req, ParseTurn(s, buf).req)
<1> DEFINE lineR == ParseLine(r, buf)
           lineS == ParseLine(s, buf)
           text == SubSeq(buf, r.start + 1, lineR.req.checked - 2)
           atR == [lineR.req EXCEPT !.start = lineR.req.checked]
           atS == [lineS.req EXCEPT !.start = lineS.req.checked]
<1>1. r \in Parsers /\ s \in Parsers /\ r.state = s.state /\ r.start = s.start
  BY DEF Parsing, Alike
<1>2. lineR.status = lineS.status /\ lineR.status \in {"OPEN", "BAD", "OK"}
  BY <1>1, LinesAlike, LineParsed
<1>3. Alike(lineR.req, lineS.req)
  BY <1>1, LinesAlike
<1>4. SubSeq(buf, s.start + 1, lineS.req.checked - 2) = text
  BY <1>1, <1>3 DEF Alike
<1>5. CASE lineR.status # "OK"
  <2>1. /\ ParseTurn(r, buf) = [req |-> lineR.req, result |-> IF lineR.status = "OPEN"
                                                            THEN "INCOMPLETE" ELSE "ERROR"]
        /\ ParseTurn(s, buf) = [req |-> lineS.req, result |-> IF lineR.status = "OPEN"
                                                            THEN "INCOMPLETE" ELSE "ERROR"]
    <3> HIDE DEF lineR, lineS
    <3> QED  BY <1>2, <1>5 DEF ParseTurn, Turn, lineR, lineS
  <2> HIDE DEF lineR, lineS
  <2> QED  BY <1>3, <2>1
<1>6. CASE lineR.status = "OK"
  <2>1. /\ atR \in Parsers
        /\ r.state = "REQUEST_LINE" => ParseRequestLine(atR, text).req \in Parsers
        /\ r.state = "HEADERS" => ParseHeader(atR, text).req \in Parsers
        /\ ParseBody(atR, buf) \in Parsers
        /\ atR.checked = lineR.req.checked /\ atR.start = lineR.req.checked
        /\ \A f \in {"state", "method", "version", "path", "headers"} : atR[f] = r[f]
    BY <1>6, LineTaken
  <2>2. /\ atS \in Parsers
        /\ s.state = "REQUEST_LINE" => ParseRequestLine(atS, text).req \in Parsers
        /\ s.state = "HEADERS" => ParseHeader(atS, text).req \in Parsers
        /\ ParseBody(atS, buf) \in Parsers
        /\ atS.checked = lineS.req.checked /\ atS.start = lineS.req.checked
        /\ \A f \in {"state", "method", "version", "path", "headers"} : atS[f] = s[f]
    <3>1. lineS.status = "OK"
      BY <1>2, <1>6
    <3> DEFINE textS == SubSeq(buf, s.start + 1, lineS.req.checked - 2)
    <3>2. /\ atS \in Parsers
          /\ s.state = "REQUEST_LINE" => ParseRequestLine(atS, textS).req \in Parsers
          /\ s.state = "HEADERS" => ParseHeader(atS, textS).req \in Parsers
          /\ ParseBody(atS, buf) \in Parsers
          /\ atS.checked = lineS.req.checked /\ atS.start = lineS.req.checked
          /\ \A f \in {"state", "method", "version", "path", "headers"} : atS[f] = s[f]
      BY <3>1, LineTaken
    <3>3. textS = text
      BY <1>4
    <3> HIDE DEF text, textS
    <3> QED  BY <3>2, <3>3
  <2>3. lineS.status = "OK"
    BY <1>2, <1>6
  <2> HIDE DEF lineR, lineS
  <2> HIDE DEF atR, atS
  <2>4. Alike(atR, atS)
    BY <1>3, <2>1, <2>2 DEF Alike
  <2> DEFINE firstR == ParseRequestLine(atR, text)
             firstS == ParseRequestLine(atS, text)
             headerR == ParseHeader(atR, text)
             headerS == ParseHeader(atS, text)
             bodyR == ParseBody(atR, buf)
             bodyS == ParseBody(atS, buf)
  <2>5. /\ firstR.ok = firstS.ok /\ Alike(firstR.req, firstS.req)
        /\ headerR.ok = headerS.ok /\ Alike(headerR.req, headerS.req)
    BY <2>1, <2>2, <2>4, WordsAlike
  <2>6. Alike(bodyR, bodyS)
    BY <2>1, <2>2, <2>4, BodyAlone DEF Alike
  <2>7. ASSUME NEW p \in Parsers, NEW q \in Parsers, Alike(p, q), NEW state
        PROVE  Alike([p EXCEPT !.state = state], [q EXCEPT !.state = state])
    BY <2>7 DEF Alike, Parsers
  <2>8. CASE r.state = "REQUEST_LINE"
    <3>1. ParseTurn(r, buf) =
            IF firstR.ok
            THEN [req |-> [firstR.req EXCEPT !.state = "HEADERS"], result |-> "MORE"]
            ELSE [req |-> firstR.req, result |-> "ERROR"]
      BY <1>6, <2>8 DEF ParseTurn, Turn, lineR, atR
    <3>2. ParseTurn(s, buf) =
            IF firstS.ok
            THEN [req |-> [firstS.req EXCEPT !.state = "HEADERS"], result |-> "MORE"]
            ELSE [req |-> firstS.req, result |-> "ERROR"]
      BY <1>1, <1>4, <2>3, <2>8 DEF ParseTurn, Turn, lineS, atS
    <3>3. Alike([firstR.req EXCEPT !.state = "HEADERS"], [firstS.req EXCEPT !.state = "HEADERS"])
      BY <1>1, <2>1, <2>2, <2>5, <2>7, <2>8
    <3> HIDE DEF firstR, firstS
    <3>4. CASE firstR.ok
      <4>1. /\ ParseTurn(r, buf) = [req |-> [firstR.req EXCEPT !.state = "HEADERS"], result |-> "MORE"]
            /\ ParseTurn(s, buf) = [req |-> [firstS.req EXCEPT !.state = "HEADERS"], result |-> "MORE"]
        BY <2>5, <3>1, <3>2, <3>4
      <4> QED  BY <3>3, <4>1
    <3>5. CASE ~firstR.ok
      <4>1. /\ ParseTurn(r, buf) = [req |-> firstR.req, result |-> "ERROR"]
            /\ ParseTurn(s, buf) = [req |-> firstS.req, result |-> "ERROR"]
        BY <2>5, <3>1, <3>2, <3>5
      <4> QED  BY <2>5, <4>1
    <3> QED  BY <3>4, <3>5
  <2>9. CASE r.state = "HEADERS" /\ text = <<>>
    <3>1. ParseTurn(r, buf) = [req |-> [atR EXCEPT !.state = "BODY"], result |-> "MORE"]
      BY <1>6, <2>9 DEF ParseTurn, Turn, lineR, atR
    <3>2. ParseTurn(s, buf) = [req |-> [atS EXCEPT !.state = "BODY"], result |-> "MORE"]
      BY <1>1, <1>4, <2>3, <2>9 DEF ParseTurn, Turn, lineS, atS
    <3>3. Alike([atR EXCEPT !.state = "BODY"], [atS EXCEPT !.state = "BODY"])
      BY <2>1, <2>2, <2>4, <2>7
    <3> QED  BY <3>1, <3>2, <3>3
  <2>10. CASE r.state = "HEADERS" /\ text # <<>>
    <3>1. ParseTurn(r, buf) = [req |-> headerR.req, result |-> IF headerR.ok THEN "MORE" ELSE "ERROR"]
      BY <1>6, <2>10 DEF ParseTurn, Turn, lineR, atR
    <3>2. ParseTurn(s, buf) = [req |-> headerS.req, result |-> IF headerR.ok THEN "MORE" ELSE "ERROR"]
      BY <1>1, <1>4, <2>3, <2>5, <2>10 DEF ParseTurn, Turn, lineS, atS
    <3> HIDE DEF headerR, headerS
    <3> QED  BY <2>5, <3>1, <3>2
  <2>11. CASE r.state = "BODY"
    <3>1. ParseTurn(r, buf) = [req |-> [bodyR EXCEPT !.state = "FINISH"], result |-> "MORE"]
      BY <1>6, <2>11 DEF ParseTurn, Turn, lineR, atR
    <3>2. ParseTurn(s, buf) = [req |-> [bodyS EXCEPT !.state = "FINISH"], result |-> "MORE"]
      BY <1>1, <2>3, <2>11 DEF ParseTurn, Turn, lineS, atS
    <3>3. Alike([bodyR EXCEPT !.state = "FINISH"], [bodyS EXCEPT !.state = "FINISH"])
      BY <2>1, <2>2, <2>6, <2>7
    <3> HIDE DEF bodyR, bodyS
    <3> QED  BY <3>1, <3>2, <3>3
  <2>12. CASE r.state = "FINISH"
    <3>1. ParseTurn(r, buf) = [req |-> atR, result |-> "SUCCESS"]
      BY <1>6, <2>12 DEF ParseTurn, Turn, lineR, atR
    <3>2. ParseTurn(s, buf) = [req |-> atS, result |-> "SUCCESS"]
      BY <1>1, <2>3, <2>12 DEF ParseTurn, Turn, lineS, atS
    <3> QED  BY <2>4, <3>1, <3>2
  <2> QED  BY <1>1, <2>8, <2>9, <2>10, <2>11, <2>12 DEF Parsers
<1> QED  BY <1>5, <1>6

(* A request line or a header line moves no index.                         *)
LEMMA WordsMoveNothing ==
  ASSUME NEW r \in Parsers, NEW text
  PROVE  LET p == ParseRequestLine(r, text).req
             q == ParseHeader(r, text).req
         IN  /\ p.state = r.state /\ p.checked = r.checked /\ p.start = r.start
             /\ q.state = r.state /\ q.checked = r.checked /\ q.start = r.start
<1> DEFINE t == text[1]
           ok == /\ t.method \in {"GET", "get", "POST", "post"}
                 /\ t.version = "HTTP/1.1"
           path == IF ok /\ t.path = "/" THEN "/login.html" ELSE t.path
           lined == [r EXCEPT !.method = t.method, !.path = path, !.version = t.version]
           headed == [r EXCEPT !.headers[t.name] = t.value]
<1>1. ParseRequestLine(r, text).req \in {lined, r}
  BY DEF ParseRequestLine
<1>2. ParseHeader(r, text).req \in {headed, r}
  BY DEF ParseHeader
<1> HIDE DEF path
<1>3. \A q \in {lined, headed} : q.state = r.state /\ q.checked = r.checked /\ q.start = r.start
  BY DEF Parsers
<1> HIDE DEF lined, headed
<1> QED  BY <1>1, <1>2, <1>3

(* A turn that goes round again has taken a line, or has come from the     *)
(* body to the end.                                                        *)
Progress(r) == r.checked + (IF r.state = "FINISH" THEN 1 ELSE 0)

(* Such a turn is one step onward.                                         *)
LEMMA TurnMoves ==
  ASSUME NEW buf \in Seq(Tokens), NEW r, Parsing(r, buf), ParseTurn(r, buf).result = "MORE"
  PROVE  Progress(ParseTurn(r, buf).req) >= Progress(r) + 1
<1> DEFINE line == ParseLine(r, buf)
           text == SubSeq(buf, r.start + 1, line.req.checked - 2)
           at == [line.req EXCEPT !.start = line.req.checked]
           first == ParseRequestLine(at, text)
           header == ParseHeader(at, text)
           body == ParseBody(at, buf)
<1>1. r \in Parsers /\ r.checked \in Nat /\ Len(buf) \in Nat
  BY DEF Parsing, Parsers
<1>2. line.status = "OK"
  <2>1. line.status \in {"OPEN", "BAD", "OK"}
    BY LineParsed
  <2> HIDE DEF line
  <2>2. line.status = "OPEN" => ParseTurn(r, buf) = [req |-> line.req, result |-> "INCOMPLETE"]
    BY DEF ParseTurn, Turn, line
  <2>3. line.status = "BAD" => ParseTurn(r, buf) = [req |-> line.req, result |-> "ERROR"]
    BY DEF ParseTurn, Turn, line
  <2> QED  BY <2>1, <2>2, <2>3
<1>3. /\ at \in Parsers /\ at.checked = line.req.checked /\ at.state = r.state
      /\ r.state = "REQUEST_LINE" => first.req \in Parsers
      /\ r.state = "HEADERS" => header.req \in Parsers
      /\ body \in Parsers
  BY <1>2, LineTaken
<1>4. r.state \in {"REQUEST_LINE", "HEADERS"} => line.req.checked \in (r.checked + 2)..Len(buf)
  <2>1. Begins(buf, buf)
    BY DEF Begins
  <2> QED  BY <1>2, <2>1, LineStays
<1>5. r.state \in {"BODY", "FINISH"} => line.req = r
  BY DEF ParseLine
<1> HIDE DEF line
<1>6. CASE r.state = "REQUEST_LINE"
  <2>1. first.req.checked = at.checked
    BY <1>3, WordsMoveNothing
  <2>2. ParseTurn(r, buf) =
          IF first.ok
          THEN [req |-> [first.req EXCEPT !.state = "HEADERS"], result |-> "MORE"]
          ELSE [req |-> first.req, result |-> "ERROR"]
    BY <1>2, <1>6 DEF ParseTurn, Turn, line
  <2> HIDE DEF first
  <2>3. ParseTurn(r, buf).req = [first.req EXCEPT !.state = "HEADERS"]
    BY <2>2
  <2>4. ParseTurn(r, buf).req.checked = line.req.checked /\ ParseTurn(r, buf).req.state = "HEADERS"
    BY <1>3, <1>6, <2>1, <2>3 DEF Parsers
  <2> QED  BY <1>1, <1>4, <1>6, <2>4 DEF Progress
<1>7. CASE r.state = "HEADERS"
  <2>1. header.req.checked = at.checked /\ header.req.state = at.state
    BY <1>3, WordsMoveNothing
  <2>2. ParseTurn(r, buf).req \in {[at EXCEPT !.state = "BODY"], header.req}
    BY <1>2, <1>7 DEF ParseTurn, Turn, line
  <2> HIDE DEF header
  <2> HIDE DEF at
  <2>3. ParseTurn(r, buf).req.checked = line.req.checked /\ ParseTurn(r, buf).req.state # "FINISH"
    BY <1>3, <1>7, <2>1, <2>2 DEF Parsers
  <2> QED  BY <1>1, <1>4, <1>7, <2>3 DEF Progress
<1>8. CASE r.state = "BODY"
  <2>1. body.checked = at.checked
    BY <1>3, BodyAlone DEF Alike
  <2>2. ParseTurn(r, buf).req = [body EXCEPT !.state = "FINISH"]
    BY <1>2, <1>8 DEF ParseTurn, Turn, line
  <2> HIDE DEF body, at
  <2>3. ParseTurn(r, buf).req.checked = r.checked /\ ParseTurn(r, buf).req.state = "FINISH"
    BY <1>3, <1>5, <1>8, <2>1, <2>2 DEF Parsers
  <2> QED  BY <1>1, <1>8, <2>3 DEF Progress
<1>9. CASE r.state = "FINISH"
  <2>1. ParseTurn(r, buf) = [req |-> at, result |-> "SUCCESS"]
    BY <1>2, <1>9 DEF ParseTurn, Turn, line
  <2> QED  BY <2>1
<1> QED  BY <1>1, <1>6, <1>7, <1>8, <1>9 DEF Parsers

(* What a part of a sequence consists of.                                  *)
LEMMA PartTaken ==
  ASSUME NEW S, NEW s \in Seq(S), NEW f \in Nat, NEW k \in Nat, f + k =< Len(s)
  PROVE  /\ SubSeq(s, f + 1, f + k) \in Seq(S) /\ Len(SubSeq(s, f + 1, f + k)) = k
         /\ \A i \in 1..k : SubSeq(s, f + 1, f + k)[i] = s[f + i]
<1>1. Len(s) \in Nat /\ \A i \in 1..Len(s) : s[i] \in S
  BY LenProperties
<1> DEFINE t == SubSeq(s, f + 1, f + k)
<1>2. \A i \in (f + 1)..(f + k) : s[i] \in S
  BY <1>1
<1>3. f + 1 \in Int /\ f + k \in Int
  OBVIOUS
<1>4. /\ t \in Seq(S) /\ Len(t) = IF f + 1 =< f + k THEN f + k - (f + 1) + 1 ELSE 0
      /\ \A i \in 1..(f + k - (f + 1) + 1) : t[i] = s[f + 1 + i - 1]
  BY <1>2, <1>3, SubSeqProperties
<1> HIDE DEF t
<1>5. \A i \in 1..k : t[i] = s[f + i]
  <2> TAKE i \in 1..k
  <2>1. i \in 1..(f + k - (f + 1) + 1) /\ f + 1 + i - 1 = f + i
    OBVIOUS
  <2> QED  BY <1>4, <2>1
<1>6. t \in Seq(S) /\ Len(t) = k
  BY <1>4
<1> QED  BY <1>5, <1>6 DEF t

(* The same part of two buffers.                                           *)
LEMMA SamePart ==
  ASSUME NEW S, NEW s \in Seq(S), NEW t, NEW m \in Int, NEW n \in Int, m >= 1, n =< Len(s),
         \A i \in m..n : t[i] = s[i]
  PROVE  SubSeq(t, m, n) = SubSeq(s, m, n)
<1>1. Len(s) \in Nat /\ \A i \in m..n : s[i] \in S /\ t[i] \in S
  BY LenProperties
<1>2. /\ SubSeq(s, m, n) \in Seq(S) /\ Len(SubSeq(s, m, n)) = IF m <= n THEN n - m + 1 ELSE 0
      /\ \A i \in 1..(n - m + 1) : SubSeq(s, m, n)[i] = s[m + i - 1]
  BY <1>1, SubSeqProperties
<1>3. /\ SubSeq(t, m, n) \in Seq(S) /\ Len(SubSeq(t, m, n)) = IF m <= n THEN n - m + 1 ELSE 0
      /\ \A i \in 1..(n - m + 1) : SubSeq(t, m, n)[i] = t[m + i - 1]
  BY <1>1, SubSeqProperties
<1>4. ASSUME NEW i \in 1..Len(SubSeq(s, m, n)) PROVE SubSeq(t, m, n)[i] = SubSeq(s, m, n)[i]
  <2>1. i \in 1..(n - m + 1)
    BY <1>2
  <2>2. m + i - 1 \in m..n
    BY <2>1
  <2> QED  BY <1>2, <1>3, <2>1, <2>2
<1> DEFINE a == SubSeq(s, m, n)
           b == SubSeq(t, m, n)
<1>5. a \in Seq(S) /\ b \in Seq(S) /\ Len(b) = Len(a) /\ \A i \in 1..Len(b) : b[i] = a[i]
  BY <1>2, <1>3, <1>4
<1> HIDE DEF a, b
<1>6. b = a
  BY <1>5, SeqEqual
<1> QED  BY <1>6 DEF a, b

(* The indices of the parser stay within a buffer that grows.              *)
LEMMA MoreToParse ==
  ASSUME NEW r, NEW buf \in Seq(Tokens), NEW more \in Seq(Tokens), Parsing(r, buf),
         Len(buf) =< Len(more)
  PROVE  Parsing(r, more)
<1>1. Len(buf) \in Nat /\ Len(more) \in Nat /\ r.checked \in Nat
  BY LenProperties DEF Parsing, Parsers
<1> QED  BY <1>1 DEF Parsing

(* A turn that took what it needed takes the same when there is more.      *)
LEMMA TurnStays ==
  ASSUME NEW buf \in Seq(Tokens), NEW more \in Seq(Tokens), Begins(buf, more),
         NEW r, Parsing(r, buf), ParseTurn(r, buf).result = "MORE"
  PROVE  /\ ParseTurn(r, more).result = "MORE"
         /\ Alike(ParseTurn(r, more).req, ParseTurn(r, buf).req)
<1> DEFINE line == ParseLine(r, buf)
           text == SubSeq(buf, r.start + 1, line.req.checked - 2)
           at == [line.req EXCEPT !.start = line.req.checked]
<1>1. /\ r \in Parsers /\ r.checked \in Nat /\ r.start \in Nat
      /\ Len(buf) \in Nat /\ Len(more) \in Nat /\ Len(buf) =< Len(more)
  BY DEF Parsing, Parsers, Begins
<1>2. line.status = "OK"
  <2>1. line.status \in {"OPEN", "BAD", "OK"}
    BY LineParsed
  <2> HIDE DEF line
  <2>2. line.status = "OPEN" => ParseTurn(r, buf) = [req |-> line.req, result |-> "INCOMPLETE"]
    BY DEF ParseTurn, Turn, line
  <2>3. line.status = "BAD" => ParseTurn(r, buf) = [req |-> line.req, result |-> "ERROR"]
    BY DEF ParseTurn, Turn, line
  <2> QED  BY <2>1, <2>2, <2>3
<1>3. at \in Parsers /\ ParseBody(at, buf) \in Parsers /\ Parsing(at, buf)
  BY <1>2, LineTaken
<1>4. CASE r.state \in {"REQUEST_LINE", "HEADERS"}
  <2>1. ParseLine(r, more) = line /\ line.req.checked \in (r.checked + 2)..Len(buf)
    BY <1>2, <1>4, LineStays
  <2>2. SubSeq(more, r.start + 1, line.req.checked - 2) = text
    <3> DEFINE m == r.start + 1
               n == line.req.checked - 2
    <3>1. m \in Int /\ n \in Int /\ m >= 1 /\ n =< Len(buf)
      BY <1>1, <2>1
    <3> HIDE DEF m, n
    <3>2. \A i \in m..n : more[i] = buf[i]
      BY <1>1, <3>1 DEF Begins
    <3>3. SubSeq(more, m, n) = SubSeq(buf, m, n)
      BY <3>1, <3>2, SamePart
    <3> QED  BY <3>3 DEF m, n
  <2> HIDE DEF line
  <2>3. ParseTurn(r, more) = ParseTurn(r, buf)
    BY <1>2, <1>4, <2>1, <2>2 DEF ParseTurn, line
  <2> QED  BY <2>3 DEF Alike
<1>5. CASE r.state = "BODY"
  <2>1. ParseLine(r, more) = line
    BY <1>5 DEF ParseLine
  <2> HIDE DEF line
  <2>2. ParseTurn(r, buf) = [req |-> [ParseBody(at, buf) EXCEPT !.state = "FINISH"], result |-> "MORE"]
    BY <1>2, <1>5 DEF ParseTurn, Turn, line
  <2>3. ParseTurn(r, more) = [req |-> [ParseBody(at, more) EXCEPT !.state = "FINISH"], result |-> "MORE"]
    BY <1>2, <1>5, <2>1 DEF ParseTurn, Turn, line
  <2> HIDE DEF at
  <2>4. ParseBody(at, more) \in Parsers
    BY <1>1, <1>3, BodyParsed, MoreToParse DEF Parsing
  <2>5. Alike(ParseBody(at, more), at) /\ Alike(ParseBody(at, buf), at)
    BY <1>3, BodyAlone
  <2>6. Alike([ParseBody(at, more) EXCEPT !.state = "FINISH"],
              [ParseBody(at, buf) EXCEPT !.state = "FINISH"])
    BY <1>3, <2>4, <2>5 DEF Alike, Parsers
  <2> QED  BY <2>2, <2>3, <2>6
<1>6. CASE r.state = "FINISH"
  <2>1. ParseTurn(r, buf) = [req |-> at, result |-> "SUCCESS"]
    BY <1>2, <1>6 DEF ParseTurn, Turn, line
  <2> QED  BY <2>1
<1> QED  BY <1>1, <1>4, <1>5, <1>6 DEF Parsers

(* A turn that ran out of input goes on, when there is more, as it would   *)
(* have gone with all of it from the start.                                *)
LEMMA TurnTakenUp ==
  ASSUME NEW buf \in Seq(Tokens), NEW more \in Seq(Tokens), Begins(buf, more),
         NEW r, Parsing(r, buf), ParseTurn(r, buf).result = "INCOMPLETE"
  PROVE  /\ ParseTurn(ParseTurn(r, buf).req, more) = ParseTurn(r, more)
         /\ r.state \in {"REQUEST_LINE", "HEADERS"} /\ ParseTurn(r, buf).req.state = r.state
<1> DEFINE line == ParseLine(r, buf)
           left == line.req
<1>1. r \in Parsers
  BY DEF Parsing
<1>2. line.status = "OPEN"
  <2>1. line.status \in {"OPEN", "BAD", "OK"}
    BY LineParsed
  <2> HIDE DEF line
  <2>2. line.status = "OK" => ParseTurn(r, buf).result \in {"MORE", "ERROR", "SUCCESS"}
    BY <1>1 DEF ParseTurn, Turn, line, Parsers
  <2>3. line.status = "BAD" => ParseTurn(r, buf) = [req |-> line.req, result |-> "ERROR"]
    BY DEF ParseTurn, Turn, line
  <2> QED  BY <2>1, <2>2, <2>3
<1>3. ParseTurn(r, buf).req = left
  <2> HIDE DEF line
  <2> QED  BY <1>2 DEF ParseTurn, Turn, line
<1>4. /\ ParseLine(left, more) = ParseLine(r, more)
      /\ left = [r EXCEPT !.checked = left.checked]
      /\ r.state \in {"REQUEST_LINE", "HEADERS"}
  BY <1>2, LineLookedAtAgain
<1> HIDE DEF line, left
<1>5. left.start = r.start /\ left.state = r.state
  BY <1>1, <1>4 DEF Parsers
<1>6. ParseTurn(left, more) = ParseTurn(r, more)
  <2> DEFINE l == ParseLine(r, more)
  <2> HIDE DEF l
  <2> QED  BY <1>4, <1>5 DEF ParseTurn, l
<1> QED  BY <1>3, <1>4, <1>5, <1>6

(* The turns of a parse, one after the other.                              *)
Results == {"MORE", "INCOMPLETE", "ERROR", "SUCCESS"}
Onward(turn, buf) == IF turn.result = "MORE" THEN ParseTurn(turn.req, buf) ELSE turn

Unrolled(f, r, buf) ==
  /\ f[0] = Turn(r, "MORE")
  /\ \A n \in 0..(Len(buf) + 2) : f[n + 1] = Onward(f[n], buf)
  /\ \A n \in 0..(Len(buf) + 3) :
       /\ f[n] = [req |-> f[n].req, result |-> f[n].result]
       /\ Parsing(f[n].req, buf) /\ f[n].result \in Results
       /\ n # 0 /\ f[n].result \in {"MORE", "SUCCESS"} => f[n].req.path \in Paths

(* parse() goes through such turns.                                        *)
LEMMA ParseUnrolled ==
  ASSUME NEW buf \in Seq(Tokens), NEW r, Parsing(r, buf)
  PROVE  /\ buf = <<>> => Parse(r, buf) = [req |-> r, result |-> "INCOMPLETE"]
         /\ buf # <<>> => \E f : Unrolled(f, r, buf) /\ Parse(r, buf) = f[Len(buf) + 3]
<1> DEFINE N == Len(buf) + 3
           Next1(t) == IF t.result = "MORE" THEN ParseTurn(t.req, buf) ELSE t
           Turns(f) == f = [n \in 0..N |-> IF n = 0 THEN Turn(r, "MORE") ELSE Next1(f[n - 1])]
           T == {t \in [req : Parsers, result : Results] : Parsing(t.req, buf)}
           step == [n \in 1..N |-> [t \in T |-> Next1(t)]]
<1>1. N \in Nat \ {0}
  OBVIOUS
<1>2. Turn(r, "MORE") \in T
  BY DEF Turn, Parsing, Results
<1>3. \A t \in T : t.result = "MORE" =>
        Turned(ParseTurn(t.req, buf), buf) /\ ParseTurn(t.req, buf) \in T
  <2> TAKE t \in T
  <2>1. Turned(ParseTurn(t.req, buf), buf)
    BY TurnParsed
  <2>2. \E q, res : ParseTurn(t.req, buf) = [req |-> q, result |-> res]
    BY DEF ParseTurn, Turn
  <2> QED  BY <2>1, <2>2 DEF Turned, Parsing, Results
<1>4. \A t \in T : Next1(t) \in T
  BY <1>3
<1>5. \A t \in T : t = [req |-> t.req, result |-> t.result] /\ Parsing(t.req, buf) /\ t.result \in Results
  OBVIOUS
<1> HIDE DEF T, N
<1>6. \E f : Turns(f)
  <2>1. PICK g \in [0..N -> T] : Iterates(g, Turn(r, "MORE"), step, N)
    <3>1. step \in [1..N -> [T -> T]]
      BY <1>4
    <3> HIDE DEF step
    <3> QED  BY <1>1, <1>2, <3>1, RecursionExists
  <2>2. \A n \in 0..N : g[n] = IF n = 0 THEN Turn(r, "MORE") ELSE Next1(g[n - 1])
    <3> TAKE n \in 0..N
    <3>1. CASE n = 0
      BY <2>1, <3>1 DEF Iterates
    <3>2. CASE n # 0
      <4>1. n \in 1..N /\ g[n - 1] \in T
        BY <1>1, <3>2
      <4>2. g[n] = step[n][g[n - 1]]
        BY <2>1, <4>1 DEF Iterates
      <4>3. step[n][g[n - 1]] = Next1(g[n - 1])
        BY <4>1
      <4> QED  BY <3>2, <4>2, <4>3
    <3> QED  BY <3>1, <3>2
  <2>3. g = [n \in 0..N |-> g[n]]
    OBVIOUS
  <2> HIDE DEF Next1
  <2> QED  BY <2>2, <2>3
<1>7. ASSUME NEW f, Turns(f) PROVE Unrolled(f, r, buf)
  <2> DEFINE Past(t) == t.result \in {"MORE", "SUCCESS"} => t.req.path \in Paths
             S == {n \in 0..N : f[n] \in T /\ (n # 0 => Past(f[n]))}
  <2>1. f[0] = Turn(r, "MORE")
    BY <1>1, <1>7
  <2>2. 0 \in S
    BY <1>1, <1>2, <2>1
  <2>3. \A n \in 0..(N - 1) : f[n + 1] = Next1(f[n])
    <3> TAKE n \in 0..(N - 1)
    <3>1. n + 1 \in 0..N /\ n + 1 # 0 /\ (n + 1) - 1 = n
      BY <1>1
    <3> HIDE DEF Next1
    <3> QED  BY <1>7, <3>1
  <2>4. ASSUME NEW n \in 0..(N - 1), n \in S PROVE n + 1 \in S
    <3>1. f[n + 1] = Next1(f[n]) /\ n + 1 \in 0..N
      BY <1>1, <2>3
    <3>2. CASE f[n].result = "MORE"
      <4>1. f[n + 1] = ParseTurn(f[n].req, buf)
        BY <3>1, <3>2
      <4>2. Turned(f[n + 1], buf) /\ f[n + 1] \in T
        BY <1>3, <2>4, <3>2, <4>1
      <4>3. Past(f[n + 1])
        BY <4>2 DEF Turned, Parsing
      <4> QED  BY <3>1, <4>2, <4>3
    <3>3. CASE f[n].result # "MORE"
      <4>1. f[n + 1] = f[n]
        BY <3>1, <3>3
      <4>2. n # 0
        BY <2>1, <3>3 DEF Turn
      <4> QED  BY <2>4, <3>1, <4>1, <4>2
    <3> QED  BY <3>2, <3>3
  <2>5. \A n \in 0..N : n \in S
    <3> HIDE DEF S
    <3> QED  BY <1>1, <2>2, <2>4, BoundedInduction
  <2>6. \A n \in 0..N : /\ f[n] = [req |-> f[n].req, result |-> f[n].result]
                        /\ Parsing(f[n].req, buf) /\ f[n].result \in Results
                        /\ n # 0 => Past(f[n])
    BY <1>5, <2>5
  <2>7. N - 1 = Len(buf) + 2 /\ N = Len(buf) + 3
    BY DEF N
  <2>8. \A n \in 0..(N - 1) : f[n + 1] = Onward(f[n], buf)
    BY <2>3 DEF Onward
  <2> HIDE DEF Turns
  <2> QED  BY <2>1, <2>6, <2>7, <2>8 DEF Unrolled
<1>8. CASE buf = <<>>
  BY <1>8 DEF Parse, Turn
<1>9. CASE buf # <<>>
  <2>1. Parse(r, buf) = (CHOOSE f : Turns(f))[N]
    BY <1>9 DEF Parse, N
  <2> HIDE DEF Turns
  <2>2. PICK f : Turns(f) /\ Parse(r, buf) = f[N]
    BY <1>6, <2>1
  <2> QED  BY <1>7, <1>9, <2>2 DEF N
<1> QED  BY <1>8, <1>9

(* parse(): whatever the input, the parser stays well-formed, and a parse  *)
(* that neither fails nor lacks input has a path of the server.            *)
LEMMA InputParsed ==
  ASSUME NEW buf \in Seq(Tokens), NEW r, Parsing(r, buf)
  PROVE  LET parsed == Parse(r, buf)
         IN  /\ Parsing(parsed.req, buf)
             /\ parsed.result \in {"MORE", "INCOMPLETE", "ERROR", "SUCCESS"}
             /\ parsed.result \in {"MORE", "SUCCESS"} => parsed.req.path \in Paths
             /\ buf = <<>> => parsed.result = "INCOMPLETE"
<1>1. CASE buf = <<>>
  <2>1. Parse(r, buf) = [req |-> r, result |-> "INCOMPLETE"]
    BY <1>1, ParseUnrolled
  <2> QED  BY <2>1
<1>2. CASE buf # <<>>
  <2>1. PICK f : Unrolled(f, r, buf) /\ Parse(r, buf) = f[Len(buf) + 3]
    BY <1>2, ParseUnrolled
  <2>2. Len(buf) + 3 \in 0..(Len(buf) + 3) /\ Len(buf) + 3 # 0
    BY LenProperties
  <2> QED  BY <1>2, <2>1, <2>2 DEF Unrolled, Results
<1> QED  BY <1>1, <1>2

(* The turns come to an end within those that are allowed, and nothing     *)
(* changes after that.                                                     *)
LEMMA TurnsSuffice ==
  ASSUME NEW buf \in Seq(Tokens), NEW r, NEW f, Unrolled(f, r, buf)
  PROVE  \E k \in 1..(Len(buf) + 3) :
           /\ f[k].result # "MORE" /\ \A n \in 0..(k - 1) : f[n].result = "MORE"
           /\ \A n \in k..(Len(buf) + 3) : f[n] = f[k]
<1> DEFINE N == Len(buf) + 3
           Ended == {n \in 0..N : f[n].result # "MORE"}
           k == Min(Ended)
<1>1. Len(buf) \in Nat /\ N \in Nat /\ N - 1 = Len(buf) + 2 /\ Len(buf) = N - 3
  BY LenProperties
<1>2. /\ f[0].result = "MORE"
      /\ \A n \in 0..(N - 1) : f[n + 1] = Onward(f[n], buf)
      /\ \A n \in 0..N : Parsing(f[n].req, buf)
  <2>1. f[0].result = "MORE"
    BY DEF Unrolled, Turn
  <2> HIDE DEF N
  <2>2. 0..(N - 1) = 0..(Len(buf) + 2) /\ 0..N = 0..(Len(buf) + 3)
    BY <1>1 DEF N
  <2> QED  BY <2>1, <2>2 DEF Unrolled
<1>3. \A n \in 0..N : f[n].req.checked \in Nat /\ f[n].req.checked =< N - 3
  BY <1>1, <1>2 DEF Parsing, Parsers
<1> HIDE DEF N
<1>4. Ended # {}
  <2> DEFINE S == {n \in 0..N : f[n].result = "MORE" => Progress(f[n].req) >= n}
  <2>1. 0 \in S
    BY <1>1, <1>3 DEF Progress
  <2>2. ASSUME NEW n \in 0..(N - 1), n \in S PROVE n + 1 \in S
    <3>1. n + 1 \in 0..N /\ n \in 0..N
      BY <1>1
    <3>2. CASE f[n].result = "MORE" /\ f[n + 1].result = "MORE"
      <4>1. f[n + 1] = ParseTurn(f[n].req, buf)
        BY <1>2, <3>2 DEF Onward
      <4>2. Progress(f[n + 1].req) >= Progress(f[n].req) + 1
        BY <1>2, <3>1, <3>2, <4>1, TurnMoves
      <4>3. Progress(f[n].req) \in Int /\ Progress(f[n + 1].req) \in Int
        BY <1>3, <3>1 DEF Progress
      <4> HIDE DEF S
      <4>4. Progress(f[n].req) >= n
        BY <2>2, <3>2 DEF S
      <4>5. Progress(f[n + 1].req) >= n + 1
        BY <1>1, <4>2, <4>3, <4>4
      <4> QED  BY <3>1, <4>5 DEF S
    <3>3. CASE f[n].result # "MORE"
      <4>1. f[n + 1] = f[n]
        BY <1>2, <3>3 DEF Onward
      <4> QED  BY <3>1, <3>3, <4>1
    <3>4. CASE f[n + 1].result # "MORE"
      BY <3>1, <3>4
    <3> QED  BY <3>2, <3>3, <3>4
  <2>3. N \in S
    <3> HIDE DEF S
    <3>1. \A n \in 0..N : n \in S
      BY <1>1, <2>1, <2>2, BoundedInduction
    <3> QED  BY <1>1, <3>1
  <2>4. f[N].result # "MORE"
    <3>1. f[N].result = "MORE" => Progress(f[N].req) >= N
      BY <2>3
    <3>2. f[N].req.checked \in Nat /\ f[N].req.checked =< N - 3
      BY <1>1, <1>3
    <3> HIDE DEF S
    <3> QED  BY <1>1, <3>1, <3>2 DEF Progress
  <2> QED  BY <1>1, <2>4
<1>5. k \in Ended /\ \A n \in Ended : k =< n
  <2>1. Ended \in SUBSET Nat
    OBVIOUS
  <2> HIDE DEF Ended
  <2> QED  BY <1>4, <2>1, MinIsMember
<1> HIDE DEF k
<1>6. k \in 1..N /\ f[k].result # "MORE"
  BY <1>1, <1>2, <1>5
<1>7. \A n \in 0..(k - 1) : f[n].result = "MORE"
  BY <1>1, <1>5, <1>6
<1>8. \A n \in k..N : f[n] = f[k]
  <2> DEFINE S == {n \in 0..N : n >= k => f[n] = f[k]}
  <2>1. 0 \in S
    BY <1>1, <1>6
  <2>2. ASSUME NEW n \in 0..(N - 1), n \in S PROVE n + 1 \in S
    <3>1. n + 1 \in 0..N
      BY <1>1
    <3>2. n >= k => f[n + 1] = f[n]
      BY <1>2, <1>6, <2>2 DEF Onward
    <3> QED  BY <1>1, <1>6, <2>2, <3>1, <3>2
  <2>3. \A n \in 0..N : n \in S
    <3> HIDE DEF S
    <3> QED  BY <1>1, <2>1, <2>2, BoundedInduction
  <2> QED  BY <1>6, <2>3
<1> QED  BY <1>6, <1>7, <1>8 DEF N

(* Two turns with the same result, and parsers that differ in the body.    *)
SameTurn(t, u) == t.result = u.result /\ Alike(t.req, u.req)

(* Turns that are the same are followed by turns that are the same.        *)
LEMMA OnwardAlike ==
  ASSUME NEW buf \in Seq(Tokens), NEW t, NEW u, Parsing(t.req, buf), Parsing(u.req, buf),
         SameTurn(t, u)
  PROVE  SameTurn(Onward(t, buf), Onward(u, buf))
<1>1. CASE t.result = "MORE"
  <2>1. Onward(t, buf) = ParseTurn(t.req, buf) /\ Onward(u, buf) = ParseTurn(u.req, buf)
    BY <1>1 DEF Onward, SameTurn
  <2> QED  BY <2>1, TurnsAlike DEF SameTurn
<1>2. CASE t.result # "MORE"
  BY <1>2 DEF Onward, SameTurn
<1> QED  BY <1>1, <1>2

(* Two parses of one buffer that have come to the same turn go on alike.   *)
LEMMA LoopsAlike ==
  ASSUME NEW buf \in Seq(Tokens), NEW r, NEW s, NEW f, NEW g,
         Unrolled(f, r, buf), Unrolled(g, s, buf),
         NEW i \in 0..(Len(buf) + 3), NEW j \in 0..i, SameTurn(f[i], g[j])
  PROVE  SameTurn(f[Len(buf) + 3], g[Len(buf) + 3 - (i - j)])
<1> DEFINE N == Len(buf) + 3
           S == {m \in 0..(N - i) : SameTurn(f[i + m], g[j + m])}
<1>1. Len(buf) \in Nat /\ N \in Nat /\ i \in Nat /\ j \in Nat /\ N - i \in Nat
  BY LenProperties
<1>2. /\ \A n \in 0..(N - 1) : f[n + 1] = Onward(f[n], buf) /\ g[n + 1] = Onward(g[n], buf)
      /\ \A n \in 0..N : Parsing(f[n].req, buf) /\ Parsing(g[n].req, buf)
  <2> HIDE DEF N
  <2>1. 0..(N - 1) = 0..(Len(buf) + 2) /\ 0..N = 0..(Len(buf) + 3)
    BY <1>1 DEF N
  <2> QED  BY <2>1 DEF Unrolled
<1>3. i \in 0..N /\ j \in 0..i
  OBVIOUS
<1> HIDE DEF N
<1>4. 0 \in S
  BY <1>1
<1>5. ASSUME NEW m \in 0..(N - i - 1), m \in S PROVE m + 1 \in S
  <2>1. /\ i + m \in 0..(N - 1) /\ j + m \in 0..(N - 1) /\ m + 1 \in 0..(N - i)
        /\ i + m \in 0..N /\ j + m \in 0..N
        /\ (i + m) + 1 = i + (m + 1) /\ (j + m) + 1 = j + (m + 1)
    BY <1>1, <1>3
  <2>2. f[i + (m + 1)] = Onward(f[i + m], buf) /\ g[j + (m + 1)] = Onward(g[j + m], buf)
    BY <1>2, <2>1
  <2>3. SameTurn(f[i + m], g[j + m])
    BY <1>5
  <2>4. SameTurn(f[i + (m + 1)], g[j + (m + 1)])
    BY <1>2, <2>1, <2>2, <2>3, OnwardAlike
  <2> QED  BY <2>1, <2>4
<1>6. N - i \in S
  <2> HIDE DEF S
  <2>1. \A m \in 0..(N - i) : m \in S
    BY <1>1, <1>4, <1>5, BoundedInduction
  <2> QED  BY <1>1, <2>1
<1>7. i + (N - i) = N /\ j + (N - i) = N - (i - j)
  BY <1>1
<1> QED  BY <1>6, <1>7 DEF N

(* As long as there is a line to take, more input makes no difference.     *)
LEMMA TurnsStay ==
  ASSUME NEW buf \in Seq(Tokens), NEW more \in Seq(Tokens), Begins(buf, more), NEW r, NEW f, NEW g,
         Unrolled(f, r, buf), Unrolled(g, r, more), Parsing(r, buf),
         NEW k \in 1..(Len(buf) + 3), \A n \in 0..(k - 1) : f[n].result = "MORE"
  PROVE  \A n \in 0..(k - 1) : SameTurn(g[n], f[n])
<1> DEFINE N == Len(buf) + 3
           S == {n \in 0..(k - 1) : SameTurn(g[n], f[n])}
<1>1. /\ Len(buf) \in Nat /\ Len(more) \in Nat /\ N \in Nat /\ Len(buf) =< Len(more)
      /\ k \in 1..N /\ k - 1 \in Nat
  BY LenProperties DEF Begins
<1>2. /\ f[0] = Turn(r, "MORE") /\ g[0] = Turn(r, "MORE")
      /\ \A n \in 0..(N - 1) : f[n + 1] = Onward(f[n], buf) /\ g[n + 1] = Onward(g[n], more)
      /\ \A n \in 0..N : Parsing(f[n].req, buf) /\ Parsing(g[n].req, more)
  <2>1. 0..(N - 1) = 0..(Len(buf) + 2) /\ 0..N = 0..(Len(buf) + 3)
    BY <1>1
  <2> HIDE DEF N
  <2>2. 0..(N - 1) \subseteq 0..(Len(more) + 2) /\ 0..N \subseteq 0..(Len(more) + 3)
    BY <1>1, <2>1
  <2> QED  BY <2>1, <2>2 DEF Unrolled
<1> HIDE DEF N
<1>3. 0 \in S
  <2>1. SameTurn(g[0], f[0])
    BY <1>2 DEF SameTurn, Alike
  <2> QED  BY <1>1, <2>1
<1>4. ASSUME NEW n \in 0..(k - 1 - 1), n \in S PROVE n + 1 \in S
  <2>1. n \in 0..(N - 1) /\ n \in 0..N /\ n + 1 \in 0..(k - 1) /\ n \in 0..(k - 1)
    BY <1>1
  <2>2. /\ f[n + 1] = Onward(f[n], buf) /\ g[n + 1] = Onward(g[n], more)
        /\ Parsing(f[n].req, buf) /\ Parsing(g[n].req, more)
        /\ f[n].result = "MORE" /\ f[n + 1].result = "MORE"
    BY <1>2, <2>1
  <2>3. f[n + 1] = ParseTurn(f[n].req, buf) /\ Parsing(f[n].req, more)
    BY <1>1, <2>2, MoreToParse DEF Onward
  <2>4. SameTurn(ParseTurn(f[n].req, more), f[n + 1])
    BY <2>2, <2>3, TurnStays DEF SameTurn
  <2>5. SameTurn(g[n], f[n])
    BY <1>4
  <2>6. SameTurn(g[n + 1], Onward(f[n], more))
    BY <2>2, <2>3, <2>5, OnwardAlike
  <2>7. SameTurn(g[n + 1], f[n + 1])
    BY <2>2, <2>4, <2>6 DEF Onward, SameTurn, Alike
  <2> QED  BY <2>1, <2>7
<1> HIDE DEF S
<1>5. \A n \in 0..(k - 1) : n \in S
  BY <1>1, <1>3, <1>4, BoundedInduction
<1> QED  BY <1>5 DEF S

(* A parse that ran out of input, taken up with more, ends as a parse of   *)
(* all of it from the start.                                               *)
LEMMA TakenUp ==
  ASSUME NEW buf \in Seq(Tokens), NEW more \in Seq(Tokens), Begins(buf, more),
         NEW r, Parsing(r, buf), Parse(r, buf).result = "INCOMPLETE",
         NEW s, Parsing(s, more), Alike(s, Parse(r, buf).req)
  PROVE  SameTurn(Parse(s, more), Parse(r, more))
<1>1. Len(buf) \in Nat /\ Len(more) \in Nat /\ Len(buf) =< Len(more) /\ Parsing(r, more)
  BY LenProperties, MoreToParse DEF Begins
<1>2. CASE more = <<>>
  <2>1. buf = <<>>
    <3>1. Len(buf) = 0
      BY <1>1, <1>2, EmptySeq
    <3> QED  BY <3>1, EmptySeq
  <2>2. /\ Parse(r, buf) = [req |-> r, result |-> "INCOMPLETE"]
        /\ Parse(r, more) = [req |-> r, result |-> "INCOMPLETE"]
        /\ Parse(s, more) = [req |-> s, result |-> "INCOMPLETE"]
    BY <1>1, <1>2, <2>1, ParseUnrolled
  <2> QED  BY <2>2 DEF SameTurn
<1>3. CASE more # <<>>
  <2> DEFINE M == Len(more) + 3
  <2>1. PICK g : Unrolled(g, r, more) /\ Parse(r, more) = g[M]
    BY <1>1, <1>3, ParseUnrolled
  <2>2. PICK d : Unrolled(d, s, more) /\ Parse(s, more) = d[M]
    BY <1>3, ParseUnrolled
  <2>3. d[0] = [req |-> s, result |-> "MORE"] /\ g[0] = [req |-> r, result |-> "MORE"]
    BY <2>1, <2>2 DEF Unrolled, Turn
  <2>4. CASE buf = <<>>
    <3>1. Parse(r, buf) = [req |-> r, result |-> "INCOMPLETE"]
      BY <2>4, ParseUnrolled
    <3>2. SameTurn(d[0], g[0])
      BY <2>3, <3>1 DEF SameTurn
    <3>3. 0 \in 0..M /\ 0 \in 0..0 /\ M - (0 - 0) = M
      BY <1>1
    <3>4. SameTurn(d[M], g[M - (0 - 0)])
      BY <2>1, <2>2, <3>2, <3>3, LoopsAlike
    <3> QED  BY <2>1, <2>2, <3>3, <3>4
  <2>5. CASE buf # <<>>
    <3>1. PICK f : Unrolled(f, r, buf) /\ Parse(r, buf) = f[Len(buf) + 3]
      BY <2>5, ParseUnrolled
    <3>2. PICK k \in 1..(Len(buf) + 3) :
            /\ f[k].result # "MORE" /\ \A n \in 0..(k - 1) : f[n].result = "MORE"
            /\ \A n \in k..(Len(buf) + 3) : f[n] = f[k]
      BY <3>1, TurnsSuffice
    <3>3. f[k].result = "INCOMPLETE" /\ Alike(s, f[k].req)
      <4>1. Len(buf) + 3 \in k..(Len(buf) + 3)
        BY <1>1
      <4> QED  BY <3>1, <3>2, <4>1
    <3> DEFINE h == k - 1
    <3>4. /\ h \in 0..(Len(buf) + 2) /\ h \in 0..(Len(buf) + 3) /\ h \in 0..(Len(more) + 2)
          /\ h \in 0..(Len(more) + 3) /\ h \in 0..(k - 1) /\ h + 1 = k
      BY <1>1
    <3> HIDE DEF h
    <3>5. SameTurn(g[h], f[h])
      BY <1>1, <2>1, <3>1, <3>2, <3>4, TurnsStay
    <3>6. /\ f[k] = Onward(f[h], buf) /\ Parsing(f[h].req, buf) /\ f[h].result = "MORE"
          /\ g[k] = Onward(g[h], more) /\ Parsing(g[h].req, more)
      BY <2>1, <3>1, <3>2, <3>4 DEF Unrolled
    <3>7. f[k] = ParseTurn(f[h].req, buf) /\ Parsing(f[h].req, more)
      BY <1>1, <3>6, MoreToParse DEF Onward
    <3>8. ParseTurn(f[k].req, more) = ParseTurn(f[h].req, more)
      BY <3>3, <3>6, <3>7, TurnTakenUp
    <3>9. SameTurn(g[k], ParseTurn(f[k].req, more))
      <4>1. SameTurn(g[k], Onward(f[h], more))
        BY <3>5, <3>6, <3>7, OnwardAlike
      <4> QED  BY <3>6, <3>8, <4>1 DEF Onward
    <3>10. SameTurn(d[1], ParseTurn(f[k].req, more))
      <4>1. d[1] = ParseTurn(s, more)
        <5>1. 0 \in 0..(Len(more) + 2) /\ 0 + 1 = 1
          BY <1>1
        <5>2. d[0 + 1] = Onward(d[0], more)
          BY <2>2, <5>1 DEF Unrolled
        <5> QED  BY <2>3, <5>1, <5>2 DEF Onward
      <4>2. Parsing(f[k].req, more)
        <5>1. Parsing(f[k].req, buf)
          <6>1. k \in 0..(Len(buf) + 3)
            BY <1>1
          <6> QED  BY <3>1, <6>1 DEF Unrolled
        <5> QED  BY <1>1, <5>1, MoreToParse
      <4> QED  BY <3>3, <4>1, <4>2, TurnsAlike DEF SameTurn
    <3>11. SameTurn(g[k], d[1])
      BY <3>9, <3>10 DEF SameTurn, Alike
    <3>12. SameTurn(g[M], d[M - (k - 1)])
      <4>1. k \in 0..M /\ 1 \in 0..k
        BY <1>1
      <4> QED  BY <2>1, <2>2, <3>11, <4>1, LoopsAlike
    <3>13. g[M].result # "MORE"
      <4>1. PICK j \in 1..M : g[j].result # "MORE" /\ \A n \in j..M : g[n] = g[j]
        BY <2>1, TurnsSuffice
      <4>2. M \in j..M
        BY <1>1
      <4> QED  BY <4>1, <4>2
    <3>14. d[M] = d[M - (k - 1)]
      <4>1. PICK j \in 1..M : /\ d[j].result # "MORE" /\ \A n \in 0..(j - 1) : d[n].result = "MORE"
                              /\ \A n \in j..M : d[n] = d[j]
        BY <2>2, TurnsSuffice
      <4> DEFINE m == M - (k - 1)
      <4>2. m \in 0..M /\ M \in Nat
        BY <1>1
      <4>3. d[m].result # "MORE"
        BY <3>12, <3>13 DEF SameTurn
      <4> HIDE DEF m, M
      <4>4. m \in j..M /\ M \in j..M
        BY <4>1, <4>2, <4>3
      <4> QED  BY <4>1, <4>4 DEF m
    <3> QED  BY <2>1, <2>2, <3>12, <3>14 DEF SameTurn, Alike
  <2> QED  BY <2>4, <2>5
<1> QED  BY <1>2, <1>3
(* The last turn of a parser that is at the end: it takes nothing more.    *)
AtEnd(r) == [r EXCEPT !.start = r.checked]

(* It changes nothing but the start of a line that is not looked for.      *)
LEMMA FinishTurn ==
  ASSUME NEW r \in Parsers, NEW buf, r.state = "FINISH"
  PROVE  /\ ParseTurn(r, buf) = [req |-> AtEnd(r), result |-> "SUCCESS"]
         /\ AtEnd(r).state = "FINISH" /\ AtEnd(r).start = r.checked /\ AtEnd(r).checked = r.checked
         /\ \A f \in {"method", "version", "headers", "path"} : AtEnd(r)[f] = r[f]
<1> DEFINE line == ParseLine(r, buf)
           at == [line.req EXCEPT !.start = line.req.checked]
<1>1. line = [req |-> r, status |-> "OK"]
  BY DEF ParseLine
<1> HIDE DEF line
<1>2. line.req = r /\ line.status = "OK"
  BY <1>1
<1>3. ParseTurn(r, buf) = [req |-> at, result |-> "SUCCESS"]
  BY <1>2 DEF ParseTurn, Turn, line
<1>4. at = AtEnd(r)
  BY <1>2 DEF AtEnd
<1>5. /\ AtEnd(r).state = "FINISH" /\ AtEnd(r).start = r.checked /\ AtEnd(r).checked = r.checked
      /\ \A f \in {"method", "version", "headers", "path"} : AtEnd(r)[f] = r[f]
  BY DEF AtEnd, Parsers
<1> QED  BY <1>3, <1>4, <1>5

(* Success comes from the end only.                                        *)
LEMMA SuccessIsAtEnd ==
  ASSUME NEW buf \in Seq(Tokens), NEW r, Parsing(r, buf), ParseTurn(r, buf).result = "SUCCESS"
  PROVE  r.state = "FINISH"
<1> DEFINE line == ParseLine(r, buf)
<1>1. r \in Parsers /\ line.status \in {"OPEN", "BAD", "OK"}
  BY LineParsed DEF Parsing
<1> HIDE DEF line
<1>2. r.state # "FINISH" => ParseTurn(r, buf).result \in {"INCOMPLETE", "ERROR", "MORE"}
  BY <1>1 DEF ParseTurn, Turn, line, Parsers
<1> QED  BY <1>2

(* A parse that came to the end: the turns go round until there, and the   *)
(* last one takes nothing more.                                            *)
LEMMA EndReached ==
  ASSUME NEW buf \in Seq(Tokens), NEW r, Parsing(r, buf), buf # <<>>,
         NEW f, Unrolled(f, r, buf), f[Len(buf) + 3].result = "SUCCESS"
  PROVE  \E k \in 1..(Len(buf) + 3) :
           /\ \A n \in 0..(k - 1) : f[n].result = "MORE"
           /\ Parsing(f[k - 1].req, buf) /\ f[k - 1].req.state = "FINISH"
           /\ f[Len(buf) + 3] = [req |-> AtEnd(f[k - 1].req), result |-> "SUCCESS"]
<1>1. PICK k \in 1..(Len(buf) + 3) :
        /\ f[k].result # "MORE" /\ \A n \in 0..(k - 1) : f[n].result = "MORE"
        /\ \A n \in k..(Len(buf) + 3) : f[n] = f[k]
  BY TurnsSuffice
<1>2. Len(buf) \in Nat
  BY LenProperties
<1> DEFINE h == k - 1
<1>3. /\ h \in 0..(Len(buf) + 2) /\ h \in 0..(Len(buf) + 3) /\ h \in 0..(k - 1) /\ h + 1 = k
      /\ Len(buf) + 3 \in k..(Len(buf) + 3)
  BY <1>2
<1> HIDE DEF h
<1>4. f[Len(buf) + 3] = f[k]
  BY <1>1, <1>3
<1>5. f[k] = Onward(f[h], buf) /\ Parsing(f[h].req, buf) /\ f[h].result = "MORE"
  BY <1>1, <1>3 DEF Unrolled
<1>6. f[k] = ParseTurn(f[h].req, buf)
  BY <1>5 DEF Onward
<1>7. f[h].req.state = "FINISH" /\ f[h].req \in Parsers
  BY <1>4, <1>5, <1>6, SuccessIsAtEnd DEF Parsing
<1>8. f[k] = [req |-> AtEnd(f[h].req), result |-> "SUCCESS"]
  BY <1>6, <1>7, FinishTurn
<1>9. /\ \A n \in 0..(k - 1) : f[n].result = "MORE"
      /\ Parsing(f[k - 1].req, buf) /\ f[k - 1].req.state = "FINISH"
      /\ f[Len(buf) + 3] = [req |-> AtEnd(f[k - 1].req), result |-> "SUCCESS"]
  BY <1>1, <1>4, <1>5, <1>7, <1>8 DEF h
<1> QED  BY <1>9

(* A parser at the end stays there, whatever comes.                        *)
LEMMA EndStays ==
  ASSUME NEW buf \in Seq(Tokens), NEW r, Parsing(r, buf), r.state = "FINISH", buf # <<>>
  PROVE  Parse(r, buf) = [req |-> AtEnd(r), result |-> "SUCCESS"]
<1>1. PICK f : Unrolled(f, r, buf) /\ Parse(r, buf) = f[Len(buf) + 3]
  BY ParseUnrolled
<1>2. Len(buf) \in Nat /\ r \in Parsers
  BY LenProperties DEF Parsing
<1>3. f[0] = [req |-> r, result |-> "MORE"]
  BY <1>1 DEF Unrolled, Turn
<1>4. f[1] = [req |-> AtEnd(r), result |-> "SUCCESS"]
  <2>1. 0 \in 0..(Len(buf) + 2) /\ 0 + 1 = 1
    BY <1>2
  <2>2. f[0 + 1] = Onward(f[0], buf)
    BY <1>1, <2>1 DEF Unrolled
  <2>3. f[1] = ParseTurn(r, buf)
    BY <1>3, <2>1, <2>2 DEF Onward
  <2> QED  BY <1>2, <2>3, FinishTurn
<1>5. PICK k \in 1..(Len(buf) + 3) :
        /\ f[k].result # "MORE" /\ \A n \in 0..(k - 1) : f[n].result = "MORE"
        /\ \A n \in k..(Len(buf) + 3) : f[n] = f[k]
  BY <1>1, TurnsSuffice
<1>6. k = 1
  <2>1. f[1].result # "MORE"
    BY <1>4
  <2>2. k > 1 => 1 \in 0..(k - 1)
    OBVIOUS
  <2> QED  BY <1>5, <2>1, <2>2
<1>7. Len(buf) + 3 \in k..(Len(buf) + 3)
  BY <1>2
<1> QED  BY <1>1, <1>4, <1>5, <1>6, <1>7

(* A parse that came to the end comes to it when there is more, with the   *)
(* same heading and path.                                                  *)
LEMMA EndStaysEnd ==
  ASSUME NEW buf \in Seq(Tokens), NEW more \in Seq(Tokens), Begins(buf, more),
         NEW r, Parsing(r, buf), Parse(r, buf).result = "SUCCESS"
  PROVE  SameTurn(Parse(r, more), Parse(r, buf))
<1>1. buf # <<>> /\ more # <<>> /\ Len(buf) \in Nat /\ Len(more) \in Nat /\ Len(buf) =< Len(more)
  <2>1. buf # <<>>
    <3>1. buf = <<>> => Parse(r, buf) = [req |-> r, result |-> "INCOMPLETE"]
      BY ParseUnrolled
    <3> QED  BY <3>1
  <2>2. Len(buf) \in Nat /\ Len(more) \in Nat /\ Len(buf) =< Len(more)
    BY LenProperties DEF Begins
  <2>3. Len(buf) # 0
    BY <2>1, EmptySeq
  <2> QED  BY <2>1, <2>2, <2>3, EmptySeq
<1>2. Parsing(r, more)
  BY <1>1, MoreToParse
<1>3. PICK f : Unrolled(f, r, buf) /\ Parse(r, buf) = f[Len(buf) + 3]
  BY <1>1, ParseUnrolled
<1>4. PICK g : Unrolled(g, r, more) /\ Parse(r, more) = g[Len(more) + 3]
  BY <1>1, <1>2, ParseUnrolled
<1>14. f[Len(buf) + 3].result = "SUCCESS"
  BY <1>3
<1>5. PICK k \in 1..(Len(buf) + 3) :
        /\ \A n \in 0..(k - 1) : f[n].result = "MORE"
        /\ Parsing(f[k - 1].req, buf) /\ f[k - 1].req.state = "FINISH"
        /\ f[Len(buf) + 3] = [req |-> AtEnd(f[k - 1].req), result |-> "SUCCESS"]
  BY <1>1, <1>3, <1>14, EndReached
<1> DEFINE h == k - 1
<1>6. h \in 0..(k - 1) /\ h \in 0..(Len(more) + 2) /\ h + 1 = k /\ k \in 0..(Len(more) + 3)
  BY <1>1
<1>7. SameTurn(g[h], f[h]) /\ f[h].result = "MORE" /\ f[h].req \in Parsers
  BY <1>3, <1>4, <1>5, <1>6, TurnsStay DEF Parsing
<1>8. g[k] = Onward(g[h], more) /\ Parsing(g[h].req, more) /\ g[h].req \in Parsers
  <2>1. h \in 0..(Len(more) + 3)
    BY <1>1, <1>6
  <2> HIDE DEF h
  <2> QED  BY <1>4, <1>6, <2>1 DEF Unrolled, Parsing
<1>9. f[h].req.state = "FINISH" /\ f[Len(buf) + 3] = [req |-> AtEnd(f[h].req), result |-> "SUCCESS"]
  BY <1>5
<1> HIDE DEF h
<1>10. g[h].req.state = "FINISH" /\ g[h].result = "MORE"
  BY <1>7, <1>9 DEF SameTurn, Alike
<1>11. g[k] = [req |-> AtEnd(g[h].req), result |-> "SUCCESS"]
  BY <1>8, <1>10, FinishTurn DEF Onward
<1>12. Alike(AtEnd(g[h].req), AtEnd(f[h].req))
  <2>1. Alike(g[h].req, f[h].req)
    BY <1>7 DEF SameTurn
  <2> QED  BY <1>7, <1>8, <1>9, <1>10, <2>1, FinishTurn DEF Alike
<1>13. g[Len(more) + 3] = g[k]
  <2>1. PICK j \in 1..(Len(more) + 3) :
          /\ g[j].result # "MORE" /\ \A n \in 0..(j - 1) : g[n].result = "MORE"
          /\ \A n \in j..(Len(more) + 3) : g[n] = g[j]
    BY <1>4, TurnsSuffice
  <2>2. g[k].result # "MORE"
    BY <1>11
  <2>3. k \in j..(Len(more) + 3) /\ Len(more) + 3 \in j..(Len(more) + 3)
    BY <1>1, <1>6, <2>1, <2>2
  <2> QED  BY <2>1, <2>3
<1> QED  BY <1>3, <1>4, <1>9, <1>11, <1>12, <1>13 DEF SameTurn

(* What a parse leaves when it says SUCCESS.                               *)
LEMMA SuccessLeaves ==
  ASSUME NEW buf \in Seq(Tokens), NEW r, Parsing(r, buf), Parse(r, buf).result = "SUCCESS"
  PROVE  /\ Parse(r, buf).req.state = "FINISH"
         /\ Parse(r, buf).req.start = Parse(r, buf).req.checked
<1>1. buf # <<>>
  <2>1. buf = <<>> => Parse(r, buf) = [req |-> r, result |-> "INCOMPLETE"]
    BY ParseUnrolled
  <2> QED  BY <2>1
<1>2. PICK f : Unrolled(f, r, buf) /\ Parse(r, buf) = f[Len(buf) + 3]
  BY <1>1, ParseUnrolled
<1>3. Unrolled(f, r, buf) /\ f[Len(buf) + 3].result = "SUCCESS"
  BY <1>2
<1>4. PICK k \in 1..(Len(buf) + 3) :
        /\ \A n \in 0..(k - 1) : f[n].result = "MORE"
        /\ Parsing(f[k - 1].req, buf) /\ f[k - 1].req.state = "FINISH"
        /\ f[Len(buf) + 3] = [req |-> AtEnd(f[k - 1].req), result |-> "SUCCESS"]
  BY <1>1, <1>3, EndReached
<1> DEFINE q == f[k - 1].req
<1>5. q \in Parsers /\ q.state = "FINISH"
  BY <1>4 DEF Parsing
<1>6. Parse(r, buf).req = AtEnd(q)
  BY <1>2, <1>4
<1> HIDE DEF q
<1>7. AtEnd(q).state = "FINISH" /\ AtEnd(q).start = AtEnd(q).checked
  BY <1>5, FinishTurn
<1> QED  BY <1>6, <1>7

(* parse() comes to a result.                                              *)
LEMMA ParseEnds ==
  ASSUME NEW buf \in Seq(Tokens), NEW r, Parsing(r, buf)
  PROVE  Parse(r, buf).result \in {"INCOMPLETE", "ERROR", "SUCCESS"}
<1>1. CASE buf = <<>>
  <2>1. Parse(r, buf) = [req |-> r, result |-> "INCOMPLETE"]
    BY <1>1, ParseUnrolled
  <2> QED  BY <2>1
<1>2. CASE buf # <<>>
  <2>1. PICK f : Unrolled(f, r, buf) /\ Parse(r, buf) = f[Len(buf) + 3]
    BY <1>2, ParseUnrolled
  <2>2. PICK k \in 1..(Len(buf) + 3) :
          /\ f[k].result # "MORE" /\ \A n \in k..(Len(buf) + 3) : f[n] = f[k]
    BY <2>1, TurnsSuffice
  <2>3. Len(buf) + 3 \in k..(Len(buf) + 3)
    BY LenProperties
  <2>4. Parse(r, buf).result # "MORE"
    BY <2>1, <2>2, <2>3
  <2> QED  BY <2>4, InputParsed
<1> QED  BY <1>1, <1>2
-----------------------------------------------------------------------------
(* The response.  What a header block consists of.                         *)
LEMMA HeaderBuilt ==
  ASSUME NEW resp \in Responses, NEW n \in Nat
  PROVE  LET H == HeaderOf(resp, n)
         IN  /\ H \in Seq(Units) /\ Len(H) >= 3
             /\ H[1] = Status(resp.status) /\ H[2] = ConnectionHeader(resp.keepAlive)
             /\ \A i \in 3..Len(H) : H[i].is # "connection"
<1> DEFINE first == <<Status(resp.status), ConnectionHeader(resp.keepAlive)>>
           last == <<ContentLength(n)>>
           most == first \o resp.extra
<1>1. resp.status \in Codes /\ resp.keepAlive \in BOOLEAN /\ resp.extra \in Seq(CookieUnits)
  BY DEF Responses, Extras
<1>2. /\ Status(resp.status) \in Units /\ ConnectionHeader(resp.keepAlive) \in Units
      /\ ContentLength(n) \in Units /\ ContentLength(n).is = "length"
      /\ CookieUnits \subseteq Units /\ \A c \in CookieUnits : c.is = "cookie"
  BY <1>1 DEF Status, ConnectionHeader, ContentLength, Units, HeaderUnits, CookieUnits
<1>3. /\ first \in Seq(Units) /\ Len(first) = 2
      /\ first[1] = Status(resp.status) /\ first[2] = ConnectionHeader(resp.keepAlive)
  BY <1>2
<1>4. /\ last \in Seq(Units) /\ Len(last) = 1 /\ last[1].is = "length"
  BY <1>2
<1>5. resp.extra \in Seq(Units) /\ Len(resp.extra) \in Nat
  BY <1>1, <1>2, SeqMonotonic
<1>6. \A i \in 1..Len(resp.extra) : resp.extra[i].is = "cookie"
  BY <1>1, <1>2
<1> HIDE DEF first, last
<1>7. /\ most \in Seq(Units) /\ Len(most) = 2 + Len(resp.extra)
      /\ \A i \in 1..(2 + Len(resp.extra)) :
           most[i] = IF i =< 2 THEN first[i] ELSE resp.extra[i - 2]
  <2>1. /\ most \in Seq(Units) /\ Len(most) = Len(first) + Len(resp.extra)
        /\ \A i \in 1..(Len(first) + Len(resp.extra)) :
             most[i] = IF i =< Len(first) THEN first[i] ELSE resp.extra[i - Len(first)]
    BY <1>3, <1>5, ConcatProperties
  <2> HIDE DEF most
  <2> QED  BY <1>3, <2>1
<1> HIDE DEF most
<1>8. /\ most \o last \in Seq(Units) /\ Len(most \o last) = Len(most) + 1
      /\ \A i \in 1..(Len(most) + 1) :
           (most \o last)[i] = IF i =< Len(most) THEN most[i] ELSE last[i - Len(most)]
  <2>1. /\ most \o last \in Seq(Units) /\ Len(most \o last) = Len(most) + Len(last)
        /\ \A i \in 1..(Len(most) + Len(last)) :
             (most \o last)[i] = IF i =< Len(most) THEN most[i] ELSE last[i - Len(most)]
    BY <1>4, <1>7, ConcatProperties
  <2> QED  BY <1>4, <2>1
<1>9. HeaderOf(resp, n) = most \o last
  BY DEF HeaderOf, first, last, most
<1>10. /\ (most \o last)[1] = first[1] /\ (most \o last)[2] = first[2]
       /\ \A i \in 3..Len(most \o last) : (most \o last)[i].is \in {"cookie", "length"}
  <2>1. 1 =< Len(most) /\ 2 =< Len(most) /\ Len(most) \in Nat
    BY <1>5, <1>7
  <2>2. ASSUME NEW i \in 3..Len(most \o last) PROVE (most \o last)[i].is \in {"cookie", "length"}
    <3>1. CASE i =< Len(most)
      <4>1. (most \o last)[i] = resp.extra[i - 2] /\ i - 2 \in 1..Len(resp.extra)
        BY <1>5, <1>7, <1>8, <2>1, <3>1
      <4> QED  BY <1>6, <4>1
    <3>2. CASE i = Len(most) + 1
      BY <1>4, <1>8, <2>1, <3>2
    <3> QED  BY <1>8, <2>1, <3>1, <3>2
  <2> QED  BY <1>5, <1>7, <1>8, <2>1, <2>2
<1>11. Len(most \o last) >= 3
  BY <1>5, <1>7, <1>8
<1> HIDE DEF most
<1> QED  BY <1>3, <1>8, <1>9, <1>10, <1>11

(* What a response says about the connection, if the connection is to be   *)
(* kept or not; the 500 page says "close" whatever.                        *)
Announced(s, keep) ==
  /\ ~keep => \A i \in 1..Len(s) : s[i] # ConnectionHeader(TRUE)
  /\ keep => s[1] = Status(500) \/ \E i \in 1..Len(s) : s[i] = ConnectionHeader(TRUE)

(* The units of a response that must not be taken for one another.         *)
LEMMA UnitKinds ==
  /\ ConnectionHeader(TRUE).is = "connection" /\ ConnectionHeader(TRUE) # ConnectionHeader(FALSE)
  /\ \A code : Status(code).is = "status" /\ ErrorPage(code).is = "page"
  /\ \A user : Json(user).is = "json"
  /\ BadRequestPage.is = "400"
  /\ \A u \in FileUnits : u.is = "data"
  BY DEF ConnectionHeader, Status, ErrorPage, Json, BadRequestPage, FileUnits

(* The Connection header says what the response was told about the         *)
(* connection.                                                             *)
LEMMA HeaderAnnounces ==
  ASSUME NEW resp \in Responses, NEW n \in Nat
  PROVE  Announced(HeaderOf(resp, n), resp.keepAlive)
<1> DEFINE H == HeaderOf(resp, n)
<1>1. /\ H \in Seq(Units) /\ Len(H) >= 3
      /\ H[1] = Status(resp.status) /\ H[2] = ConnectionHeader(resp.keepAlive)
      /\ \A i \in 3..Len(H) : H[i].is # "connection"
  BY HeaderBuilt
<1>2. resp.keepAlive \in BOOLEAN /\ Len(H) \in Nat
  BY <1>1 DEF Responses
<1> HIDE DEF H
<1>3. CASE resp.keepAlive = TRUE
  <2>1. 2 \in 1..Len(H) /\ H[2] = ConnectionHeader(TRUE)
    <3>1. 2 \in 1..Len(H)
      BY <1>1, <1>2
    <3>2. H[2] = ConnectionHeader(TRUE)
      BY <1>1, <1>3, Zenon
    <3> QED  BY <3>1, <3>2
  <2> QED  BY <1>3, <2>1 DEF Announced, H
<1>4. CASE resp.keepAlive = FALSE
  <2>1. \A i \in 1..Len(H) : H[i] # ConnectionHeader(TRUE)
    <3> TAKE i \in 1..Len(H)
    <3>1. i = 1 \/ i = 2 \/ i \in 3..Len(H)
      BY <1>1, <1>2
    <3>2. H[1] # ConnectionHeader(TRUE) /\ H[2] # ConnectionHeader(TRUE)
      BY <1>1, <1>4, UnitKinds
    <3> QED  BY <1>1, <3>1, <3>2, UnitKinds
  <2> QED  BY <1>4, <2>1 DEF Announced, H
<1> QED  BY <1>2, <1>3, <1>4

(* A unit more that says nothing of the connection changes nothing.        *)
LEMMA AnnouncedMore ==
  ASSUME NEW S, NEW s \in Seq(S), NEW t \in Seq(S), NEW keep \in BOOLEAN,
         Announced(s, keep), s # <<>>,
         \A i \in 1..Len(t) : t[i].is # "connection"
  PROVE  Announced(s \o t, keep)
<1>1. /\ Len(s) \in Nat \ {0} /\ Len(t) \in Nat /\ Len(s \o t) = Len(s) + Len(t)
      /\ \A i \in 1..(Len(s) + Len(t)) :
           (s \o t)[i] = IF i =< Len(s) THEN s[i] ELSE t[i - Len(s)]
  BY ConcatProperties, EmptySeq, LenProperties
<1>2. \A i \in 1..Len(s) : i \in 1..Len(s \o t) /\ (s \o t)[i] = s[i]
  BY <1>1
<1>3. (s \o t)[1] = s[1]
  BY <1>1, <1>2
<1>4. CASE keep
  BY <1>2, <1>3, <1>4 DEF Announced
<1>5. CASE ~keep
  <2>1. \A i \in 1..Len(s \o t) : (s \o t)[i] # ConnectionHeader(TRUE)
    <3> SUFFICES ASSUME NEW i \in 1..Len(s \o t) PROVE (s \o t)[i] # ConnectionHeader(TRUE)
      OBVIOUS
    <3>0. i \in Nat /\ Len(s) \in Nat
      BY <1>1
    <3>1. CASE i =< Len(s)
      <4>1. i \in 1..Len(s)
        BY <1>1, <3>1
      <4>2. s[i] # ConnectionHeader(TRUE)
        BY <1>5, <4>1 DEF Announced
      <4> QED  BY <1>2, <4>1, <4>2
    <3>2. CASE i > Len(s)
      <4>1. i - Len(s) \in 1..Len(t) /\ (s \o t)[i] = t[i - Len(s)]
        BY <1>1, <3>2
      <4> QED  BY <4>1, UnitKinds
    <3>3. i =< Len(s) \/ i > Len(s)
      BY <3>0
    <3> QED  BY <3>1, <3>2, <3>3, Zenon
  <2> QED  BY <1>5, <2>1 DEF Announced
<1> QED  BY <1>4, <1>5
(* The three ways to make a response.                                      *)
LEMMA CodesTyped ==
  200 \in Codes /\ 403 \in Codes /\ 404 \in Codes /\ 500 \in Codes /\ <<>> \in Seq(Units)
  BY DEF Codes

(* A response that was given an error code is one still.                   *)
LEMMA ErrorTyped ==
  ASSUME NEW resp \in Responses, NEW code \in Codes
  PROVE  [resp EXCEPT !.status = code, !.file = NoFile] \in Responses
  BY DEF Responses

(* init() leaves an empty response that keeps nothing alive.               *)
LEMMA InitedTyped ==
  /\ InitedResponse \in Responses
  /\ InitedResponse.buffer = <<>> /\ InitedResponse.keepAlive = FALSE
<1>1. <<>> \in Extras
  BY EmptySeq DEF Extras
<1> QED  BY <1>1, CodesTyped DEF InitedResponse, Responses

(* A response of the builder has three headers at least, which the fixed   *)
(* text of error 400 has not.                                              *)
Headed(s) == Len(s) >= 3

(* Such a response is neither empty nor the fixed text.                    *)
LEMMA HeadedIsNoText ==
  ASSUME NEW s \in Seq(Units), Headed(s)
  PROVE  s # <<>> /\ s # <<BadRequestPage>>
<1> DEFINE none == <<>>
           page == <<BadRequestPage>>
<1>1. Len(none) = 0 /\ Len(page) = 1
  OBVIOUS
<1>2. Len(s) # 0 /\ Len(s) # 1
  <2> DEFINE n == Len(s)
  <2>1. n \in Nat /\ n >= 3
    BY LenProperties DEF Headed
  <2> HIDE DEF n
  <2>2. n # 0 /\ n # 1
    BY <2>1
  <2> QED  BY <2>2 DEF n
<1> HIDE DEF none, page
<1>3. s # none /\ s # page
  BY <1>1, <1>2, Zenon
<1> QED  BY <1>3 DEF none, page

(* build(): a page or the page of an error, or nothing and failure.        *)
LEMMA FileBuilt ==
  ASSUME NEW resp \in Responses, NEW path \in Paths, NEW keep \in BOOLEAN,
         NEW fs \in {Files} \cup OtherFiles
  PROVE  LET built == Build(resp, path, keep, fs)
         IN  /\ built.resp \in Responses /\ built.ok \in BOOLEAN
             /\ built.ok => Headed(built.resp.buffer) /\ Announced(built.resp.buffer, keep)
<1> DEFINE r == Started(path, keep, resp)
           good == [r EXCEPT !.buffer = HeaderOf(r, fs[path].size)]
           Bad(code) == MakeErrorResponse(r, code)
<1>1. r \in Responses /\ r.keepAlive = keep /\ r.buffer = <<>>
  <2>1. r \in Responses
    BY CodesTyped DEF Started, Responses
  <2>2. r.keepAlive = keep
    BY DEF Started, Responses
  <2>3. r.buffer = <<>>
    BY DEF Started, Responses
  <2> QED  BY <2>1, <2>2, <2>3
<1>2. fs[path].size \in Nat
  BY HttpConnectionAssumption DEF FileInfo
<1> HIDE DEF r
<1>3. /\ HeaderOf(r, fs[path].size) \in Seq(Units) /\ Headed(HeaderOf(r, fs[path].size))
      /\ Announced(HeaderOf(r, fs[path].size), keep)
  <2>1. Announced(HeaderOf(r, fs[path].size), r.keepAlive)
    BY <1>1, <1>2, HeaderAnnounces
  <2>2. HeaderOf(r, fs[path].size) \in Seq(Units) /\ Len(HeaderOf(r, fs[path].size)) >= 3
    BY <1>1, <1>2, HeaderBuilt
  <2>3. Headed(HeaderOf(r, fs[path].size))
    BY <2>2 DEF Headed
  <2> QED  BY <1>1, <2>1, <2>2, <2>3
<1>4. good \in Responses /\ good.buffer = HeaderOf(r, fs[path].size)
  BY <1>1, <1>3 DEF Responses
<1>5. \A code \in {404, 403} : Bad(code) \in Responses
  <2> SUFFICES ASSUME NEW code \in {404, 403} PROVE Bad(code) \in Responses
    OBVIOUS
  <2> DEFINE e == [r EXCEPT !.status = code, !.file = NoFile]
  <2>1. e \in Responses
    BY <1>1, CodesTyped DEF Responses
  <2>2. HeaderOf(e, 1) \in Seq(Units)
    BY <2>1, HeaderBuilt
  <2>3. <<ErrorPage(code)>> \in Seq(Units)
    BY DEF ErrorPage, Units, Bodies, Codes
  <2> DEFINE all == <<>> \o HeaderOf(e, 1) \o <<ErrorPage(code)>>
  <2>4. all \in Seq(Units)
    BY <2>2, <2>3, ConcatProperties
  <2>5. Bad(code) = [e EXCEPT !.buffer = all]
    BY <1>1 DEF MakeErrorResponse
  <2> HIDE DEF all, e
  <2> QED  BY <2>1, <2>4, <2>5 DEF Responses
<1>6. Build(resp, path, keep, fs) \in
        {[resp |-> Bad(404), ok |-> FALSE], [resp |-> Bad(403), ok |-> FALSE],
         [resp |-> good, ok |-> TRUE]}
  BY DEF Build, r
<1> HIDE DEF good, Bad
<1> DEFINE built == Build(resp, path, keep, fs)
<1> HIDE DEF built
<1>7. CASE built \in {[resp |-> Bad(404), ok |-> FALSE], [resp |-> Bad(403), ok |-> FALSE]}
  <2>1. built.resp \in Responses /\ built.ok = FALSE
    BY <1>5, <1>7
  <2> QED  BY <2>1 DEF built
<1>8. CASE built = [resp |-> good, ok |-> TRUE]
  <2>1. built.resp = good /\ built.ok = TRUE
    BY <1>8
  <2> QED  BY <1>3, <1>4, <2>1 DEF built
<1> QED  BY <1>6, <1>7, <1>8 DEF built

(* makeErrorResponse(500) on an empty response.                            *)
LEMMA ServerErrorMade ==
  ASSUME NEW resp \in Responses, resp.buffer = <<>>, ~resp.keepAlive, NEW keep \in BOOLEAN
  PROVE  /\ MakeErrorResponse(resp, 500) \in Responses
         /\ Headed(MakeErrorResponse(resp, 500).buffer)
         /\ Announced(MakeErrorResponse(resp, 500).buffer, keep)
<1> DEFINE e == [resp EXCEPT !.status = 500, !.file = NoFile]
           page == <<ErrorPage(500)>>
           H == HeaderOf(e, 1)
<1>1. e \in Responses /\ e.keepAlive = FALSE /\ e.status = 500
  <2>1. e \in Responses
    <3> DEFINE code == 500
    <3>1. code \in Codes
      BY CodesTyped
    <3> HIDE DEF code
    <3>2. [resp EXCEPT !.status = code, !.file = NoFile] \in Responses
      BY <3>1, ErrorTyped
    <3> QED  BY <3>2 DEF code
  <2>2. e.keepAlive = FALSE
    <3>1. resp.keepAlive \in BOOLEAN /\ e.keepAlive = resp.keepAlive
      BY DEF Responses
    <3> QED  BY <3>1, Zenon
  <2>3. e.status = 500
    BY DEF Responses
  <2> QED  BY <2>1, <2>2, <2>3
<1> HIDE DEF e
<1>2. page \in Seq(Units) /\ Len(page) = 1
  BY DEF ErrorPage, Units, Bodies, Codes
<1>3. H \in Seq(Units) /\ H # <<>> /\ Headed(H) /\ H[1] = Status(500) /\ Announced(H, FALSE)
  <2>1. Announced(H, e.keepAlive)
    BY <1>1, HeaderAnnounces
  <2>2. Announced(H, FALSE)
    BY <1>1, <2>1, Zenon
  <2>3. H \in Seq(Units) /\ Len(H) >= 3 /\ H[1] = Status(e.status)
    BY <1>1, HeaderBuilt
  <2>4. H # <<>> /\ Headed(H)
    BY <2>3, EmptySeq DEF Headed
  <2>5. H[1] = Status(500)
    BY <1>1, <2>3
  <2> QED  BY <2>2, <2>3, <2>4, <2>5, Zenon
<1> HIDE DEF H
<1>4. \A i \in 1..Len(page) : page[i].is # "connection"
  BY <1>2, UnitKinds
<1> DEFINE all == H \o page
<1>5. Announced(all, FALSE)
  <2> DEFINE no == FALSE
  <2>1. no \in BOOLEAN /\ Announced(H, no) /\ H \in Seq(Units) /\ H # <<>>
    BY <1>3, Zenon
  <2>2. page \in Seq(Units) /\ \A i \in 1..Len(page) : page[i].is # "connection"
    BY <1>2, <1>4
  <2> HIDE DEF no, page
  <2>3. Announced(H \o page, no)
    BY <2>1, <2>2, AnnouncedMore
  <2> QED  BY <2>3, Zenon DEF no
<1>6. all \in Seq(Units) /\ Headed(all) /\ all[1] = Status(500)
  <2>1. Len(H) \in Nat \ {0}
    BY <1>3, EmptySeq
  <2>2. /\ all \in Seq(Units) /\ Len(all) = Len(H) + Len(page)
        /\ \A i \in 1..(Len(H) + Len(page)) :
             all[i] = IF i =< Len(H) THEN H[i] ELSE page[i - Len(H)]
    BY <1>2, <1>3, ConcatProperties
  <2> HIDE DEF all, page
  <2>3. 1 \in 1..(Len(H) + Len(page)) /\ 1 =< Len(H) /\ Len(all) >= 3
    BY <1>2, <1>3, <2>1, <2>2 DEF Headed
  <2> QED  BY <1>3, <2>2, <2>3 DEF Headed
<1>7. Announced(all, keep)
  <2>1. CASE keep = TRUE
    BY <1>6, <2>1 DEF Announced
  <2>2. CASE keep = FALSE
    BY <1>5, <2>2, Zenon
  <2> QED  BY <2>1, <2>2
<1>8. MakeErrorResponse(resp, 500) = [e EXCEPT !.buffer = all]
  <2>1. <<>> \o H = H
    BY <1>3, ConcatEmptySeq
  <2> QED  BY <2>1 DEF MakeErrorResponse, e, H
<1> HIDE DEF all
<1> DEFINE made == [e EXCEPT !.buffer = all]
<1>9. made \in Responses /\ made.buffer = all
  BY <1>1, <1>6 DEF Responses
<1>10. MakeErrorResponse(resp, 500) = made
  BY <1>8
<1> HIDE DEF made
<1> QED  BY <1>6, <1>7, <1>9, <1>10, Zenon

(* makeTextResponse, with the user as JSON.                                *)
LEMMA TextMade ==
  ASSUME NEW user \in Texts, NEW keep \in BOOLEAN
  PROVE  LET made == MakeTextResponse(200, Json(user), keep)
         IN  made \in Responses /\ Headed(made.buffer) /\ Announced(made.buffer, keep)
<1> DEFINE r == [InitedResponse EXCEPT !.status = 200, !.keepAlive = keep]
           text == <<Json(user)>>
           H == HeaderOf(r, 1)
<1>1. r \in Responses /\ r.keepAlive = keep
  <2>1. r \in Responses
    BY InitedTyped, CodesTyped DEF Responses
  <2>2. r.keepAlive = keep
    BY InitedTyped DEF Responses
  <2> QED  BY <2>1, <2>2
<1>2. text \in Seq(Units) /\ Len(text) = 1
  BY DEF Json, Units, Bodies
<1>3. H \in Seq(Units) /\ H # <<>> /\ Headed(H) /\ Announced(H, keep)
  <2>1. Announced(H, r.keepAlive)
    BY <1>1, HeaderAnnounces
  <2>2. H \in Seq(Units) /\ Len(H) >= 3
    BY <1>1, HeaderBuilt
  <2>3. H # <<>> /\ Headed(H)
    BY <2>2, EmptySeq DEF Headed
  <2> QED  BY <1>1, <2>1, <2>2, <2>3
<1> HIDE DEF r, H
<1>4. \A i \in 1..Len(text) : text[i].is # "connection"
  BY <1>2, UnitKinds
<1> DEFINE all == H \o text
<1>5. Announced(all, keep)
  BY <1>2, <1>3, <1>4, AnnouncedMore
<1>6. all \in Seq(Units) /\ Headed(all)
  BY <1>2, <1>3, ConcatProperties DEF Headed
<1>7. MakeTextResponse(200, Json(user), keep) = [r EXCEPT !.buffer = all]
  BY DEF MakeTextResponse, r, H
<1> HIDE DEF all
<1>8. [r EXCEPT !.buffer = all] \in Responses /\ [r EXCEPT !.buffer = all].buffer = all
  BY <1>1, <1>6 DEF Responses
<1> QED  BY <1>5, <1>6, <1>7, <1>8
-----------------------------------------------------------------------------
(* makeResponse(): it changes the request's path, the response, the        *)
(* pending headers and the tables, and leaves buffers and iovec alone.     *)
SameOutput(d, c) ==
  /\ d.open = c.open /\ d.readBuf = c.readBuf /\ d.writeBuf = c.writeBuf /\ d.iov = c.iov
  /\ d.iovCnt = c.iovCnt /\ d.toSend = c.toSend /\ d.haveSent = c.haveSent /\ d.file = c.file
  /\ d.keepAlive = c.keepAlive

(* Two requests that differ at most in the path and what came after the    *)
(* headers.                                                                *)
SameHeading(r, s) ==
  /\ r.state = s.state /\ r.start = s.start /\ r.checked = s.checked
  /\ r.method = s.method /\ r.version = s.version /\ r.headers = s.headers

Made(m, c) ==
  /\ m.conn \in Objects /\ m.ok \in BOOLEAN /\ IsWorld(m.world)
  /\ SameOutput(m.conn, c)
  /\ Parsing(m.conn.request, c.readBuf)
  /\ SameHeading(m.conn.request, c.request)
  /\ m.ok => /\ Headed(m.conn.response.buffer)
             /\ Announced(m.conn.response.buffer, c.keepAlive)

(* A handler replies with a response that announces what the object will   *)
(* do.                                                                     *)
LEMMA Replied ==
  ASSUME NEW c \in Objects, Parsing(c.request, c.readBuf), NEW resp \in Responses,
         NEW ok, ok \in BOOLEAN, NEW w, IsWorld(w),
         ok => Headed(resp.buffer) /\ Announced(resp.buffer, c.keepAlive)
  PROVE  Made(Reply(c, resp, ok, w), c)
<1> DEFINE d == [c EXCEPT !.response = resp]
           m == Reply(c, resp, ok, w)
<1>1. d \in Objects /\ d.response = resp /\ d.request = c.request /\ SameOutput(d, c)
  BY DEF Objects, SameOutput
<1>2. m.conn = d /\ m.ok = ok /\ m.world = w
  BY DEF Reply
<1> HIDE DEF d, m
<1>3. Made(m, c)
  BY <1>1, <1>2 DEF Made, SameHeading
<1> QED  BY <1>3 DEF m

(* A handler replies with a page.                                          *)
LEMMA RepliedWithFile ==
  ASSUME NEW c \in Objects, Parsing(c.request, c.readBuf), NEW path \in Paths,
         NEW w, IsWorld(w)
  PROVE  Made(ReplyWithFile(c, path, w), c)
<1> DEFINE built == Build(c.response, path, c.keepAlive, w.fs)
           request == [c.request EXCEPT !.path = path]
           d == [c EXCEPT !.request.path = path]
<1>1. /\ built.resp \in Responses /\ built.ok \in BOOLEAN
      /\ built.ok => Headed(built.resp.buffer) /\ Announced(built.resp.buffer, c.keepAlive)
  <2>1. c.response \in Responses /\ c.keepAlive \in BOOLEAN /\ w.fs \in {Files} \cup OtherFiles
    BY DEF Objects, IsWorld
  <2> QED  BY <2>1, FileBuilt
<1>2. /\ request \in Parsers /\ request.path = path
      /\ \A f \in {"state", "checked", "headers", "start", "method", "version"} :
           request[f] = c.request[f]
  BY HttpConnectionAssumption DEF Parsing, Parsers
<1>3. d = [c EXCEPT !.request = request]
  BY DEF Objects
<1> HIDE DEF request, built
<1>4. d \in Objects /\ d.request = request /\ SameOutput(d, c)
  BY <1>2, <1>3 DEF Objects, SameOutput
<1>5. Parsing(request, c.readBuf)
  BY <1>2 DEF Parsing
<1>6. d.readBuf = c.readBuf /\ d.keepAlive = c.keepAlive
  BY <1>4 DEF SameOutput
<1>7. Made(Reply(d, built.resp, built.ok, w), d)
  <2> HIDE DEF d
  <2>1. Parsing(d.request, d.readBuf)
    BY <1>4, <1>5, <1>6
  <2>2. built.ok => Headed(built.resp.buffer) /\ Announced(built.resp.buffer, d.keepAlive)
    BY <1>1, <1>6, Zenon
  <2> QED  BY <1>1, <1>4, <2>1, <2>2, Replied
<1>8. ReplyWithFile(c, path, w) = Reply(d, built.resp, built.ok, w)
  BY DEF ReplyWithFile, built
<1> HIDE DEF d
<1>9. \A m : Made(m, d) => Made(m, c)
  BY <1>2, <1>4, <1>6 DEF Made, SameOutput, SameHeading
<1> QED  BY <1>7, <1>8, <1>9

(* A handler gives up with the page of error 500.                          *)
LEMMA ErrorReplied ==
  ASSUME NEW c \in Objects, Parsing(c.request, c.readBuf), NEW w, IsWorld(w),
         c.response.buffer = <<>>, c.response.keepAlive = FALSE
  PROVE  Made(ServerError(c, w), c)
<1> DEFINE resp == MakeErrorResponse(c.response, 500)
           yes == TRUE
<1>1. c.response \in Responses /\ c.keepAlive \in BOOLEAN
  BY DEF Objects
<1>2. resp \in Responses /\ Headed(resp.buffer) /\ Announced(resp.buffer, c.keepAlive)
  <2> DEFINE keep == c.keepAlive
  <2>1. keep \in BOOLEAN
    BY <1>1
  <2> DEFINE r == c.response
  <2>2. r \in Responses /\ r.buffer = <<>> /\ ~r.keepAlive
    BY <1>1
  <2>3. r = c.response
    OBVIOUS
  <2> HIDE DEF keep, r
  <2> DEFINE e == MakeErrorResponse(r, 500)
  <2>4. e \in Responses /\ Headed(e.buffer) /\ Announced(e.buffer, keep)
    BY <2>1, <2>2, ServerErrorMade
  <2>5. e = resp
    BY <2>3, Zenon
  <2> HIDE DEF e, resp
  <2> QED  BY <2>4, <2>5 DEF keep
<1>3. ServerError(c, w) = Reply(c, resp, yes, w)
  BY DEF ServerError
<1>4. yes \in BOOLEAN
  OBVIOUS
<1> HIDE DEF resp, yes
<1> QED  BY <1>2, <1>3, <1>4, Replied

(* What a form field or a session id can be.                               *)
LEMMA PostTyped ==
  ASSUME NEW r \in Parsers, NEW f \in {"username", "password"}
  PROVE  GetPost(r, f) \in Texts
<1>1. r.post[f] \in {Absent} \cup Texts
  BY RequestAssumption DEF Parsers
<1> QED  BY <1>1 DEF GetPost, Texts
(* The handler of a login, on each of its paths.                           *)
LEMMA LoginHandled ==
  ASSUME NEW c \in Objects, Parsing(c.request, c.readBuf), NEW w, IsWorld(w),
         c.response.buffer = <<>>, c.response.keepAlive = FALSE, NEW dbFails
  PROVE  Made(HandleLogin(c, w, dbFails), c)
<1> DEFINE name == Credentials(c)[1]
           password == Credentials(c)[2]
           cookie == <<SetCookie(Len(w.sessions) + 1)>>
           resp == SetExtraHeaders(c.response, cookie)
           d == [c EXCEPT !.pending = cookie, !.response = SetExtraHeaders(@, cookie)]
           v == [w EXCEPT !.sessions = Append(@, name)]
<1>1. c.request \in Parsers /\ c.response \in Responses
  BY DEF Objects
<1>2. name \in Texts
  BY <1>1, PostTyped DEF Credentials
<1>3. cookie \in Extras
  <2>1. Len(w.sessions) + 1 \in Nat
    BY DEF IsWorld
  <2>2. SetCookie(Len(w.sessions) + 1) \in CookieUnits
    BY <2>1 DEF SetCookie, CookieUnits
  <2> QED  BY <2>2 DEF Extras
<1> HIDE DEF name, password, cookie
<1>4. resp \in Responses
  BY <1>1, <1>3 DEF SetExtraHeaders, Responses
<1>5. d = [[c EXCEPT !.pending = cookie] EXCEPT !.response = resp]
  BY DEF Objects
<1> HIDE DEF resp
<1>6. d \in Objects /\ d.request = c.request /\ SameOutput(d, c)
  BY <1>3, <1>4, <1>5 DEF Objects, SameOutput
<1>7. IsWorld(v)
  <2>1. w.sessions \in Seq(Texts) /\ Append(w.sessions, name) \in Seq(Texts)
    BY <1>2, AppendProperties DEF IsWorld
  <2> HIDE DEF name
  <2>2. /\ v.users = w.users /\ v.fs = w.fs
        /\ v \in [users : {w.users}, sessions : Seq(Texts), fs : {Files} \cup OtherFiles]
    BY <2>1 DEF IsWorld
  <2> HIDE DEF v
  <2> QED  BY <2>2 DEF IsWorld
<1>8. HandleLogin(c, w, dbFails) \in
        {ServerError(c, w), ReplyWithFile(d, "/index.html", v), ReplyWithFile(c, "/login.html", w)}
  BY DEF HandleLogin, name, password, cookie
<1> HIDE DEF d, v
<1>9. Made(ReplyWithFile(d, "/index.html", v), c)
  <2>1. d.readBuf = c.readBuf
    BY <1>6 DEF SameOutput
  <2>2. Made(ReplyWithFile(d, "/index.html", v), d)
    BY <1>6, <1>7, <2>1, RepliedWithFile, HttpConnectionAssumption
  <2> QED  BY <1>6, <2>2 DEF Made, SameOutput
<1>10. Made(ReplyWithFile(c, "/login.html", w), c)
  BY RepliedWithFile, HttpConnectionAssumption
<1>11. Made(ServerError(c, w), c)
  BY ErrorReplied
<1> QED  BY <1>8, <1>9, <1>10, <1>11

(* The handler of a registration, on each of its paths.                    *)
LEMMA RegisterHandled ==
  ASSUME NEW c \in Objects, Parsing(c.request, c.readBuf), NEW w, IsWorld(w),
         c.response.buffer = <<>>, c.response.keepAlive = FALSE, NEW dbFails
  PROVE  Made(HandleRegister(c, w, dbFails), c)
<1> DEFINE name == Credentials(c)[1]
           password == Credentials(c)[2]
           users == WithUser(w.users, name, password)
           v == [w EXCEPT !.users = WithUser(@, name, password)]
<1>1. c.request \in Parsers
  BY DEF Objects
<1>2. name \in Texts /\ password \in Texts
  BY <1>1, PostTyped DEF Credentials
<1> HIDE DEF name, password
<1>3. DOMAIN users \subseteq Texts /\ users \in [DOMAIN users -> Texts]
  BY <1>2 DEF WithUser, IsWorld
<1>4. IsWorld(v)
  <2>1. v = [w EXCEPT !.users = users]
    BY DEF IsWorld
  <2> HIDE DEF users
  <2>2. /\ v.users = users
        /\ v \in [users : {users}, sessions : Seq(Texts), fs : {Files} \cup OtherFiles]
    BY <2>1 DEF IsWorld
  <2> HIDE DEF v
  <2> QED  BY <1>3, <2>2 DEF IsWorld
<1>5. HandleRegister(c, w, dbFails) \in
        {ServerError(c, w), ReplyWithFile(c, "/register.html", w), ReplyWithFile(c, "/login.html", v)}
  BY DEF HandleRegister, name, password
<1> HIDE DEF v
<1>6. Made(ReplyWithFile(c, "/register.html", w), c) /\ Made(ReplyWithFile(c, "/login.html", v), c)
  BY <1>4, RepliedWithFile, HttpConnectionAssumption
<1>7. Made(ServerError(c, w), c)
  BY ErrorReplied
<1> QED  BY <1>5, <1>6, <1>7

(* The handler that names the user of a session.                           *)
LEMMA WhoAmIHandled ==
  ASSUME NEW c \in Objects, Parsing(c.request, c.readBuf), NEW w, IsWorld(w)
  PROVE  Made(HandleWhoAmI(c, w), c)
<1> DEFINE id == GetCookieValue(GetHeader(c.request, "Cookie", <<>>))
           user == IF id \in 1..Len(w.sessions) THEN w.sessions[id] ELSE <<>>
           resp == MakeTextResponse(200, Json(user), c.keepAlive)
           yes == TRUE
           keep == c.keepAlive
<1>1. user \in Texts
  <2> HIDE DEF id
  <2>1. <<>> \in Texts /\ w.sessions \in Seq(Texts)
    BY DEF Texts, IsWorld
  <2> QED  BY <2>1
<1>2. keep \in BOOLEAN
  BY DEF Objects
<1>3. HandleWhoAmI(c, w) = Reply(c, resp, yes, w)
  BY DEF HandleWhoAmI
<1> HIDE DEF user, keep
<1>4. resp \in Responses /\ Headed(resp.buffer) /\ Announced(resp.buffer, keep)
  BY <1>1, <1>2, TextMade DEF keep
<1>5. yes \in BOOLEAN
  OBVIOUS
<1>6. Announced(resp.buffer, c.keepAlive)
  BY <1>4 DEF keep
<1> HIDE DEF resp, yes
<1> QED  BY <1>3, <1>4, <1>5, <1>6, Replied

(* makeResponse, whichever handler the request names.                      *)
LEMMA ResponseMade ==
  ASSUME NEW c \in Objects, Parsing(c.request, c.readBuf), c.request.path \in Paths,
         NEW w, IsWorld(w), c.response = InitedResponse, NEW dbFails
  PROVE  Made(MakeResponse(c, w, dbFails), c)
<1> DEFINE resp == SetExtraHeaders(c.response, c.pending)
           d == [c EXCEPT !.response = SetExtraHeaders(@, c.pending)]
<1>1. c.response \in Responses /\ c.pending \in Extras
  BY DEF Objects
<1>2. resp \in Responses
  BY <1>1 DEF SetExtraHeaders, Responses
<1>3. resp.buffer = <<>> /\ resp.keepAlive = FALSE
  BY InitedTyped DEF SetExtraHeaders, Responses
<1>4. d = [c EXCEPT !.response = resp]
  BY DEF Objects
<1> HIDE DEF resp
<1>5. d \in Objects /\ d.request = c.request /\ d.response = resp /\ SameOutput(d, c)
  BY <1>2, <1>4 DEF Objects, SameOutput
<1>6. MakeResponse(c, w, dbFails) \in
        {HandleWhoAmI(d, w), HandleLogin(d, w, dbFails), HandleRegister(d, w, dbFails),
         ReplyWithFile(d, c.request.path, w)}
  BY DEF MakeResponse
<1> HIDE DEF d
<1>7. d.readBuf = c.readBuf
  BY <1>5 DEF SameOutput
<1>8. \A m : Made(m, d) => Made(m, c)
  BY <1>5, <1>7 DEF Made, SameOutput
<1>9. Made(HandleWhoAmI(d, w), d)
  BY <1>5, <1>7, WhoAmIHandled
<1>10. Made(HandleLogin(d, w, dbFails), d)
  BY <1>3, <1>5, <1>7, LoginHandled
<1>11. Made(HandleRegister(d, w, dbFails), d)
  BY <1>3, <1>5, <1>7, RegisterHandled
<1>12. Made(ReplyWithFile(d, c.request.path, w), d)
  BY <1>5, <1>7, RepliedWithFile
<1> QED  BY <1>6, <1>8, <1>9, <1>10, <1>11, <1>12
-----------------------------------------------------------------------------
(* process().  A response that is laid out: the iovec spans the header     *)
(* and, if there is one, the mapped file, and nothing of it is sent.       *)
LaidOut(c) ==
  /\ c.writeBuf # <<>> /\ Len(c.writeBuf) < WriteBufSize
  /\ c.iov[1] = Span(0, Len(c.writeBuf))
  /\ \/ c.iovCnt = 1 /\ c.toSend = Len(c.writeBuf) /\ c.file = Unmapped
     \/ /\ c.iovCnt = 2 /\ c.toSend = Len(c.writeBuf) + c.file.size
        /\ c.iov[2] = Span(0, c.file.size)
        /\ c.file.path \in Paths /\ c.file.size \in 1..MaxFile
  /\ Announced(c.writeBuf, c.keepAlive)

(* What prepareWrite() finds: nothing mapped and nothing to send.          *)
Blank(c) == c.file = Unmapped /\ c.toSend = 0 /\ c.haveSent = 0

(* prepareWrite lays the response out, or leaves the object with none.     *)
LEMMA WritePrepared ==
  ASSUME NEW c \in Objects, Blank(c), NEW fs \in {Files} \cup OtherFiles,
         Headed(c.response.buffer), Announced(c.response.buffer, c.keepAlive)
  PROVE  LET laid == PrepareWrite(c, fs)
         IN  /\ laid.conn \in Objects /\ laid.ready \in BOOLEAN
             /\ \A f \in {"open", "readBuf", "request", "haveSent", "keepAlive"} :
                  laid.conn[f] = c[f]
             /\ laid.ready => LaidOut(laid.conn) /\ laid.conn.writeBuf # <<BadRequestPage>>
             /\ ~laid.ready => Blank(laid.conn)
<1> DEFINE path == c.response.file
           buffer == c.response.buffer
           header == HeaderLaid(c)
           whole == [header EXCEPT !.toSend = Len(buffer)]
           file == FileLaid(c, path, fs[path].size)
           laid == PrepareWrite(c, fs)
<1>1. /\ c.response \in Responses /\ buffer \in Seq(Units) /\ Len(buffer) \in Nat
      /\ path \in Paths \cup {NoFile}
  BY DEF Objects, Responses
<1>0. buffer # <<>> /\ buffer # <<BadRequestPage>>
  BY <1>1, HeadedIsNoText
<1> HIDE DEF buffer, path
<1> DEFINE iov == [c.iov EXCEPT ![1] = Span(0, Len(buffer))]
<1>2. iov \in Iovecs /\ iov[1] = Span(0, Len(buffer)) /\ iov[2] = c.iov[2] /\ 1 \in 0..2
  <2>1. c.iov \in Iovecs
    BY DEF Objects
  <2> QED  BY <1>1, <2>1 DEF Iovecs, Span
<1>3. header = [c EXCEPT !.writeBuf = buffer, !.iov = iov, !.iovCnt = 1]
  BY DEF HeaderLaid, buffer, Objects
<1> HIDE DEF header, iov
<1>4. /\ header \in Objects /\ header.writeBuf = buffer /\ header.iov = iov /\ header.iovCnt = 1
      /\ \A f \in {"open", "readBuf", "request", "haveSent", "keepAlive", "file", "toSend"} :
           header[f] = c[f]
  <2>1. header \in Objects
    BY <1>1, <1>2, <1>3 DEF Objects
  <2>2. header.writeBuf = buffer /\ header.iov = iov /\ header.iovCnt = 1
    BY <1>3 DEF Objects
  <2>3. \A f \in {"open", "readBuf", "request", "haveSent", "keepAlive", "file", "toSend"} :
          header[f] = c[f]
    BY <1>3 DEF Objects
  <2> QED  BY <2>1, <2>2, <2>3
<1>5. /\ whole \in Objects /\ whole.toSend = Len(buffer)
      /\ \A f \in {"open", "readBuf", "request", "haveSent", "keepAlive", "file",
                    "writeBuf", "iov", "iovCnt"} : whole[f] = header[f]
  BY <1>1, <1>4 DEF Objects
<1>6. CASE Len(buffer) >= WriteBufSize
  <2>1. laid = [conn |-> c, ready |-> FALSE]
    BY <1>1, <1>6, HttpConnectionAssumption DEF PrepareWrite, buffer, path
  <2> QED  BY <2>1
<1>7. CASE Len(buffer) < WriteBufSize /\ ~(c.response.status = 200 /\ path # NoFile)
  <2>1. laid = [conn |-> whole, ready |-> TRUE]
    BY <1>1, <1>7, HttpConnectionAssumption DEF PrepareWrite, buffer, path, header
  <2> HIDE DEF whole
  <2>2. LaidOut(whole) /\ whole.writeBuf # <<BadRequestPage>>
    BY <1>0, <1>1, <1>2, <1>4, <1>5, <1>7 DEF LaidOut, Blank, buffer
  <2> HIDE DEF laid
  <2>3. laid.conn = whole /\ laid.ready = TRUE
    BY <2>1
  <2> QED  BY <1>4, <1>5, <2>2, <2>3 DEF laid
<1>8. CASE Len(buffer) < WriteBufSize /\ c.response.status = 200 /\ path # NoFile /\ ~CanMap(fs[path])
  <2>1. laid = [conn |-> header, ready |-> FALSE]
    BY <1>1, <1>8, HttpConnectionAssumption DEF PrepareWrite, buffer, path, header
  <2> HIDE DEF laid
  <2>2. laid.conn = header /\ laid.ready = FALSE
    BY <2>1
  <2>3. Blank(header)
    BY <1>4 DEF Blank
  <2> QED  BY <1>4, <2>2, <2>3 DEF laid
<1>9. CASE Len(buffer) < WriteBufSize /\ c.response.status = 200 /\ path # NoFile /\ CanMap(fs[path])
  <2>1. path \in Paths /\ fs[path].size \in 1..MaxFile
    <3>1. path \in Paths
      BY <1>1, <1>9
    <3>2. fs[path].size \in Nat /\ fs[path].size =< MaxFile
      BY <3>1, HttpConnectionAssumption DEF FileInfo
    <3> QED  BY <1>9, <3>1, <3>2, HttpConnectionAssumption DEF CanMap
  <2> DEFINE size == fs[path].size
             both == [iov EXCEPT ![2] = Span(0, size)]
             map == [path |-> path, size |-> size]
  <2>2. size \in Nat
    BY <2>1, HttpConnectionAssumption
  <2>3. both \in Iovecs /\ both[1] = iov[1] /\ both[2] = Span(0, size) /\ 2 \in 0..2
    BY <1>2, <2>2 DEF Span, Iovecs
  <2>4. map \in [path : Paths \cup {NoFile}, size : Nat] /\ map.path = path /\ map.size = size
    BY <2>1, <2>2
  <2>5. laid = [conn |-> file, ready |-> TRUE]
    BY <1>1, <1>9, HttpConnectionAssumption DEF PrepareWrite, buffer, path, header
  <2>6. file = [header EXCEPT !.file = map, !.iov = both, !.iovCnt = 2,
                              !.toSend = Len(buffer) + size]
    BY <1>4 DEF FileLaid, header, buffer, Objects
  <2> HIDE DEF file, both, map, size
  <2>7. /\ file \in Objects /\ file.file = map /\ file.iov = both /\ file.iovCnt = 2
        /\ file.toSend = Len(buffer) + size
        /\ \A f \in {"open", "readBuf", "request", "haveSent", "keepAlive", "writeBuf"} :
             file[f] = header[f]
    <3>1. file \in Objects
      <4> DEFINE total == Len(buffer) + size
      <4>1. total \in Nat
        BY <1>1, <2>2
      <4>2. map \in [path : Paths \cup {NoFile}, size : Nat]
        BY <2>4
      <4>3. file = [header EXCEPT !.file = map, !.iov = both, !.iovCnt = 2, !.toSend = total]
        BY <2>6
      <4> HIDE DEF total
      <4> QED  BY <1>4, <2>3, <4>1, <4>2, <4>3 DEF Objects
    <3>2. /\ file.file = map /\ file.iov = both /\ file.iovCnt = 2
          /\ file.toSend = Len(buffer) + size
      BY <1>4, <2>6 DEF Objects
    <3>3. \A f \in {"open", "readBuf", "request", "haveSent", "keepAlive", "writeBuf"} :
            file[f] = header[f]
      BY <1>4, <2>6 DEF Objects
    <3> QED  BY <3>1, <3>2, <3>3
  <2>8. LaidOut(file) /\ file.writeBuf # <<BadRequestPage>>
    BY <1>0, <1>1, <1>2, <1>4, <1>9, <2>1, <2>3, <2>4, <2>7 DEF LaidOut, buffer, size
  <2> HIDE DEF laid
  <2>9. laid.conn = file /\ laid.ready = TRUE
    BY <2>5
  <2> QED  BY <1>4, <2>7, <2>8, <2>9 DEF laid
<1> QED  BY <1>1, <1>6, <1>7, <1>8, <1>9, HttpConnectionAssumption
(* The fixed 400 response is laid out, and says nothing of the connection. *)
LEMMA BadRequestPrepared ==
  ASSUME NEW c \in Objects, Blank(c), ~c.keepAlive
  PROVE  LET bad == PrepareErrorResponse(c)
         IN  /\ bad \in Objects /\ LaidOut(bad) /\ bad.toSend = 1
             /\ bad.writeBuf = <<BadRequestPage>>
             /\ \A f \in {"open", "readBuf", "request", "haveSent", "keepAlive"} : bad[f] = c[f]
<1> DEFINE page == <<BadRequestPage>>
           iov == [c.iov EXCEPT ![1] = Span(0, 1)]
           bad == PrepareErrorResponse(c)
<1>1. page \in Seq(Units) /\ Len(page) = 1 /\ page # <<>> /\ page[1].is = "400" /\ 1 \in 0..2
  BY DEF BadRequestPage, Units, Bodies
<1>2. iov \in Iovecs /\ iov[1] = Span(0, 1)
  <2>1. c.iov \in Iovecs
    BY DEF Objects
  <2> QED  BY <2>1 DEF Iovecs, Span
<1>3. bad = [c EXCEPT !.writeBuf = page, !.iov = iov, !.iovCnt = 1, !.toSend = 1]
  BY DEF PrepareErrorResponse, Objects
<1> HIDE DEF page, iov, bad
<1>4. bad \in Objects
  BY <1>1, <1>2, <1>3 DEF Objects
<1>5. bad.writeBuf = page /\ bad.iov = iov /\ bad.iovCnt = 1 /\ bad.toSend = 1
  BY <1>3 DEF Objects
<1>6. \A f \in {"open", "readBuf", "request", "haveSent", "keepAlive", "file"} : bad[f] = c[f]
  BY <1>3 DEF Objects
<1>7. Announced(page, c.keepAlive)
  <2>1. \A i \in 1..Len(page) : i = 1
    BY <1>1
  <2>2. page[1] # ConnectionHeader(TRUE)
    BY <1>1, UnitKinds
  <2> QED  BY <2>1, <2>2, Zenon DEF Announced
<1>8. LaidOut(bad)
  <2>1. Announced(bad.writeBuf, bad.keepAlive)
    BY <1>5, <1>6, <1>7, Zenon
  <2>2. WriteBufSize \in Nat /\ 1 < WriteBufSize
    BY HttpConnectionAssumption
  <2> QED  BY <1>1, <1>2, <1>5, <1>6, <2>1, <2>2 DEF LaidOut, Blank
<1> QED  BY <1>4, <1>5, <1>6, <1>8 DEF bad, page

(* What process() clears before it parses.                                 *)
LEMMA ClearedForParse ==
  ASSUME NEW c \in Objects, NEW r \in Parsers
  PROVE  LET d == [Cleared(c) EXCEPT !.request = r]
         IN  /\ d \in Objects /\ Blank(d)
             /\ d.request = r /\ d.response = InitedResponse
             /\ \A f \in {"open", "readBuf", "keepAlive"} : d[f] = c[f]
<1> DEFINE e == Cleared(c)
           d == [e EXCEPT !.request = r]
<1>1. /\ Unmapped \in [path : Paths \cup {NoFile}, size : Nat] /\ <<>> \in Extras
      /\ <<>> \in Seq(Units) /\ 0 \in 0..2 /\ 0 \in Nat
  BY EmptySeq DEF Unmapped, Extras
<1>2. e \in Objects
  BY <1>1, InitedTyped DEF Cleared, UnmapFile, Objects
<1>3. e.file = Unmapped /\ e.toSend = 0 /\ e.haveSent = 0 /\ e.response = InitedResponse
  BY DEF Cleared, UnmapFile, Objects
<1>4. \A f \in {"open", "readBuf", "keepAlive"} : e[f] = c[f]
  BY DEF Cleared, UnmapFile, Objects
<1> HIDE DEF e
<1>5. d \in Objects
  BY <1>2 DEF Objects
<1>6. /\ d.request = r
      /\ \A f \in {"open", "readBuf", "keepAlive", "file", "toSend", "haveSent", "response"} :
           d[f] = e[f]
  BY <1>2 DEF Objects
<1>7. /\ d.open = e.open /\ d.readBuf = e.readBuf /\ d.keepAlive = e.keepAlive
      /\ d.file = e.file /\ d.toSend = e.toSend /\ d.haveSent = e.haveSent
      /\ d.response = e.response
  BY <1>6
<1> QED  BY <1>3, <1>4, <1>5, <1>6, <1>7 DEF Blank, e

(* process(): what it makes of what parse() found.                         *)
AsParsed(p, c) ==
  LET parsed == Parse(c.request, c.readBuf)
  IN  /\ SameHeading(p.conn.request, parsed.req)
      /\ parsed.result = "INCOMPLETE" => ~p.ready /\ p.conn.request = parsed.req
      /\ parsed.result = "ERROR" => p.ready
      /\ p.ready => (parsed.result = "ERROR" <=> p.conn.writeBuf = <<BadRequestPage>>)

(* process(): what it leaves in the object, answered or not.               *)
Processed(p, c) ==
  /\ p.conn \in Objects /\ p.ready \in BOOLEAN /\ IsWorld(p.world)
  /\ p.conn.open = c.open /\ p.conn.readBuf = c.readBuf /\ p.conn.haveSent = 0
  /\ Parsing(p.conn.request, c.readBuf)
  /\ p.ready => LaidOut(p.conn) /\ c.readBuf # <<>>
  /\ ~p.ready => Blank(p.conn) /\ (p.conn.keepAlive = c.keepAlive \/ c.readBuf # <<>>)
  /\ AsParsed(p, c)

(* process() as a whole: parse, respond and lay out, or ask for more.      *)
LEMMA ProcessTyped ==
  ASSUME NEW c \in Objects, Parsing(c.request, c.readBuf), NEW w, IsWorld(w), NEW dbFails,
         NEW fsNow \in {Files} \cup OtherFiles
  PROVE  Processed(Process(c, w, dbFails, fsNow), c)
<1> DEFINE parsed == Parse(c.request, c.readBuf)
           d == [Cleared(c) EXCEPT !.request = parsed.req]
           failed == [d EXCEPT !.keepAlive = FALSE]
           keep == IsKeepAlive(parsed.req)
           asked == [d EXCEPT !.keepAlive = keep]
           made == MakeResponse(asked, w, dbFails)
           laid == PrepareWrite(made.conn, fsNow)
           p == Process(c, w, dbFails, fsNow)
<1>1. c.readBuf \in Seq(Tokens)
  BY DEF Objects
<1>2. /\ Parsing(parsed.req, c.readBuf)
      /\ parsed.result \in {"MORE", "INCOMPLETE", "ERROR", "SUCCESS"}
      /\ parsed.result \in {"MORE", "SUCCESS"} => parsed.req.path \in Paths
      /\ c.readBuf = <<>> => parsed.result = "INCOMPLETE"
  BY <1>1, InputParsed
<1>3. /\ d \in Objects /\ Blank(d)
      /\ d.request = parsed.req /\ d.response = InitedResponse
      /\ d.open = c.open /\ d.readBuf = c.readBuf /\ d.keepAlive = c.keepAlive
  <2>1. parsed.req \in Parsers
    BY <1>2 DEF Parsing
  <2> HIDE DEF parsed
  <2> QED  BY <2>1, ClearedForParse
<1> HIDE DEF parsed, d
<1>4. CASE parsed.result = "INCOMPLETE"
  <2>1. p = [conn |-> d, ready |-> FALSE, world |-> w]
    BY <1>4 DEF Process, parsed, d
  <2> HIDE DEF p
  <2>2. p.conn = d /\ p.ready = FALSE /\ p.world = w
    BY <2>1
  <2>3. AsParsed(p, c)
    BY <1>3, <1>4, <2>2 DEF AsParsed, SameHeading, parsed
  <2> QED  BY <1>2, <1>3, <2>2, <2>3 DEF Processed, p, Blank
<1>5. CASE parsed.result = "ERROR"
  <2>1. p = [conn |-> PrepareErrorResponse(failed), ready |-> TRUE, world |-> w]
    BY <1>5 DEF Process, parsed, d
  <2>2. failed \in Objects
    BY <1>3 DEF Objects
  <2>3. ~failed.keepAlive
    BY <1>3 DEF Objects
  <2>4. \A f \in {"open", "readBuf", "request", "haveSent", "toSend", "file"} : failed[f] = d[f]
    BY <1>3 DEF Objects
  <2>5. Blank(failed)
    BY <1>3, <2>4 DEF Blank
  <2> HIDE DEF failed
  <2> DEFINE bad == PrepareErrorResponse(failed)
  <2>6. bad \in Objects /\ LaidOut(bad) /\ bad.writeBuf = <<BadRequestPage>>
    BY <2>2, <2>3, <2>5, BadRequestPrepared
  <2>7. \A f \in {"open", "readBuf", "request", "haveSent", "keepAlive"} : bad[f] = failed[f]
    BY <2>2, <2>3, <2>5, BadRequestPrepared
  <2> HIDE DEF p, bad
  <2>8. p.conn = bad /\ p.ready = TRUE /\ p.world = w
    BY <2>1 DEF bad
  <2>9. c.readBuf # <<>>
    BY <1>2, <1>5
  <2>10. AsParsed(p, c)
    BY <1>3, <1>5, <2>4, <2>6, <2>7, <2>8 DEF AsParsed, SameHeading, parsed
  <2> QED  BY <1>2, <1>3, <2>4, <2>6, <2>7, <2>8, <2>9, <2>10 DEF Processed, p, Blank
<1>6. CASE parsed.result \in {"MORE", "SUCCESS"}
  <2>1. p = IF made.ok THEN [conn |-> laid.conn, ready |-> laid.ready, world |-> made.world]
            ELSE [conn |-> made.conn, ready |-> FALSE, world |-> made.world]
    BY <1>6 DEF Process, parsed, d
  <2>2. keep \in BOOLEAN
    BY DEF IsKeepAlive
  <2> HIDE DEF keep
  <2>3. asked \in Objects
    BY <1>3, <2>2 DEF Objects
  <2>4. \A f \in {"open", "readBuf", "request", "haveSent", "toSend", "file", "response"} :
          asked[f] = d[f]
    BY <1>3 DEF Objects
  <2> HIDE DEF asked
  <2>5. Made(made, asked)
    <3>1. asked.request = parsed.req /\ asked.readBuf = c.readBuf /\ asked.response = InitedResponse
      BY <1>3, <2>4
    <3> QED  BY <1>2, <1>6, <2>3, <3>1, ResponseMade
  <2> HIDE DEF made
  <2>6. /\ made.conn \in Objects /\ made.ok \in BOOLEAN /\ IsWorld(made.world)
        /\ made.conn.open = c.open /\ made.conn.readBuf = c.readBuf /\ made.conn.haveSent = 0
        /\ Blank(made.conn) /\ Parsing(made.conn.request, c.readBuf)
        /\ SameHeading(made.conn.request, parsed.req)
    BY <1>3, <2>4, <2>5 DEF Made, SameOutput, Blank
  <2>7. made.ok => /\ Headed(made.conn.response.buffer)
                   /\ Announced(made.conn.response.buffer, made.conn.keepAlive)
    <3>1. made.conn.keepAlive = asked.keepAlive
      BY <2>5 DEF Made, SameOutput
    <3> QED  BY <2>5, <3>1, Zenon DEF Made
  <2>8. c.readBuf # <<>>
    BY <1>2, <1>6
  <2> HIDE DEF p
  <2>9. CASE made.ok = FALSE
    <3>1. p.conn = made.conn /\ p.ready = FALSE /\ p.world = made.world
      BY <2>1, <2>9
    <3>2. AsParsed(p, c)
      BY <1>6, <2>6, <3>1 DEF AsParsed, parsed
    <3> QED  BY <2>6, <2>8, <3>1, <3>2 DEF Processed, p
  <2>10. CASE made.ok = TRUE
    <3>1. p.conn = laid.conn /\ p.ready = laid.ready /\ p.world = made.world
      BY <2>1, <2>10
    <3>2. /\ laid.conn \in Objects /\ laid.ready \in BOOLEAN
          /\ \A f \in {"open", "readBuf", "request", "haveSent", "keepAlive"} :
               laid.conn[f] = made.conn[f]
          /\ laid.ready => LaidOut(laid.conn) /\ laid.conn.writeBuf # <<BadRequestPage>>
          /\ ~laid.ready => Blank(laid.conn)
      BY <2>6, <2>7, <2>10, WritePrepared
    <3> HIDE DEF laid
    <3>3. /\ laid.conn.open = made.conn.open /\ laid.conn.readBuf = made.conn.readBuf
          /\ laid.conn.request = made.conn.request /\ laid.conn.haveSent = made.conn.haveSent
      BY <3>2
    <3>4. AsParsed(p, c)
      BY <1>6, <2>6, <3>1, <3>2, <3>3 DEF AsParsed, SameHeading, parsed
    <3> QED  BY <2>6, <2>8, <3>1, <3>2, <3>3, <3>4 DEF Processed, p
  <2> QED  BY <2>6, <2>9, <2>10
<1> QED  BY <1>2, <1>4, <1>5, <1>6
-----------------------------------------------------------------------------
(* write().  The response as it was laid out, and the iovec within it.     *)
Whole(c) ==
  c.writeBuf \o (IF c.iovCnt = 2 THEN Content(c.file.path, c.file.size) ELSE <<>>)

Spans(c) ==
  /\ c.iov[1].from + c.iov[1].len =< Len(c.writeBuf)
  /\ \/ c.iovCnt = 1 /\ c.toSend = c.iov[1].len /\ c.file = Unmapped
     \/ /\ c.iovCnt = 2 /\ c.toSend = c.iov[1].len + c.iov[2].len
        /\ c.file.path \in Paths
        /\ c.iov[2].from + c.iov[2].len =< c.file.size

(* The response that is being sent: what was sent and what the iovec spans *)
(* make it up.                                                             *)
Sending ==
  pc = "writing" =>
    /\ Spans(conn)
    /\ out \o Rest(conn) = Whole(conn)
    /\ Len(out) = conn.haveSent
    /\ Announced(Whole(conn), conn.keepAlive)

(* Before a response there is no output; after it, all of it is out.       *)
BeforeAndAfter ==
  /\ pc \in {"reading", "queued", "orphaned"} => out = <<>>
  /\ pc = "done" => /\ conn.toSend = 0 /\ Len(out) = conn.haveSent
                    /\ Announced(out, conn.keepAlive)
  /\ conn.file # Unmapped => pc \in {"writing", "dropped"}

(* All that goes out.                                                      *)
Output == Units \cup FileUnits

(* The content of a file is as long as its size.                           *)
LEMMA ContentTyped ==
  ASSUME NEW path \in Paths, NEW size \in Nat
  PROVE  Content(path, size) \in Seq(Output) /\ Len(Content(path, size)) = size
<1>1. \A i \in 1..size : Data(path, i) \in Output
  BY DEF Data, Output, FileUnits
<1> QED  BY <1>1, ElementOfSeq DEF Content

(* The two parts that writev() is handed.                                  *)
HeaderLeft(c) == SubSeq(c.writeBuf, c.iov[1].from + 1, c.iov[1].from + c.iov[1].len)
FileLeft(c) ==
  SubSeq(Content(c.file.path, c.file.size), c.iov[2].from + 1, c.iov[2].from + c.iov[2].len)

(* What is left to send of header and file, as cut by the iovec.           *)
LEMMA RestTyped ==
  ASSUME NEW c \in Objects, Spans(c)
  PROVE  /\ HeaderLeft(c) \in Seq(Output) /\ Len(HeaderLeft(c)) = c.iov[1].len
         /\ \A n \in 0..c.iov[1].len :
              Left(HeaderLeft(c), n) = SubSeq(c.writeBuf, c.iov[1].from + n + 1,
                                              c.iov[1].from + c.iov[1].len)
         /\ c.iovCnt = 2 =>
              /\ FileLeft(c) \in Seq(Output) /\ Len(FileLeft(c)) = c.iov[2].len
              /\ \A n \in 0..c.iov[2].len :
                   Left(FileLeft(c), n) = SubSeq(Content(c.file.path, c.file.size),
                                                 c.iov[2].from + n + 1,
                                                 c.iov[2].from + c.iov[2].len)
         /\ Rest(c) = HeaderLeft(c) \o (IF c.iovCnt = 2 THEN FileLeft(c) ELSE <<>>)
         /\ Rest(c) \in Seq(Output) /\ Len(Rest(c)) = c.toSend
<1>1. /\ c.iov[1].from \in Nat /\ c.iov[1].len \in Nat /\ c.iov[2].from \in Nat
      /\ c.iov[2].len \in Nat /\ c.file.size \in Nat
  <2>1. c.iov[1] \in [from : Nat, len : Nat] /\ c.iov[2] \in [from : Nat, len : Nat]
    BY DEF Objects, Iovecs
  <2> QED  BY <2>1 DEF Objects
<1>2. c.writeBuf \in Seq(Output)
  <2>1. c.writeBuf \in Seq(Units) /\ Units \subseteq Output
    BY DEF Objects, Output
  <2> QED  BY <2>1, SeqMonotonic
<1>3. /\ HeaderLeft(c) \in Seq(Output) /\ Len(HeaderLeft(c)) = c.iov[1].len
      /\ \A n \in 0..c.iov[1].len :
           Left(HeaderLeft(c), n) = SubSeq(c.writeBuf, c.iov[1].from + n + 1,
                                           c.iov[1].from + c.iov[1].len)
  <2>1. c.iov[1].from + c.iov[1].len =< Len(c.writeBuf)
    BY DEF Spans
  <2>2. \A n \in 0..c.iov[1].len :
          /\ HeaderLeft(c) \in Seq(Output) /\ Len(HeaderLeft(c)) = c.iov[1].len
          /\ Left(HeaderLeft(c), n) = SubSeq(c.writeBuf, c.iov[1].from + n + 1,
                                             c.iov[1].from + c.iov[1].len)
    <3> TAKE n \in 0..c.iov[1].len
    <3> DEFINE s == c.writeBuf
               f == c.iov[1].from
               k == c.iov[1].len
    <3>1. HeaderLeft(c) = SubSeq(s, f + 1, f + k)
      BY DEF HeaderLeft
    <3>2. s \in Seq(Output) /\ f \in Nat /\ k \in Nat /\ f + k =< Len(s) /\ n \in 0..k
      BY <1>1, <1>2, <2>1
    <3> HIDE DEF s, f, k
    <3>3. /\ SubSeq(s, f + 1, f + k) \in Seq(Output) /\ Len(SubSeq(s, f + 1, f + k)) = k
          /\ Left(SubSeq(s, f + 1, f + k), n) = SubSeq(s, f + n + 1, f + k)
      BY <3>2, LeftOfPart
    <3> QED  BY <3>1, <3>3 DEF s, f, k
  <2>3. 0 \in 0..c.iov[1].len
    BY <1>1
  <2> QED  BY <2>2, <2>3
<1>4. ASSUME c.iovCnt = 2
      PROVE  /\ FileLeft(c) \in Seq(Output) /\ Len(FileLeft(c)) = c.iov[2].len
             /\ \A n \in 0..c.iov[2].len :
                  Left(FileLeft(c), n) = SubSeq(Content(c.file.path, c.file.size),
                                                c.iov[2].from + n + 1,
                                                c.iov[2].from + c.iov[2].len)
  <2> DEFINE content == Content(c.file.path, c.file.size)
  <2>1. c.iov[2].from + c.iov[2].len =< c.file.size /\ c.file.path \in Paths
    BY <1>4 DEF Spans
  <2>2. content \in Seq(Output) /\ Len(content) = c.file.size
    BY <1>1, <2>1, ContentTyped
  <2> HIDE DEF content
  <2>3. \A n \in 0..c.iov[2].len :
          /\ FileLeft(c) \in Seq(Output) /\ Len(FileLeft(c)) = c.iov[2].len
          /\ Left(FileLeft(c), n) = SubSeq(content, c.iov[2].from + n + 1,
                                           c.iov[2].from + c.iov[2].len)
    <3> TAKE n \in 0..c.iov[2].len
    <3> DEFINE f == c.iov[2].from
               k == c.iov[2].len
               s == content
    <3>1. FileLeft(c) = SubSeq(s, f + 1, f + k)
      BY DEF FileLeft, content
    <3>2. s \in Seq(Output) /\ f \in Nat /\ k \in Nat /\ f + k =< Len(s) /\ n \in 0..k
      BY <1>1, <2>1, <2>2
    <3> HIDE DEF f, k, s
    <3>3. /\ SubSeq(s, f + 1, f + k) \in Seq(Output) /\ Len(SubSeq(s, f + 1, f + k)) = k
          /\ Left(SubSeq(s, f + 1, f + k), n) = SubSeq(s, f + n + 1, f + k)
      BY <3>2, LeftOfPart
    <3> QED  BY <3>1, <3>3 DEF f, k, s
  <2>4. 0 \in 0..c.iov[2].len
    BY <1>1
  <2> QED  BY <2>3, <2>4 DEF content
<1>5. Rest(c) = HeaderLeft(c) \o (IF c.iovCnt = 2 THEN FileLeft(c) ELSE <<>>)
  BY DEF Rest, HeaderLeft, FileLeft
<1>6. Rest(c) \in Seq(Output) /\ Len(Rest(c)) = c.toSend
  <2>1. CASE c.iovCnt = 2
    <3>1. c.toSend = c.iov[1].len + c.iov[2].len
      BY <2>1 DEF Spans
    <3> DEFINE h == HeaderLeft(c)
               f == FileLeft(c)
    <3>2. h \in Seq(Output) /\ f \in Seq(Output) /\ Rest(c) = h \o f
          /\ Len(h) = c.iov[1].len /\ Len(f) = c.iov[2].len
      BY <1>3, <1>4, <1>5, <2>1
    <3> HIDE DEF h, f
    <3>3. h \o f \in Seq(Output) /\ Len(h \o f) = Len(h) + Len(f)
      BY <3>2, ConcatProperties
    <3> QED  BY <3>1, <3>2, <3>3
  <2>2. CASE c.iovCnt # 2
    <3>1. c.toSend = c.iov[1].len
      BY <2>2 DEF Spans
    <3>2. Rest(c) = HeaderLeft(c)
      BY <1>3, <1>5, <2>2, ConcatEmptySeq
    <3> QED  BY <1>3, <3>1, <3>2
  <2> QED  BY <2>1, <2>2
<1> QED  BY <1>3, <1>4, <1>5, <1>6

(* A writev() that takes n units: what is left to send is what was left,   *)
(* without them, and the file is unmapped when nothing is left.            *)
LEMMA WrittenSpans ==
  ASSUME NEW c \in Objects, Spans(c), NEW n \in 1..c.toSend
  PROVE  LET d == Written(c, n)
         IN  /\ d \in Objects
             /\ d.open = c.open /\ d.readBuf = c.readBuf /\ d.writeBuf = c.writeBuf
             /\ d.keepAlive = c.keepAlive /\ d.iovCnt = c.iovCnt /\ d.request = c.request
             /\ d.toSend = c.toSend - n /\ d.haveSent = c.haveSent + n
             /\ n = c.toSend => d.file = Unmapped
             /\ n # c.toSend => d.file = c.file /\ Spans(d) /\ Rest(d) = Left(Rest(c), n)
<1> DEFINE beyond == n - c.iov[1].len
           over == n >= c.iov[1].len
           iov == IF over
                  THEN [[c.iov EXCEPT ![1].len = 0] EXCEPT
                          ![2] = IF c.iovCnt = 2 THEN Span(@.from + beyond, @.len - beyond) ELSE @]
                  ELSE [c.iov EXCEPT ![1] = Span(@.from + n, @.len - n)]
           e == [c EXCEPT !.iov = iov, !.toSend = @ - n, !.haveSent = @ + n]
           d == Written(c, n)
<1>1. /\ c.iov[1] \in [from : Nat, len : Nat] /\ c.iov[2] \in [from : Nat, len : Nat]
      /\ c.toSend \in Nat /\ c.haveSent \in Nat /\ c.iov \in Iovecs /\ c.file.size \in Nat
  BY DEF Objects, Iovecs
<1>2. n \in Nat \ {0} /\ n =< c.toSend /\ over \in BOOLEAN
  BY <1>1
<1>3. /\ c.iovCnt = 1 \/ c.iovCnt = 2
      /\ c.iovCnt = 1 => c.toSend = c.iov[1].len /\ c.file = Unmapped
      /\ c.iovCnt = 2 => c.toSend = c.iov[1].len + c.iov[2].len
      /\ c.iov[1].from \in Nat /\ c.iov[1].len \in Nat
      /\ c.iov[2].from \in Nat /\ c.iov[2].len \in Nat
  BY <1>1 DEF Spans
<1>4. /\ iov \in Iovecs
      /\ over => iov[1] = Span(c.iov[1].from, 0)
      /\ over /\ c.iovCnt = 2 => iov[2] = Span(c.iov[2].from + beyond, c.iov[2].len - beyond)
      /\ ~over => iov[1] = Span(c.iov[1].from + n, c.iov[1].len - n) /\ iov[2] = c.iov[2]
  <2>1. CASE over /\ c.iovCnt = 2
    <3>1. c.iov[2].from + beyond \in Nat /\ c.iov[2].len - beyond \in Nat
      BY <1>1, <1>2, <1>3, <2>1
    <3> HIDE DEF beyond, over
    <3> QED  BY <1>1, <2>1, <3>1 DEF Iovecs, Span
  <2>2. CASE over /\ c.iovCnt = 1
    BY <1>1, <2>2 DEF Iovecs, Span
  <2>3. CASE ~over
    <3>1. c.iov[1].from + n \in Nat /\ c.iov[1].len - n \in Nat
      BY <1>1, <1>2, <2>3
    <3> HIDE DEF beyond, over
    <3> QED  BY <1>1, <2>3, <3>1 DEF Iovecs, Span
  <2> QED  BY <1>2, <1>3, <2>1, <2>2, <2>3
<1>5. Sent(c, n) = e
  <2>1. Advanced(c, n) = [c EXCEPT !.iov = iov]
    <3>1. CASE over
      <4> DEFINE second == IF c.iovCnt = 2
                           THEN Span(c.iov[2].from + beyond, c.iov[2].len - beyond)
                           ELSE c.iov[2]
      <4>1. Advanced(c, n) = [c EXCEPT !.iov[1].len = 0, !.iov[2] = second]
        BY <3>1 DEF Advanced
      <4>2. iov = [[c.iov EXCEPT ![1].len = 0] EXCEPT ![2] = second]
        BY <1>1, <3>1 DEF Iovecs
      <4> HIDE DEF iov, second, over
      <4>3. [c EXCEPT !.iov[1].len = 0, !.iov[2] = second]
              = [c EXCEPT !.iov = [[c.iov EXCEPT ![1].len = 0] EXCEPT ![2] = second]]
        BY <1>1 DEF Objects, Iovecs
      <4> QED  BY <4>1, <4>2, <4>3
    <3>2. CASE ~over
      BY <1>1, <3>2 DEF Advanced, Objects
    <3> QED  BY <3>1, <3>2
  <2> HIDE DEF iov
  <2> QED  BY <2>1 DEF Sent, Objects
<1> HIDE DEF iov
<1>6. /\ e \in Objects /\ e.iov = iov /\ e.toSend = c.toSend - n /\ e.haveSent = c.haveSent + n
      /\ \A f \in {"open", "readBuf", "writeBuf", "keepAlive", "iovCnt", "request", "file",
                   "pending", "response"} : e[f] = c[f]
  <2>1. c.toSend - n \in Nat /\ c.haveSent + n \in Nat
    BY <1>1, <1>2
  <2> QED  BY <1>4, <2>1 DEF Objects
<1>7. /\ e.open = c.open /\ e.readBuf = c.readBuf /\ e.writeBuf = c.writeBuf /\ e.file = c.file
      /\ e.keepAlive = c.keepAlive /\ e.iovCnt = c.iovCnt /\ e.request = c.request
  BY <1>6
<1> HIDE DEF e
<1>8. d = IF n = c.toSend THEN [e EXCEPT !.file = Unmapped] ELSE e
  BY <1>1, <1>2, <1>5 DEF Written, UnmapFile
<1>9. CASE n = c.toSend
  <2>1. d = [e EXCEPT !.file = Unmapped]
    BY <1>8, <1>9
  <2>2. Unmapped \in [path : Paths \cup {NoFile}, size : Nat]
    BY DEF Unmapped
  <2> HIDE DEF d
  <2>3. /\ d \in Objects /\ d.file = Unmapped
        /\ \A f \in {"open", "readBuf", "writeBuf", "keepAlive", "iovCnt", "request",
                     "toSend", "haveSent"} : d[f] = e[f]
    BY <1>6, <2>1, <2>2 DEF Objects
  <2>4. /\ d.open = e.open /\ d.readBuf = e.readBuf /\ d.writeBuf = e.writeBuf
        /\ d.keepAlive = e.keepAlive /\ d.iovCnt = e.iovCnt /\ d.request = e.request
        /\ d.toSend = e.toSend /\ d.haveSent = e.haveSent
    BY <2>3
  <2> QED  BY <1>6, <1>7, <1>9, <2>3, <2>4 DEF d
<1>10. CASE n # c.toSend
  <2>1. d = e
    BY <1>8, <1>10
  <2>2. Spans(e)
    <3>1. CASE ~over
      <4>1. /\ e.iov[1].from = c.iov[1].from + n /\ e.iov[1].len = c.iov[1].len - n
            /\ e.iov[2] = c.iov[2]
        BY <1>4, <1>6, <3>1 DEF Span
      <4>2. e.iov[1].from + e.iov[1].len = c.iov[1].from + c.iov[1].len
        BY <1>2, <1>3, <4>1
      <4>3. \/ c.iovCnt = 1 /\ e.toSend = e.iov[1].len /\ c.file = Unmapped
            \/ c.iovCnt = 2 /\ e.toSend = e.iov[1].len + e.iov[2].len
        BY <1>2, <1>3, <1>6, <4>1
      <4> QED  BY <1>7, <4>1, <4>2, <4>3 DEF Spans
    <3>2. CASE over
      <4>1. c.iovCnt = 2
        BY <1>1, <1>2, <1>3, <1>10, <3>2
      <4>2. /\ e.iov[1].from = c.iov[1].from /\ e.iov[1].len = 0
            /\ e.iov[2].from = c.iov[2].from + beyond /\ e.iov[2].len = c.iov[2].len - beyond
        BY <1>4, <1>6, <3>2, <4>1 DEF Span
      <4>3. /\ c.iov[1].from + c.iov[1].len =< Len(c.writeBuf)
            /\ c.file.path \in Paths /\ c.iov[2].from + c.iov[2].len =< c.file.size
        BY <4>1 DEF Spans
      <4>4. /\ e.iov[2].from + e.iov[2].len = c.iov[2].from + c.iov[2].len
            /\ e.toSend = e.iov[1].len + e.iov[2].len
        BY <1>2, <1>3, <1>6, <4>1, <4>2
      <4>5. e.iov[1].from + e.iov[1].len =< Len(c.writeBuf)
        <5>1. Len(c.writeBuf) \in Nat
          BY LenProperties DEF Objects
        <5> QED  BY <1>3, <4>2, <4>3, <5>1
      <4> QED  BY <1>7, <4>1, <4>3, <4>4, <4>5 DEF Spans
    <3> QED  BY <1>2, <3>1, <3>2
  <2> DEFINE h == HeaderLeft(c)
             f == IF c.iovCnt = 2 THEN FileLeft(c) ELSE <<>>
  <2>3. /\ h \in Seq(Output) /\ Len(h) = c.iov[1].len
        /\ f \in Seq(Output) /\ Len(f) = IF c.iovCnt = 2 THEN c.iov[2].len ELSE 0
        /\ Rest(c) = h \o f /\ Len(h) + Len(f) = c.toSend
    <3>1. /\ h \in Seq(Output) /\ Len(h) = c.iov[1].len
          /\ c.iovCnt = 2 => FileLeft(c) \in Seq(Output) /\ Len(FileLeft(c)) = c.iov[2].len
          /\ Rest(c) = h \o f
      BY RestTyped
    <3>2. f \in Seq(Output) /\ Len(f) = IF c.iovCnt = 2 THEN c.iov[2].len ELSE 0
      <4>1. CASE c.iovCnt = 2
        BY <3>1, <4>1
      <4>2. CASE c.iovCnt # 2
        BY <4>2, EmptySeq
      <4> QED  BY <4>1, <4>2
    <3> HIDE DEF h, f
    <3> QED  BY <1>3, <3>1, <3>2
  <2>4. Rest(e) = Left(h \o f, n)
    <3>1. Rest(e) = HeaderLeft(e) \o (IF c.iovCnt = 2 THEN FileLeft(e) ELSE <<>>)
      BY <1>6, <1>7, <2>2, RestTyped
    <3>2. Left(h \o f, n) = IF n =< Len(h) THEN Left(h, n) \o f ELSE Left(f, n - Len(h))
      <4> HIDE DEF h, f
      <4>1. n \in 0..(Len(h) + Len(f))
        BY <1>1, <1>2, <2>3
      <4> QED  BY <2>3, <4>1, LeftOfJoined
    <3>3. CASE ~over
      <4>1. HeaderLeft(e) = Left(h, n)
        <5>1. c.iov[1].from + n + (c.iov[1].len - n) = c.iov[1].from + c.iov[1].len
          BY <1>1, <1>2
        <5>2. HeaderLeft(e) = SubSeq(c.writeBuf, c.iov[1].from + n + 1,
                                     c.iov[1].from + c.iov[1].len)
          <6>1. e.iov[1].from = c.iov[1].from + n /\ e.iov[1].len = c.iov[1].len - n
            BY <1>4, <1>6, <3>3 DEF Span
          <6> QED  BY <1>7, <5>1, <6>1 DEF HeaderLeft
        <5>3. n \in 0..c.iov[1].len
          BY <1>1, <1>2, <3>3
        <5> QED  BY <5>2, <5>3, RestTyped
      <4>2. FileLeft(e) = FileLeft(c)
        BY <1>4, <1>6, <1>7, <3>3 DEF FileLeft
      <4>3. n =< Len(h)
        BY <1>1, <1>2, <2>3, <3>3
      <4> QED  BY <3>1, <3>2, <4>1, <4>2, <4>3
    <3>4. CASE over
      <4>1. c.iovCnt = 2
        BY <1>1, <1>2, <1>3, <1>10, <3>4 DEF Spans
      <4>2. beyond \in 0..c.iov[2].len
        BY <1>1, <1>2, <1>3, <3>4, <4>1
      <4>3. FileLeft(e) = Left(f, beyond)
        <5>1. c.iov[2].from + beyond + (c.iov[2].len - beyond) = c.iov[2].from + c.iov[2].len
          BY <1>1, <4>2
        <5>2. FileLeft(e) = SubSeq(Content(c.file.path, c.file.size),
                                   c.iov[2].from + beyond + 1, c.iov[2].from + c.iov[2].len)
          <6> HIDE DEF beyond, over
          <6>1. e.iov[2].from = c.iov[2].from + beyond /\ e.iov[2].len = c.iov[2].len - beyond
            BY <1>4, <1>6, <3>4, <4>1 DEF Span
          <6> QED  BY <1>7, <5>1, <6>1 DEF FileLeft
        <5> HIDE DEF beyond
        <5> QED  BY <4>1, <4>2, <5>2, RestTyped
      <4>4. HeaderLeft(e) = <<>>
        <5>1. HeaderLeft(e) \in Seq(Output) /\ Len(HeaderLeft(e)) = e.iov[1].len
          BY <1>6, <2>2, RestTyped
        <5>2. e.iov[1].len = 0
          BY <1>4, <1>6, <3>4 DEF Span
        <5> QED  BY <5>1, <5>2, EmptySeq
      <4>5. Rest(e) = Left(f, beyond)
        <5>1. FileLeft(e) \in Seq(Output)
          BY <1>6, <1>7, <2>2, <4>1, RestTyped
        <5> QED  BY <3>1, <4>1, <4>3, <4>4, <5>1, ConcatEmptySeq
      <4>6. CASE n = Len(h)
        <5>1. beyond = 0 /\ f \in Seq(Output) /\ h \in Seq(Output) /\ n \in 0..Len(h)
          BY <1>1, <1>2, <2>3, <4>6
        <5> HIDE DEF h, f, beyond
        <5>2. Left(f, 0) = f
          BY <5>1, SubSeqFull DEF Left
        <5>3. Left(h, n) = <<>>
          <6>1. Left(h, n) \in Seq(Output) /\ Len(Left(h, n)) = Len(h) - n
            BY <5>1, LeftProperties
          <6>2. Len(h) - n = 0
            BY <1>2, <4>6
          <6> QED  BY <6>1, <6>2, EmptySeq
        <5>4. Left(h, n) \o f = f
          BY <5>1, <5>3, ConcatEmptySeq
        <5>5. n =< Len(h)
          BY <1>2, <4>6
        <5> QED  BY <3>2, <4>5, <5>1, <5>2, <5>4, <5>5
      <4>7. CASE n # Len(h)
        <5>1. ~(n =< Len(h)) /\ n - Len(h) = beyond
          BY <1>1, <1>2, <2>3, <3>4, <4>7
        <5> HIDE DEF h, f, beyond
        <5> QED  BY <3>2, <4>5, <5>1
      <4> QED  BY <4>6, <4>7
    <3> QED  BY <1>2, <3>3, <3>4
  <2> HIDE DEF h, f, d
  <2> QED  BY <1>6, <1>7, <1>10, <2>1, <2>2, <2>3, <2>4 DEF d
<1> QED  BY <1>9, <1>10
-----------------------------------------------------------------------------
(* read().  What a client puts on the wire is made of tokens.              *)
LEMMA EncodedTyped ==
  ASSUME NEW s \in Texts
  PROVE  Encoded(s) \in Texts
<1>1. \A c \in Nat : Escaped(c) \in Seq(Nat)
  <2> TAKE c \in Nat
  <2>1. Digit(c \div 16) \in Nat /\ Digit(c % 16) \in Nat
    BY DEF Digit
  <2> QED  BY <2>1 DEF Escaped
<1>2. \A i \in 1..Len(s) : Escaped(s[i]) \in Seq(Nat)
  BY <1>1, ElementOfSeq DEF Texts
<1> DEFINE ss == [i \in 1..Len(s) |-> Escaped(s[i])]
<1>3. ss \in Seq(Seq(Nat))
  BY <1>2 DEF Texts
<1> HIDE DEF ss
<1>4. FlattenSeq(ss) \in Seq(Nat)
  BY <1>3, FlattenTyped
<1> QED  BY <1>4 DEF Encoded, Texts, ss

(* A line on the wire.                                                     *)
LEMMA LineTyped ==
  ASSUME NEW t \in Tokens
  PROVE  Line(t) \in Seq(Tokens)
  BY DEF Line, Tokens

(* The headers and the body of a request on the wire.                      *)
LEMMA FieldsTyped ==
  ASSUME NEW a \in Asks
  PROVE  Fields(a) \in Seq(Tokens)
<1>1. CASE a.form = Absent
  BY <1>1 DEF Fields
<1>2. CASE a.form # Absent
  <2>1. a.form \in Texts \X Texts
    BY <1>2 DEF Asks
  <2>2. Encoded(a.form[1]) \in Texts /\ Encoded(a.form[2]) \in Texts
    BY <2>1, EncodedTyped
  <2>3. /\ FormField("username", Encoded(a.form[1])) \in Tokens
        /\ FormField("password", Encoded(a.form[2])) \in Tokens
    BY <2>2 DEF FormField, Tokens
  <2> QED  BY <1>2, <2>3 DEF Fields
<1> QED  BY <1>1, <1>2

(* A request on the wire.                                                  *)
LEMMA WireTyped ==
  ASSUME NEW a \in Asks
  PROVE  Wire(a) \in Seq(Tokens)
<1> DEFINE first == Line(RequestLine(a.method, a.path, a.version))
           keep == IF a.keep THEN Line(HeaderLine("Connection", "keep-alive")) ELSE <<>>
           cookie == IF a.cookie # Absent THEN Line(HeaderLine("Cookie", a.cookie)) ELSE <<>>
           kind == Line(HeaderLine("Content-Type", "application/x-www-form-urlencoded"))
           length == Line(HeaderLine("Content-Length", Len(Fields(a))))
           form == IF a.form # Absent THEN kind \o length ELSE <<>>
           blank == <<CR, LF>>
<1>1. first \in Seq(Tokens)
  <2>1. RequestLine(a.method, a.path, a.version) \in Tokens
    BY DEF RequestLine, Tokens, Asks
  <2> QED  BY <2>1, LineTyped
<1>2. keep \in Seq(Tokens)
  <2>1. HeaderLine("Connection", "keep-alive") \in Tokens
    <3>1. HeaderLine("Connection", "keep-alive")
            \in [is : {"header"}, name : {"Connection", "Content-Type"}, value : Strings]
      <4>1. \A name \in {"Connection", "Content-Type"}, value \in Strings :
              HeaderLine(name, value)
                \in [is : {"header"}, name : {"Connection", "Content-Type"}, value : Strings]
        BY DEF HeaderLine
      <4>2. "keep-alive" \in Strings
        BY DEF Strings
      <4> QED  BY <4>1, <4>2
    <3> QED  BY <3>1 DEF Tokens, Headers
  <2> QED  BY <2>1, LineTyped
<1>3. cookie \in Seq(Tokens)
  <2>1. CASE a.cookie # Absent
    <3>1. a.cookie \in Cookies
      BY <2>1 DEF Asks
    <3>2. HeaderLine("Cookie", a.cookie) \in Tokens
      BY <3>1 DEF HeaderLine, Tokens, Headers
    <3> QED  BY <2>1, <3>2, LineTyped
  <2> QED  BY <2>1
<1>4. form \in Seq(Tokens)
  <2>1. HeaderLine("Content-Type", "application/x-www-form-urlencoded") \in Tokens
    <3>1. HeaderLine("Content-Type", "application/x-www-form-urlencoded")
            \in [is : {"header"}, name : {"Connection", "Content-Type"}, value : Strings]
      <4>1. \A name \in {"Connection", "Content-Type"}, value \in Strings :
              HeaderLine(name, value)
                \in [is : {"header"}, name : {"Connection", "Content-Type"}, value : Strings]
        BY DEF HeaderLine
      <4>2. "application/x-www-form-urlencoded" \in Strings
        BY DEF Strings
      <4> QED  BY <4>1, <4>2
    <3> QED  BY <3>1 DEF Tokens, Headers
  <2>2. HeaderLine("Content-Length", Len(Fields(a))) \in Tokens
    <3>1. Len(Fields(a)) \in Nat
      BY FieldsTyped, LenProperties
    <3> QED  BY <3>1 DEF HeaderLine, Tokens, Headers
  <2>3. kind \in Seq(Tokens) /\ length \in Seq(Tokens)
    BY <2>1, <2>2, LineTyped
  <2> HIDE DEF kind, length
  <2>4. kind \o length \in Seq(Tokens)
    BY <2>3, ConcatProperties
  <2> QED  BY <2>4
<1>5. blank \in Seq(Tokens)
  BY DEF Tokens
<1>6. Fields(a) \in Seq(Tokens)
  BY FieldsTyped
<1>7. Wire(a) = first \o keep \o cookie \o form \o blank \o Fields(a)
  BY DEF Wire
<1> HIDE DEF first, keep, cookie, form, blank
<1>8. first \o keep \in Seq(Tokens)
  BY <1>1, <1>2, ConcatProperties
<1>9. first \o keep \o cookie \in Seq(Tokens)
  BY <1>3, <1>8, ConcatProperties
<1>10. first \o keep \o cookie \o form \in Seq(Tokens)
  BY <1>4, <1>9, ConcatProperties
<1>11. first \o keep \o cookie \o form \o blank \in Seq(Tokens)
  BY <1>5, <1>10, ConcatProperties
<1>12. first \o keep \o cookie \o form \o blank \o Fields(a) \in Seq(Tokens)
  BY <1>6, <1>11, ConcatProperties
<1> QED  BY <1>7, <1>12

(* What a client sends altogether.                                         *)
LEMMA StreamTyped ==
  ASSUME NEW s \in Streams
  PROVE  WireOf(s) \in Seq(Tokens) /\ Len(WireOf(s)) \in Nat
<1>1. s \in Seq(Asks)
  BY HttpConnectionAssumption
<1>2. \A k \in 1..Len(s) : Wire(s[k]) \in Seq(Tokens)
  BY <1>1, ElementOfSeq, WireTyped
<1> DEFINE ss == [k \in 1..Len(s) |-> Wire(s[k])]
<1>3. ss \in Seq(Seq(Tokens))
  BY <1>1, <1>2
<1> HIDE DEF ss
<1>4. FlattenSeq(ss) \in Seq(Tokens)
  BY <1>3, FlattenTyped
<1>5. WireOf(s) \in Seq(Tokens)
  BY <1>4 DEF WireOf, ss
<1> QED  BY <1>5, LenProperties

(* A buffer that grew by what comes next on the wire.                      *)
TakesOn(buf, more, wire, from) ==
  /\ Begins(buf, more)
  /\ \A i \in (Len(buf) + 1)..Len(more) : more[i] = wire[from + i - Len(buf)]

(* What read() takes: as much as there is, or as there is room for.        *)
LEMMA ReadTaken ==
  ASSUME NEW c \in Objects, Len(c.readBuf) < BufSize, NEW wire \in Seq(Tokens),
         NEW from \in 0..Len(wire), NEW n \in 0..(Len(wire) - from)
  PROVE  LET input == SubSeq(wire, from + 1, from + n)
             d == AfterRead(c, input)
         IN  /\ Len(input) = n
             /\ d \in Objects
             /\ Len(d.readBuf) = Len(c.readBuf) + (IF n < Room(c) THEN n ELSE Room(c))
             /\ Room(c) \in Nat /\ Len(d.readBuf) < BufSize
             /\ d.open = c.open /\ d.toSend = c.toSend /\ d.haveSent = c.haveSent
             /\ d.file = c.file /\ d.keepAlive = c.keepAlive /\ d.request = c.request
             /\ TakesOn(c.readBuf, d.readBuf, wire, from)
<1> DEFINE input == SubSeq(wire, from + 1, from + n)
           m == IF Len(input) < Room(c) THEN Len(input) ELSE Room(c)
           more == SubSeq(input, 1, m)
           buf == c.readBuf \o more
           d == AfterRead(c, input)
<1>1. /\ Len(wire) \in Nat /\ from \in Nat /\ n \in Nat /\ from + n =< Len(wire)
      /\ c.readBuf \in Seq(Tokens) /\ Len(c.readBuf) \in Nat
  BY LenProperties DEF Objects
<1>2. input \in Seq(Tokens) /\ Len(input) = n /\ \A i \in 1..n : input[i] = wire[from + i]
  BY <1>1, PartTaken
<1>3. Room(c) \in Nat /\ Len(c.readBuf) + Room(c) < BufSize
  BY <1>1, HttpConnectionAssumption DEF Room
<1> HIDE DEF input
<1>4. m \in 0..n /\ m \in 0..Len(input) /\ m =< Room(c) /\ m = IF n < Room(c) THEN n ELSE Room(c)
  BY <1>1, <1>2, <1>3
<1>5. d = [c EXCEPT !.readBuf = buf]
  BY DEF AfterRead
<1> HIDE DEF m
<1>6. more \in Seq(Tokens) /\ Len(more) = m /\ \A i \in 1..m : more[i] = wire[from + i]
  <2> DEFINE zero == 0
             t == SubSeq(input, zero + 1, zero + m)
  <2>1. zero \in Nat /\ m \in Nat /\ zero + m =< Len(input) /\ zero + 1 = 1 /\ zero + m = m
    BY <1>4
  <2>2. more = t /\ \A i \in 1..m : zero + i = i /\ i \in 1..n
    BY <1>1, <1>4, <2>1
  <2> HIDE DEF zero, more
  <2>3. t \in Seq(Tokens) /\ Len(t) = m /\ \A i \in 1..m : t[i] = input[zero + i]
    BY <1>2, <2>1, PartTaken
  <2> QED  BY <1>2, <2>2, <2>3
<1> HIDE DEF more
<1>7. /\ buf \in Seq(Tokens) /\ Len(buf) = Len(c.readBuf) + m
      /\ \A i \in 1..(Len(c.readBuf) + m) :
           buf[i] = IF i =< Len(c.readBuf) THEN c.readBuf[i] ELSE more[i - Len(c.readBuf)]
  <2> DEFINE old == c.readBuf
  <2>1. old \in Seq(Tokens)
    BY <1>1
  <2> HIDE DEF old
  <2>2. /\ old \o more \in Seq(Tokens) /\ Len(old \o more) = Len(old) + Len(more)
        /\ \A i \in 1..(Len(old) + Len(more)) :
             (old \o more)[i] = IF i =< Len(old) THEN old[i] ELSE more[i - Len(old)]
    BY <1>6, <2>1, ConcatProperties
  <2> QED  BY <1>6, <2>2 DEF old
<1>8. Len(buf) < BufSize
  BY <1>1, <1>3, <1>4, <1>7, HttpConnectionAssumption
<1> HIDE DEF buf, d
<1>9. /\ d \in Objects /\ d.readBuf = buf
      /\ d.open = c.open /\ d.toSend = c.toSend /\ d.haveSent = c.haveSent
      /\ d.file = c.file /\ d.keepAlive = c.keepAlive /\ d.request = c.request
  BY <1>5, <1>7 DEF Objects
<1>10. Begins(c.readBuf, buf)
  <2>1. Len(c.readBuf) =< Len(buf) /\ \A i \in 1..Len(c.readBuf) : i \in 1..(Len(c.readBuf) + m)
    BY <1>1, <1>4, <1>7
  <2> QED  BY <1>7, <2>1 DEF Begins
<1>11. \A i \in (Len(c.readBuf) + 1)..Len(buf) : buf[i] = wire[from + i - Len(c.readBuf)]
  <2> TAKE i \in (Len(c.readBuf) + 1)..Len(buf)
  <2>1. /\ i \in 1..(Len(c.readBuf) + m) /\ ~(i =< Len(c.readBuf))
        /\ i - Len(c.readBuf) \in 1..m /\ from + (i - Len(c.readBuf)) = from + i - Len(c.readBuf)
    BY <1>1, <1>4, <1>7
  <2>2. buf[i] = more[i - Len(c.readBuf)]
    BY <1>7, <2>1
  <2> QED  BY <1>6, <2>1, <2>2
<1> QED  BY <1>2, <1>3, <1>4, <1>7, <1>8, <1>9, <1>10, <1>11 DEF d, input, TakesOn
-----------------------------------------------------------------------------
(* reset(), closeConn() and what they keep.                                *)
LEMMA RequestTyped ==
  /\ NewRequest \in Parsers
  /\ \A r \in Parsers, buf \in Seq(Tokens) : Parsing(InitedRequest(r), buf)
  /\ \A buf \in Seq(Tokens) : Parsing(NewRequest, buf)
<1>1. /\ "" \in Strings /\ <<>> \in Seq(Tokens \cup {NUL})
      /\ NoHeaders \in [HeaderNames -> {Absent} \cup HeaderValues]
      /\ NoPost \in [FormFields -> {Absent} \cup Texts]
      /\ "REQUEST_LINE" \in {"REQUEST_LINE", "HEADERS", "BODY", "FINISH"}
  BY DEF Strings, NoHeaders, NoPost
<1>2. NewRequest \in Parsers
  BY <1>1 DEF NewRequest, Parsers
<1>3. /\ NewRequest.headers = NoHeaders /\ NewRequest.checked = 0
      /\ NewRequest.state = "REQUEST_LINE"
  BY DEF NewRequest
<1>4. NoHeaders["Content-Length"] = Absent /\ NoHeaders["Cookie"] = Absent
  BY RequestAssumption DEF NoHeaders
<1>5. \A r \in Parsers : /\ InitedRequest(r) \in Parsers
                         /\ InitedRequest(r).headers = NoHeaders /\ InitedRequest(r).checked = 0
                         /\ InitedRequest(r).state = "REQUEST_LINE"
  <2> TAKE r \in Parsers
  <2>1. InitedRequest(r) = [NewRequest EXCEPT !.body = r.body, !.post = r.post]
    BY DEF InitedRequest
  <2> QED  BY <1>2, <1>3, <2>1 DEF Parsers
<1>6. \A buf \in Seq(Tokens) : 0 =< Len(buf)
  BY LenProperties
<1> QED  BY <1>2, <1>3, <1>4, <1>5, <1>6 DEF Parsing

(* A new object.                                                           *)
LEMMA NewTyped ==
  /\ NewConn \in Objects /\ NewConn.readBuf = <<>> /\ NewConn.request = NewRequest
  /\ NewConn.file = Unmapped
<1>1. /\ Unmapped \in [path : Paths \cup {NoFile}, size : Nat] /\ <<>> \in Extras
      /\ <<>> \in Seq(Units) /\ <<>> \in Seq(Tokens) /\ 0 \in 0..2 /\ 0 \in Nat
      /\ TRUE \in BOOLEAN /\ FALSE \in BOOLEAN
  BY EmptySeq DEF Unmapped, Extras
<1>2. <<Span(0, 0), Span(0, 0)>> \in Iovecs
  BY DEF Iovecs, Span
<1> QED  BY <1>1, <1>2, RequestTyped, InitedTyped DEF NewConn, Objects

(* reset(): as new, but for the socket.                                    *)
LEMMA RewoundTyped ==
  ASSUME NEW c \in Objects
  PROVE  LET d == Rewound(c)
         IN  /\ d \in Objects /\ d.open = c.open /\ d.readBuf = <<>> /\ d.toSend = 0
             /\ d.haveSent = 0 /\ d.keepAlive = FALSE /\ d.file = Unmapped
             /\ Parsing(d.request, d.readBuf) /\ d.request = InitedRequest(c.request)
<1> DEFINE d == Rewound(c)
           r == InitedRequest(c.request)
<1>1. c.request \in Parsers /\ c.open \in BOOLEAN /\ c.iov \in Iovecs /\ <<>> \in Seq(Tokens)
  BY DEF Objects
<1>2. r \in Parsers /\ Parsing(r, <<>>)
  BY <1>1, RequestTyped DEF Parsing
<1> HIDE DEF r
<1>3. d = [NewConn EXCEPT !.open = c.open, !.request = r, !.iov = c.iov]
  BY DEF Rewound, r
<1>4. /\ NewConn.readBuf = <<>> /\ NewConn.toSend = 0 /\ NewConn.haveSent = 0
      /\ NewConn.keepAlive = FALSE /\ NewConn.file = Unmapped
  BY DEF NewConn
<1> HIDE DEF d
<1>5. d \in Objects /\ d.open = c.open /\ d.request = r
  BY <1>1, <1>2, <1>3, NewTyped DEF Objects
<1>6. /\ d.readBuf = NewConn.readBuf /\ d.toSend = NewConn.toSend
      /\ d.haveSent = NewConn.haveSent /\ d.keepAlive = NewConn.keepAlive
      /\ d.file = NewConn.file
  BY <1>3, NewTyped DEF Objects
<1> QED  BY <1>2, <1>4, <1>5, <1>6 DEF d, r

(* closeConn(): the mapping and the socket are gone, the rest stays.       *)
LEMMA ReleasedTyped ==
  ASSUME NEW c \in Objects
  PROVE  LET d == Released(c)
         IN  /\ d \in Objects /\ d.open = FALSE /\ d.file = Unmapped
             /\ d.readBuf = c.readBuf /\ d.request = c.request /\ d.toSend = c.toSend
             /\ d.haveSent = c.haveSent /\ d.keepAlive = c.keepAlive
             /\ Released(UnmapFile(c)) = d
<1>1. Unmapped \in [path : Paths \cup {NoFile}, size : Nat]
  BY DEF Unmapped
<1>2. Released(c) = [c EXCEPT !.file = Unmapped, !.open = FALSE]
  BY DEF Released, UnmapFile, Objects
<1>3. Released(UnmapFile(c)) = Released(c)
  BY DEF Released, UnmapFile, Objects
<1> QED  BY <1>1, <1>2, <1>3 DEF Objects

(* The files may change under the server.                                  *)
LEMMA WorldTyped ==
  ASSUME NEW w, IsWorld(w), NEW fsNow \in {Files} \cup OtherFiles
  PROVE  IsWorld([w EXCEPT !.fs = fsNow])
<1> DEFINE v == [w EXCEPT !.fs = fsNow]
<1>1. v \in [users : {w.users}, sessions : Seq(Texts), fs : {Files} \cup OtherFiles]
  BY DEF IsWorld
<1>2. v.users = w.users
  BY DEF IsWorld
<1> HIDE DEF v
<1>3. IsWorld(v)
  BY <1>1, <1>2 DEF IsWorld
<1> QED  BY <1>3 DEF v
-----------------------------------------------------------------------------
(* What a handler leaves alone when it only changes what the object is     *)
(* and where it stands.                                                    *)
LEMMA ObjectChanged ==
  ASSUME TypeOK, UNCHANGED <<stream, taken, world, hist>>,
         conn' \in Objects, Len(conn'.readBuf) < BufSize,
         Parsing(conn'.request, conn'.readBuf),
         pc' \in {"reading", "queued", "orphaned", "writing", "done", "dropped", "closed"},
         out' \in Seq(Output)
  PROVE  TypeOK'
<1>1. Output = Units \cup FileUnits
  BY DEF Output
<1> QED  BY <1>1 DEF TypeOK

(* The initial state is typed, and every step keeps the types.             *)
LEMMA TypesStart == Init => TypeOK
<1> SUFFICES ASSUME Init PROVE TypeOK
  OBVIOUS
<1>1. Len(WireOf(stream)) \in Nat /\ taken = 0 /\ stream \in Streams
  BY StreamTyped DEF Init
<1>2. /\ conn \in Objects /\ conn.readBuf = <<>> /\ Parsing(conn.request, conn.readBuf)
  BY NewTyped, RequestTyped DEF Init, Objects
<1>3. IsWorld(world) /\ hist.before = world
  BY HttpConnectionAssumption DEF Init, IsWorld
<1>4. Len(conn.readBuf) < BufSize
  BY <1>2, HttpConnectionAssumption
<1>5. hist \in [base : Nat, seen : Nat, whole : Nat, raced : BOOLEAN, failed : BOOLEAN,
                before : {hist.before}]
  BY DEF Init
<1>6. out \in Seq(Units \cup FileUnits) /\ pc = "reading"
  BY DEF Init
<1> QED  BY <1>1, <1>2, <1>3, <1>4, <1>5, <1>6 DEF TypeOK

(* Every step keeps the types.                                             *)
LEMMA TypesKept == TypeOK /\ Sending /\ [Next]_vars => TypeOK'
<1> SUFFICES ASSUME TypeOK, Sending, [Next]_vars PROVE TypeOK'
  OBVIOUS
<1>1. /\ conn \in Objects /\ Len(conn.readBuf) < BufSize /\ conn.readBuf \in Seq(Tokens)
      /\ Parsing(conn.request, conn.readBuf) /\ Len(conn.readBuf) \in Nat
      /\ out \in Seq(Output) /\ Len(<<>>) = 0 /\ <<>> \in Seq(Output)
  BY LenProperties DEF TypeOK, Objects, Output
<1>2. /\ Released(conn) \in Objects /\ Len(Released(conn).readBuf) < BufSize
      /\ Parsing(Released(conn).request, Released(conn).readBuf)
      /\ Released(UnmapFile(conn)) = Released(conn)
  BY <1>1, ReleasedTyped
<1>3. ASSUME NEW n \in 0..(Len(WireOf(stream)) - taken), NEW peer \in {"up", "fin", "rst"},
             Read(n, peer)
      PROVE  TypeOK'
  <2> DEFINE wire == WireOf(stream)
             input == SubSeq(wire, taken + 1, taken + n)
             filled == AfterRead(conn, input)
             done == ReadResult(conn, input, peer) = "DONE"
  <2>1. wire \in Seq(Tokens) /\ Len(wire) \in Nat /\ taken \in 0..Len(wire)
    BY StreamTyped DEF TypeOK
  <2>2. n \in 0..(Len(wire) - taken)
    OBVIOUS
  <2>3. /\ UNCHANGED <<stream, world, out, hist>>
        /\ taken' = taken + Len(filled.readBuf) - Len(conn.readBuf)
        /\ conn' = IF done THEN filled ELSE Released(filled)
        /\ pc' = IF done THEN "queued" ELSE "closed"
    BY <1>3 DEF Read
  <2> HIDE DEF wire
  <2>4. /\ filled \in Objects /\ Len(filled.readBuf) < BufSize
        /\ Len(filled.readBuf) = Len(conn.readBuf)
                                   + (IF n < Room(conn) THEN n ELSE Room(conn))
        /\ Room(conn) \in Nat
        /\ filled.request = conn.request
    <3> HIDE DEF filled
    <3> DEFINE from == taken
    <3>1. from \in 0..Len(wire) /\ n \in 0..(Len(wire) - from)
      BY <2>1, <2>2
    <3>2. filled = AfterRead(conn, SubSeq(wire, from + 1, from + n))
      BY DEF filled
    <3> HIDE DEF from
    <3> DEFINE c == conn
               d == AfterRead(c, SubSeq(wire, from + 1, from + n))
    <3>3. c \in Objects /\ Len(c.readBuf) < BufSize
      BY <1>1
    <3> HIDE DEF c
    <3>4. /\ d \in Objects /\ Len(d.readBuf) < BufSize /\ d.request = c.request
          /\ Len(d.readBuf) = Len(c.readBuf) + (IF n < Room(c) THEN n ELSE Room(c))
          /\ Room(c) \in Nat
      BY <2>1, <3>1, <3>3, ReadTaken
    <3> QED  BY <3>2, <3>4 DEF c
  <2> HIDE DEF filled, done
  <2>5. filled.readBuf \in Seq(Tokens) /\ Len(filled.readBuf) \in Nat
    BY <2>4, LenProperties DEF Objects
  <2>6. Len(conn.readBuf) =< Len(filled.readBuf) /\ taken' \in 0..Len(wire)
    BY <1>1, <2>1, <2>2, <2>3, <2>4
  <2>7. Parsing(filled.request, filled.readBuf)
    BY <1>1, <2>4, <2>5, <2>6, MoreToParse
  <2>8. /\ conn' \in Objects /\ Len(conn'.readBuf) < BufSize
        /\ Parsing(conn'.request, conn'.readBuf)
    BY <2>3, <2>4, <2>7, ReleasedTyped
  <2>9. taken' \in 0..Len(WireOf(stream'))
    BY <2>3, <2>6 DEF wire
  <2> QED  BY <2>3, <2>8, <2>9 DEF TypeOK
<1>4. ASSUME NEW dbFails \in BOOLEAN, NEW fsNow \in {world.fs} \cup OtherFiles,
             Work(dbFails, fsNow)
      PROVE  TypeOK'
  <2> DEFINE result == Process(conn, world, dbFails, fsNow)
             again == conn.request.state = "FINISH"
  <2>1. IsWorld(world) /\ fsNow \in {Files} \cup OtherFiles
    BY DEF TypeOK, IsWorld
  <2>2. Processed(result, conn)
    BY <1>1, <2>1, ProcessTyped
  <2>3. /\ conn' = result.conn /\ world' = [result.world EXCEPT !.fs = fsNow]
        /\ pc' = CASE pc = "orphaned" -> "dropped"
                   [] pc = "queued" /\ result.ready -> "writing"
                   [] OTHER -> "reading"
        /\ hist' = [hist EXCEPT !.seen = Len(conn.readBuf),
                                !.whole = IF again THEN @ ELSE Len(conn.readBuf),
                                !.before = IF again THEN @ ELSE world,
                                !.failed = IF again THEN @ ELSE dbFails,
                                !.raced = @ \/ fsNow # world.fs]
        /\ UNCHANGED <<stream, taken, out>>
    BY <1>4 DEF Work
  <2> HIDE DEF result, again
  <2>4. /\ conn' \in Objects /\ Len(conn'.readBuf) < BufSize
        /\ Parsing(conn'.request, conn'.readBuf)
    BY <1>1, <2>2, <2>3 DEF Processed
  <2>5. IsWorld(world')
    BY <2>1, <2>2, <2>3, WorldTyped DEF Processed
  <2>6. /\ hist' \in [base : Nat, seen : Nat, whole : Nat, raced : BOOLEAN, failed : BOOLEAN,
                      before : {hist'.before}]
        /\ hist'.before \in {world, hist.before}
    <3>1. Len(conn.readBuf) \in Nat
      BY <1>1, LenProperties DEF Objects
    <3> QED  BY <2>3, <3>1 DEF TypeOK
  <2>7. pc' \in {"reading", "queued", "orphaned", "writing", "done", "dropped", "closed"}
    BY <2>3
  <2>8. IsWorld(hist'.before)
    BY <2>1, <2>6 DEF TypeOK
  <2> QED  BY <2>3, <2>4, <2>5, <2>6, <2>7, <2>8 DEF TypeOK
<1>5. ASSUME NEW n \in 1..conn.toSend, Write(n) PROVE TypeOK'
  <2>1. /\ pc = "writing" /\ conn' = Written(conn, n) /\ out' = out \o SubSeq(Rest(conn), 1, n)
        /\ pc' = IF conn'.toSend <= 0 THEN "done" ELSE "writing"
        /\ UNCHANGED <<stream, taken, world, hist>>
    BY <1>5 DEF Write
  <2>2. Spans(conn)
    BY <2>1 DEF Sending
  <2>3. /\ conn' \in Objects /\ conn'.readBuf = conn.readBuf /\ conn'.request = conn.request
    BY <1>1, <2>1, <2>2, WrittenSpans
  <2>4. out' \in Seq(Output)
    <3>1. Rest(conn) \in Seq(Output) /\ Len(Rest(conn)) = conn.toSend
      BY <1>1, <2>2, RestTyped
    <3>2. conn.toSend \in Nat
      BY <1>1 DEF Objects
    <3>3. n \in 0..Len(Rest(conn))
      BY <3>1, <3>2
    <3> DEFINE rest == Rest(conn)
               now == SubSeq(rest, 1, n)
    <3> HIDE DEF rest
    <3>4. now \in Seq(Output)
      BY <3>1, <3>3, LeftProperties DEF rest
    <3> HIDE DEF now
    <3>5. out \o now \in Seq(Output)
      BY <1>1, <3>4, ConcatProperties
    <3> QED  BY <2>1, <3>5 DEF now, rest
  <2> QED  BY <1>1, <2>1, <2>3, <2>4, ObjectChanged
<1>6. CASE WriteFails
  BY <1>1, <1>2, <1>6, ObjectChanged DEF WriteFails
<1>7. CASE KeepOpen
  <2>1. /\ Rewound(conn) \in Objects /\ Rewound(conn).readBuf = <<>>
        /\ Parsing(Rewound(conn).request, Rewound(conn).readBuf)
    BY <1>1, RewoundTyped
  <2>2. /\ conn' = Rewound(conn) /\ out' = <<>> /\ pc' = "reading"
        /\ UNCHANGED <<stream, taken, world>>
        /\ hist' = [hist EXCEPT !.base = taken, !.seen = 0, !.whole = 0,
                                !.raced = FALSE, !.failed = FALSE]
    BY <1>7 DEF KeepOpen
  <2>3. taken \in Nat
    BY StreamTyped DEF TypeOK
  <2>4. /\ hist' \in [base : Nat, seen : Nat, whole : Nat, raced : BOOLEAN, failed : BOOLEAN,
                      before : {hist'.before}]
        /\ hist'.before = hist.before
    BY <2>2, <2>3 DEF TypeOK
  <2>5. Len(conn'.readBuf) < BufSize
    BY <1>1, <2>1, <2>2, HttpConnectionAssumption
  <2> QED  BY <1>1, <2>1, <2>2, <2>4, <2>5 DEF TypeOK
<1>8. CASE CloseDone
  BY <1>1, <1>2, <1>8, ObjectChanged DEF CloseDone
<1>9. CASE Close
  BY <1>1, <1>2, <1>9, ObjectChanged DEF Close
<1>10. CASE Destroy
  BY <1>1, <1>2, <1>10, ObjectChanged DEF Destroy
<1>11. CASE UNCHANGED vars
  BY <1>11 DEF TypeOK, vars
<1> QED  BY <1>3, <1>4, <1>5, <1>6, <1>7, <1>8, <1>9, <1>10, <1>11 DEF Next
-----------------------------------------------------------------------------
(* A response that is laid out is what writev() is about to be handed.     *)
LEMMA LaidOutSpans ==
  ASSUME NEW c \in Objects, LaidOut(c)
  PROVE  /\ Spans(c) /\ Rest(c) = Whole(c) /\ Announced(Whole(c), c.keepAlive)
         /\ c.toSend \in 1..(WriteBufSize + MaxFile)
<1> DEFINE buf == c.writeBuf
           content == Content(c.file.path, c.file.size)
           keep == c.keepAlive
<1>1. /\ buf \in Seq(Units) /\ buf \in Seq(Output) /\ Len(buf) \in Nat /\ buf # <<>>
      /\ Len(buf) # 0 /\ Len(buf) < WriteBufSize /\ keep \in BOOLEAN
  <2>1. buf \in Seq(Units) /\ Units \subseteq Output /\ buf # <<>> /\ Len(buf) < WriteBufSize
    BY DEF Objects, Output, LaidOut
  <2>2. buf \in Seq(Output)
    BY <2>1, SeqMonotonic
  <2>3. keep \in BOOLEAN
    BY DEF Objects
  <2> HIDE DEF buf, keep
  <2> QED  BY <2>1, <2>2, <2>3, LenProperties, EmptySeq
<1>2. c.iov[1].from = 0 /\ c.iov[1].len = Len(buf) /\ Announced(buf, keep)
  <2>1. c.iov[1] = Span(0, Len(buf))
    BY DEF LaidOut
  <2>2. Announced(buf, keep)
    BY Zenon DEF LaidOut
  <2> QED  BY <2>1, <2>2 DEF Span
<1>3. c.iovCnt = 1 \/ c.iovCnt = 2
  BY DEF LaidOut
<1>4. HeaderLeft(c) = buf
  <2>1. SubSeq(buf, 0 + 1, 0 + Len(buf)) = SubSeq(buf, 1, Len(buf))
    BY <1>1
  <2>2. SubSeq(buf, 1, Len(buf)) = buf
    BY <1>1, SubSeqFull
  <2> QED  BY <1>2, <2>1, <2>2 DEF HeaderLeft
<1>5. CASE c.iovCnt = 1
  <2>1. c.toSend = Len(buf) /\ c.file = Unmapped
    BY <1>5 DEF LaidOut
  <2>2. Spans(c)
    BY <1>1, <1>2, <1>5, <2>1 DEF Spans
  <2>3. Rest(c) = buf \o <<>> /\ Whole(c) = buf \o <<>>
    BY <1>4, <1>5, <2>2, RestTyped DEF Whole
  <2>4. buf \o <<>> = buf
    BY <1>1, ConcatEmptySeq
  <2>5. Announced(Whole(c), keep)
    BY <1>2, <2>3, <2>4
  <2>6. c.toSend \in 1..(WriteBufSize + MaxFile)
    BY <1>1, <2>1, HttpConnectionAssumption
  <2> QED  BY <2>2, <2>3, <2>5, <2>6
<1>6. CASE c.iovCnt = 2
  <2>1. /\ c.toSend = Len(buf) + c.file.size /\ c.iov[2] = Span(0, c.file.size)
        /\ c.file.path \in Paths /\ c.file.size \in 1..MaxFile
    BY <1>6 DEF LaidOut
  <2>2. c.iov[2].from = 0 /\ c.iov[2].len = c.file.size /\ c.file.size \in Nat
    BY <2>1, HttpConnectionAssumption DEF Span
  <2>3. Spans(c)
    BY <1>1, <1>2, <1>6, <2>1, <2>2 DEF Spans
  <2>4. content \in Seq(Output) /\ Len(content) = c.file.size
    BY <2>1, <2>2, ContentTyped
  <2>5. FileLeft(c) = content
    <3>1. FileLeft(c) = SubSeq(content, 0 + 1, 0 + c.file.size)
      BY <2>2 DEF FileLeft
    <3>2. 0 + c.file.size = Len(content) /\ 0 + 1 = 1
      BY <2>2, <2>4
    <3> HIDE DEF content
    <3> QED  BY <2>4, <3>1, <3>2, SubSeqFull
  <2>6. Rest(c) = buf \o content /\ Whole(c) = buf \o content
    BY <1>4, <1>6, <2>3, <2>5, RestTyped DEF Whole
  <2>7. \A i \in 1..Len(content) : content[i].is # "connection"
    <3>1. \A i \in 1..c.file.size : content[i] = Data(c.file.path, i)
      BY <2>2 DEF Content
    <3> HIDE DEF content
    <3>2. \A path, i : Data(path, i).is # "connection"
      BY DEF Data
    <3> QED  BY <2>2, <2>4, <3>1, <3>2
  <2> HIDE DEF buf, content, keep
  <2>8. Announced(buf \o content, keep)
    BY <1>1, <1>2, <2>4, <2>7, AnnouncedMore
  <2>9. c.toSend \in 1..(WriteBufSize + MaxFile)
    BY <1>1, <2>1, <2>2, HttpConnectionAssumption
  <2>10. Announced(Whole(c), keep)
    BY <2>6, <2>8
  <2> QED  BY <2>3, <2>6, <2>9, <2>10 DEF keep
<1> QED  BY <1>3, <1>5, <1>6

(* The steps that send nothing and prepare nothing.                        *)
LEMMA NotSending ==
  ASSUME BeforeAndAfter, pc' \notin {"writing", "done"},
         pc' \in {"reading", "queued", "orphaned"} => out' = <<>>,
         conn'.file = Unmapped
  PROVE  Sending' /\ BeforeAndAfter'
  BY DEF Sending, BeforeAndAfter

(* Every step keeps what was sent and what is left in line with the        *)
(* response.                                                               *)
LEMMA SendingKept ==
  TypeOK /\ Sending /\ BeforeAndAfter /\ [Next]_vars => Sending' /\ BeforeAndAfter'
<1> SUFFICES ASSUME TypeOK, Sending, BeforeAndAfter, [Next]_vars
             PROVE  Sending' /\ BeforeAndAfter'
  OBVIOUS
<1>1. /\ conn \in Objects /\ Len(conn.readBuf) < BufSize
      /\ Parsing(conn.request, conn.readBuf) /\ out \in Seq(Output)
  BY DEF TypeOK, Output
<1>2. /\ Released(conn).file = Unmapped /\ Released(UnmapFile(conn)) = Released(conn)
      /\ Rewound(conn).file = Unmapped
  BY <1>1, ReleasedTyped, RewoundTyped
<1>3. ASSUME NEW n \in 0..(Len(WireOf(stream)) - taken), NEW peer \in {"up", "fin", "rst"},
             Read(n, peer)
      PROVE  Sending' /\ BeforeAndAfter'
  <2> DEFINE input == SubSeq(WireOf(stream), taken + 1, taken + n)
             filled == AfterRead(conn, input)
             done == ReadResult(conn, input, peer) = "DONE"
  <2>1. /\ pc = "reading" /\ UNCHANGED out /\ conn' = IF done THEN filled ELSE Released(filled)
        /\ pc' = IF done THEN "queued" ELSE "closed"
    BY <1>3 DEF Read
  <2>2. filled \in Objects /\ filled.file = conn.file
    <3> DEFINE wire == WireOf(stream)
               from == taken
               c == conn
               d == AfterRead(c, SubSeq(wire, from + 1, from + n))
    <3>1. wire \in Seq(Tokens) /\ from \in 0..Len(wire) /\ n \in 0..(Len(wire) - from)
      BY StreamTyped DEF TypeOK
    <3>2. c \in Objects /\ Len(c.readBuf) < BufSize
      BY <1>1
    <3> HIDE DEF wire, from, c
    <3>3. d \in Objects /\ d.file = c.file
      BY <3>1, <3>2, ReadTaken
    <3> QED  BY <3>3 DEF wire, from, c
  <2> HIDE DEF filled, done
  <2>3. conn.file = Unmapped /\ out = <<>>
    BY <2>1 DEF BeforeAndAfter
  <2>4. conn'.file = Unmapped
    BY <2>1, <2>2, <2>3, ReleasedTyped
  <2> QED  BY <2>1, <2>3, <2>4, NotSending
<1>4. ASSUME NEW dbFails \in BOOLEAN, NEW fsNow \in {world.fs} \cup OtherFiles,
             Work(dbFails, fsNow)
      PROVE  Sending' /\ BeforeAndAfter'
  <2> DEFINE result == Process(conn, world, dbFails, fsNow)
  <2>1. IsWorld(world) /\ fsNow \in {Files} \cup OtherFiles
    BY DEF TypeOK, IsWorld
  <2>2. Processed(result, conn)
    BY <1>1, <2>1, ProcessTyped
  <2>3. /\ pc \in {"queued", "orphaned"} /\ conn' = result.conn /\ UNCHANGED out
        /\ pc' = CASE pc = "orphaned" -> "dropped"
                   [] pc = "queued" /\ result.ready -> "writing"
                   [] OTHER -> "reading"
    BY <1>4 DEF Work
  <2> HIDE DEF result
  <2>4. out = <<>> /\ result.ready \in BOOLEAN
    BY <2>2, <2>3 DEF BeforeAndAfter, Processed
  <2>5. CASE pc = "orphaned"
    BY <2>3, <2>5 DEF Sending, BeforeAndAfter
  <2>6. CASE pc = "queued" /\ result.ready = TRUE
    <3>1. /\ conn' \in Objects /\ LaidOut(conn') /\ conn'.haveSent = 0 /\ pc' = "writing"
      BY <2>2, <2>3, <2>6 DEF Processed
    <3>2. Spans(conn') /\ Rest(conn') = Whole(conn') /\ Announced(Whole(conn'), conn'.keepAlive)
      BY <3>1, LaidOutSpans
    <3>3. Rest(conn') \in Seq(Output)
      BY <3>1, <3>2, RestTyped
    <3>4. out' \o Rest(conn') = Rest(conn') /\ Len(out') = 0 /\ out' = <<>>
      BY <2>3, <2>4, <3>3, ConcatEmptySeq, EmptySeq
    <3>5. out' \o Rest(conn') = Whole(conn') /\ Len(out') = conn'.haveSent
      BY <3>1, <3>2, <3>4
    <3>6. Sending'
      BY <3>2, <3>5 DEF Sending
    <3>7. BeforeAndAfter'
      BY <3>1 DEF BeforeAndAfter
    <3> QED  BY <3>6, <3>7
  <2>7. CASE pc = "queued" /\ result.ready = FALSE
    <3>1. pc' = "reading" /\ out' = <<>> /\ conn'.file = Unmapped
      BY <2>2, <2>3, <2>4, <2>7 DEF Processed, Blank
    <3> QED  BY <3>1, NotSending
  <2> QED  BY <2>3, <2>4, <2>5, <2>6, <2>7
<1>5. ASSUME NEW n \in 1..conn.toSend, Write(n) PROVE Sending' /\ BeforeAndAfter'
  <2> DEFINE rest == Rest(conn)
             now == SubSeq(rest, 1, n)
             keep == conn.keepAlive
  <2>1. /\ pc = "writing" /\ conn' = Written(conn, n) /\ out' = out \o now
        /\ pc' = IF conn'.toSend <= 0 THEN "done" ELSE "writing"
    BY <1>5 DEF Write
  <2>2. /\ Spans(conn) /\ out \o rest = Whole(conn) /\ Len(out) = conn.haveSent
        /\ Announced(Whole(conn), keep)
    BY <2>1, Zenon DEF Sending
  <2>3. /\ conn' \in Objects /\ conn'.writeBuf = conn.writeBuf /\ conn'.iovCnt = conn.iovCnt
        /\ conn'.toSend = conn.toSend - n /\ conn'.haveSent = conn.haveSent + n
        /\ n = conn.toSend => conn'.file = Unmapped
        /\ n # conn.toSend => /\ conn'.file = conn.file /\ Spans(conn')
                              /\ Rest(conn') = Left(rest, n)
    BY <1>1, <2>1, <2>2, WrittenSpans
  <2>4. conn'.keepAlive = keep
    BY <1>1, <2>1, <2>2, WrittenSpans
  <2>5. /\ conn.toSend \in Nat /\ conn.haveSent \in Nat /\ n \in Nat \ {0} /\ n =< conn.toSend
    BY <1>1 DEF Objects
  <2>6. rest \in Seq(Output) /\ Len(rest) = conn.toSend
    BY <1>1, <2>2, RestTyped
  <2> HIDE DEF rest, keep
  <2>7. /\ now \in Seq(Output) /\ Len(now) = n /\ Left(rest, n) \in Seq(Output)
        /\ now \o Left(rest, n) = rest
    <3>1. n \in 0..Len(rest)
      BY <2>5, <2>6
    <3> QED  BY <2>6, <3>1, LeftProperties
  <2> HIDE DEF now
  <2>8. Len(out') = conn'.haveSent
    <3>1. Len(out \o now) = Len(out) + Len(now)
      BY <1>1, <2>7, ConcatProperties
    <3> QED  BY <2>1, <2>2, <2>3, <2>7, <3>1
  <2>9. CASE n = conn.toSend
    <3>1. pc' = "done" /\ conn'.toSend = 0 /\ conn'.file = Unmapped
      BY <2>1, <2>3, <2>5, <2>9
    <3>2. now = rest
      BY <2>6, <2>9, SubSeqFull DEF now
    <3>3. Announced(out', conn'.keepAlive)
      BY <2>1, <2>2, <2>4, <3>2, Zenon
    <3> QED  BY <2>8, <3>1, <3>3 DEF Sending, BeforeAndAfter
  <2>10. CASE n # conn.toSend
    <3>1. pc' = "writing" /\ Whole(conn') = Whole(conn)
      <4>1. conn'.toSend > 0
        BY <2>3, <2>5, <2>10
      <4>2. Whole(conn') = Whole(conn)
        BY <2>3, <2>10 DEF Whole
      <4> QED  BY <2>1, <2>3, <2>5, <4>1, <4>2
    <3>2. out' \o Rest(conn') = Whole(conn')
      <4> DEFINE later == Left(rest, n)
                 before == out
      <4>1. before \in Seq(Output) /\ later \in Seq(Output) /\ now \in Seq(Output)
        BY <1>1, <2>7
      <4>2. out' \o Rest(conn') = (before \o now) \o later
        BY <2>1, <2>3, <2>10
      <4>3. now \o later = rest /\ before \o rest = Whole(conn')
        BY <2>2, <2>7, <3>1
      <4> HIDE DEF before, later
      <4>4. (before \o now) \o later = before \o (now \o later)
        BY <4>1, ConcatAssociative
      <4> QED  BY <4>2, <4>3, <4>4
    <3>3. Announced(Whole(conn'), conn'.keepAlive)
      BY <2>2, <2>4, <3>1, Zenon
    <3> QED  BY <2>3, <2>8, <2>10, <3>1, <3>2, <3>3 DEF Sending, BeforeAndAfter
  <2> QED  BY <2>9, <2>10
<1>6. CASE WriteFails
  BY <1>2, <1>6, NotSending DEF WriteFails
<1>7. CASE KeepOpen
  BY <1>2, <1>7, NotSending DEF KeepOpen
<1>8. CASE CloseDone
  BY <1>2, <1>8, NotSending DEF CloseDone
<1>9. CASE Close
  <2>1. /\ conn' = Released(conn) /\ UNCHANGED out /\ pc \in {"reading", "writing", "queued"}
        /\ pc' = IF pc = "queued" THEN "orphaned" ELSE "closed"
    BY <1>9 DEF Close
  <2>2. pc' = "orphaned" => out' = <<>>
    BY <2>1 DEF BeforeAndAfter
  <2> QED  BY <1>2, <2>1, <2>2, NotSending
<1>10. CASE Destroy
  BY <1>2, <1>10, NotSending DEF Destroy
<1>11. CASE UNCHANGED vars
  BY <1>11 DEF Sending, BeforeAndAfter, vars
<1> QED  BY <1>3, <1>4, <1>5, <1>6, <1>7, <1>8, <1>9, <1>10, <1>11 DEF Next
-----------------------------------------------------------------------------
(* The types, the response that is being sent and the output around it     *)
(* make up the inductive invariant: what write() does to the iovec is safe *)
(* only because the iovec spans what process() laid out.                   *)
THEOREM ResponseKept == Spec => [](TypeOK /\ Sending /\ BeforeAndAfter)
<1>1. Init => TypeOK /\ Sending /\ BeforeAndAfter
  <2> SUFFICES ASSUME Init PROVE TypeOK /\ Sending /\ BeforeAndAfter
    OBVIOUS
  <2>1. conn.file = Unmapped /\ pc = "reading" /\ out = <<>>
    BY NewTyped DEF Init
  <2> QED  BY <2>1, TypesStart DEF Sending, BeforeAndAfter
<1>2. TypeOK /\ Sending /\ BeforeAndAfter /\ [Next]_vars
        => (TypeOK /\ Sending /\ BeforeAndAfter)'
  BY TypesKept, SendingKept
<1> QED  BY <1>1, <1>2, PTL DEF Spec

(* Every variable keeps its type.  The parser's indices stay within the    *)
(* buffer, which never fills up to its last byte, and a request that is    *)
(* past its first line names a path (HttpConnection.h, HttpRequest.h).     *)
THEOREM TypeCorrect == Spec => []TypeOK
  BY ResponseKept, PTL

(* No unit of a response is sent twice or skipped, however writev() splits *)
(* header and file, and bytes_to_send_ and bytes_have_send_ count them     *)
(* (HttpConnection.cpp:329-374).                                           *)
THEOREM NothingSentTwice == Spec => []SentAsBuilt
<1>1. TypeOK /\ Sending /\ BeforeAndAfter => SentAsBuilt
  <2> SUFFICES ASSUME TypeOK, Sending, BeforeAndAfter PROVE SentAsBuilt
    OBVIOUS
  <2>1. CASE pc = "writing"
    <3>1. conn \in Objects /\ Spans(conn)
      BY <2>1 DEF TypeOK, Sending
    <3>2. Len(Rest(conn)) = conn.toSend
      BY <3>1, RestTyped
    <3> QED  BY <2>1, <3>2 DEF Sending, SentAsBuilt, Whole
  <2>2. CASE pc = "done"
    <3>1. Len(<<>>) = 0
      OBVIOUS
    <3> QED  BY <2>2, <3>1 DEF BeforeAndAfter, SentAsBuilt
  <2>3. CASE pc \notin {"writing", "done"}
    BY <2>3 DEF SentAsBuilt
  <2> QED  BY <2>1, <2>2, <2>3
<1> QED  BY <1>1, ResponseKept, PTL

(* The file is mapped while units of it are to be sent and no longer, on   *)
(* whatever path the object goes (HttpConnection.cpp:376-403).             *)
THEOREM UnmappedInTime == Spec => []MappedWhileNeeded
<1>1. TypeOK /\ Sending /\ BeforeAndAfter => MappedWhileNeeded
  <2> SUFFICES ASSUME Sending, BeforeAndAfter PROVE MappedWhileNeeded
    OBVIOUS
  <2>1. ASSUME pc = "writing", conn.iovCnt = 2 PROVE conn.file # Unmapped
    <3>1. conn.file.path \in Paths
      BY <2>1 DEF Sending, Spans
    <3>2. Unmapped.path = NoFile
      BY DEF Unmapped
    <3> QED  BY <3>1, <3>2, HttpConnectionAssumption
  <2> QED  BY <2>1 DEF BeforeAndAfter, MappedWhileNeeded
<1> QED  BY <1>1, ResponseKept, PTL

(* A connection is closed after its response if and only if the response   *)
(* said so, but for the 500 page (HttpConnection.cpp:159,                  *)
(* HttpResponse.cpp:41; WebServer.cpp:240).                                *)
THEOREM ClosedAsItSays == Spec => ClosesAsAnnounced
<1> DEFINE Step == pc = "done" =>
                     \/ pc' = IF Says(TRUE) THEN "reading" ELSE "closed"
                     \/ conn.keepAlive /\ out[1] = Status(500)
<1>1. BeforeAndAfter /\ [Next]_vars => [Step]_vars
  <2> SUFFICES ASSUME BeforeAndAfter, Next, pc = "done"
               PROVE  \/ pc' = IF Says(TRUE) THEN "reading" ELSE "closed"
                      \/ conn.keepAlive /\ out[1] = Status(500)
    OBVIOUS
  <2>1. Announced(out, conn.keepAlive)
    BY DEF BeforeAndAfter
  <2>2. KeepOpen \/ CloseDone
    BY DEF Next, Read, Work, Write, WriteFails, Close, Destroy
  <2>3. CASE KeepOpen
    <3>1. conn.keepAlive /\ pc' = "reading"
      BY <2>3 DEF KeepOpen
    <3>2. out[1] = Status(500) \/ Says(TRUE)
      BY <2>1, <3>1 DEF Announced, Says
    <3> QED  BY <3>1, <3>2
  <2>4. CASE CloseDone
    <3>1. ~conn.keepAlive /\ pc' = "closed"
      BY <2>4 DEF CloseDone
    <3>2. ~Says(TRUE)
      BY <2>1, <3>1 DEF Announced, Says
    <3> QED  BY <3>1, <3>2
  <2> QED  BY <2>2, <2>3, <2>4
<1>2. [][Step]_vars => ClosesAsAnnounced
  BY DEF ClosesAsAnnounced
<1> QED  BY <1>1, <1>2, ResponseKept, PTL DEF Spec
-----------------------------------------------------------------------------
(* A parser that has seen the front part of the buffer, in pieces, goes on *)
(* with the rest to where a new parser comes that is shown all of it.      *)
LEMMA PiecesAsWhole ==
  ASSUME NEW buf \in Seq(Tokens), NEW more \in Seq(Tokens), Begins(buf, more),
         NEW r, Parsing(r, more), SameHeading(r, Parse(NewRequest, buf).req),
         Parse(NewRequest, buf).result \in {"INCOMPLETE", "SUCCESS"},
         Parse(NewRequest, buf).result = "INCOMPLETE" => r.path = Parse(NewRequest, buf).req.path
  PROVE  LET piece == Parse(r, more)
             whole == Parse(NewRequest, more)
         IN  /\ piece.result = whole.result /\ SameHeading(piece.req, whole.req)
             /\ whole.result = "INCOMPLETE" => piece.req.path = whole.req.path
<1> DEFINE front == Parse(NewRequest, buf)
           piece == Parse(r, more)
           whole == Parse(NewRequest, more)
<1>1. Parsing(NewRequest, buf) /\ Parsing(NewRequest, more)
  BY RequestTyped
<1>2. CASE front.result = "INCOMPLETE"
  <2>1. Alike(r, front.req)
    BY <1>2 DEF SameHeading, Alike
  <2>2. SameTurn(piece, whole)
    BY <1>1, <1>2, <2>1, TakenUp
  <2> HIDE DEF piece, whole
  <2>3. /\ piece.result = whole.result /\ SameHeading(piece.req, whole.req)
        /\ piece.req.path = whole.req.path
    BY <2>2 DEF SameTurn, Alike, SameHeading
  <2> QED  BY <2>3 DEF piece, whole
<1>3. CASE front.result = "SUCCESS"
  <2>1. SameTurn(whole, front)
    BY <1>1, <1>3, EndStaysEnd
  <2>2. front.req.state = "FINISH" /\ front.req.start = front.req.checked
    BY <1>1, <1>3, SuccessLeaves
  <2>3. more # <<>>
    <3>1. more = <<>> => whole = [req |-> NewRequest, result |-> "INCOMPLETE"]
      BY <1>1, ParseUnrolled
    <3> HIDE DEF whole, front
    <3> QED  BY <1>3, <2>1, <3>1 DEF SameTurn
  <2>4. r \in Parsers /\ r.state = "FINISH" /\ r.start = r.checked
    BY <2>2 DEF SameHeading, Parsing
  <2>5. piece = [req |-> AtEnd(r), result |-> "SUCCESS"]
    BY <2>3, <2>4, EndStays
  <2>6. SameHeading(AtEnd(r), r)
    BY <2>4, FinishTurn DEF SameHeading
  <2>7. SameHeading(r, front.req)
    OBVIOUS
  <2> HIDE DEF front, whole, piece
  <2>8. piece.result = "SUCCESS" /\ SameHeading(piece.req, front.req)
    BY <2>5, <2>6, <2>7 DEF SameHeading
  <2>9. whole.result = "SUCCESS" /\ SameHeading(piece.req, whole.req)
    BY <1>3, <2>1, <2>8 DEF SameTurn, SameHeading, Alike
  <2> QED  BY <2>8, <2>9 DEF piece, whole
<1> QED  BY <1>2, <1>3

(* What a new parser makes of all that the last process() had before it.   *)
Shown == Parse(NewRequest, SubSeq(conn.readBuf, 1, hist.seen))

(* The parser of the connection stands where this one stands: before it is *)
(* asked again, and when there is an answer.                               *)
AsWhole ==
  /\ hist.seen =< Len(conn.readBuf)
  /\ pc \in {"reading", "queued", "writing"} => SameHeading(conn.request, Shown.req)
  /\ pc \in {"reading", "queued"} =>
       /\ Shown.result \in {"INCOMPLETE", "SUCCESS"}
       /\ Shown.result = "INCOMPLETE" => conn.request.path = Shown.req.path
  /\ pc = "writing" =>
       /\ Shown.result # "INCOMPLETE"
       /\ Shown.result = "ERROR" <=> conn.writeBuf = <<BadRequestPage>>

(* The part that has been seen.                                            *)
LEMMA SeenPart ==
  ASSUME NEW more \in Seq(Tokens), NEW n \in 0..Len(more)
  PROVE  LET part == SubSeq(more, 1, n)
         IN  part \in Seq(Tokens) /\ Begins(part, more) /\ (n = 0 => part = <<>>)
<1> DEFINE zero == 0
           t == SubSeq(more, zero + 1, zero + n)
           part == SubSeq(more, 1, n)
<1>1. Len(more) \in Nat /\ n \in Nat /\ n =< Len(more)
  BY LenProperties
<1>2. zero \in Nat /\ zero + n =< Len(more) /\ zero + 1 = 1 /\ zero + n = n /\ part = t
  BY <1>1
<1>3. \A i \in 1..n : zero + i = i
  OBVIOUS
<1> HIDE DEF zero, part
<1>4. t \in Seq(Tokens) /\ Len(t) = n /\ \A i \in 1..n : t[i] = more[zero + i]
  BY <1>1, <1>2, PartTaken
<1>5. part \in Seq(Tokens) /\ Len(part) = n /\ \A i \in 1..n : more[i] = part[i]
  BY <1>2, <1>3, <1>4
<1>6. Begins(part, more)
  BY <1>1, <1>5 DEF Begins
<1>7. n = 0 => part = <<>>
  BY <1>5, EmptySeq
<1> QED  BY <1>5, <1>6, <1>7 DEF part

(* What a front part is does not change when the buffer grows.             *)
LEMMA SeenStays ==
  ASSUME NEW buf \in Seq(Tokens), NEW more \in Seq(Tokens), Begins(buf, more), NEW n \in 0..Len(buf)
  PROVE  SubSeq(more, 1, n) = SubSeq(buf, 1, n)
<1>1. Len(buf) \in Nat /\ n \in Int /\ n =< Len(buf) /\ 1 \in Int /\ 1 >= 1
  BY LenProperties
<1>2. \A i \in 1..n : more[i] = buf[i]
  BY <1>1 DEF Begins
<1> DEFINE one == 1
<1> HIDE DEF one
<1>3. SubSeq(more, one, n) = SubSeq(buf, one, n)
  BY <1>1, <1>2, SamePart DEF one
<1> QED  BY <1>3 DEF one

(* A new request stands where a new parser stands that is shown nothing.   *)
LEMMA NothingShown ==
  ASSUME NEW r, r = NewRequest \/ \E q \in Parsers : r = InitedRequest(q),
         NEW buf, buf = <<>>, NEW n, n = 0
  PROVE  LET shown == Parse(NewRequest, SubSeq(buf, 1, n))
         IN  /\ shown.result = "INCOMPLETE" /\ SameHeading(r, shown.req) /\ r.path = shown.req.path
             /\ n =< Len(buf)
<1> DEFINE shown == Parse(NewRequest, SubSeq(buf, 1, n))
<1>1. buf \in Seq(Tokens) /\ n \in 0..Len(buf)
  OBVIOUS
<1>2. SubSeq(buf, 1, n) = buf
  BY <1>1, SeenPart
<1>3. shown = [req |-> NewRequest, result |-> "INCOMPLETE"]
  <2>1. Parse(NewRequest, buf) = [req |-> NewRequest, result |-> "INCOMPLETE"]
    BY <1>1, RequestTyped, ParseUnrolled
  <2> QED  BY <1>2, <2>1
<1> HIDE DEF shown
<1>4. shown.req = NewRequest /\ shown.result = "INCOMPLETE"
  BY <1>3
<1>5. SameHeading(r, NewRequest) /\ r.path = NewRequest.path
  <2>1. CASE r = NewRequest
    BY <2>1 DEF SameHeading
  <2>2. CASE \E q \in Parsers : r = InitedRequest(q)
    BY <2>2, RequestTyped DEF InitedRequest, SameHeading, Parsers
  <2> QED  BY <2>1, <2>2
<1> QED  BY <1>1, <1>4, <1>5 DEF shown

(* An object that is given up asks for nothing more.                       *)
LEMMA AsWholeOnRelease ==
  ASSUME TypeOK, AsWhole, conn' = Released(conn), UNCHANGED hist,
         pc' \in {"closed", "orphaned"}
  PROVE  AsWhole'
<1>1. conn'.readBuf = conn.readBuf
  BY ReleasedTyped DEF TypeOK
<1> QED  BY <1>1 DEF AsWhole

(* Every step keeps it.  A parse that asked for more is taken up where it  *)
(* was left; one that came to the end is asked again while its page cannot *)
(* be sent, and stays there; one that failed is never asked again.         *)
LEMMA AsWholeKept == TypeOK /\ Sending /\ AsWhole /\ [Next]_vars => AsWhole'
<1> SUFFICES ASSUME TypeOK, Sending, AsWhole, [Next]_vars PROVE AsWhole'
  OBVIOUS
<1>1. /\ conn \in Objects /\ Len(conn.readBuf) < BufSize /\ conn.readBuf \in Seq(Tokens)
      /\ Parsing(conn.request, conn.readBuf) /\ Len(conn.readBuf) \in Nat
      /\ hist.seen \in Nat /\ hist.seen \in 0..Len(conn.readBuf)
  <2>1. /\ conn \in Objects /\ Len(conn.readBuf) < BufSize /\ Parsing(conn.request, conn.readBuf)
        /\ hist.seen \in Nat
    BY DEF TypeOK
  <2>2. conn.readBuf \in Seq(Tokens) /\ Len(conn.readBuf) \in Nat
    BY <2>1, LenProperties DEF Objects
  <2> QED  BY <2>1, <2>2 DEF AsWhole
<1>2. Released(UnmapFile(conn)) = Released(conn)
  BY <1>1, ReleasedTyped
<1>3. ASSUME NEW n \in 0..(Len(WireOf(stream)) - taken), NEW peer \in {"up", "fin", "rst"},
             Read(n, peer)
      PROVE  AsWhole'
  <2> DEFINE input == SubSeq(WireOf(stream), taken + 1, taken + n)
             filled == AfterRead(conn, input)
             done == ReadResult(conn, input, peer) = "DONE"
  <2>1. /\ pc = "reading" /\ UNCHANGED hist /\ conn' = IF done THEN filled ELSE Released(filled)
        /\ pc' = IF done THEN "queued" ELSE "closed"
    BY <1>3 DEF Read
  <2>2. filled \in Objects /\ filled.request = conn.request /\ Begins(conn.readBuf, filled.readBuf)
    <3> DEFINE wire == WireOf(stream)
               from == taken
               c == conn
               d == AfterRead(c, SubSeq(wire, from + 1, from + n))
    <3>1. wire \in Seq(Tokens) /\ from \in 0..Len(wire) /\ n \in 0..(Len(wire) - from)
      BY StreamTyped DEF TypeOK
    <3>2. c \in Objects /\ Len(c.readBuf) < BufSize
      BY <1>1
    <3> HIDE DEF wire, from, c
    <3>3. d \in Objects /\ d.request = c.request /\ TakesOn(c.readBuf, d.readBuf, wire, from)
      BY <3>1, <3>2, ReadTaken
    <3> QED  BY <3>3 DEF wire, from, c, TakesOn
  <2> HIDE DEF filled, done
  <2>3. filled.readBuf \in Seq(Tokens)
    BY <2>2 DEF Objects
  <2>4. SubSeq(filled.readBuf, 1, hist.seen) = SubSeq(conn.readBuf, 1, hist.seen)
    BY <1>1, <2>2, <2>3, SeenStays
  <2>5. conn'.readBuf = filled.readBuf /\ conn'.request = conn.request
    BY <2>1, <2>2, ReleasedTyped
  <2>6. Shown' = Shown /\ hist'.seen =< Len(conn'.readBuf)
    <3>1. hist'.seen =< Len(conn'.readBuf)
      BY <1>1, <2>1, <2>2, <2>3, <2>5, LenProperties DEF Begins
    <3> QED  BY <2>1, <2>4, <2>5, <3>1 DEF Shown
  <2> QED  BY <2>1, <2>5, <2>6 DEF AsWhole
<1>4. ASSUME NEW dbFails \in BOOLEAN, NEW fsNow \in {world.fs} \cup OtherFiles,
             Work(dbFails, fsNow)
      PROVE  AsWhole'
  <2> DEFINE result == Process(conn, world, dbFails, fsNow)
             part == SubSeq(conn.readBuf, 1, hist.seen)
             piece == Parse(conn.request, conn.readBuf)
             whole == Parse(NewRequest, conn.readBuf)
  <2>1. IsWorld(world) /\ fsNow \in {Files} \cup OtherFiles
    BY DEF TypeOK, IsWorld
  <2>2. Processed(result, conn)
    BY <1>1, <2>1, ProcessTyped
  <2>3. /\ pc \in {"queued", "orphaned"} /\ conn' = result.conn /\ hist'.seen = Len(conn.readBuf)
        /\ pc' = CASE pc = "orphaned" -> "dropped"
                   [] pc = "queued" /\ result.ready -> "writing"
                   [] OTHER -> "reading"
    BY <1>4 DEF Work, TypeOK
  <2> HIDE DEF result
  <2>4. conn'.readBuf = conn.readBuf /\ AsParsed(result, conn) /\ result.ready \in BOOLEAN
    BY <2>2, <2>3 DEF Processed
  <2>5. Shown' = whole /\ hist'.seen =< Len(conn'.readBuf)
    <3> DEFINE buf == conn.readBuf
    <3>1. buf \in Seq(Tokens)
      BY <1>1
    <3>2. conn'.readBuf = buf /\ hist'.seen = Len(buf) /\ Len(buf) =< Len(buf)
      BY <1>1, <2>3, <2>4
    <3>3. Shown' = Parse(NewRequest, SubSeq(conn'.readBuf, 1, hist'.seen))
      BY DEF Shown
    <3> HIDE DEF buf
    <3>4. SubSeq(buf, 1, Len(buf)) = buf
      BY <3>1, SubSeqFull
    <3>5. Shown' = Parse(NewRequest, buf) /\ hist'.seen =< Len(conn'.readBuf)
      BY <3>2, <3>3, <3>4
    <3> QED  BY <3>5 DEF buf
  <2>6. CASE pc = "orphaned"
    BY <2>3, <2>5, <2>6 DEF AsWhole
  <2>7. CASE pc = "queued"
    <3>1. part \in Seq(Tokens) /\ Begins(part, conn.readBuf)
      BY <1>1, SeenPart
    <3>2. /\ SameHeading(conn.request, Parse(NewRequest, part).req)
          /\ Parse(NewRequest, part).result \in {"INCOMPLETE", "SUCCESS"}
          /\ Parse(NewRequest, part).result = "INCOMPLETE"
               => conn.request.path = Parse(NewRequest, part).req.path
      BY <2>7 DEF AsWhole, Shown
    <3> HIDE DEF part
    <3>3. /\ piece.result = whole.result /\ SameHeading(piece.req, whole.req)
          /\ whole.result = "INCOMPLETE" => piece.req.path = whole.req.path
      BY <1>1, <3>1, <3>2, PiecesAsWhole
    <3>4. whole.result \in {"INCOMPLETE", "ERROR", "SUCCESS"}
      BY <1>1, RequestTyped, ParseEnds
    <3>5. /\ SameHeading(result.conn.request, piece.req)
          /\ piece.result = "INCOMPLETE" => ~result.ready /\ result.conn.request = piece.req
          /\ piece.result = "ERROR" => result.ready
          /\ result.ready => (piece.result = "ERROR" <=> result.conn.writeBuf = <<BadRequestPage>>)
      BY <2>4 DEF AsParsed
    <3> HIDE DEF piece, whole
    <3>6. SameHeading(conn'.request, Shown'.req)
      BY <2>3, <2>5, <3>3, <3>5 DEF SameHeading
    <3>7. CASE result.ready = TRUE
      <4>1. pc' = "writing"
        BY <2>3, <2>7, <3>7
      <4>2. /\ Shown'.result # "INCOMPLETE"
            /\ Shown'.result = "ERROR" <=> conn'.writeBuf = <<BadRequestPage>>
        BY <2>3, <2>5, <3>3, <3>5, <3>7
      <4> QED  BY <2>5, <3>6, <4>1, <4>2 DEF AsWhole
    <3>8. CASE result.ready = FALSE
      <4>1. pc' = "reading"
        BY <2>3, <2>7, <3>8
      <4>2. /\ Shown'.result \in {"INCOMPLETE", "SUCCESS"}
            /\ Shown'.result = "INCOMPLETE" => conn'.request.path = Shown'.req.path
        BY <2>3, <2>5, <3>3, <3>4, <3>5, <3>8
      <4> QED  BY <2>5, <3>6, <4>1, <4>2 DEF AsWhole
    <3> QED  BY <2>4, <3>7, <3>8
  <2> QED  BY <2>3, <2>6, <2>7
<1>5. ASSUME NEW n \in 1..conn.toSend, Write(n) PROVE AsWhole'
  <2>1. /\ pc = "writing" /\ conn' = Written(conn, n) /\ UNCHANGED hist
        /\ pc' \in {"done", "writing"}
    BY <1>5 DEF Write
  <2>2. Spans(conn)
    BY <2>1 DEF Sending
  <2>3. conn'.readBuf = conn.readBuf /\ conn'.request = conn.request /\ conn'.writeBuf = conn.writeBuf
    BY <1>1, <2>1, <2>2, WrittenSpans
  <2>4. Shown' = Shown
    BY <2>1, <2>3 DEF Shown
  <2> QED  BY <2>1, <2>3, <2>4 DEF AsWhole
<1>6. CASE WriteFails
  BY <1>2, <1>6, AsWholeOnRelease DEF WriteFails
<1>7. CASE KeepOpen
  <2>1. /\ conn' = Rewound(conn) /\ pc' = "reading" /\ hist'.seen = 0
    BY <1>7 DEF KeepOpen, TypeOK
  <2>2. conn'.readBuf = <<>> /\ conn'.request = InitedRequest(conn.request)
    BY <1>1, <2>1, RewoundTyped
  <2>3. \E q \in Parsers : conn'.request = InitedRequest(q)
    BY <1>1, <2>2 DEF Objects
  <2>4. /\ Shown'.result = "INCOMPLETE" /\ SameHeading(conn'.request, Shown'.req)
        /\ conn'.request.path = Shown'.req.path /\ hist'.seen =< Len(conn'.readBuf)
    BY <2>1, <2>2, <2>3, NothingShown DEF Shown
  <2> QED  BY <2>1, <2>4 DEF AsWhole
<1>8. CASE CloseDone
  BY <1>8, AsWholeOnRelease DEF CloseDone
<1>9. CASE Close
  BY <1>9, AsWholeOnRelease DEF Close
<1>10. CASE Destroy
  BY <1>10, AsWholeOnRelease DEF Destroy
<1>11. CASE UNCHANGED vars
  BY <1>11 DEF AsWhole, Shown, vars
<1> QED  BY <1>3, <1>4, <1>5, <1>6, <1>7, <1>8, <1>9, <1>10, <1>11 DEF Next

(* In the beginning nothing has been read.                                 *)
LEMMA AsWholeStarts == Init => AsWhole
<1> SUFFICES ASSUME Init PROVE AsWhole
  OBVIOUS
<1>1. hist.seen = 0 /\ conn.readBuf = <<>> /\ pc = "reading" /\ conn.request = NewRequest
  BY NewTyped DEF Init
<1>2. /\ Shown.result = "INCOMPLETE" /\ SameHeading(conn.request, Shown.req)
      /\ conn.request.path = Shown.req.path /\ hist.seen =< Len(conn.readBuf)
  BY <1>1, NothingShown DEF Shown
<1> QED  BY <1>1, <1>2 DEF AsWhole

(* However the input is cut, the parser stands where it would stand had it *)
(* seen all of it at once (HttpRequest.cpp:16-90,                          *)
(* HttpConnection.cpp:94-141).                                             *)
THEOREM CutsDoNotMatter == Spec => []SegmentsDoNotMatter
<1>1. Init => AsWhole
  BY AsWholeStarts
<1>2. TypeOK /\ Sending /\ AsWhole /\ [Next]_vars => AsWhole'
  BY AsWholeKept
<1>3. AsWhole => SegmentsDoNotMatter
  <2> SUFFICES ASSUME AsWhole, pc \in {"reading", "writing"}
               PROVE  /\ Heading(conn.request) = Heading(Shown.req)
                      /\ Shown.result = "INCOMPLETE" => conn.request.path = Shown.req.path
                      /\ pc = "writing" =>
                           (Shown.result = "ERROR" <=> conn.writeBuf = <<BadRequestPage>>)
    BY DEF SegmentsDoNotMatter, Shown
  <2>1. SameHeading(conn.request, Shown.req)
    BY DEF AsWhole
  <2>2. Heading(conn.request) = Heading(Shown.req)
    BY <2>1 DEF SameHeading, Heading
  <2> QED  BY <2>2 DEF AsWhole
<1> QED  BY <1>1, <1>2, <1>3, ResponseKept, PTL DEF Spec
-----------------------------------------------------------------------------
(* The answer.  A byte that the client escaped is decoded to itself.       *)
LEMMA EscapedDecodes ==
  ASSUME NEW c \in Bytes
  PROVE  /\ Escaped(c) \in Seq(Nat)
         /\ \/ c = 32 /\ Escaped(c) = <<43>>
            \/ c \notin {32, 37, 43} /\ Escaped(c) = <<c>>
            \/ \E h \in 0..15, l \in 0..15 :
                 /\ Escaped(c) = <<37, Digit(h), Digit(l)>> /\ 16 * h + l = c
                 /\ HexToInt(Digit(h)) = h /\ HexToInt(Digit(l)) = l
<1>1. ASSUME NEW n \in 0..15 PROVE Digit(n) \in Nat /\ HexToInt(Digit(n)) = n
  <2>1. CASE n < 10
    BY <2>1 DEF Digit, HexToInt
  <2>2. CASE n >= 10
    <3>1. Digit(n) = 55 + n
      BY <2>2 DEF Digit
    <3> QED  BY <2>2, <3>1 DEF HexToInt
  <2> QED  BY <2>1, <2>2
<1>2. CASE c = 32
  <2>1. Escaped(c) = <<43>>
    BY <1>2, Zenon DEF Escaped
  <2>2. <<43>> \in Seq(Nat)
    OBVIOUS
  <2> QED  BY <1>2, <2>1, <2>2, Zenon
<1>3. CASE c \in 97..122
  <2>1. c \in Nat /\ c \notin {32, 37, 43} /\ c # 32
    BY <1>3
  <2>2. Escaped(c) = <<c>>
    BY <1>3, <2>1, Zenon DEF Escaped
  <2>3. <<c>> \in Seq(Nat)
    BY <2>1
  <2> QED  BY <2>1, <2>2, <2>3, Zenon
<1>4. CASE c # 32 /\ c \notin 97..122
  <2> DEFINE h == c \div 16
             l == c % 16
  <2>1. h \in 0..15 /\ l \in 0..15 /\ 16 * h + l = c
    BY DEF Bytes
  <2>2. Escaped(c) = <<37, Digit(h), Digit(l)>>
    BY <1>4 DEF Escaped
  <2> HIDE DEF h, l
  <2>3. <<37, Digit(h), Digit(l)>> \in Seq(Nat)
    BY <1>1, <2>1
  <2> QED  BY <1>1, <2>1, <2>2, <2>3
<1> QED  BY <1>2, <1>3, <1>4

(* What the server decodes is what the client encoded.                     *)
LEMMA DecodedAsEncoded ==
  ASSUME NEW s \in Seq(Bytes)
  PROVE  Encoded(s) \in Texts /\ UrlDecode(Encoded(s)) = s
<1> DEFINE n == Len(s)
           e == Encoded(s)
           ss == [i \in 1..n |-> Escaped(s[i])]
<1>1. n \in Nat /\ \A i \in 1..n : s[i] \in Bytes
  OBVIOUS
<1>2. ss \in Seq(Seq(Nat)) /\ Len(ss) = n /\ \A i \in 1..n : ss[i] = Escaped(s[i])
  <2>1. \A i \in 1..n : Escaped(s[i]) \in Seq(Nat)
    BY <1>1, EscapedDecodes
  <2> QED  BY <1>1, <2>1
<1>3. e = FlattenSeq(ss)
  BY DEF Encoded
<1> HIDE DEF n, ss
<1>4. e \in Texts /\ Len(e) \in Nat
  <2>1. FlattenSeq(ss) \in Seq(Nat)
    BY <1>2, FlattenTyped
  <2> QED  BY <1>3, <2>1, LenProperties DEF Texts
<1>5. PICK at \in [1..(n + 1) -> Nat] :
        /\ at[1] = 0 /\ at[n + 1] = Len(e)
        /\ \A k \in 1..n :
             /\ at[k + 1] = at[k] + Len(Escaped(s[k])) /\ at[k + 1] =< Len(e)
             /\ \A i \in 1..Len(Escaped(s[k])) : e[at[k] + i] = Escaped(s[k])[i]
  <2>1. PICK at : PartsAt(at, ss)
    BY <1>2, FlattenParts
  <2>2. at \in [1..(n + 1) -> Nat] /\ at[1] = 0 /\ at[n + 1] = Len(e)
    BY <1>2, <1>3, <2>1 DEF PartsAt
  <2>3. \A k \in 1..n :
             /\ at[k + 1] = at[k] + Len(Escaped(s[k])) /\ at[k + 1] =< Len(e)
             /\ \A i \in 1..Len(Escaped(s[k])) : e[at[k] + i] = Escaped(s[k])[i]
    <3> HIDE DEF e
    <3> TAKE k \in 1..n
    <3>1. ss[k] = Escaped(s[k]) /\ k \in 1..Len(ss)
      BY <1>2
    <3>2. /\ at[k + 1] = at[k] + Len(ss[k]) /\ at[k + 1] =< Len(e)
          /\ \A i \in 1..Len(ss[k]) : e[at[k] + i] = ss[k][i]
      BY <1>3, <2>1, <3>1 DEF PartsAt
    <3> QED  BY <3>1, <3>2
  <2> QED  BY <2>2, <2>3
<1> HIDE DEF e
<1>6. PICK f : /\ UrlDecode(e) = f[1]
               /\ \A i \in 1..(Len(e) + 1) : f[i] = Decoding(e, f, i) /\ f[i] \in Texts
  BY <1>4, DecodeUnrolled
<1> DEFINE From(k) == f[at[k] + 1] = Left(s, k - 1)
<1>7. From(n + 1)
  <2>1. f[Len(e) + 1] = <<>>
    <3>1. Len(e) + 1 \in 1..(Len(e) + 1) /\ Len(e) + 1 > Len(e)
      BY <1>4
    <3>2. f[Len(e) + 1] = Decoding(e, f, Len(e) + 1)
      BY <1>6, <3>1
    <3> QED  BY <3>1, <3>2 DEF Decoding
  <2>2. Left(s, n) = <<>>
    <3>1. n \in 0..Len(s) /\ Len(s) - n = 0
      BY <1>1 DEF n
    <3>2. Left(s, n) \in Seq(Bytes) /\ Len(Left(s, n)) = Len(s) - n
      BY <3>1, LeftProperties
    <3> QED  BY <3>1, <3>2, EmptySeq
  <2>3. (n + 1) - 1 = n
    BY <1>1
  <2> QED  BY <1>5, <2>1, <2>2, <2>3
<1>8. ASSUME NEW k \in 1..n, From(k + 1) PROVE From(k)
  <2> DEFINE p == at[k]
             c == s[k]
             rest == Left(s, k)
  <2>1. /\ p \in Nat /\ c \in Bytes /\ k \in 0..Len(s) /\ k - 1 \in 0..Len(s)
        /\ k + 1 \in 1..(n + 1) /\ at[k + 1] \in Nat
    BY <1>1, <1>5 DEF n
  <2>2. /\ at[k + 1] = p + Len(Escaped(c)) /\ at[k + 1] =< Len(e)
        /\ \A i \in 1..Len(Escaped(c)) : e[p + i] = Escaped(c)[i]
    BY <1>5
  <2>3. f[at[k + 1] + 1] = rest
    <3>1. (k + 1) - 1 = k
      OBVIOUS
    <3> QED  BY <1>8, <3>1
  <2>4. Left(s, k - 1) = <<c>> \o rest
    <3> DEFINE a == Left(s, k - 1)
               b == <<c>> \o rest
    <3>1. /\ a \in Seq(Bytes) /\ Len(a) = Len(s) - (k - 1)
          /\ \A i \in 1..(Len(s) - (k - 1)) : a[i] = s[k - 1 + i]
      BY <2>1, LeftProperties
    <3>2. /\ rest \in Seq(Bytes) /\ Len(rest) = Len(s) - k
          /\ \A i \in 1..(Len(s) - k) : rest[i] = s[k + i]
      BY <2>1, LeftProperties
    <3> HIDE DEF a, rest
    <3>3. /\ b \in Seq(Bytes) /\ Len(b) = 1 + Len(rest)
          /\ \A i \in 1..(1 + Len(rest)) : b[i] = IF i =< 1 THEN c ELSE rest[i - 1]
      <4>1. <<c>> \in Seq(Bytes) /\ Len(<<c>>) = 1 /\ <<c>>[1] = c
        BY <2>1
      <4> DEFINE h == <<c>>
      <4> HIDE DEF h
      <4>2. /\ h \o rest \in Seq(Bytes) /\ Len(h \o rest) = Len(h) + Len(rest)
            /\ \A i \in 1..(Len(h) + Len(rest)) :
                 (h \o rest)[i] = IF i =< Len(h) THEN h[i] ELSE rest[i - Len(h)]
        BY <3>2, <4>1, ConcatProperties DEF h
      <4>3. h \in Seq(Bytes) /\ Len(h) = 1 /\ h[1] = c
        BY <4>1 DEF h
      <4>4. \A i \in 1..(1 + Len(rest)) : (h \o rest)[i] = IF i =< 1 THEN c ELSE rest[i - 1]
        BY <3>2, <4>2, <4>3
      <4> QED  BY <4>2, <4>3, <4>4 DEF h
    <3> HIDE DEF b
    <3>4. Len(a) = Len(b) /\ Len(a) \in Nat /\ Len(rest) \in Nat /\ Len(s) \in Nat
      BY <2>1, <3>1, <3>2, <3>3, LenProperties
    <3>5. ASSUME NEW i \in 1..Len(a) PROVE a[i] = b[i]
      <4>1. CASE i = 1
        <5>1. a[1] = s[k - 1 + 1] /\ k - 1 + 1 = k
          BY <2>1, <3>1, <4>1
        <5>2. b[1] = c
          BY <3>3, <3>4
        <5> QED  BY <4>1, <5>1, <5>2
      <4>2. CASE i # 1
        <5>1. /\ i \in 1..(1 + Len(rest)) /\ ~(i =< 1) /\ i - 1 \in 1..(Len(s) - k)
              /\ i \in 1..(Len(s) - (k - 1)) /\ k + (i - 1) = k - 1 + i
          BY <2>1, <3>1, <3>2, <3>4, <4>2
        <5>2. a[i] = s[k - 1 + i]
          BY <3>1, <5>1
        <5>3. b[i] = rest[i - 1] /\ rest[i - 1] = s[k + (i - 1)]
          BY <3>2, <3>3, <5>1
        <5> QED  BY <5>1, <5>2, <5>3
      <4> QED  BY <4>1, <4>2
    <3>6. a = b
      BY <3>1, <3>3, <3>4, <3>5, SeqEqual
    <3> QED  BY <3>6 DEF a, b
  <2> HIDE DEF p, c, rest
  <2>5. f[p + 1] = Decoding(e, f, p + 1)
    <3>1. Len(Escaped(c)) \in Nat /\ Len(Escaped(c)) >= 1
      <4>1. /\ Len(<<43>>) = 1 /\ Len(<<c>>) = 1
            /\ \A h \in 0..15, l \in 0..15 : Len(<<37, Digit(h), Digit(l)>>) = 3
        OBVIOUS
      <4>2. Len(Escaped(c)) = 1 \/ Len(Escaped(c)) = 3
        BY <2>1, <4>1, EscapedDecodes
      <4> HIDE DEF c
      <4> DEFINE m == Len(Escaped(c))
      <4>3. m \in {1, 3}
        BY <4>2
      <4> HIDE DEF m
      <4>4. m \in Nat /\ m >= 1
        BY <4>3
      <4> QED  BY <4>4 DEF m
    <3>2. p + 1 \in 1..(Len(e) + 1)
      <4> DEFINE m == Len(Escaped(c))
                 x == at[k + 1]
                 z == Len(e)
      <4>1. x = p + m /\ x =< z /\ p \in Nat /\ z \in Nat /\ m \in Nat
        BY <1>4, <2>1, <2>2, <3>1
      <4> HIDE DEF n, m, x, z
      <4>2. p =< z
        BY <4>1
      <4>3. p + 1 \in 1..(z + 1)
        BY <4>1, <4>2
      <4> QED  BY <4>3 DEF z
    <3> QED  BY <1>6, <3>2
  <2>6. f[p + 1] = <<c>> \o rest
    <3>1. CASE c = 32 /\ Escaped(c) = <<43>>
      <4>1. e[p + 1] = 43 /\ at[k + 1] = p + 1 /\ ~(p + 1 > Len(e)) /\ f[p + 1 + 1] = rest
        <5>1. Len(Escaped(c)) = 1 /\ Escaped(c)[1] = 43
          BY <3>1
        <5>2. at[k + 1] = p + 1 /\ e[p + 1] = 43
          BY <2>2, <5>1
        <5>3. ~(p + 1 > Len(e))
          BY <1>4, <2>1, <2>2, <5>2
        <5> QED  BY <2>3, <5>2, <5>3
      <4> QED  BY <2>5, <3>1, <4>1 DEF Decoding
    <3>2. CASE c \notin {32, 37, 43} /\ Escaped(c) = <<c>>
      <4>1. e[p + 1] = c /\ at[k + 1] = p + 1 /\ ~(p + 1 > Len(e)) /\ f[p + 1 + 1] = rest
        BY <1>4, <2>1, <2>2, <2>3, <3>2
      <4> QED  BY <2>5, <3>2, <4>1 DEF Decoding, IsEscape
    <3>3. ASSUME NEW h \in 0..15, NEW l \in 0..15,
                 Escaped(c) = <<37, Digit(h), Digit(l)>>, 16 * h + l = c,
                 HexToInt(Digit(h)) = h, HexToInt(Digit(l)) = l
          PROVE  f[p + 1] = <<c>> \o rest
      <4>1. Len(Escaped(c)) = 3
        BY <3>3
      <4>2. e[p + 1] = 37 /\ e[p + 2] = Digit(h) /\ e[p + 3] = Digit(l)
        BY <2>2, <3>3, <4>1
      <4>3. /\ p + 3 =< Len(e) /\ ~(p + 1 > Len(e)) /\ at[k + 1] + 1 = p + 1 + 3
            /\ p + 1 + 1 = p + 2 /\ p + 1 + 2 = p + 3
        BY <1>4, <2>1, <2>2, <4>1
      <4>4. IsEscape(e, p + 1)
        <5>1. e[p + 1 + 1] = Digit(h) /\ e[p + 1 + 2] = Digit(l)
          BY <4>2, <4>3
        <5>2. HexToInt(e[p + 1 + 1]) # -1 /\ HexToInt(e[p + 1 + 2]) # -1
          BY <3>3, <5>1
        <5>3. p + 1 + 2 =< Len(e)
          BY <4>3
        <5> QED  BY <4>2, <5>2, <5>3, Zenon DEF IsEscape
      <4>5. f[p + 1 + 3] = rest
        BY <2>3, <4>3
      <4>6. HexToInt(e[p + 1 + 1]) * 16 + HexToInt(e[p + 1 + 2]) = c
        BY <3>3, <4>2, <4>3
      <4>7. Decoding(e, f, p + 1)
              = <<HexToInt(e[p + 1 + 1]) * 16 + HexToInt(e[p + 1 + 2])>> \o f[p + 1 + 3]
        <5>1. e[p + 1] # 43
          BY <4>2
        <5> QED  BY <4>3, <4>4, <5>1, Zenon DEF Decoding
      <4> QED  BY <2>5, <4>5, <4>6, <4>7, Zenon
    <3> QED  BY <2>1, <3>1, <3>2, <3>3, EscapedDecodes, Zenon
  <2> QED  BY <2>4, <2>6 DEF p
<1> HIDE DEF From
<1>9. From(1)
  <2> DEFINE T == {m \in 0..n : From(n + 1 - m)}
  <2>1. 0 \in T
    <3>1. n + 1 - 0 = n + 1 /\ 0 \in 0..n
      BY <1>1
    <3> QED  BY <1>7, <3>1
  <2>2. ASSUME NEW m \in 0..(n - 1), m \in T PROVE m + 1 \in T
    <3>1. n - m \in 1..n /\ (n - m) + 1 = n + 1 - m /\ n + 1 - (m + 1) = n - m /\ m + 1 \in 0..n
      BY <1>1
    <3>2. From((n - m) + 1)
      BY <2>2, <3>1
    <3> QED  BY <1>8, <3>1, <3>2
  <2>3. n \in T
    <3> HIDE DEF T
    <3>1. \A m \in 0..n : m \in T
      BY <1>1, <2>1, <2>2, BoundedInduction
    <3> QED  BY <1>1, <3>1
  <2>4. n + 1 - n = 1
    BY <1>1
  <2> QED  BY <2>3, <2>4
<1>10. f[1] = s
  <2>1. f[1] = Left(s, 0)
    <3>1. at[1] + 1 = 1 /\ 1 - 1 = 0
      BY <1>5
    <3> QED  BY <1>9, <3>1 DEF From
  <2>2. Left(s, 0) = s
    <3>1. 0 + 1 = 1
      OBVIOUS
    <3> QED  BY <3>1, SubSeqFull DEF Left
  <2> QED  BY <2>1, <2>2
<1> QED  BY <1>4, <1>6, <1>10 DEF e
-----------------------------------------------------------------------------
(* A text that lies in a buffer behind its first p tokens.                 *)
At(buf, p, s) == p + Len(s) =< Len(buf) /\ \A i \in 1..Len(s) : buf[p + i] = s[i]

(* Two texts, one behind the other.                                        *)
LEMMA AtJoined ==
  ASSUME NEW S, NEW s \in Seq(S), NEW t \in Seq(S), NEW buf \in Seq(S), NEW p \in Nat,
         At(buf, p, s \o t)
  PROVE  At(buf, p, s) /\ At(buf, p + Len(s), t)
<1> DEFINE m == Len(s)
           n == Len(t)
           st == s \o t
<1>1. m \in Nat /\ n \in Nat /\ Len(buf) \in Nat
  BY LenProperties
<1>2. /\ Len(st) = m + n
      /\ \A i \in 1..(m + n) : st[i] = IF i =< m THEN s[i] ELSE t[i - m]
  BY ConcatProperties
<1>3. p + Len(st) =< Len(buf) /\ \A i \in 1..Len(st) : buf[p + i] = st[i]
  BY DEF At
<1> HIDE DEF m, n, st
<1>4. p + m =< Len(buf) /\ (p + m) + n =< Len(buf)
  BY <1>1, <1>2, <1>3
<1>5. \A i \in 1..m : buf[p + i] = s[i]
  <2> TAKE i \in 1..m
  <2>1. i \in 1..(m + n) /\ i =< m
    BY <1>1
  <2> QED  BY <1>2, <1>3, <2>1
<1>6. \A i \in 1..n : buf[(p + m) + i] = t[i]
  <2> TAKE i \in 1..n
  <2>1. m + i \in 1..(m + n) /\ ~(m + i =< m) /\ (m + i) - m = i /\ p + (m + i) = (p + m) + i
    BY <1>1
  <2>2. buf[p + (m + i)] = st[m + i] /\ st[m + i] = t[(m + i) - m]
    BY <1>2, <1>3, <2>1
  <2> QED  BY <2>1, <2>2
<1> QED  BY <1>4, <1>5, <1>6 DEF At, m, n

(* A parse is its first turn and the parse that goes on from there.        *)
LEMMA TurnGoesOn ==
  ASSUME NEW buf \in Seq(Tokens), buf # <<>>, NEW r, Parsing(r, buf)
  PROVE  LET turn == ParseTurn(r, buf)
         IN  /\ turn.result = "MORE" =>
                  Parsing(turn.req, buf) /\ Parse(r, buf) = Parse(turn.req, buf)
             /\ turn.result # "MORE" => Parse(r, buf) = turn
<1> DEFINE turn == ParseTurn(r, buf)
           q == turn.req
           N == Len(buf) + 3
<1>1. Len(buf) \in Nat /\ N \in Nat /\ N - 1 = Len(buf) + 2 /\ N >= 3
  BY LenProperties
<1>2. Parsing(q, buf)
  BY TurnParsed DEF Turned
<1>3. PICK f : Unrolled(f, r, buf) /\ Parse(r, buf) = f[N]
  BY ParseUnrolled
<1>4. PICK k \in 1..N :
        /\ f[k].result # "MORE" /\ \A n \in 0..(k - 1) : f[n].result = "MORE"
        /\ \A n \in k..N : f[n] = f[k]
  BY <1>3, TurnsSuffice
<1>5. f[1] = turn /\ f[1] = [req |-> f[1].req, result |-> f[1].result]
  <2>1. f[0] = Turn(r, "MORE") /\ f[0 + 1] = Onward(f[0], buf) /\ 0 + 1 = 1
    BY <1>1, <1>3 DEF Unrolled
  <2>2. 1 \in 0..N
    BY <1>1
  <2>3. f[1] = [req |-> f[1].req, result |-> f[1].result]
    BY <1>3, <2>2 DEF Unrolled
  <2>4. Onward(f[0], buf) = turn
    BY <2>1 DEF Onward, Turn
  <2> HIDE DEF turn
  <2> QED  BY <2>1, <2>3, <2>4
<1>6. N \in k..N
  BY <1>1
<1> HIDE DEF turn
<1>7. ASSUME turn.result # "MORE" PROVE Parse(r, buf) = turn
  <2>1. k = 1
    <3>1. 1 \in 0..(k - 1) => f[1].result = "MORE"
      BY <1>4
    <3> QED  BY <1>1, <1>5, <1>7, <3>1
  <2>2. f[N] = f[k]
    BY <1>4, <1>6
  <2> HIDE DEF N
  <2> QED  BY <1>3, <1>5, <2>1, <2>2
<1>8. ASSUME turn.result = "MORE" PROVE Parse(r, buf) = Parse(turn.req, buf)
  <2>1. PICK g : Unrolled(g, q, buf) /\ Parse(q, buf) = g[N]
    BY <1>2, ParseUnrolled
  <2>2. f[1] = Turn(q, "MORE")
    BY <1>5, <1>8 DEF Turn
  <2> HIDE DEF q
  <2>3. g[0] = f[1]
    BY <2>1, <2>2 DEF Unrolled
  <2>4. \A n \in 0..(Len(buf) + 2) :
          g[n + 1] = Onward(g[n], buf) /\ f[n + 1] = Onward(f[n], buf)
    BY <1>3, <2>1 DEF Unrolled
  <2> DEFINE T == {n \in 0..(N - 1) : g[n] = f[n + 1]}
  <2>5. 0 \in T
    <3>1. 0 \in 0..(N - 1) /\ 0 + 1 = 1
      BY <1>1
    <3> QED  BY <2>3, <3>1
  <2>6. ASSUME NEW n \in 0..(N - 1 - 1), n \in T PROVE n + 1 \in T
    <3>1. n \in 0..(Len(buf) + 2) /\ n + 1 \in 0..(Len(buf) + 2) /\ n + 1 \in 0..(N - 1)
      BY <1>1
    <3>2. g[n + 1] = Onward(g[n], buf) /\ f[(n + 1) + 1] = Onward(f[n + 1], buf)
      BY <2>4, <3>1
    <3> QED  BY <2>6, <3>1, <3>2
  <2>7. N - 1 \in T
    <3> DEFINE M == N - 1
    <3>1. M \in Nat /\ \A n \in 0..(M - 1) : n \in T => n + 1 \in T
      BY <1>1, <2>6
    <3> HIDE DEF T, M
    <3>2. \A n \in 0..M : n \in T
      BY <2>5, <3>1, BoundedInduction
    <3> QED  BY <3>1, <3>2 DEF M
  <2>8. g[N - 1] = f[N]
    <3>1. (N - 1) + 1 = N
      BY <1>1
    <3> QED  BY <2>7, <3>1
  <2>9. g[N] = g[N - 1]
    <3>1. f[N].result # "MORE"
      BY <1>4, <1>6
    <3>2. N - 1 \in 0..(Len(buf) + 2) /\ (N - 1) + 1 = N
      BY <1>1
    <3>3. g[(N - 1) + 1] = Onward(g[N - 1], buf)
      BY <2>4, <3>2
    <3> QED  BY <2>8, <3>1, <3>2, <3>3 DEF Onward
  <2> HIDE DEF N
  <2> QED  BY <1>3, <2>1, <2>8, <2>9 DEF q
<1> QED  BY <1>2, <1>7, <1>8 DEF turn, q

(* parseLine() on a line that is there as a whole.                         *)
LEMMA WholeLine ==
  ASSUME NEW buf \in Seq(Tokens), NEW r, Parsing(r, buf), r.state \in {"REQUEST_LINE", "HEADERS"},
         NEW p \in Nat, r.start = p, r.checked = p,
         NEW t \in Tokens, t \notin {CR, LF}, At(buf, p, Line(t))
  PROVE  /\ ParseLine(r, buf) = [req |-> [r EXCEPT !.checked = p + 3], status |-> "OK"]
         /\ SubSeq(buf, p + 1, p + 1) = <<t>>
<1>1. /\ p + 3 =< Len(buf) /\ Len(buf) \in Nat
      /\ buf[p + 1] = t /\ buf[p + 2] = CR /\ buf[p + 3] = LF
  <2>1. Len(Line(t)) = 3 /\ Line(t)[1] = t /\ Line(t)[2] = CR /\ Line(t)[3] = LF
    BY DEF Line
  <2>2. 1 \in 1..3 /\ 2 \in 1..3 /\ 3 \in 1..3
    OBVIOUS
  <2> QED  BY <2>1, <2>2, LenProperties DEF At
<1> DEFINE ends == LineEnds(r, buf)
           i == p + 1
<1>2. i \in ends /\ \A j \in ends : i =< j
  <2>1. i \in p..(Len(buf) - 1) /\ buf[i + 1] \in {CR, LF}
    <3>1. i + 1 = p + 2 /\ i \in p..(Len(buf) - 1)
      BY <1>1
    <3> QED  BY <1>1, <3>1
  <2>2. ASSUME NEW j \in ends PROVE i =< j
    <3>1. j \in p..(Len(buf) - 1) /\ buf[j + 1] \in {CR, LF}
      BY DEF LineEnds
    <3>2. j # p
      BY <1>1, <3>1
    <3> QED  BY <3>1, <3>2
  <2> QED  BY <2>1, <2>2 DEF LineEnds
<1>3. ends # {} /\ Min(ends) = i
  <2>1. ends \in SUBSET Nat
    BY <1>1 DEF LineEnds
  <2> HIDE DEF ends, i
  <2> QED  BY <1>2, <2>1, MinIs
<1> HIDE DEF ends
<1>4. ~CrIsLast(i, buf) /\ CrLf(i, buf) /\ i + 2 = p + 3
  <2>1. i + 1 = p + 2 /\ i + 2 = p + 3
    OBVIOUS
  <2> QED  BY <1>1, <2>1 DEF CrIsLast, CrLf
<1> HIDE DEF i
<1>5. ParseLine(r, buf) = [req |-> [r EXCEPT !.checked = p + 3], status |-> "OK"]
  BY <1>3, <1>4 DEF ParseLine, ends
<1>6. SubSeq(buf, p + 1, p + 1) = <<t>>
  <2> DEFINE one == 1
             s == SubSeq(buf, p + 1, p + one)
  <2>1. one \in Nat /\ p + one =< Len(buf) /\ one = 1
    BY <1>1
  <2> HIDE DEF one
  <2>2. s \in Seq(Tokens) /\ Len(s) = one /\ \A j \in 1..one : s[j] = buf[p + j]
    BY <2>1, PartTaken
  <2> HIDE DEF s
  <2>3. Len(s) = 1 /\ s[1] = t
    BY <1>1, <2>1, <2>2
  <2>4. s = <<t>>
    BY <2>2, <2>3
  <2> QED  BY <2>1, <2>4 DEF s
<1> QED  BY <1>5, <1>6

(* The line that ends the headers.                                         *)
LEMMA BlankLine ==
  ASSUME NEW buf \in Seq(Tokens), NEW r, Parsing(r, buf), r.state \in {"REQUEST_LINE", "HEADERS"},
         NEW p \in Nat, r.start = p, r.checked = p, At(buf, p, <<CR, LF>>)
  PROVE  /\ ParseLine(r, buf) = [req |-> [r EXCEPT !.checked = p + 2], status |-> "OK"]
         /\ SubSeq(buf, p + 1, p) = <<>>
<1>1. p + 2 =< Len(buf) /\ Len(buf) \in Nat /\ buf[p + 1] = CR /\ buf[p + 2] = LF
  <2> DEFINE s == <<CR, LF>>
  <2>1. Len(s) = 2 /\ s[1] = CR /\ s[2] = LF
    OBVIOUS
  <2>2. p + Len(s) =< Len(buf) /\ \A i \in 1..Len(s) : buf[p + i] = s[i]
    BY DEF At
  <2> HIDE DEF s
  <2>3. 1 \in 1..2 /\ 2 \in 1..2
    OBVIOUS
  <2> QED  BY <2>1, <2>2, <2>3, LenProperties
<1> DEFINE ends == LineEnds(r, buf)
<1>2. p \in ends /\ \A j \in ends : p =< j
  BY <1>1 DEF LineEnds
<1>3. ends # {} /\ Min(ends) = p
  <2>1. ends \in SUBSET Nat
    BY <1>1 DEF LineEnds
  <2> HIDE DEF ends
  <2> QED  BY <1>2, <2>1, MinIs
<1> HIDE DEF ends
<1>4. ~CrIsLast(p, buf) /\ CrLf(p, buf)
  BY <1>1 DEF CrIsLast, CrLf
<1>5. ParseLine(r, buf) = [req |-> [r EXCEPT !.checked = p + 2], status |-> "OK"]
  BY <1>3, <1>4 DEF ParseLine, ends
<1>6. SubSeq(buf, p + 1, p) = <<>>
  <2>1. p + 1 \in Int /\ p \in Int /\ \A i \in (p + 1)..p : buf[i] \in Tokens
    OBVIOUS
  <2>2. SubSeq(buf, p + 1, p) \in Seq(Tokens) /\ Len(SubSeq(buf, p + 1, p)) = 0
    BY <2>1, SubSeqProperties
  <2> QED  BY <2>2, EmptySeq
<1> QED  BY <1>5, <1>6

(* A parser that is about to take the line that starts at p, with what it  *)
(* knows so far of the request a.                                          *)
Taking(r, buf, st, p) ==
  Parsing(r, buf) /\ r.state = st /\ r.start = p /\ r.checked = p

(* A header line, and the turn that takes it.                              *)
LEMMA HeaderTurn ==
  ASSUME NEW buf \in Seq(Tokens), NEW p \in Nat, NEW r, Taking(r, buf, "HEADERS", p),
         NEW t \in Headers, At(buf, p, Line(t))
  PROVE  LET turn == ParseTurn(r, buf)
         IN  /\ turn.result = "MORE" /\ Taking(turn.req, buf, "HEADERS", p + 3)
             /\ turn.req.method = r.method /\ turn.req.path = r.path /\ turn.req.version = r.version
             /\ turn.req.headers = [r.headers EXCEPT ![t.name] = t.value]
<1> DEFINE line == ParseLine(r, buf)
           text == SubSeq(buf, r.start + 1, line.req.checked - 2)
           at == [line.req EXCEPT !.start = line.req.checked]
           header == ParseHeader(at, text)
           turn == ParseTurn(r, buf)
<1>1. t \in Tokens /\ t \notin {CR, LF} /\ t.is = "header"
  BY DEF Tokens, Headers, CR, LF
<1>2. Parsing(r, buf) /\ r.state = "HEADERS" /\ r.start = p /\ r.checked = p /\ r \in Parsers
  BY DEF Taking, Parsing
<1>3. /\ line = [req |-> [r EXCEPT !.checked = p + 3], status |-> "OK"]
      /\ SubSeq(buf, p + 1, p + 1) = <<t>>
  BY <1>1, <1>2, WholeLine
<1>4. line.status = "OK" /\ line.req.checked = p + 3
  BY <1>2, <1>3 DEF Parsers
<1>5. text = <<t>>
  <2>1. (p + 3) - 2 = p + 1
    OBVIOUS
  <2> QED  BY <1>2, <1>3, <1>4, <2>1
<1>6. /\ at \in Parsers /\ Parsing(at, buf)
      /\ at.state = "HEADERS" /\ at.checked = p + 3 /\ at.start = p + 3
      /\ at.method = r.method /\ at.version = r.version /\ at.headers = r.headers
      /\ at.path = r.path
      /\ text \in Seq(Tokens)
  BY <1>2, <1>4, LineTaken
<1>7. turn = IF text = <<>> THEN Turn([at EXCEPT !.state = "BODY"], "MORE")
             ELSE Turn(header.req, IF header.ok THEN "MORE" ELSE "ERROR")
  <2> HIDE DEF line
  <2> QED  BY <1>2, <1>4 DEF ParseTurn, line
<1> HIDE DEF line, at, text
<1>8. header = [req |-> [at EXCEPT !.headers[t.name] = t.value], ok |-> TRUE]
  <2>1. Len(text) = 1 /\ text[1] = t
    BY <1>5
  <2> QED  BY <1>1, <2>1 DEF ParseHeader
<1>9. Parsing(header.req, buf) /\ header.req.state = "HEADERS"
  BY <1>6, HeaderParsed
<1>10. header.req.checked = p + 3 /\ header.req.start = p + 3
  BY <1>6, WordsMoveNothing
<1>11. turn = Turn(header.req, "MORE")
  <2>1. text # <<>>
    BY <1>5
  <2>2. header.ok
    BY <1>8
  <2> QED  BY <1>7, <2>1, <2>2
<1>12. /\ header.req.method = r.method /\ header.req.path = r.path
       /\ header.req.version = r.version
       /\ header.req.headers = [r.headers EXCEPT ![t.name] = t.value]
  <2>1. header.req = [at EXCEPT !.headers = [@ EXCEPT ![t.name] = t.value]]
    BY <1>8
  <2> HIDE DEF header
  <2> QED  BY <1>6, <2>1 DEF Parsers
<1> HIDE DEF header
<1>13. turn.result = "MORE" /\ turn.req = header.req
  BY <1>11 DEF Turn
<1> HIDE DEF turn
<1>14. /\ turn.result = "MORE" /\ Taking(turn.req, buf, "HEADERS", p + 3)
       /\ turn.req.method = r.method /\ turn.req.path = r.path /\ turn.req.version = r.version
       /\ turn.req.headers = [r.headers EXCEPT ![t.name] = t.value]
  BY <1>9, <1>10, <1>12, <1>13 DEF Taking
<1> QED  BY <1>14 DEF turn

(* Where the server looks for the path a request names.                    *)
Served(path) == IF path = "/" THEN "/login.html" ELSE path

(* The request line, and the turn that takes it or turns it down.          *)
LEMMA FirstTurn ==
  ASSUME NEW buf \in Seq(Tokens), NEW r, Taking(r, buf, "REQUEST_LINE", 0), NEW a \in Asks,
         At(buf, 0, Line(RequestLine(a.method, a.path, a.version)))
  PROVE  LET turn == ParseTurn(r, buf)
         IN  /\ ~Understood(a) => turn.result = "ERROR"
             /\ Understood(a) =>
                  /\ turn.result = "MORE" /\ Taking(turn.req, buf, "HEADERS", 3)
                  /\ turn.req.method = a.method /\ turn.req.path = Served(a.path)
                  /\ turn.req.headers = r.headers
<1> DEFINE t == RequestLine(a.method, a.path, a.version)
           line == ParseLine(r, buf)
           text == SubSeq(buf, r.start + 1, line.req.checked - 2)
           at == [line.req EXCEPT !.start = line.req.checked]
           first == ParseRequestLine(at, text)
           turn == ParseTurn(r, buf)
<1>1. /\ t \in Tokens /\ t \notin {CR, LF} /\ t.is = "line"
      /\ t.method = a.method /\ t.path = a.path /\ t.version = a.version
  BY DEF Tokens, RequestLine, Asks, CR, LF
<1>2. Parsing(r, buf) /\ r.state = "REQUEST_LINE" /\ r.start = 0 /\ r.checked = 0 /\ r \in Parsers
  BY DEF Taking, Parsing
<1>3. /\ line = [req |-> [r EXCEPT !.checked = 0 + 3], status |-> "OK"]
      /\ SubSeq(buf, 0 + 1, 0 + 1) = <<t>>
  <2> HIDE DEF t, line
  <2>1. 0 \in Nat /\ At(buf, 0, Line(t))
    BY DEF t
  <2> QED  BY <1>1, <1>2, <2>1, WholeLine DEF line
<1> HIDE DEF t
<1>4. line.status = "OK" /\ line.req.checked = 3
  BY <1>2, <1>3 DEF Parsers
<1>5. text = <<t>>
  <2>1. 3 - 2 = 0 + 1
    OBVIOUS
  <2> QED  BY <1>2, <1>3, <1>4, <2>1
<1>6. /\ at \in Parsers /\ Parsing(at, buf)
      /\ at.state = "REQUEST_LINE" /\ at.checked = 3 /\ at.start = 3
      /\ at.headers = r.headers
      /\ text \in Seq(Tokens)
  BY <1>2, <1>4, LineTaken
<1>7. turn = IF first.ok THEN Turn([first.req EXCEPT !.state = "HEADERS"], "MORE")
             ELSE Turn(first.req, "ERROR")
  <2> HIDE DEF line
  <2> QED  BY <1>2, <1>4 DEF ParseTurn, line
<1>8. Turned(turn, buf)
  BY <1>2, TurnParsed
<1> HIDE DEF line, at, text
<1>9. first = [req |-> [at EXCEPT !.method = a.method,
                                  !.path = IF Understood(a) THEN Served(a.path) ELSE a.path,
                                  !.version = a.version],
               ok |-> Understood(a)]
  <2>1. Len(text) = 1 /\ text[1] = t
    BY <1>5
  <2>2. CASE Understood(a)
    <3>1. t.method \in {"GET", "get", "POST", "post"} /\ t.version = "HTTP/1.1"
      BY <1>1, <2>2 DEF Understood
    <3> QED  BY <1>1, <2>1, <2>2, <3>1 DEF ParseRequestLine, Served
  <2>3. CASE ~Understood(a)
    <3>1. ~(t.method \in {"GET", "get", "POST", "post"} /\ t.version = "HTTP/1.1")
      BY <1>1, <2>3 DEF Understood
    <3>2. ParseRequestLine(at, text) =
            [req |-> [at EXCEPT !.method = t.method, !.path = t.path, !.version = t.version],
             ok |-> FALSE]
      BY <1>1, <2>1, <3>1 DEF ParseRequestLine
    <3>3. FALSE = Understood(a)
      BY <2>3 DEF Understood
    <3>4. a.path = IF Understood(a) THEN Served(a.path) ELSE a.path
      BY <2>3
    <3> QED  BY <1>1, <3>2, <3>3, <3>4
  <2> QED  BY <2>2, <2>3
<1>10. first.req.checked = 3 /\ first.req.start = 3 /\ first.req \in Parsers
  BY <1>6, WordsMoveNothing, RequestLineParsed DEF Parsing
<1>11. first.ok = Understood(a)
  BY <1>9
<1>12. ASSUME Understood(a)
       PROVE  /\ first.req.method = a.method /\ first.req.path = Served(a.path)
              /\ first.req.headers = r.headers
  <2> HIDE DEF first
  <2> QED  BY <1>6, <1>9, <1>12 DEF Parsers
<1> HIDE DEF first, turn
<1>13. ASSUME ~Understood(a) PROVE turn.result = "ERROR"
  BY <1>7, <1>11, <1>13 DEF Turn
<1>14. ASSUME Understood(a)
       PROVE  /\ turn.result = "MORE" /\ Taking(turn.req, buf, "HEADERS", 3)
              /\ turn.req.method = a.method /\ turn.req.path = Served(a.path)
              /\ turn.req.headers = r.headers
  <2>1. turn.result = "MORE" /\ turn.req = [first.req EXCEPT !.state = "HEADERS"]
    BY <1>7, <1>11, <1>14 DEF Turn
  <2>2. /\ turn.req.state = "HEADERS" /\ turn.req.checked = 3 /\ turn.req.start = 3
        /\ turn.req.method = a.method /\ turn.req.path = Served(a.path)
        /\ turn.req.headers = r.headers
    BY <1>10, <1>12, <1>14, <2>1 DEF Parsers
  <2> QED  BY <1>8, <2>1, <2>2 DEF Taking, Turned
<1> QED  BY <1>13, <1>14 DEF turn

(* The line that ends the headers, and the turn that takes it.             *)
LEMMA BlankTurn ==
  ASSUME NEW buf \in Seq(Tokens), NEW p \in Nat, NEW r, Taking(r, buf, "HEADERS", p),
         At(buf, p, <<CR, LF>>)
  PROVE  LET turn == ParseTurn(r, buf)
         IN  /\ turn.result = "MORE" /\ Taking(turn.req, buf, "BODY", p + 2)
             /\ turn.req.method = r.method /\ turn.req.path = r.path
             /\ turn.req.headers = r.headers
<1> DEFINE line == ParseLine(r, buf)
           text == SubSeq(buf, r.start + 1, line.req.checked - 2)
           at == [line.req EXCEPT !.start = line.req.checked]
           turn == ParseTurn(r, buf)
<1>1. Parsing(r, buf) /\ r.state = "HEADERS" /\ r.start = p /\ r.checked = p /\ r \in Parsers
  BY DEF Taking, Parsing
<1>2. /\ line = [req |-> [r EXCEPT !.checked = p + 2], status |-> "OK"]
      /\ SubSeq(buf, p + 1, p) = <<>>
  BY <1>1, BlankLine
<1>3. line.status = "OK" /\ line.req.checked = p + 2
  BY <1>1, <1>2 DEF Parsers
<1>4. text = <<>>
  <2>1. (p + 2) - 2 = p
    OBVIOUS
  <2> QED  BY <1>1, <1>2, <1>3, <2>1
<1>5. /\ at \in Parsers /\ Parsing(at, buf)
      /\ at.state = "HEADERS" /\ at.checked = p + 2 /\ at.start = p + 2
      /\ at.method = r.method /\ at.headers = r.headers /\ at.path = r.path
  BY <1>1, <1>3, LineTaken
<1>6. turn = Turn([at EXCEPT !.state = "BODY"], "MORE")
  <2> HIDE DEF line
  <2> QED  BY <1>1, <1>3, <1>4 DEF ParseTurn, line
<1>7. Turned(turn, buf)
  BY <1>1, TurnParsed
<1> HIDE DEF line, at, text, turn
<1>8. turn.result = "MORE" /\ turn.req = [at EXCEPT !.state = "BODY"]
  BY <1>6 DEF Turn
<1>9. /\ turn.req.state = "BODY" /\ turn.req.checked = p + 2 /\ turn.req.start = p + 2
      /\ turn.req.method = r.method /\ turn.req.path = r.path /\ turn.req.headers = r.headers
  BY <1>5, <1>8 DEF Parsers
<1>10. Taking(turn.req, buf, "BODY", p + 2)
  BY <1>7, <1>9 DEF Taking, Turned
<1> QED  BY <1>8, <1>9, <1>10 DEF turn

(* What parseBody() makes of the form depends on the method, the headers   *)
(* and the place of the body alone.                                        *)
LEMMA PostDepends ==
  ASSUME NEW r \in Parsers, NEW s \in Parsers, NEW buf,
         r.method = s.method, r.headers = s.headers, r.checked = s.checked
  PROVE  ParseBody(r, buf).post = ParseBody(s, buf).post
<1> DEFINE PostOf(q) ==
             LET n == GetHeader(q, "Content-Length", 0)
             IN  IF HasForm(q) /\ n >= 0
                 THEN IF q.headers["Content-Type"] = "application/x-www-form-urlencoded"
                      THEN ParseFormUrlencoded(BodyOf(q, buf, n)) ELSE NoPost
                 ELSE NoPost
<1>1. ASSUME NEW q \in Parsers PROVE ParseBody(q, buf).post = PostOf(q)
  <2> DEFINE n == GetHeader(q, "Content-Length", 0)
             cleared == [q EXCEPT !.post = NoPost]
             form == IF q.headers["Content-Type"] = "application/x-www-form-urlencoded"
                     THEN ParseFormUrlencoded(BodyOf(q, buf, n)) ELSE NoPost
             body == BodyOf(q, buf, n)
  <2>1. ParseBody(q, buf) = IF HasForm(q) /\ n >= 0
                            THEN [cleared EXCEPT !.body = body, !.post = form]
                            ELSE cleared
    BY DEF ParseBody
  <2> HIDE DEF n, form, body
  <2>2. cleared.post = NoPost /\ [cleared EXCEPT !.body = body, !.post = form].post = form
    BY DEF Parsers
  <2> HIDE DEF cleared
  <2>3. ParseBody(q, buf).post = IF HasForm(q) /\ n >= 0 THEN form ELSE NoPost
    BY <2>1, <2>2
  <2> QED  BY <2>3 DEF n, form
<1>2. HasForm(r) = HasForm(s)
  BY DEF HasForm
<1>3. GetHeader(r, "Content-Length", 0) = GetHeader(s, "Content-Length", 0)
  BY DEF GetHeader
<1>4. \A n : BodyOf(r, buf, n) = BodyOf(s, buf, n)
  BY DEF BodyOf
<1>5. PostOf(r) = PostOf(s)
  <2>1. r.headers["Content-Type"] = s.headers["Content-Type"]
    OBVIOUS
  <2> QED  BY <1>2, <1>3, <1>4, <2>1
<1> HIDE DEF PostOf
<1> QED  BY <1>1, <1>5

(* The turn that takes the body.                                           *)
LEMMA BodyTurn ==
  ASSUME NEW buf \in Seq(Tokens), NEW r, Parsing(r, buf), r.state = "BODY"
  PROVE  LET turn == ParseTurn(r, buf)
             q == turn.req
         IN  /\ turn.result = "MORE" /\ Parsing(q, buf) /\ q.state = "FINISH"
             /\ q.checked = r.checked
             /\ q.method = r.method /\ q.path = r.path /\ q.headers = r.headers
             /\ q.post = ParseBody(q, buf).post
<1> DEFINE line == ParseLine(r, buf)
           at == [line.req EXCEPT !.start = line.req.checked]
           body == ParseBody(at, buf)
           turn == ParseTurn(r, buf)
           q == turn.req
<1>1. r \in Parsers /\ line = [req |-> r, status |-> "OK"]
  BY DEF Parsing, ParseLine
<1>2. line.status = "OK" /\ line.req = r
  BY <1>1
<1>3. /\ at \in Parsers
      /\ at.checked = r.checked
      /\ at.method = r.method /\ at.headers = r.headers /\ at.path = r.path
      /\ body \in Parsers
  BY <1>2, LineTaken
<1>4. /\ body.checked = r.checked /\ body.method = r.method
      /\ body.path = r.path /\ body.headers = r.headers
  BY <1>3, BodyAlone DEF Alike
<1>5. turn = Turn([body EXCEPT !.state = "FINISH"], "MORE")
  <2> HIDE DEF line
  <2> QED  BY <1>2 DEF ParseTurn, line
<1>6. Turned(turn, buf)
  BY TurnParsed
<1> HIDE DEF line, at, turn
<1>7. turn.result = "MORE" /\ q = [body EXCEPT !.state = "FINISH"]
  BY <1>5 DEF Turn
<1>8. /\ q.state = "FINISH" /\ q.checked = r.checked /\ q.method = r.method
      /\ q.path = r.path /\ q.headers = r.headers /\ q.post = body.post
  <2> HIDE DEF body, q
  <2> QED  BY <1>3, <1>4, <1>7 DEF Parsers
<1>9. q \in Parsers /\ Parsing(q, buf)
  BY <1>6 DEF Turned, Parsing
<1>10. q.post = ParseBody(q, buf).post
  <2> HIDE DEF q
  <2> QED  BY <1>3, <1>8, <1>9, PostDepends
<1> QED  BY <1>7, <1>8, <1>9, <1>10 DEF turn

(* Only the body leads to the end.                                         *)
LEMMA EndComesFromBody ==
  ASSUME NEW buf \in Seq(Tokens), NEW r, Parsing(r, buf), ParseTurn(r, buf).result = "MORE",
         ParseTurn(r, buf).req.state = "FINISH"
  PROVE  r.state = "BODY"
<1> DEFINE line == ParseLine(r, buf)
           text == SubSeq(buf, r.start + 1, line.req.checked - 2)
           at == [line.req EXCEPT !.start = line.req.checked]
           first == ParseRequestLine(at, text)
           header == ParseHeader(at, text)
<1>1. r \in Parsers /\ line.status \in {"OPEN", "BAD", "OK"}
  BY LineParsed DEF Parsing
<1>2. line.status = "OK"
  <2> HIDE DEF line
  <2>1. line.status \in {"OPEN", "BAD"} => ParseTurn(r, buf).result \in {"INCOMPLETE", "ERROR"}
    BY DEF ParseTurn, Turn, line
  <2> QED  BY <1>1, <2>1
<1>3. /\ at \in Parsers /\ at.state = r.state
      /\ r.state = "REQUEST_LINE" => first.req \in Parsers
      /\ r.state = "HEADERS" => header.req \in Parsers
  BY <1>2, LineTaken
<1> HIDE DEF line, at
<1>4. CASE r.state = "REQUEST_LINE"
  <2>1. ParseTurn(r, buf) =
          IF first.ok
          THEN [req |-> [first.req EXCEPT !.state = "HEADERS"], result |-> "MORE"]
          ELSE [req |-> first.req, result |-> "ERROR"]
    BY <1>2, <1>4 DEF ParseTurn, Turn, line, at
  <2> HIDE DEF first
  <2>2. ParseTurn(r, buf).req = [first.req EXCEPT !.state = "HEADERS"]
    BY <2>1
  <2> QED  BY <1>3, <1>4, <2>2 DEF Parsers
<1>5. CASE r.state = "HEADERS"
  <2>1. header.req.state = at.state
    BY <1>3, WordsMoveNothing
  <2>2. ParseTurn(r, buf).req \in {[at EXCEPT !.state = "BODY"], header.req}
    BY <1>2, <1>5 DEF ParseTurn, Turn, line, at
  <2> HIDE DEF header
  <2> QED  BY <1>3, <1>5, <2>1, <2>2 DEF Parsers
<1>6. CASE r.state = "FINISH"
  BY <1>1, <1>6, FinishTurn
<1> QED  BY <1>1, <1>4, <1>5, <1>6 DEF Parsers

(* The form that a parse has come to the end with is the one its headers   *)
(* ask for, from behind the blank line.                                    *)
LEMMA PostAtEnd ==
  ASSUME NEW buf \in Seq(Tokens), NEW r, Parsing(r, buf), r.state # "FINISH",
         Parse(r, buf).result = "SUCCESS"
  PROVE  Parse(r, buf).req.post = ParseBody(Parse(r, buf).req, buf).post
<1> DEFINE N == Len(buf) + 3
           end == Parse(r, buf).req
<1>1. buf # <<>> /\ Len(buf) \in Nat
  <2>1. buf = <<>> => Parse(r, buf).result = "INCOMPLETE"
    BY InputParsed
  <2> QED  BY <2>1, LenProperties
<1>2. PICK f : Unrolled(f, r, buf) /\ Parse(r, buf) = f[N]
  BY <1>1, ParseUnrolled
<1>3. PICK k \in 1..N :
        /\ \A n \in 0..(k - 1) : f[n].result = "MORE"
        /\ Parsing(f[k - 1].req, buf) /\ f[k - 1].req.state = "FINISH"
        /\ f[N] = [req |-> AtEnd(f[k - 1].req), result |-> "SUCCESS"]
  <2>1. f[Len(buf) + 3].result = "SUCCESS"
    BY <1>2
  <2> QED  BY <1>1, <1>2, <2>1, EndReached, Zenon
<1>4. k # 1
  <2>1. f[0].req = r
    BY <1>2 DEF Unrolled, Turn
  <2>2. k = 1 => k - 1 = 0
    OBVIOUS
  <2> QED  BY <1>3, <2>1, <2>2
<1> DEFINE h == k - 1
           g == k - 2
<1>5. g \in 0..(Len(buf) + 2) /\ g \in 0..N /\ g \in 0..(k - 1) /\ g + 1 = h
  BY <1>1, <1>4
<1> HIDE DEF N, g
<1>6. f[h] = ParseTurn(f[g].req, buf) /\ Parsing(f[g].req, buf)
  <2>1. f[g].result = "MORE"
    BY <1>3, <1>5
  <2>2. f[h] = Onward(f[g], buf)
    <3>1. f[g + 1] = Onward(f[g], buf)
      BY <1>2, <1>5 DEF Unrolled
    <3> QED  BY <1>5, <3>1
  <2>3. Parsing(f[g].req, buf)
    BY <1>2, <1>5 DEF Unrolled, N
  <2> QED  BY <2>1, <2>2, <2>3 DEF Onward
<1>7. f[h].result = "MORE" /\ f[h].req.state = "FINISH" /\ Parsing(f[h].req, buf)
  <2>1. h \in 0..(k - 1)
    BY <1>1
  <2> QED  BY <1>3, <2>1
<1> HIDE DEF h
<1>8. f[g].req.state = "BODY"
  BY <1>6, <1>7, EndComesFromBody
<1>9. f[h].req.post = ParseBody(f[h].req, buf).post
  BY <1>6, <1>8, BodyTurn
<1>10. end = AtEnd(f[h].req)
  BY <1>2, <1>3 DEF h
<1>11. /\ end \in Parsers /\ f[h].req \in Parsers
       /\ end.post = f[h].req.post /\ end.method = f[h].req.method
       /\ end.headers = f[h].req.headers /\ end.checked = f[h].req.checked
  <2>1. f[h].req \in Parsers
    BY <1>7 DEF Parsing
  <2> DEFINE e == f[h].req
  <2> HIDE DEF e, end
  <2> QED  BY <1>10, <2>1 DEF AtEnd, Parsers, e
<1>12. ParseBody(end, buf).post = ParseBody(f[h].req, buf).post
  <2> HIDE DEF end
  <2> QED  BY <1>11, PostDepends
<1> QED  BY <1>9, <1>11, <1>12

(* The parts of a text that lies at the start of a buffer.                 *)
LEMMA AtParts ==
  ASSUME NEW S, NEW buf \in Seq(S), NEW s \in Seq(S), NEW t \in Seq(S), NEW u \in Seq(S),
         NEW v \in Seq(S), NEW x \in Seq(S), NEW y \in Seq(S),
         At(buf, 0, s \o t \o u \o v \o x \o y)
  PROVE  LET p == Len(s)
             q == p + Len(t)
             r == q + Len(u)
             m == r + Len(v)
         IN  /\ At(buf, 0, s) /\ At(buf, p, t) /\ At(buf, q, u) /\ At(buf, r, v)
             /\ At(buf, m, x) /\ At(buf, m + Len(x), y)
<1> DEFINE p == Len(s)
           q == p + Len(t)
           r == q + Len(u)
           m == r + Len(v)
           n == m + Len(x)
           st == s \o t
           su == st \o u
           sv == su \o v
           sx == sv \o x
<1>1. /\ Len(s) \in Nat /\ Len(t) \in Nat /\ Len(u) \in Nat /\ Len(v) \in Nat /\ Len(x) \in Nat
      /\ 0 \in Nat
  BY LenProperties
<1>2. st \in Seq(S) /\ Len(st) = q
  BY ConcatProperties
<1> HIDE DEF st
<1>3. su \in Seq(S) /\ Len(su) = r
  <2>1. su \in Seq(S) /\ Len(su) = Len(st) + Len(u)
    BY <1>2, ConcatProperties
  <2> HIDE DEF su, q
  <2> QED  BY <1>2, <2>1
<1> HIDE DEF su
<1>4. sv \in Seq(S) /\ Len(sv) = m
  <2>1. sv \in Seq(S) /\ Len(sv) = Len(su) + Len(v)
    BY <1>3, ConcatProperties
  <2> HIDE DEF sv, r
  <2> QED  BY <1>3, <2>1
<1> HIDE DEF sv
<1>5. sx \in Seq(S) /\ Len(sx) = n
  <2>1. sx \in Seq(S) /\ Len(sx) = Len(sv) + Len(x)
    BY <1>4, ConcatProperties
  <2> HIDE DEF sx, m
  <2> QED  BY <1>4, <2>1
<1> HIDE DEF sx
<1>6. At(buf, 0, sx \o y)
  BY DEF st, su, sv, sx
<1>7. At(buf, 0, sx) /\ At(buf, 0 + Len(sx), y)
  BY <1>1, <1>5, <1>6, AtJoined
<1>8. At(buf, 0, sv) /\ At(buf, 0 + Len(sv), x)
  BY <1>1, <1>4, <1>7, AtJoined DEF sx
<1>9. At(buf, 0, su) /\ At(buf, 0 + Len(su), v)
  BY <1>1, <1>3, <1>8, AtJoined DEF sv
<1>10. At(buf, 0, st) /\ At(buf, 0 + Len(st), u)
  BY <1>1, <1>2, <1>9, AtJoined DEF su
<1>11. At(buf, 0, s) /\ At(buf, 0 + Len(s), t)
  BY <1>1, <1>10, AtJoined DEF st
<1>12. \A k \in Nat : 0 + k = k
  OBVIOUS
<1>13. p \in Nat /\ q \in Nat /\ r \in Nat /\ m \in Nat /\ n \in Nat
  BY <1>1
<1> HIDE DEF p, q, r, m, n
<1>14. /\ At(buf, p, t) /\ At(buf, q, u) /\ At(buf, r, v) /\ At(buf, m, x) /\ At(buf, n, y)
  <2>1. 0 + Len(s) = p
    BY <1>12, <1>13 DEF p
  <2> QED  BY <1>2, <1>3, <1>4, <1>5, <1>7, <1>8, <1>9, <1>10, <1>11, <1>12, <1>13, <2>1
<1> QED  BY <1>11, <1>14 DEF p, q, r, m, n

(* A new parser that is shown request a comes to the header lines at p     *)
(* with these headers: parsing goes on from there.                         *)
Reached(r, buf, p, a, h) ==
  /\ Taking(r, buf, "HEADERS", p)
  /\ r.method = a.method /\ r.path = Served(a.path) /\ r.headers = h
  /\ Parse(NewRequest, buf) = Parse(r, buf)

(* The request line takes a new parser there, or ends the parse.           *)
LEMMA HeadersReached ==
  ASSUME NEW buf \in Seq(Tokens), NEW a \in Asks,
         At(buf, 0, Line(RequestLine(a.method, a.path, a.version)))
  PROVE  /\ ~Understood(a) => Parse(NewRequest, buf).result = "ERROR"
         /\ Understood(a) => \E r : Reached(r, buf, 3, a, NoHeaders)
<1> DEFINE turn == ParseTurn(NewRequest, buf)
<1>1. Taking(NewRequest, buf, "REQUEST_LINE", 0) /\ NewRequest.headers = NoHeaders
  BY RequestTyped DEF Taking, NewRequest
<1>2. buf # <<>>
  <2>1. 0 + Len(Line(RequestLine(a.method, a.path, a.version))) =< Len(buf)
    BY DEF At
  <2>2. Len(Line(RequestLine(a.method, a.path, a.version))) = 3
    BY DEF Line
  <2> HIDE DEF turn
  <2>3. 3 =< Len(buf)
    BY <2>1, <2>2
  <2> QED  BY <2>3
<1>3. /\ turn.result = "MORE" => Parse(NewRequest, buf) = Parse(turn.req, buf)
      /\ turn.result # "MORE" => Parse(NewRequest, buf) = turn
  <2>1. Parsing(NewRequest, buf)
    BY <1>1 DEF Taking
  <2> QED  BY <1>2, <2>1, TurnGoesOn
<1>4. /\ ~Understood(a) => turn.result = "ERROR"
      /\ Understood(a) =>
           /\ turn.result = "MORE" /\ Taking(turn.req, buf, "HEADERS", 3)
           /\ turn.req.method = a.method /\ turn.req.path = Served(a.path)
           /\ turn.req.headers = NoHeaders
  BY <1>1, FirstTurn
<1> HIDE DEF turn
<1>5. ASSUME ~Understood(a) PROVE Parse(NewRequest, buf).result = "ERROR"
  BY <1>3, <1>4, <1>5
<1>6. ASSUME Understood(a) PROVE \E r : Reached(r, buf, 3, a, NoHeaders)
  BY <1>3, <1>4, <1>6 DEF Reached
<1> QED  BY <1>5, <1>6

(* A header line that the client may have sent, or not.                    *)
LEMMA HeaderTaken ==
  ASSUME NEW buf \in Seq(Tokens), NEW p \in Nat, NEW a, NEW h, NEW r, Reached(r, buf, p, a, h),
         NEW sent, NEW t, sent => t \in Headers,
         At(buf, p, IF sent THEN Line(t) ELSE <<>>)
  PROVE  \E q : Reached(q, buf, p + Len(IF sent THEN Line(t) ELSE <<>>), a,
                        IF sent THEN [h EXCEPT ![t.name] = t.value] ELSE h)
<1>1. CASE sent
  <2> DEFINE turn == ParseTurn(r, buf)
             lines == IF sent THEN Line(t) ELSE <<>>
  <2>1. lines = Line(t) /\ Len(Line(t)) = 3
    BY <1>1 DEF Line
  <2>2. Taking(r, buf, "HEADERS", p) /\ Parsing(r, buf)
    BY DEF Reached, Taking
  <2>3. /\ turn.result = "MORE" /\ Taking(turn.req, buf, "HEADERS", p + 3)
        /\ turn.req.method = r.method /\ turn.req.path = r.path
        /\ turn.req.headers = [r.headers EXCEPT ![t.name] = t.value]
    <3>1. At(buf, p, Line(t)) /\ t \in Headers
      BY <1>1
    <3> QED  BY <2>2, <3>1, HeaderTurn
  <2>4. buf # <<>>
    <3>1. p + 3 =< Len(buf)
      BY <1>1, <2>1 DEF At
    <3> QED  BY <3>1
  <2>5. Parse(r, buf) = Parse(turn.req, buf)
    BY <2>2, <2>3, <2>4, TurnGoesOn
  <2> HIDE DEF turn
  <2>6. Reached(turn.req, buf, p + 3, a, [h EXCEPT ![t.name] = t.value])
    BY <2>3, <2>5 DEF Reached
  <2>7. p + Len(lines) = p + 3
    BY <2>1
  <2> QED  BY <1>1, <2>6, <2>7
<1>2. CASE ~sent
  <2>1. p + Len(IF sent THEN Line(t) ELSE <<>>) = p
    BY <1>2
  <2> QED  BY <1>2, <2>1
<1> QED  BY <1>1, <1>2

(* The line that ends the headers, the body, and the end.                  *)
LEMMA HeadersEnded ==
  ASSUME NEW buf \in Seq(Tokens), NEW p \in Nat, NEW a, NEW h, NEW r, Reached(r, buf, p, a, h),
         At(buf, p, <<CR, LF>>)
  PROVE  LET parsed == Parse(NewRequest, buf)
         IN  /\ parsed.result = "SUCCESS"
             /\ parsed.req.method = a.method /\ parsed.req.path = Served(a.path)
             /\ parsed.req.headers = h /\ parsed.req.checked = p + 2
<1> DEFINE turn == ParseTurn(r, buf)
           b == turn.req
           next == ParseTurn(b, buf)
           e == next.req
<1>1. /\ Taking(r, buf, "HEADERS", p) /\ Parsing(r, buf)
      /\ r.method = a.method /\ r.path = Served(a.path) /\ r.headers = h
      /\ Parse(NewRequest, buf) = Parse(r, buf)
  BY DEF Reached, Taking
<1>2. /\ turn.result = "MORE" /\ Taking(b, buf, "BODY", p + 2)
      /\ b.method = r.method /\ b.path = r.path /\ b.headers = r.headers
  BY <1>1, BlankTurn
<1>3. buf # <<>>
  <2>1. p + Len(<<CR, LF>>) =< Len(buf)
    BY DEF At
  <2>2. Len(<<CR, LF>>) = 2
    OBVIOUS
  <2> HIDE DEF turn
  <2>3. p + 2 =< Len(buf)
    BY <2>1, <2>2
  <2> QED  BY <2>3
<1>4. Parse(r, buf) = Parse(b, buf)
  BY <1>1, <1>2, <1>3, TurnGoesOn
<1> HIDE DEF turn, b
<1>5. Parsing(b, buf) /\ b.state = "BODY" /\ b.checked = p + 2
  BY <1>2 DEF Taking
<1>6. /\ next.result = "MORE" /\ Parsing(e, buf) /\ e.state = "FINISH" /\ e.checked = b.checked
      /\ e.method = b.method /\ e.path = b.path /\ e.headers = b.headers
  BY <1>5, BodyTurn
<1>7. Parse(b, buf) = Parse(e, buf)
  BY <1>3, <1>5, <1>6, TurnGoesOn
<1> HIDE DEF next, e
<1>8. Parse(e, buf) = [req |-> AtEnd(e), result |-> "SUCCESS"]
  BY <1>3, <1>6, EndStays
<1>9. /\ AtEnd(e).checked = e.checked /\ AtEnd(e).method = e.method
      /\ AtEnd(e).path = e.path /\ AtEnd(e).headers = e.headers
  BY <1>6 DEF AtEnd, Parsing, Parsers
<1> QED  BY <1>1, <1>2, <1>4, <1>5, <1>6, <1>7, <1>8, <1>9

(* The header lines a client may send.                                     *)
KeepLine == HeaderLine("Connection", "keep-alive")
CookieLine(a) == HeaderLine("Cookie", a.cookie)
TypeLine == HeaderLine("Content-Type", "application/x-www-form-urlencoded")
LengthLine(a) == HeaderLine("Content-Length", Len(Fields(a)))

(* They are headers.                                                       *)
LEMMA HeaderLinesTyped ==
  ASSUME NEW a \in Asks
  PROVE  /\ KeepLine \in Headers /\ TypeLine \in Headers /\ LengthLine(a) \in Headers
         /\ a.cookie # Absent => CookieLine(a) \in Headers
<1>1. \A name \in {"Connection", "Content-Type"}, value \in Strings :
        HeaderLine(name, value) \in Headers
  BY DEF HeaderLine, Headers
<1>2. "keep-alive" \in Strings /\ "application/x-www-form-urlencoded" \in Strings
  BY DEF Strings
<1>3. KeepLine \in Headers
  BY <1>1, <1>2 DEF KeepLine
<1>4. TypeLine \in Headers
  BY <1>1, <1>2 DEF TypeLine
<1>5. LengthLine(a) \in Headers
  <2>1. Len(Fields(a)) \in Nat
    BY FieldsTyped, LenProperties
  <2> QED  BY <2>1 DEF LengthLine, HeaderLine, Headers
<1>6. ASSUME a.cookie # Absent PROVE CookieLine(a) \in Headers
  <2>1. a.cookie \in Cookies
    BY <1>6 DEF Asks
  <2> QED  BY <2>1 DEF CookieLine, HeaderLine, Headers
<1> QED  BY <1>3, <1>4, <1>5, <1>6

(* The headers of a request, as the parser keeps them.                     *)
Told(h, a) ==
  /\ h["Connection"] = IF a.keep THEN "keep-alive" ELSE Absent
  /\ h["Cookie"] = a.cookie
  /\ h["Content-Type"] = IF a.form # Absent THEN "application/x-www-form-urlencoded" ELSE Absent
  /\ h["Content-Length"] = IF a.form # Absent THEN Len(Fields(a)) ELSE Absent

(* The header lines of a request, one after the other, tell it.            *)
LEMMA HeadersTold ==
  ASSUME NEW a \in Asks, NEW h1, NEW h2, NEW h3, NEW h4,
         h1 = IF a.keep THEN [NoHeaders EXCEPT ![KeepLine.name] = KeepLine.value] ELSE NoHeaders,
         h2 = IF a.cookie # Absent THEN [h1 EXCEPT ![CookieLine(a).name] = CookieLine(a).value]
              ELSE h1,
         h3 = IF a.form # Absent THEN [h2 EXCEPT ![TypeLine.name] = TypeLine.value] ELSE h2,
         h4 = IF a.form # Absent THEN [h3 EXCEPT ![LengthLine(a).name] = LengthLine(a).value]
              ELSE h3
  PROVE  Told(h4, a)
<1>1. /\ "Connection" \in HeaderNames /\ "Content-Type" \in HeaderNames
      /\ "Content-Length" \in HeaderNames /\ "Cookie" \in HeaderNames
  BY RequestAssumption
<1>2. /\ KeepLine.name = "Connection" /\ KeepLine.value = "keep-alive"
      /\ CookieLine(a).name = "Cookie" /\ CookieLine(a).value = a.cookie
      /\ TypeLine.name = "Content-Type" /\ TypeLine.value = "application/x-www-form-urlencoded"
      /\ LengthLine(a).name = "Content-Length" /\ LengthLine(a).value = Len(Fields(a))
  BY DEF KeepLine, CookieLine, TypeLine, LengthLine, HeaderLine
<1>3. /\ DOMAIN h1 = HeaderNames
      /\ \A n \in HeaderNames : h1[n] = IF a.keep /\ n = "Connection" THEN "keep-alive" ELSE Absent
  BY <1>1, <1>2 DEF NoHeaders
<1>4. /\ DOMAIN h2 = HeaderNames
      /\ \A n \in HeaderNames : h2[n] = IF n = "Cookie" THEN a.cookie ELSE h1[n]
  <2>1. h1["Cookie"] = Absent
    BY <1>1, <1>3
  <2> QED  BY <1>2, <1>3, <2>1
<1>5. /\ DOMAIN h3 = HeaderNames
      /\ \A n \in HeaderNames :
           h3[n] = IF a.form # Absent /\ n = "Content-Type"
                   THEN "application/x-www-form-urlencoded" ELSE h2[n]
  BY <1>2, <1>4
<1>6. \A n \in HeaderNames :
        h4[n] = IF a.form # Absent /\ n = "Content-Length" THEN Len(Fields(a)) ELSE h3[n]
  BY <1>2, <1>5
<1>7. h4["Connection"] = IF a.keep THEN "keep-alive" ELSE Absent
  BY <1>1, <1>3, <1>4, <1>5, <1>6
<1>8. h4["Cookie"] = a.cookie
  BY <1>1, <1>3, <1>4, <1>5, <1>6
<1>9. h4["Content-Type"]
        = IF a.form # Absent THEN "application/x-www-form-urlencoded" ELSE Absent
  BY <1>1, <1>3, <1>4, <1>5, <1>6
<1>10. h4["Content-Length"] = IF a.form # Absent THEN Len(Fields(a)) ELSE Absent
  BY <1>1, <1>3, <1>4, <1>5, <1>6
<1> QED  BY <1>7, <1>8, <1>9, <1>10 DEF Told

(* What a parser has made of request a once it is through with it.         *)
Knows(r, buf, a) ==
  /\ r.method = a.method /\ r.path = Served(a.path) /\ Told(r.headers, a)
  /\ At(buf, r.checked, Fields(a))

(* A new parser that is shown all of a request, and perhaps more, takes it *)
(* as it was meant.                                                        *)
LEMMA RequestParsed ==
  ASSUME NEW buf \in Seq(Tokens), NEW a \in Asks, At(buf, 0, Wire(a))
  PROVE  LET parsed == Parse(NewRequest, buf)
         IN  /\ ~Understood(a) => parsed.result = "ERROR"
             /\ Understood(a) => parsed.result = "SUCCESS" /\ Knows(parsed.req, buf, a)
<1> DEFINE first == Line(RequestLine(a.method, a.path, a.version))
           keep == IF a.keep THEN Line(KeepLine) ELSE <<>>
           cookie == IF a.cookie # Absent THEN Line(CookieLine(a)) ELSE <<>>
           type == IF a.form # Absent THEN Line(TypeLine) ELSE <<>>
           length == IF a.form # Absent THEN Line(LengthLine(a)) ELSE <<>>
           form == type \o length
           blank == <<CR, LF>>
           fields == Fields(a)
           parsed == Parse(NewRequest, buf)
<1>1. /\ first \in Seq(Tokens) /\ keep \in Seq(Tokens) /\ cookie \in Seq(Tokens)
      /\ type \in Seq(Tokens) /\ length \in Seq(Tokens)
      /\ form \in Seq(Tokens) /\ blank \in Seq(Tokens) /\ fields \in Seq(Tokens)
  <2>1. first \in Seq(Tokens)
    <3>1. RequestLine(a.method, a.path, a.version) \in Tokens
      BY DEF RequestLine, Tokens, Asks
    <3> QED  BY <3>1, LineTyped
  <2>2. \A t \in Headers : Line(t) \in Seq(Tokens)
    BY LineTyped DEF Tokens
  <2>3. keep \in Seq(Tokens) /\ cookie \in Seq(Tokens) /\ type \in Seq(Tokens)
        /\ length \in Seq(Tokens)
    BY <2>2, HeaderLinesTyped
  <2>4. blank \in Seq(Tokens) /\ fields \in Seq(Tokens)
    BY FieldsTyped DEF Tokens
  <2> HIDE DEF type, length
  <2>5. form \in Seq(Tokens)
    BY <2>3, ConcatProperties
  <2> QED  BY <2>1, <2>3, <2>4, <2>5
<1>2. Wire(a) = first \o keep \o cookie \o form \o blank \o fields
  <2>1. form = IF a.form # Absent THEN Line(TypeLine) \o Line(LengthLine(a)) ELSE <<>>
    <3>1. <<>> \o <<>> = <<>>
      OBVIOUS
    <3> QED  BY <3>1
  <2> HIDE DEF form
  <2> QED  BY <2>1 DEF Wire, KeepLine, CookieLine, TypeLine, LengthLine
<1> DEFINE p == Len(first)
           q == p + Len(keep)
           r == q + Len(cookie)
           s == r + Len(type)
           m == r + Len(form)
<1>3. /\ p = 3 /\ p \in Nat /\ q \in Nat /\ r \in Nat /\ s \in Nat /\ m \in Nat
      /\ m = s + Len(length) /\ Len(blank) = 2
  <2>1. Len(first) = 3
    BY DEF Line
  <2>2. Len(form) = Len(type) + Len(length)
    BY <1>1, ConcatProperties
  <2>3. Len(blank) = 2
    OBVIOUS
  <2> HIDE DEF first, keep, cookie, type, length, form, blank
  <2> QED  BY <1>1, <2>1, <2>2, <2>3, LenProperties
<1>4. /\ At(buf, 0, first) /\ At(buf, p, keep) /\ At(buf, q, cookie) /\ At(buf, r, form)
      /\ At(buf, m, blank) /\ At(buf, m + Len(blank), fields)
  <2> HIDE DEF first, keep, cookie, form, blank, fields
  <2>1. At(buf, 0, first \o keep \o cookie \o form \o blank \o fields)
    BY <1>2
  <2> QED  BY <1>1, <2>1, AtParts
<1>5. At(buf, r, type) /\ At(buf, s, length)
  <2> HIDE DEF type, length, r
  <2> QED  BY <1>1, <1>3, <1>4, AtJoined
<1>6. ASSUME ~Understood(a) PROVE parsed.result = "ERROR"
  BY <1>4, <1>6, HeadersReached
<1>7. ASSUME Understood(a) PROVE parsed.result = "SUCCESS" /\ Knows(parsed.req, buf, a)
  <2> DEFINE h1 == IF a.keep THEN [NoHeaders EXCEPT ![KeepLine.name] = KeepLine.value]
                   ELSE NoHeaders
             h2 == IF a.cookie # Absent
                   THEN [h1 EXCEPT ![CookieLine(a).name] = CookieLine(a).value] ELSE h1
             h3 == IF a.form # Absent THEN [h2 EXCEPT ![TypeLine.name] = TypeLine.value] ELSE h2
             h4 == IF a.form # Absent
                   THEN [h3 EXCEPT ![LengthLine(a).name] = LengthLine(a).value] ELSE h3
  <2>1. PICK r0 : Reached(r0, buf, p, a, NoHeaders)
    BY <1>3, <1>4, <1>7, HeadersReached
  <2> HIDE DEF p, q, r, s, m
  <2>2. PICK r1 : Reached(r1, buf, q, a, h1)
    <3>1. \E x : Reached(x, buf, p + Len(keep), a, h1)
      BY <1>3, <1>4, <2>1, HeaderTaken, HeaderLinesTyped
    <3> QED  BY <3>1 DEF q
  <2> HIDE DEF h1
  <2>3. PICK r2 : Reached(r2, buf, r, a, h2)
    <3>1. \E x : Reached(x, buf, q + Len(cookie), a, h2)
      BY <1>3, <1>4, <2>2, HeaderTaken, HeaderLinesTyped
    <3> QED  BY <3>1 DEF r
  <2> HIDE DEF h2
  <2>4. PICK r3 : Reached(r3, buf, s, a, h3)
    <3>1. \E x : Reached(x, buf, r + Len(type), a, h3)
      BY <1>3, <1>5, <2>3, HeaderTaken, HeaderLinesTyped
    <3> QED  BY <3>1 DEF s
  <2> HIDE DEF h3
  <2>5. PICK r4 : Reached(r4, buf, m, a, h4)
    <3>1. \E x : Reached(x, buf, s + Len(length), a, h4)
      BY <1>3, <1>5, <2>4, HeaderTaken, HeaderLinesTyped
    <3> QED  BY <1>3, <3>1
  <2> HIDE DEF h4
  <2>6. /\ parsed.result = "SUCCESS"
        /\ parsed.req.method = a.method /\ parsed.req.path = Served(a.path)
        /\ parsed.req.headers = h4 /\ parsed.req.checked = m + 2
    BY <1>3, <1>4, <2>5, HeadersEnded
  <2>7. Told(h4, a)
    BY HeadersTold DEF h1, h2, h3, h4
  <2> HIDE DEF parsed, fields
  <2> QED  BY <1>3, <1>4, <2>6, <2>7 DEF Knows, fields
<1> QED  BY <1>6, <1>7
-----------------------------------------------------------------------------
(* The body of a request, and the form in it.                              *)
LEMMA FormParsed ==
  ASSUME NEW name \in Seq(Bytes), NEW password \in Seq(Bytes), NEW body,
         body = <<FormField("username", Encoded(name)), FormField("password", Encoded(password))>>
  PROVE  /\ ParseFormUrlencoded(body)["username"] = name
         /\ ParseFormUrlencoded(body)["password"] = password
<1> DEFINE Named(f) == {i \in 1..Len(body) : body[i].is = "field" /\ body[i].name = f}
<1>1. "username" \in FormFields /\ "password" \in FormFields
  BY RequestAssumption
<1>2. /\ Len(body) = 2
      /\ body[1].is = "field" /\ body[1].name = "username" /\ body[1].value = Encoded(name)
      /\ body[2].is = "field" /\ body[2].name = "password" /\ body[2].value = Encoded(password)
  BY DEF FormField
<1>3. body[2] # NUL
  BY <1>2 DEF NUL
<1>4. Named("username") = {1} /\ Named("password") = {2}
  BY <1>2
<1>5. Max({1}) = 1 /\ Max({2}) = 2
  <2>1. 2 \in Nat /\ {1} \in SUBSET (1..2) /\ {2} \in SUBSET (1..2) /\ {1} # {} /\ {2} # {}
    OBVIOUS
  <2>2. Max({1}) \in {1} /\ Max({2}) \in {2}
    BY <2>1, MaxIsMember
  <2> QED  BY <2>2
<1>6. RawValue(body, 1) = Encoded(name) /\ RawValue(body, 2) = Encoded(password)
  <2>1. ~(1 < Len(body) /\ body[1 + 1] = NUL) /\ ~(2 < Len(body) /\ body[2 + 1] = NUL)
    BY <1>2, <1>3
  <2> QED  BY <1>2, <2>1 DEF RawValue
<1>7. UrlDecode(Encoded(name)) = name /\ UrlDecode(Encoded(password)) = password
  BY DecodedAsEncoded
<1> HIDE DEF Named
<1>8. ASSUME NEW f \in FormFields, Named(f) # {}
      PROVE  ParseFormUrlencoded(body)[f] = UrlDecode(RawValue(body, Max(Named(f))))
  <2>1. \E i \in 1..Len(body) : body[i].is = "field" /\ body[i].name = f
    BY <1>8 DEF Named
  <2> QED  BY <2>1 DEF ParseFormUrlencoded, Named
<1>9. ParseFormUrlencoded(body)["username"] = name
  <2>1. ParseFormUrlencoded(body)["username"] = UrlDecode(RawValue(body, Max(Named("username"))))
    BY <1>1, <1>4, <1>8
  <2> QED  BY <1>4, <1>5, <1>6, <1>7, <2>1
<1>10. ParseFormUrlencoded(body)["password"] = password
  <2>1. ParseFormUrlencoded(body)["password"] = UrlDecode(RawValue(body, Max(Named("password"))))
    BY <1>1, <1>4, <1>8
  <2> QED  BY <1>4, <1>5, <1>6, <1>7, <2>1
<1> QED  BY <1>9, <1>10

(* The user a form names is the one the client meant.                      *)
LEMMA FormTaken ==
  ASSUME NEW buf \in Seq(Tokens), NEW a \in Asks, Plain(a), a.method = "POST",
         NEW r, Parsing(r, buf), Knows(r, buf, a), r.post = ParseBody(r, buf).post
  PROVE  GetPost(r, "username") = NamedIn(a) /\ GetPost(r, "password") = PasswordIn(a)
<1> DEFINE h == r.headers
           n == GetHeader(r, "Content-Length", 0)
           body == BodyOf(r, buf, n)
<1>1. /\ r \in Parsers /\ r.checked \in Nat /\ Len(buf) \in Nat
      /\ "username" \in FormFields /\ "password" \in FormFields
  BY RequestAssumption, LenProperties DEF Parsing, Parsers
<1>2. /\ r.method = "POST"
      /\ h["Content-Type"] = IF a.form # Absent THEN "application/x-www-form-urlencoded" ELSE Absent
      /\ h["Content-Length"] = IF a.form # Absent THEN Len(Fields(a)) ELSE Absent
      /\ At(buf, r.checked, Fields(a))
  BY DEF Knows, Told
<1> HIDE DEF h
<1>3. ParseBody(r, buf).post =
        IF HasForm(r) /\ n >= 0
        THEN IF h["Content-Type"] = "application/x-www-form-urlencoded"
             THEN ParseFormUrlencoded(body) ELSE NoPost
        ELSE NoPost
  <2> DEFINE cleared == [r EXCEPT !.post = NoPost]
             form == IF h["Content-Type"] = "application/x-www-form-urlencoded"
                     THEN ParseFormUrlencoded(body) ELSE NoPost
  <2>1. ParseBody(r, buf) = IF HasForm(r) /\ n >= 0
                            THEN [cleared EXCEPT !.body = body, !.post = form]
                            ELSE cleared
    BY DEF ParseBody, h
  <2> HIDE DEF n, form, body
  <2>2. cleared.post = NoPost /\ [cleared EXCEPT !.body = body, !.post = form].post = form
    BY <1>1 DEF Parsers
  <2> HIDE DEF cleared
  <2> QED  BY <2>1, <2>2 DEF form
<1>4. CASE a.form = Absent
  <2>1. ~HasForm(r)
    BY <1>2, <1>4 DEF HasForm, h
  <2>2. r.post = NoPost
    BY <1>3, <2>1
  <2>3. r.post["username"] = Absent /\ r.post["password"] = Absent
    BY <1>1, <2>2 DEF NoPost
  <2> QED  BY <1>4, <2>3 DEF GetPost, NamedIn, PasswordIn
<1>5. CASE a.form # Absent
  <2> DEFINE fields == <<FormField("username", Encoded(a.form[1])),
                         FormField("password", Encoded(a.form[2]))>>
  <2>1. a.form[1] \in Seq(Bytes) /\ a.form[2] \in Seq(Bytes)
    BY <1>5 DEF Plain
  <2>2. Fields(a) = fields /\ Len(fields) = 2 /\ fields = [i \in 1..2 |-> fields[i]]
    BY <1>5 DEF Fields
  <2> HIDE DEF fields
  <2>3. "application/x-www-form-urlencoded" # Absent /\ 2 # Absent
    <3>1. "application/x-www-form-urlencoded" \in Strings /\ 2 \in Nat
      BY DEF Strings
    <3> QED  BY <3>1, AbsentAssumption
  <2>4. n = 2
    BY <1>2, <1>5, <2>2, <2>3 DEF GetHeader, h
  <2>5. HasForm(r)
    BY <1>2, <1>5, <2>3 DEF HasForm, h
  <2>6. r.post = ParseFormUrlencoded(body)
    <3> HIDE DEF body
    <3> QED  BY <1>2, <1>3, <1>5, <2>4, <2>5
  <2>7. body = fields
    <3>1. body = [i \in 1..2 |-> IF r.checked + i =< Len(buf) THEN buf[r.checked + i] ELSE NUL]
      BY <2>4 DEF BodyOf
    <3>2. r.checked + 2 =< Len(buf) /\ \A i \in 1..2 : buf[r.checked + i] = fields[i]
      BY <1>2, <2>2 DEF At
    <3>3. \A i \in 1..2 : (IF r.checked + i =< Len(buf) THEN buf[r.checked + i] ELSE NUL)
                            = fields[i]
      BY <1>1, <3>2
    <3> QED  BY <2>2, <3>1, <3>3
  <2>8. r.post["username"] = a.form[1] /\ r.post["password"] = a.form[2]
    <3>1. /\ ParseFormUrlencoded(fields)["username"] = a.form[1]
          /\ ParseFormUrlencoded(fields)["password"] = a.form[2]
      BY <2>1, FormParsed DEF fields
    <3> QED  BY <2>6, <2>7, <3>1
  <2>9. a.form[1] # Absent /\ a.form[2] # Absent
    <3>1. a.form[1] \in Texts /\ a.form[2] \in Texts
      <4>1. ASSUME NEW s \in Seq(Bytes) PROVE s \in Seq(Nat)
        <5>1. \A i \in 1..Len(s) : s[i] \in Bytes
          BY ElementOfSeq
        <5>2. \A b \in Bytes : b \in Nat
          BY DEF Bytes
        <5> QED  BY <5>1, <5>2
      <4> QED  BY <2>1, <4>1 DEF Texts
    <3> QED  BY <3>1, AbsentAssumption
  <2> QED  BY <1>5, <2>8, <2>9 DEF GetPost, NamedIn, PasswordIn
<1> QED  BY <1>4, <1>5

(* Names and passwords do not cut a statement short.                       *)
LEMMA NothingCut ==
  ASSUME NEW a \in Asks, Plain(a)
  PROVE  ~CutsStatement(NamedIn(a)) /\ ~CutsStatement(PasswordIn(a))
<1>1. NamedIn(a) \in Seq(Bytes) /\ PasswordIn(a) \in Seq(Bytes)
  <2>1. CASE a.form = Absent
    BY <2>1 DEF NamedIn, PasswordIn
  <2>2. CASE a.form # Absent
    BY <2>2 DEF NamedIn, PasswordIn, Plain
  <2> QED  BY <2>1, <2>2
<1>2. ASSUME NEW s \in Seq(Bytes) PROVE ~CutsStatement(s)
  <2>1. \A i \in 1..Len(s) : s[i] \in Bytes
    BY ElementOfSeq
  <2>2. 0 \notin Bytes
    BY DEF Bytes
  <2> QED  BY <2>1, <2>2 DEF CutsStatement
<1> QED  BY <1>1, <1>2

(* Whether the client wants the connection kept, and who it says it is.    *)
LEMMA KeepTaken ==
  ASSUME NEW a \in Asks, Plain(a), NEW r, Told(r.headers, a)
  PROVE  IsKeepAlive(r) = a.keep
<1>1. a.keep \in BOOLEAN
  BY DEF Asks
<1>2. "keep-alive" # Absent /\ "Keep-Alive" # Absent
  <2>1. "keep-alive" \in Strings
    BY DEF Strings
  <2> QED  BY <2>1, AbsentAssumption
<1>3. CASE a.keep
  BY <1>1, <1>3 DEF IsKeepAlive, Told
<1>4. CASE ~a.keep
  BY <1>1, <1>2, <1>4 DEF IsKeepAlive, Told
<1> QED  BY <1>1, <1>3, <1>4

(* The session is the one the cookie names.                                *)
LEMMA CookieTaken ==
  ASSUME NEW a \in Asks, Plain(a), NEW r, Told(r.headers, a), NEW w,
         NEW id, id = GetCookieValue(GetHeader(r, "Cookie", <<>>))
  PROVE  WhoIs(a, w) = IF id \in 1..Len(w.sessions) THEN w.sessions[id] ELSE <<>>
<1> DEFINE own == IF a.cookie = Absent THEN {}
                  ELSE {i \in 1..Len(a.cookie) : a.cookie[i].name = "session_id"}
           mine == IF own = {} THEN 0 ELSE a.cookie[Min(own)].value
           all == GetHeader(r, "Cookie", <<>>)
           hits == {i \in 1..Len(all) : all[i].name \in {"session_id", "my_session_id"}}
<1>1. r.headers["Cookie"] = a.cookie
  BY DEF Told
<1>2. hits = own /\ (own # {} => all = a.cookie)
  <2>1. CASE a.cookie = Absent
    <3>1. all = <<>> /\ Len(<<>>) = 0
      BY <1>1, <2>1 DEF GetHeader
    <3> HIDE DEF all
    <3>2. hits = {}
      BY <3>1
    <3> QED  BY <2>1, <3>2
  <2>2. CASE a.cookie # Absent
    <3>1. all = a.cookie
      BY <1>1, <2>2 DEF GetHeader
    <3> HIDE DEF all
    <3>2. \A i \in 1..Len(a.cookie) : a.cookie[i].name # "my_session_id"
      BY <2>2 DEF Plain
    <3> QED  BY <2>2, <3>1, <3>2
  <2> QED  BY <2>1, <2>2
<1>3. id = mine
  <2>1. id = IF hits = {} THEN 0 ELSE all[Min(hits)].value
    BY DEF GetCookieValue
  <2> HIDE DEF own, hits, all
  <2> QED  BY <1>2, <2>1
<1>4. WhoIs(a, w) = IF mine \in 1..Len(w.sessions) THEN w.sessions[mine] ELSE <<>>
  BY DEF WhoIs
<1> HIDE DEF mine
<1> QED  BY <1>3, <1>4
-----------------------------------------------------------------------------
(* What prepareWrite() lays out of a response that fits into the buffer.   *)
LEMMA WholeLaid ==
  ASSUME NEW c \in Objects, Len(c.response.buffer) < WriteBufSize,
         NEW fs \in {Files} \cup OtherFiles
  PROVE  LET path == c.response.file
             laid == PrepareWrite(c, fs)
         IN  /\ laid.conn.request = c.request
             /\ c.response.status # 200 \/ path = NoFile =>
                  laid.ready /\ Whole(laid.conn) = c.response.buffer
             /\ c.response.status = 200 /\ path \in Paths /\ CanMap(fs[path]) =>
                  /\ laid.ready
                  /\ Whole(laid.conn) = c.response.buffer \o Content(path, fs[path].size)
             /\ c.response.status = 200 /\ path \in Paths /\ ~CanMap(fs[path]) => ~laid.ready
<1> DEFINE path == c.response.file
           buffer == c.response.buffer
           header == HeaderLaid(c)
           whole == [header EXCEPT !.toSend = Len(buffer)]
           laid == PrepareWrite(c, fs)
<1>1. /\ c.response \in Responses /\ buffer \in Seq(Units) /\ Len(buffer) \in Nat
      /\ path \in Paths \cup {NoFile}
  BY DEF Objects, Responses
<1> HIDE DEF buffer, path
<1> DEFINE iov == [c.iov EXCEPT ![1] = Span(0, Len(buffer))]
<1>2. header = [c EXCEPT !.writeBuf = buffer, !.iov = iov, !.iovCnt = 1]
  BY DEF HeaderLaid, buffer, Objects
<1>3. iov \in Iovecs
  BY <1>1 DEF Iovecs, Span, Objects
<1> HIDE DEF iov, header
<1>4. /\ header.writeBuf = buffer /\ header.iovCnt = 1 /\ header.request = c.request
      /\ header \in Objects
  <2>1. header.writeBuf = buffer /\ header.iovCnt = 1 /\ header.request = c.request
    BY <1>2 DEF Objects
  <2>2. 1 \in 0..2
    OBVIOUS
  <2>3. header \in Objects
    BY <1>1, <1>2, <1>3, <2>2 DEF Objects
  <2> QED  BY <2>1, <2>3
<1>5. whole.writeBuf = buffer /\ whole.iovCnt = 1 /\ whole.request = c.request
  BY <1>4 DEF Objects
<1>6. Len(buffer) < WriteBufSize /\ ~(Len(buffer) >= WriteBufSize)
  BY <1>1, HttpConnectionAssumption DEF buffer
<1> HIDE DEF whole, laid
<1>7. CASE c.response.status # 200 \/ path = NoFile
  <2>1. laid = [conn |-> whole, ready |-> TRUE]
    BY <1>6, <1>7 DEF PrepareWrite, buffer, path, header, whole, laid
  <2>2. laid.conn = whole /\ laid.ready
    BY <2>1
  <2>3. Whole(whole) = buffer
    <3>1. Whole(whole) = buffer \o <<>>
      BY <1>5 DEF Whole
    <3> QED  BY <1>1, <3>1
  <2> QED  BY <1>5, <1>7, <2>2, <2>3, HttpConnectionAssumption DEF laid, buffer, path
<1>8. CASE c.response.status = 200 /\ path # NoFile /\ ~CanMap(fs[path])
  <2>1. laid = [conn |-> header, ready |-> FALSE]
    BY <1>6, <1>8 DEF PrepareWrite, buffer, path, header, laid
  <2>2. laid.conn = header /\ ~laid.ready
    BY <2>1
  <2> QED  BY <1>4, <1>8, <2>2 DEF laid, buffer, path
<1>9. CASE c.response.status = 200 /\ path # NoFile /\ CanMap(fs[path])
  <2> DEFINE size == fs[path].size
             file == FileLaid(c, path, size)
             map == [path |-> path, size |-> size]
             both == [header.iov EXCEPT ![2] = Span(0, size)]
  <2>1. laid = [conn |-> file, ready |-> TRUE]
    BY <1>6, <1>9 DEF PrepareWrite, buffer, path, header, laid
  <2>2. file = [header EXCEPT !.file = map, !.iov = both, !.iovCnt = 2,
                              !.toSend = Len(buffer) + size]
    BY <1>4 DEF FileLaid, header, buffer, Objects
  <2> HIDE DEF both, file, size
  <2>3. /\ file.writeBuf = buffer /\ file.iovCnt = 2 /\ file.request = c.request
        /\ file.file = map
    BY <1>4, <2>2 DEF Objects
  <2>4. Whole(file) = buffer \o Content(path, size)
    BY <2>3 DEF Whole
  <2>5. laid.conn = file /\ laid.ready
    BY <2>1
  <2> QED  BY <1>9, <2>3, <2>4, <2>5 DEF laid, buffer, path, size
<1> QED  BY <1>1, <1>7, <1>8, <1>9 DEF path

(* A request that was parsed to its end and found no answer: no handler    *)
(* looks after it, and there is no file to map.                            *)
Handled(method, path) ==
  <<method, path>> \in {<<"GET", "/whoami">>, <<"POST", "/login">>, <<"POST", "/register">>}
Unanswered(r, fs) == ~Handled(r.method, r.path) /\ r.path \in Paths /\ ~CanMap(fs[r.path])

(* makeResponse() and prepareWrite() lay out this answer, or none.         *)
Yields(m, answer, fs) ==
  LET laid == PrepareWrite(m.conn, fs)
  IN  /\ m.ok /\ laid.ready => Whole(laid.conn) = answer
      /\ ~(m.ok /\ laid.ready) => answer = <<>> /\ Unanswered(m.conn.request, fs)
      /\ laid.conn.request = m.conn.request

(* The header block of a response.                                         *)
LEMMA HeaderIs ==
  ASSUME NEW r \in Responses, NEW n \in Nat
  PROVE  /\ HeaderOf(r, n) = <<Status(r.status), ConnectionHeader(r.keepAlive)>> \o r.extra
                               \o <<ContentLength(n)>>
         /\ HeaderOf(r, n) \in Seq(Units) /\ Len(HeaderOf(r, n)) =< 4
         /\ r.extra = <<>> =>
              HeaderOf(r, n) = <<Status(r.status), ConnectionHeader(r.keepAlive), ContentLength(n)>>
<1> DEFINE x == <<Status(r.status), ConnectionHeader(r.keepAlive)>>
           y == <<ContentLength(n)>>
           e == r.extra
<1>1. HeaderOf(r, n) = x \o e \o y
  BY DEF HeaderOf
<1>2. HeaderOf(r, n) \in Seq(Units)
  BY HeaderBuilt
<1>3. /\ x \in Seq(Units) /\ y \in Seq(Units) /\ e \in Seq(Units)
      /\ Len(x) = 2 /\ Len(y) = 1 /\ Len(e) =< 1 /\ Len(e) \in Nat
  <2>1. Status(r.status) \in Units /\ ConnectionHeader(r.keepAlive) \in Units
        /\ ContentLength(n) \in Units
    BY DEF Status, ConnectionHeader, ContentLength, Units, HeaderUnits, Responses
  <2>2. e \in Seq(CookieUnits) /\ Len(e) =< 1
    BY DEF Responses, Extras
  <2>3. e \in Seq(Units)
    <3>1. \A i \in 1..Len(e) : e[i] \in Units
      <4>1. \A i \in 1..Len(e) : e[i] \in CookieUnits
        BY <2>2, ElementOfSeq
      <4> QED  BY <4>1 DEF Units, HeaderUnits
    <3> QED  BY <2>2, <3>1
  <2> QED  BY <2>1, <2>2, <2>3
<1> HIDE DEF x, y, e
<1>4. x \o e \in Seq(Units) /\ Len(x \o e) = 2 + Len(e)
  <2>1. x \in Seq(Units) /\ e \in Seq(Units) /\ Len(x) = 2
    BY <1>3
  <2>2. x \o e \in Seq(Units) /\ Len(x \o e) = Len(x) + Len(e)
    BY <2>1, ConcatProperties
  <2> QED  BY <2>1, <2>2
<1>5. Len((x \o e) \o y) = (2 + Len(e)) + 1
  BY <1>3, <1>4, ConcatProperties
<1>6. Len(HeaderOf(r, n)) =< 4
  BY <1>1, <1>3, <1>5
<1>7. ASSUME e = <<>>
      PROVE  HeaderOf(r, n)
               = <<Status(r.status), ConnectionHeader(r.keepAlive), ContentLength(n)>>
  <2>1. x \o e = x
    BY <1>3, <1>7
  <2>2. HeaderOf(r, n) = x \o y
    BY <1>1, <2>1
  <2>3. x \o y = <<Status(r.status), ConnectionHeader(r.keepAlive), ContentLength(n)>>
    <3> DEFINE z == <<Status(r.status), ConnectionHeader(r.keepAlive), ContentLength(n)>>
               xy == x \o y
    <3>1. xy \in Seq(Units) /\ Len(xy) = 3 /\ xy[1] = x[1] /\ xy[2] = x[2] /\ xy[3] = y[1]
      <4>1. x \in Seq(Units) /\ y \in Seq(Units) /\ Len(x) = 2 /\ Len(y) = 1
        BY <1>3
      <4>2. /\ xy \in Seq(Units) /\ Len(xy) = Len(x) + Len(y)
            /\ \A i \in 1..(Len(x) + Len(y)) :
                 xy[i] = IF i =< Len(x) THEN x[i] ELSE y[i - Len(x)]
        BY <4>1, ConcatProperties
      <4> HIDE DEF xy
      <4> QED  BY <4>1, <4>2
    <3>2. Len(z) = 3 /\ z[1] = x[1] /\ z[2] = x[2] /\ z[3] = y[1]
      BY DEF x, y
    <3>3. z \in Seq(Units)
      <4>1. x[1] \in Units /\ x[2] \in Units /\ y[1] \in Units
        <5>1. x \in Seq(Units) /\ y \in Seq(Units) /\ 1 \in 1..Len(x) /\ 2 \in 1..Len(x)
              /\ 1 \in 1..Len(y)
          BY <1>3
        <5> QED  BY <5>1, ElementOfSeq
      <4> QED  BY <4>1 DEF x, y
    <3> HIDE DEF z, xy
    <3>4. \A i \in 1..3 : xy[i] = z[i]
      BY <3>1, <3>2
    <3>5. xy = z
      BY <3>1, <3>2, <3>3, <3>4, SeqEqual
    <3> QED  BY <3>5 DEF z, xy
  <2> QED  BY <2>2, <2>3
<1> QED  BY <1>1, <1>2, <1>6, <1>7 DEF x, y, e

(* A header block of three units and a body of one.                        *)
LEMMA FourUnits ==
  ASSUME NEW s1 \in Units, NEW s2 \in Units, NEW s3 \in Units, NEW s4 \in Units
  PROVE  /\ <<s1, s2, s3>> \o <<s4>> = <<s1, s2, s3, s4>>
         /\ <<s1, s2, s3, s4>> \in Seq(Units) /\ Len(<<s1, s2, s3, s4>>) = 4
<1> DEFINE x == <<s1, s2, s3>>
           y == <<s4>>
           z == <<s1, s2, s3, s4>>
           xy == x \o y
<1>1. /\ x \in Seq(Units) /\ y \in Seq(Units) /\ z \in Seq(Units)
      /\ Len(x) = 3 /\ Len(y) = 1 /\ Len(z) = 4
      /\ x[1] = s1 /\ x[2] = s2 /\ x[3] = s3 /\ y[1] = s4
      /\ z[1] = s1 /\ z[2] = s2 /\ z[3] = s3 /\ z[4] = s4
  OBVIOUS
<1> HIDE DEF x, y, z
<1>2. /\ xy \in Seq(Units) /\ Len(xy) = Len(x) + Len(y)
      /\ \A i \in 1..(Len(x) + Len(y)) : xy[i] = IF i =< Len(x) THEN x[i] ELSE y[i - Len(x)]
  BY <1>1, ConcatProperties
<1> HIDE DEF xy
<1>3. Len(xy) = 4 /\ xy[1] = s1 /\ xy[2] = s2 /\ xy[3] = s3 /\ xy[4] = s4
  BY <1>1, <1>2
<1>4. \A i \in 1..4 : xy[i] = z[i]
  BY <1>1, <1>3
<1>5. xy = z
  BY <1>1, <1>2, <1>3, <1>4, SeqEqual
<1> QED  BY <1>1, <1>5 DEF x, y, z, xy

(* The page of error 500, on a response that is new.                       *)
LEMMA ServerErrorIs ==
  LET made == MakeErrorResponse(InitedResponse, 500)
  IN  /\ made \in Responses /\ made.status = 500 /\ made.file = NoFile
      /\ made.buffer
           = <<Status(500), ConnectionHeader(FALSE), ContentLength(1), ErrorPage(500)>>
      /\ Len(made.buffer) = 4
<1> DEFINE e == [InitedResponse EXCEPT !.status = 500, !.file = NoFile]
           H == HeaderOf(e, 1)
           all == H \o <<ErrorPage(500)>>
           made == MakeErrorResponse(InitedResponse, 500)
<1>1. /\ e \in Responses /\ e.status = 500 /\ e.keepAlive = FALSE /\ e.extra = <<>>
      /\ e.file = NoFile
  <2>1. e \in Responses
    <3> DEFINE code == 500
    <3>1. code \in Codes
      BY CodesTyped
    <3> HIDE DEF code
    <3>2. [InitedResponse EXCEPT !.status = code, !.file = NoFile] \in Responses
      BY <3>1, InitedTyped, ErrorTyped
    <3> QED  BY <3>2 DEF code
  <2>2. e.status = 500 /\ e.file = NoFile
    BY DEF InitedResponse
  <2>3. e.keepAlive = FALSE
    BY DEF InitedResponse
  <2>4. e.extra = <<>>
    BY DEF InitedResponse
  <2> QED  BY <2>1, <2>2, <2>3, <2>4, Zenon
<1> HIDE DEF e
<1>2. /\ Status(500) \in Units /\ ConnectionHeader(FALSE) \in Units /\ ContentLength(1) \in Units
      /\ ErrorPage(500) \in Units
  BY CodesTyped DEF Status, ConnectionHeader, ContentLength, ErrorPage, Units, HeaderUnits, Bodies
<1>3. H = <<Status(500), ConnectionHeader(FALSE), ContentLength(1)>>
  <2>1. H = <<Status(e.status), ConnectionHeader(e.keepAlive), ContentLength(1)>>
    BY <1>1, HeaderIs
  <2> QED  BY <1>1, <2>1, Zenon
<1> HIDE DEF H
<1>4. /\ all = <<Status(500), ConnectionHeader(FALSE), ContentLength(1), ErrorPage(500)>>
      /\ all \in Seq(Units) /\ Len(all) = 4
  <2> DEFINE s1 == Status(500)
             s2 == ConnectionHeader(FALSE)
             s3 == ContentLength(1)
             s4 == ErrorPage(500)
  <2>1. H = <<s1, s2, s3>> /\ s1 \in Units /\ s2 \in Units /\ s3 \in Units /\ s4 \in Units
    BY <1>2, <1>3
  <2>2. all = H \o <<s4>>
    OBVIOUS
  <2> HIDE DEF s1, s2, s3, s4, all
  <2>3. /\ all = <<s1, s2, s3, s4>>
        /\ <<s1, s2, s3, s4>> \in Seq(Units) /\ Len(<<s1, s2, s3, s4>>) = 4
    BY <2>1, <2>2, FourUnits
  <2> QED  BY <2>3 DEF s1, s2, s3, s4
<1>5. made = [e EXCEPT !.buffer = all]
  <2>1. <<>> \o H = H
    <3>1. H \in Seq(Units)
      BY <1>1, HeaderIs DEF H
    <3> QED  BY <3>1, ConcatEmptySeq
  <2> QED  BY <2>1, InitedTyped DEF MakeErrorResponse, e, H
<1> HIDE DEF all, made
<1>6. /\ made \in Responses /\ made.buffer = all /\ made.status = 500 /\ made.file = NoFile
  <2>1. made \in Responses
    <3>1. e \in Responses /\ all \in Seq(Units)
      BY <1>1, <1>4
    <3>2. [e EXCEPT !.buffer = all] \in Responses
      BY <3>1 DEF Responses
    <3> QED  BY <1>5, <3>2
  <2>2. made.buffer = all
    BY <1>1, <1>5 DEF Responses
  <2>3. made.status = e.status /\ made.file = e.file
    BY <1>1, <1>5 DEF Responses
  <2> QED  BY <1>1, <2>1, <2>2, <2>3, Zenon
<1> QED  BY <1>4, <1>6 DEF made

(* The user as JSON.                                                       *)
LEMMA TextIs ==
  ASSUME NEW user \in Texts, NEW keep \in BOOLEAN
  PROVE  LET made == MakeTextResponse(200, Json(user), keep)
         IN  /\ made \in Responses /\ made.status = 200 /\ made.file = NoFile
             /\ made.buffer
                  = <<Status(200), ConnectionHeader(keep), ContentLength(1), Json(user)>>
             /\ Len(made.buffer) = 4
<1> DEFINE r == [InitedResponse EXCEPT !.status = 200, !.keepAlive = keep]
           H == HeaderOf(r, 1)
           all == H \o <<Json(user)>>
           made == MakeTextResponse(200, Json(user), keep)
<1>1. /\ r \in Responses /\ r.status = 200 /\ r.keepAlive = keep /\ r.extra = <<>>
      /\ r.file = NoFile
  <2>1. r \in Responses
    BY InitedTyped, CodesTyped DEF Responses
  <2>2. r.status = 200 /\ r.file = NoFile
    BY DEF InitedResponse
  <2>3. r.keepAlive = keep
    BY DEF InitedResponse
  <2>4. r.extra = <<>>
    BY DEF InitedResponse
  <2> QED  BY <2>1, <2>2, <2>3, <2>4, Zenon
<1> HIDE DEF r
<1>2. /\ Status(200) \in Units /\ ConnectionHeader(keep) \in Units /\ ContentLength(1) \in Units
      /\ Json(user) \in Units
  BY CodesTyped DEF Status, ConnectionHeader, ContentLength, Json, Units, HeaderUnits, Bodies
<1>3. H = <<Status(200), ConnectionHeader(keep), ContentLength(1)>>
  <2>1. H = <<Status(r.status), ConnectionHeader(r.keepAlive), ContentLength(1)>>
    BY <1>1, HeaderIs
  <2> QED  BY <1>1, <2>1, Zenon
<1> HIDE DEF H
<1>4. /\ all = <<Status(200), ConnectionHeader(keep), ContentLength(1), Json(user)>>
      /\ all \in Seq(Units) /\ Len(all) = 4
  <2> DEFINE s1 == Status(200)
             s2 == ConnectionHeader(keep)
             s3 == ContentLength(1)
             s4 == Json(user)
  <2>1. H = <<s1, s2, s3>> /\ s1 \in Units /\ s2 \in Units /\ s3 \in Units /\ s4 \in Units
    BY <1>2, <1>3
  <2>2. all = H \o <<s4>>
    OBVIOUS
  <2> HIDE DEF s1, s2, s3, s4, all
  <2>3. /\ all = <<s1, s2, s3, s4>>
        /\ <<s1, s2, s3, s4>> \in Seq(Units) /\ Len(<<s1, s2, s3, s4>>) = 4
    BY <2>1, <2>2, FourUnits
  <2> QED  BY <2>3 DEF s1, s2, s3, s4
<1>5. made = [r EXCEPT !.buffer = all]
  BY DEF MakeTextResponse, r, H
<1> HIDE DEF all, made
<1>6. /\ made \in Responses /\ made.buffer = all /\ made.status = 200 /\ made.file = NoFile
  BY <1>1, <1>4, <1>5 DEF Responses
<1> QED  BY <1>4, <1>6 DEF made

(* An answer that needs no file.                                           *)
LEMMA TextYields ==
  ASSUME NEW c \in Objects, NEW w, IsWorld(w), NEW resp \in Responses,
         resp.status # 200 \/ resp.file = NoFile, Len(resp.buffer) = 4
  PROVE  Yields(Reply(c, resp, TRUE, w), resp.buffer, w.fs)
<1> DEFINE m == Reply(c, resp, TRUE, w)
           d == [c EXCEPT !.response = resp]
           laid == PrepareWrite(d, w.fs)
<1>1. d \in Objects /\ d.response = resp
  BY DEF Objects
<1>2. m.conn = d /\ m.ok
  BY DEF Reply
<1> HIDE DEF d, m
<1>3. Len(resp.buffer) < WriteBufSize /\ w.fs \in {Files} \cup OtherFiles
  BY HttpConnectionAssumption DEF IsWorld
<1>4. laid.ready /\ Whole(laid.conn) = resp.buffer /\ laid.conn.request = d.request
  BY <1>1, <1>3, WholeLaid
<1> QED  BY <1>2, <1>4 DEF Yields, m

(* A page, or no answer where there is no file to map.                     *)
LEMMA FileYields ==
  ASSUME NEW c \in Objects, NEW path \in Paths, NEW w, IsWorld(w),
         ~Handled(c.request.method, path)
  PROVE  Yields(ReplyWithFile(c, path, w), Page(path, c.keepAlive, c.response.extra, w.fs), w.fs)
<1> DEFINE keep == c.keepAlive
           extra == c.response.extra
           fs == w.fs
           size == fs[path].size
           r == Started(path, keep, c.response)
           H == HeaderOf(r, size)
           built == Build(c.response, path, keep, fs)
           q == [c.request EXCEPT !.path = path]
           e == [c EXCEPT !.request = q]
           d == [e EXCEPT !.response = built.resp]
           m == ReplyWithFile(c, path, w)
           laid == PrepareWrite(d, fs)
           answer == Page(path, keep, extra, fs)
<1>1. /\ c.response \in Responses /\ keep \in BOOLEAN /\ fs \in {Files} \cup OtherFiles
      /\ c.request \in Parsers
  BY DEF Objects, IsWorld
<1>2. fs[path].size \in Nat /\ path # NoFile /\ path \in Strings
      /\ fs[path].kind \in {"file", "dir", "missing", "unreadable"}
  BY <1>1, HttpConnectionAssumption DEF FileInfo
<1>3. r \in Responses /\ r.status = 200 /\ r.keepAlive = keep /\ r.extra = extra /\ r.file = path
  <2>1. r \in Responses
    BY <1>1, CodesTyped DEF Started, Responses
  <2>2. r.status = 200 /\ r.extra = extra /\ r.file = path
    BY <1>1 DEF Started, Responses
  <2>3. r.keepAlive = keep
    BY <1>1 DEF Started, Responses
  <2> QED  BY <2>1, <2>2, <2>3
<1>4. built.resp \in Responses
  BY <1>1, FileBuilt
<1>5. q \in Parsers /\ q.method = c.request.method /\ q.path = path
  BY <1>1, <1>2 DEF Parsers
<1>6. [c EXCEPT !.request.path = path] = e
  BY DEF Objects
<1>7. m = Reply(e, built.resp, built.ok, w)
  BY <1>6 DEF ReplyWithFile
<1> HIDE DEF q
<1>8. e \in Objects /\ e.request = q
  BY <1>5 DEF Objects
<1> HIDE DEF e, r, built
<1>9. d \in Objects /\ d.request = q /\ d.response = built.resp
  BY <1>4, <1>8 DEF Objects
<1>10. m.conn = d /\ m.ok = built.ok
  BY <1>7 DEF Reply
<1> HIDE DEF m, d
<1>11. CASE fs[path].kind # "file"
  <2>1. ~built.ok
    <3>1. fs[path].kind \in {"missing", "dir"} \/ fs[path].kind = "unreadable"
      BY <1>2, <1>11
    <3>2. built = [resp |-> MakeErrorResponse(r, 404), ok |-> FALSE]
            \/ built = [resp |-> MakeErrorResponse(r, 403), ok |-> FALSE]
      BY <3>1 DEF Build, built, r
    <3> QED  BY <3>2
  <2>2. ~CanMap(fs[path])
    BY <1>11 DEF CanMap
  <2>3. answer = <<>>
    BY <2>2 DEF Page
  <2>4. Unanswered(d.request, fs)
    BY <1>5, <1>9, <2>2 DEF Unanswered
  <2>5. laid.conn.request = d.request
    <3>1. laid.conn.request = d.request
      BY <1>9 DEF PrepareWrite, HeaderLaid, FileLaid, Objects
    <3> QED  BY <3>1
  <2> QED  BY <1>10, <2>1, <2>3, <2>4, <2>5 DEF Yields, m
<1>12. CASE fs[path].kind = "file"
  <2>1. built = [resp |-> [r EXCEPT !.buffer = H], ok |-> TRUE]
    BY <1>12 DEF Build, built, r
  <2>2. /\ H \in Seq(Units) /\ Len(H) =< 4 /\ Len(H) \in Nat
        /\ H = <<Status(200), ConnectionHeader(keep)>> \o extra \o <<ContentLength(size)>>
    <3>1. /\ HeaderOf(r, size) \in Seq(Units) /\ Len(HeaderOf(r, size)) =< 4
          /\ HeaderOf(r, size) = <<Status(r.status), ConnectionHeader(r.keepAlive)>> \o r.extra
                                   \o <<ContentLength(size)>>
      <4>1. size \in Nat
        BY <1>2
      <4> HIDE DEF size
      <4> QED  BY <1>3, <4>1, HeaderIs, Zenon
    <3>2. H = <<Status(200), ConnectionHeader(keep)>> \o extra \o <<ContentLength(size)>>
      BY <1>3, <3>1, Zenon
    <3> HIDE DEF H
    <3> QED  BY <3>1, <3>2, LenProperties DEF H
  <2> HIDE DEF H
  <2>3. built.ok /\ built.resp = [r EXCEPT !.buffer = H]
    BY <2>1
  <2>4. built.resp.buffer = H /\ built.resp.status = 200 /\ built.resp.file = path
    BY <1>3, <2>3 DEF Responses
  <2>5. Len(d.response.buffer) < WriteBufSize
    BY <1>9, <2>2, <2>4, HttpConnectionAssumption
  <2>6. /\ laid.conn.request = d.request
        /\ CanMap(fs[path]) => laid.ready /\ Whole(laid.conn) = H \o Content(path, size)
        /\ ~CanMap(fs[path]) => ~laid.ready
    <3>1. d.response.status = 200 /\ d.response.file = path /\ d.response.buffer = H
      BY <1>9, <2>4
    <3> HIDE DEF fs, size
    <3>2. /\ laid.conn.request = d.request
          /\ CanMap(fs[path]) => laid.ready /\ Whole(laid.conn) = H \o Content(path, fs[path].size)
          /\ ~CanMap(fs[path]) => ~laid.ready
      BY <1>1, <1>9, <2>5, <3>1, WholeLaid
    <3> QED  BY <3>2 DEF size
  <2> HIDE DEF laid
  <2>7. CASE CanMap(fs[path])
    <3>1. answer = H \o Content(path, size)
      BY <2>2, <2>7 DEF Page
    <3> QED  BY <1>10, <2>3, <2>6, <2>7, <3>1 DEF Yields, m, laid
  <2>8. CASE ~CanMap(fs[path])
    <3>1. answer = <<>>
      BY <2>8 DEF Page
    <3>2. Unanswered(d.request, fs)
      BY <1>5, <1>9, <2>8 DEF Unanswered
    <3> QED  BY <1>10, <2>6, <2>8, <3>1, <3>2 DEF Yields, m, laid
  <2> QED  BY <2>7, <2>8
<1> QED  BY <1>11, <1>12

(* An object that process() has cleared and that has parsed request a.     *)
Ready(c, a) ==
  /\ c \in Objects /\ c.response = InitedResponse /\ c.keepAlive = a.keep
  /\ Parsing(c.request, c.readBuf) /\ Knows(c.request, c.readBuf, a)
  /\ c.request.post = ParseBody(c.request, c.readBuf).post

(* The page of error 500, where the database fails.                        *)
LEMMA ErrorYields ==
  ASSUME NEW c \in Objects, c.response = InitedResponse, NEW w, IsWorld(w)
  PROVE  Yields(ServerError(c, w),
                <<Status(500), ConnectionHeader(FALSE), ContentLength(1), ErrorPage(500)>>, w.fs)
<1> DEFINE resp == MakeErrorResponse(InitedResponse, 500)
<1>1. ServerError(c, w) = Reply(c, resp, TRUE, w)
  BY DEF ServerError
<1>2. /\ resp \in Responses /\ resp.status = 500
      /\ resp.buffer = <<Status(500), ConnectionHeader(FALSE), ContentLength(1), ErrorPage(500)>>
      /\ Len(resp.buffer) = 4
  BY ServerErrorIs
<1> HIDE DEF resp
<1>3. Yields(Reply(c, resp, TRUE, w), resp.buffer, w.fs)
  <2>1. resp.status # 200 \/ resp.file = NoFile
    BY <1>2
  <2>2. resp \in Responses /\ Len(resp.buffer) = 4
    BY <1>2
  <2> QED  BY <2>1, <2>2, TextYields
<1> QED  BY <1>1, <1>2, <1>3

(* A login is answered with the front page and a cookie, or with the       *)
(* login page.                                                             *)
LEMMA LoginAnswered ==
  ASSUME NEW a \in Asks, Plain(a), Understood(a), a.method = "POST", a.path = "/login",
         NEW c, Ready(c, a), NEW w, IsWorld(w), NEW dbFails \in BOOLEAN
  PROVE  Yields(HandleLogin(c, w, dbFails), Answer(a, w, dbFails), w.fs)
<1> DEFINE name == NamedIn(a)
           cookie == <<SetCookie(Len(w.sessions) + 1)>>
           d == [c EXCEPT !.pending = cookie, !.response = SetExtraHeaders(@, cookie)]
           v == [w EXCEPT !.sessions = Append(@, name)]
           answer == Answer(a, w, dbFails)
<1>1. /\ c \in Objects /\ c.response = InitedResponse /\ c.keepAlive = a.keep
      /\ c.request \in Parsers /\ c.request.method = "POST"
  BY DEF Ready, Knows, Parsing
<1>2. Credentials(c)[1] = name /\ Credentials(c)[2] = PasswordIn(a)
  BY FormTaken DEF Ready, Credentials, Objects
<1>3. ~CutsStatement(name)
  BY NothingCut
<1>4. OnDatabase(a) /\ ~AsksWho(a)
  BY DEF OnDatabase, AsksWho
<1>5. CASE dbFails
  <2>1. HandleLogin(c, w, dbFails) = ServerError(c, w)
    BY <1>5 DEF HandleLogin
  <2>2. answer = <<Status(500), ConnectionHeader(FALSE), ContentLength(1), ErrorPage(500)>>
    BY <1>4, <1>5 DEF Answer
  <2> QED  BY <1>1, <2>1, <2>2, ErrorYields
<1>6. CASE ~dbFails /\ ~IsUser(name, PasswordIn(a), w.users)
  <2>1. HandleLogin(c, w, dbFails) = ReplyWithFile(c, "/login.html", w)
    BY <1>2, <1>3, <1>6 DEF HandleLogin
  <2>2. answer = Page("/login.html", a.keep, <<>>, w.fs)
    BY <1>4, <1>6 DEF Answer, LoginAnswer
  <2> DEFINE path == "/login.html"
  <2>3. path \in Paths /\ ~Handled(c.request.method, path) /\ c.response.extra = <<>>
    BY <1>1, HttpConnectionAssumption DEF Handled, InitedResponse
  <2> HIDE DEF path
  <2>4. Yields(ReplyWithFile(c, path, w), Page(path, c.keepAlive, c.response.extra, w.fs), w.fs)
    BY <1>1, <2>3, FileYields
  <2> QED  BY <1>1, <2>1, <2>2, <2>3, <2>4, Zenon DEF path
<1>7. CASE ~dbFails /\ IsUser(name, PasswordIn(a), w.users)
  <2>1. HandleLogin(c, w, dbFails) = ReplyWithFile(d, "/index.html", v)
    BY <1>2, <1>3, <1>7 DEF HandleLogin
  <2>2. answer = Page("/index.html", a.keep, cookie, w.fs)
    BY <1>4, <1>7 DEF Answer, LoginAnswer
  <2> DEFINE path == "/index.html"
             resp == SetExtraHeaders(c.response, cookie)
  <2>3. cookie \in Extras
    <3>1. Len(w.sessions) + 1 \in Nat
      BY DEF IsWorld
    <3>2. SetCookie(Len(w.sessions) + 1) \in CookieUnits
      BY <3>1 DEF SetCookie, CookieUnits
    <3> QED  BY <3>2 DEF Extras
  <2> HIDE DEF cookie
  <2>4. resp \in Responses /\ resp.extra = cookie
    BY <1>1, <2>3, InitedTyped DEF SetExtraHeaders, Responses
  <2>5. d = [[c EXCEPT !.pending = cookie] EXCEPT !.response = resp]
    BY <1>1 DEF Objects
  <2> HIDE DEF resp
  <2>6. /\ d \in Objects /\ d.request = c.request /\ d.response = resp
        /\ d.keepAlive = c.keepAlive
    <3>1. d \in Objects
      BY <1>1, <2>3, <2>4, <2>5 DEF Objects
    <3>2. d.request = c.request /\ d.response = resp
      BY <1>1, <2>5 DEF Objects
    <3>3. d.keepAlive = c.keepAlive
      BY <1>1, <2>5 DEF Objects
    <3> QED  BY <3>1, <3>2, <3>3
  <2>7. IsWorld(v) /\ v.fs = w.fs
    <3>1. name \in Texts
      <4>1. GetPost(c.request, "username") = name
        BY <1>2 DEF Credentials
      <4> QED  BY <1>1, <4>1, PostTyped
    <3>2. w.sessions \in Seq(Texts) /\ Append(w.sessions, name) \in Seq(Texts)
      BY <3>1, AppendProperties DEF IsWorld
    <3> HIDE DEF name
    <3>3. /\ v.users = w.users /\ v.fs = w.fs
          /\ v \in [users : {w.users}, sessions : Seq(Texts), fs : {Files} \cup OtherFiles]
      BY <3>2 DEF IsWorld
    <3> HIDE DEF v
    <3> QED  BY <3>3 DEF IsWorld
  <2> HIDE DEF d, v
  <2>8. path \in Paths /\ ~Handled(d.request.method, path)
    BY <1>1, <2>6, HttpConnectionAssumption DEF Handled
  <2> HIDE DEF path
  <2>9. Yields(ReplyWithFile(d, path, v), Page(path, d.keepAlive, d.response.extra, v.fs), v.fs)
    BY <2>6, <2>7, <2>8, FileYields
  <2>10. d.response.extra = cookie /\ d.keepAlive = a.keep
    BY <1>1, <2>4, <2>6, Zenon
  <2> QED  BY <2>1, <2>2, <2>7, <2>9, <2>10, Zenon DEF path
<1> QED  BY <1>5, <1>6, <1>7

(* A registration is answered with one of two pages.                       *)
LEMMA RegistrationAnswered ==
  ASSUME NEW a \in Asks, Plain(a), Understood(a), a.method = "POST", a.path = "/register",
         NEW c, Ready(c, a), NEW w, IsWorld(w), NEW dbFails \in BOOLEAN
  PROVE  Yields(HandleRegister(c, w, dbFails), Answer(a, w, dbFails), w.fs)
<1> DEFINE name == NamedIn(a)
           v == [w EXCEPT !.users = WithUser(@, name, PasswordIn(a))]
           answer == Answer(a, w, dbFails)
<1>1. /\ c \in Objects /\ c.response = InitedResponse /\ c.keepAlive = a.keep
      /\ c.request \in Parsers /\ c.request.method = "POST"
  BY DEF Ready, Knows, Parsing
<1>2. Credentials(c)[1] = name /\ Credentials(c)[2] = PasswordIn(a)
  BY FormTaken DEF Ready, Credentials, Objects
<1>3. ~CutsStatement(name) /\ ~CutsStatement(PasswordIn(a))
  BY NothingCut
<1>4. OnDatabase(a) /\ ~AsksWho(a) /\ a.path # "/login"
  BY DEF OnDatabase, AsksWho
<1>5. /\ "/register.html" \in Paths /\ "/login.html" \in Paths
      /\ ~Handled(c.request.method, "/register.html") /\ ~Handled(c.request.method, "/login.html")
      /\ c.response.extra = <<>>
  BY <1>1, HttpConnectionAssumption DEF Handled, InitedResponse
<1>6. CASE dbFails
  <2>1. HandleRegister(c, w, dbFails) = ServerError(c, w)
    BY <1>6 DEF HandleRegister
  <2>2. answer = <<Status(500), ConnectionHeader(FALSE), ContentLength(1), ErrorPage(500)>>
    BY <1>4, <1>6 DEF Answer
  <2> QED  BY <1>1, <2>1, <2>2, ErrorYields
<1>7. CASE ~dbFails /\ name \in DOMAIN w.users
  <2>1. HandleRegister(c, w, dbFails) = ReplyWithFile(c, "/register.html", w)
    BY <1>2, <1>3, <1>7 DEF HandleRegister
  <2>2. answer = Page("/register.html", a.keep, <<>>, w.fs)
    BY <1>4, <1>7 DEF Answer, RegisterAnswer
  <2> DEFINE path == "/register.html"
  <2>3. path \in Paths /\ ~Handled(c.request.method, path)
    BY <1>5
  <2> HIDE DEF path
  <2>4. Yields(ReplyWithFile(c, path, w), Page(path, c.keepAlive, c.response.extra, w.fs), w.fs)
    BY <1>1, <2>3, FileYields
  <2> QED  BY <1>1, <1>5, <2>1, <2>2, <2>4, Zenon DEF path
<1>8. CASE ~dbFails /\ name \notin DOMAIN w.users
  <2>1. HandleRegister(c, w, dbFails) = ReplyWithFile(c, "/login.html", v)
    BY <1>2, <1>3, <1>8 DEF HandleRegister
  <2>2. answer = Page("/login.html", a.keep, <<>>, w.fs)
    BY <1>4, <1>8 DEF Answer, RegisterAnswer
  <2>3. IsWorld(v) /\ v.fs = w.fs
    <3>1. name \in Texts /\ PasswordIn(a) \in Texts
      <4>1. GetPost(c.request, "username") = name /\ GetPost(c.request, "password") = PasswordIn(a)
        BY <1>2 DEF Credentials
      <4> QED  BY <1>1, <4>1, PostTyped
    <3> DEFINE password == PasswordIn(a)
               users == WithUser(w.users, name, password)
    <3> HIDE DEF name, password
    <3>2. DOMAIN users \subseteq Texts /\ users \in [DOMAIN users -> Texts]
      <4>1. DOMAIN w.users \subseteq Texts /\ w.users \in [DOMAIN w.users -> Texts]
        BY DEF IsWorld
      <4>2. name \in Texts /\ password \in Texts
        BY <3>1 DEF password
      <4> QED  BY <4>1, <4>2 DEF WithUser
    <3>3. v = [w EXCEPT !.users = users]
      BY DEF IsWorld, password
    <3> HIDE DEF users, v
    <3>4. /\ v.users = users /\ v.fs = w.fs
          /\ v \in [users : {users}, sessions : Seq(Texts), fs : {Files} \cup OtherFiles]
      BY <3>3 DEF IsWorld
    <3> QED  BY <3>2, <3>4 DEF IsWorld
  <2> DEFINE path == "/login.html"
  <2>4. path \in Paths /\ ~Handled(c.request.method, path)
    BY <1>5
  <2> HIDE DEF path, v
  <2>5. Yields(ReplyWithFile(c, path, v), Page(path, c.keepAlive, c.response.extra, v.fs), v.fs)
    BY <1>1, <2>3, <2>4, FileYields
  <2> QED  BY <1>1, <1>5, <2>1, <2>2, <2>3, <2>5, Zenon DEF path
<1> QED  BY <1>6, <1>7, <1>8

(* A question who is logged in is answered with the session's user.        *)
LEMMA WhoAmIAnswered ==
  ASSUME NEW a \in Asks, Plain(a), Understood(a), a.method = "GET", a.path = "/whoami",
         NEW c, Ready(c, a), NEW w, IsWorld(w), NEW dbFails \in BOOLEAN
  PROVE  Yields(HandleWhoAmI(c, w), Answer(a, w, dbFails), w.fs)
<1> DEFINE id == GetCookieValue(GetHeader(c.request, "Cookie", <<>>))
           user == IF id \in 1..Len(w.sessions) THEN w.sessions[id] ELSE <<>>
           resp == MakeTextResponse(200, Json(user), a.keep)
           answer == Answer(a, w, dbFails)
<1>1. /\ c \in Objects /\ c.keepAlive = a.keep /\ Told(c.request.headers, a)
      /\ a.keep \in BOOLEAN /\ ~OnDatabase(a) /\ AsksWho(a)
  BY DEF Ready, Knows, Asks, OnDatabase, AsksWho
<1>2. user = WhoIs(a, w)
  <2> HIDE DEF id
  <2>1. id = id
    OBVIOUS
  <2> QED  BY <1>1, CookieTaken DEF id
<1>3. user \in Texts
  <2> HIDE DEF id
  <2>1. w.sessions \in Seq(Texts) /\ <<>> \in Texts
    BY DEF IsWorld, Texts
  <2>2. CASE id \in 1..Len(w.sessions)
    BY <2>1, <2>2, ElementOfSeq
  <2>3. CASE id \notin 1..Len(w.sessions)
    BY <2>1, <2>3
  <2> QED  BY <2>2, <2>3
<1>4. HandleWhoAmI(c, w) = Reply(c, resp, TRUE, w)
  BY <1>1 DEF HandleWhoAmI
<1>5. answer = <<Status(200), ConnectionHeader(a.keep), ContentLength(1), Json(user)>>
  <2> HIDE DEF user
  <2> QED  BY <1>1, <1>2 DEF Answer
<1> HIDE DEF user
<1>6. /\ resp \in Responses /\ resp.file = NoFile /\ Len(resp.buffer) = 4
      /\ resp.buffer = <<Status(200), ConnectionHeader(a.keep), ContentLength(1), Json(user)>>
  BY <1>1, <1>3, TextIs
<1> HIDE DEF resp, answer
<1>7. Yields(Reply(c, resp, TRUE, w), resp.buffer, w.fs)
  <2>1. resp.status # 200 \/ resp.file = NoFile
    BY <1>6
  <2> QED  BY <1>1, <1>6, <2>1, TextYields
<1> QED  BY <1>4, <1>5, <1>6, <1>7, Zenon DEF answer

(* Every other request is answered with the page it names.                 *)
LEMMA PageAnswered ==
  ASSUME NEW a \in Asks, Understood(a), ~OnDatabase(a), ~AsksWho(a),
         NEW c, Ready(c, a), NEW w, IsWorld(w), NEW dbFails \in BOOLEAN
  PROVE  Yields(ReplyWithFile(c, c.request.path, w), Answer(a, w, dbFails), w.fs)
<1> DEFINE path == Served(a.path)
<1>1. /\ c \in Objects /\ c.keepAlive = a.keep /\ c.response.extra = <<>>
      /\ c.request.path = path /\ c.request.method = a.method
  <2>1. c.response.extra = <<>>
    BY DEF Ready, InitedResponse
  <2> QED  BY <2>1 DEF Ready, Knows
<1>2. path \in Paths
  BY HttpConnectionAssumption DEF Asks, Served
<1>3. ~Handled(c.request.method, path)
  BY <1>1 DEF Handled, Served, OnDatabase, AsksWho
<1>4. Answer(a, w, dbFails) = Page(path, a.keep, <<>>, w.fs)
  BY DEF Answer, Served
<1> HIDE DEF path
<1>5. Yields(ReplyWithFile(c, path, w), Page(path, c.keepAlive, c.response.extra, w.fs), w.fs)
  BY <1>1, <1>2, <1>3, FileYields
<1> QED  BY <1>1, <1>4, <1>5, Zenon

(* makeResponse() gives a request that was taken as it was meant the       *)
(* answer it asks for.                                                     *)
LEMMA AnswerMade ==
  ASSUME NEW a \in Asks, Plain(a), Understood(a), NEW c, Ready(c, a), c.pending = <<>>,
         NEW w, IsWorld(w), NEW dbFails \in BOOLEAN
  PROVE  Yields(MakeResponse(c, w, dbFails), Answer(a, w, dbFails), w.fs)
<1> DEFINE d == [c EXCEPT !.response = SetExtraHeaders(@, c.pending)]
           m == MakeResponse(c, w, dbFails)
           answer == Answer(a, w, dbFails)
<1>1. d = [c EXCEPT !.response = InitedResponse]
  <2> DEFINE r == InitedResponse
  <2>1. r \in Responses /\ r.extra = <<>>
    BY InitedTyped DEF InitedResponse
  <2>2. SetExtraHeaders(r, <<>>) = r
    <3> HIDE DEF r
    <3> QED  BY <2>1 DEF SetExtraHeaders, Responses
  <2> QED  BY <2>2 DEF Ready, Objects
<1>2. /\ d.request = c.request /\ d.readBuf = c.readBuf /\ d.keepAlive = c.keepAlive
      /\ d.response = InitedResponse /\ d \in Objects
  <2>1. d.request = c.request /\ d.readBuf = c.readBuf
    BY <1>1 DEF Ready, Objects
  <2>2. d.response = InitedResponse
    BY <1>1 DEF Ready, Objects
  <2>3. d.keepAlive = c.keepAlive
    BY <1>1 DEF Ready, Objects
  <2>4. d \in Objects
    BY <1>1, InitedTyped DEF Ready, Objects
  <2> QED  BY <2>1, <2>2, <2>3, <2>4
<1> HIDE DEF d
<1>3. Ready(d, a)
  BY <1>2, Zenon DEF Ready
<1>4. d.request.method = a.method /\ d.request.path = Served(a.path)
  BY <1>3 DEF Ready, Knows
<1>5. c.request.method = a.method /\ c.request.path = Served(a.path)
  BY <1>2, <1>4
<1>6. CASE a.method = "GET" /\ a.path = "/whoami"
  <2>1. m = HandleWhoAmI(d, w)
    BY <1>5, <1>6 DEF MakeResponse, Served, d
  <2> HIDE DEF m, answer
  <2>2. Yields(HandleWhoAmI(d, w), answer, w.fs)
    BY <1>3, <1>6, WhoAmIAnswered DEF answer
  <2> QED  BY <2>1, <2>2, Zenon DEF m, answer
<1>7. CASE a.method = "POST" /\ a.path = "/login"
  <2>1. m = HandleLogin(d, w, dbFails)
    BY <1>5, <1>7 DEF MakeResponse, Served, d
  <2> HIDE DEF m, answer
  <2>2. Yields(HandleLogin(d, w, dbFails), answer, w.fs)
    BY <1>3, <1>7, LoginAnswered DEF answer
  <2> QED  BY <2>1, <2>2, Zenon DEF m, answer
<1>8. CASE a.method = "POST" /\ a.path = "/register"
  <2>1. m = HandleRegister(d, w, dbFails)
    BY <1>5, <1>8 DEF MakeResponse, Served, d
  <2> HIDE DEF m, answer
  <2>2. Yields(HandleRegister(d, w, dbFails), answer, w.fs)
    BY <1>3, <1>8, RegistrationAnswered DEF answer
  <2> QED  BY <2>1, <2>2, Zenon DEF m, answer
<1>9. CASE ~OnDatabase(a) /\ ~AsksWho(a)
  <2>1. m = ReplyWithFile(d, d.request.path, w)
    <3>1. ~Handled(c.request.method, c.request.path)
      BY <1>5, <1>9 DEF Handled, Served, OnDatabase, AsksWho
    <3> QED  BY <1>2, <3>1 DEF MakeResponse, Handled, d
  <2> HIDE DEF m, answer
  <2>2. Yields(ReplyWithFile(d, d.request.path, w), answer, w.fs)
    BY <1>3, <1>9, PageAnswered DEF answer
  <2> QED  BY <2>1, <2>2, Zenon DEF m, answer
<1> QED  BY <1>6, <1>7, <1>8, <1>9 DEF OnDatabase, AsksWho
-----------------------------------------------------------------------------
(* What process() leaves: the answer laid out, or no answer to be had.     *)
Answers(p, answer, fs) ==
  /\ p.ready => Whole(p.conn) = answer
  /\ ~p.ready => answer = <<>> /\ Unanswered(p.conn.request, fs)

(* process() on a request that is there to its end, whatever the pieces it *)
(* came in left in the parser.                                             *)
LEMMA RequestAnswered ==
  ASSUME NEW c \in Objects, Parsing(c.request, c.readBuf), c.request.state # "FINISH",
         SameTurn(Parse(c.request, c.readBuf), Parse(NewRequest, c.readBuf)),
         NEW a \in Asks, Plain(a), At(c.readBuf, 0, Wire(a)),
         NEW w, IsWorld(w), NEW dbFails \in BOOLEAN
  PROVE  Answers(Process(c, w, dbFails, w.fs), Answer(a, w, dbFails), w.fs)
<1> DEFINE parsed == Parse(c.request, c.readBuf)
           d == [Cleared(c) EXCEPT !.request = parsed.req]
           failed == [d EXCEPT !.keepAlive = FALSE]
           keep == IsKeepAlive(parsed.req)
           asked == [d EXCEPT !.keepAlive = keep]
           made == MakeResponse(asked, w, dbFails)
           laid == PrepareWrite(made.conn, w.fs)
           p == Process(c, w, dbFails, w.fs)
           answer == Answer(a, w, dbFails)
<1>1. c.readBuf \in Seq(Tokens)
  BY DEF Objects
<1>2. /\ ~Understood(a) => parsed.result = "ERROR"
      /\ Understood(a) => parsed.result = "SUCCESS" /\ Knows(parsed.req, c.readBuf, a)
  <2> DEFINE whole == Parse(NewRequest, c.readBuf)
  <2>1. /\ ~Understood(a) => whole.result = "ERROR"
        /\ Understood(a) => whole.result = "SUCCESS" /\ Knows(whole.req, c.readBuf, a)
    BY <1>1, RequestParsed
  <2> HIDE DEF whole, parsed
  <2>2. SameTurn(parsed, whole)
    BY DEF parsed, whole
  <2> QED  BY <2>1, <2>2 DEF SameTurn, Alike, Knows
<1>3. Parsing(parsed.req, c.readBuf)
  BY <1>1, InputParsed
<1>4. /\ d \in Objects /\ Blank(d) /\ d.request = parsed.req /\ d.response = InitedResponse
      /\ d.readBuf = c.readBuf
  <2>1. parsed.req \in Parsers
    BY <1>3 DEF Parsing
  <2> HIDE DEF parsed
  <2> QED  BY <2>1, ClearedForParse
<1>5. d.pending = <<>>
  <2>1. Cleared(c) \in Objects /\ Cleared(c).pending = <<>>
    <3>1. /\ Unmapped \in [path : Paths \cup {NoFile}, size : Nat] /\ <<>> \in Extras
          /\ <<>> \in Seq(Units) /\ 0 \in 0..2 /\ 0 \in Nat
      BY EmptySeq DEF Unmapped, Extras
    <3>2. Cleared(c) \in Objects
      BY <3>1, InitedTyped DEF Cleared, UnmapFile, Objects
    <3>3. Cleared(c).pending = <<>>
      BY DEF Cleared, UnmapFile, Objects
    <3> QED  BY <3>2, <3>3
  <2> QED  BY <2>1 DEF Objects
<1>6. CASE ~Understood(a)
  <2>1. parsed.result = "ERROR"
    BY <1>2, <1>6
  <2>2. p = [conn |-> PrepareErrorResponse(failed), ready |-> TRUE, world |-> w]
    BY <2>1 DEF Process
  <2> HIDE DEF d, parsed
  <2>3. failed \in Objects
    BY <1>4 DEF Objects
  <2>4. ~failed.keepAlive
    BY <1>4 DEF Objects
  <2>5. Blank(failed)
    BY <1>4 DEF Blank, Objects
  <2> HIDE DEF failed
  <2> DEFINE bad == PrepareErrorResponse(failed)
             page == <<BadRequestPage>>
  <2>6. bad.writeBuf = page
    BY <2>3, <2>4, <2>5, BadRequestPrepared
  <2>7. bad.iovCnt = 1
    BY <2>3 DEF PrepareErrorResponse, Objects
  <2>8. page \in Seq({BadRequestPage})
    OBVIOUS
  <2> HIDE DEF p, bad, page
  <2>9. p.conn = bad /\ p.ready = TRUE
    BY <2>2 DEF bad
  <2>10. Whole(bad) = page
    <3>1. Whole(bad) = page \o <<>>
      BY <2>6, <2>7 DEF Whole
    <3> QED  BY <2>8, <3>1
  <2>11. answer = page
    BY <1>6 DEF Answer, page
  <2> QED  BY <2>9, <2>10, <2>11 DEF Answers, p
<1>7. CASE Understood(a)
  <2>1. parsed.result = "SUCCESS" /\ Knows(parsed.req, c.readBuf, a)
    BY <1>2, <1>7
  <2>2. p = IF made.ok THEN [conn |-> laid.conn, ready |-> laid.ready, world |-> made.world]
            ELSE [conn |-> made.conn, ready |-> FALSE, world |-> made.world]
    BY <2>1 DEF Process
  <2>3. parsed.req.post = ParseBody(parsed.req, c.readBuf).post
    BY <1>1, <2>1, PostAtEnd
  <2>4. keep = a.keep /\ a.keep \in BOOLEAN
    <3>1. Told(parsed.req.headers, a)
      BY <2>1 DEF Knows
    <3> HIDE DEF parsed
    <3> QED  BY <3>1, KeepTaken DEF Asks
  <2> HIDE DEF keep, d, parsed
  <2>5. /\ asked \in Objects /\ asked.request = parsed.req /\ asked.readBuf = c.readBuf
        /\ asked.response = InitedResponse /\ asked.pending = <<>>
    <3>1. asked \in Objects
      BY <1>4, <2>4 DEF Objects
    <3>2. asked.request = parsed.req /\ asked.readBuf = c.readBuf
      BY <1>4 DEF Objects
    <3>3. asked.response = InitedResponse /\ asked.pending = <<>>
      BY <1>4, <1>5 DEF Objects
    <3> QED  BY <3>1, <3>2, <3>3
  <2>6. asked.keepAlive = keep
    BY <1>4 DEF Objects
  <2> HIDE DEF asked
  <2>7. Ready(asked, a)
    BY <1>3, <2>1, <2>3, <2>4, <2>5, <2>6 DEF Ready
  <2> HIDE DEF made, answer, p, laid
  <2>8. Yields(made, answer, w.fs)
    BY <1>7, <2>5, <2>7, AnswerMade DEF made, answer
  <2>9. /\ made.ok /\ laid.ready => Whole(laid.conn) = answer
        /\ ~(made.ok /\ laid.ready) => answer = <<>> /\ Unanswered(made.conn.request, w.fs)
        /\ laid.conn.request = made.conn.request
    BY <2>8 DEF Yields, laid
  <2>10. CASE made.ok
    <3>1. p = [conn |-> laid.conn, ready |-> laid.ready, world |-> made.world]
      BY <2>2, <2>10
    <3>2. p.conn = laid.conn /\ p.ready = laid.ready
      BY <3>1
    <3> QED  BY <2>9, <2>10, <3>2 DEF Answers, p, answer
  <2>11. CASE ~made.ok
    <3>1. p = [conn |-> made.conn, ready |-> FALSE, world |-> made.world]
      BY <2>2, <2>11
    <3>2. p.conn = made.conn /\ ~p.ready
      BY <3>1
    <3> QED  BY <2>9, <2>11, <3>2 DEF Answers, p, answer
  <2> QED  BY <2>10, <2>11
<1> QED  BY <1>6, <1>7

(* A request that found no answer finds none when it is asked again.       *)
LEMMA StillUnanswered ==
  ASSUME NEW c \in Objects, Parsing(c.request, c.readBuf), c.request.state = "FINISH",
         NEW w, IsWorld(w), Unanswered(c.request, w.fs), NEW dbFails
  PROVE  Answers(Process(c, w, dbFails, w.fs), <<>>, w.fs)
<1> DEFINE parsed == Parse(c.request, c.readBuf)
           d == [Cleared(c) EXCEPT !.request = parsed.req]
           keep == IsKeepAlive(parsed.req)
           asked == [d EXCEPT !.keepAlive = keep]
           made == MakeResponse(asked, w, dbFails)
           laid == PrepareWrite(made.conn, w.fs)
           p == Process(c, w, dbFails, w.fs)
           path == c.request.path
<1>1. c.readBuf \in Seq(Tokens) /\ c.request \in Parsers
  BY DEF Objects
<1>2. /\ path \in Paths /\ ~Handled(c.request.method, path) /\ ~CanMap(w.fs[path])
  BY DEF Unanswered
<1>3. CASE c.readBuf = <<>>
  <2>1. parsed = [req |-> c.request, result |-> "INCOMPLETE"]
    BY <1>1, <1>3, ParseUnrolled
  <2>2. parsed.result = "INCOMPLETE" /\ parsed.req = c.request
    BY <2>1
  <2>3. p = [conn |-> d, ready |-> FALSE, world |-> w]
    BY <2>2 DEF Process
  <2> HIDE DEF parsed
  <2>4. d.request = parsed.req
    BY <1>1, <2>2, ClearedForParse
  <2> HIDE DEF p, d
  <2>5. p.conn = d /\ ~p.ready
    BY <2>3
  <2> QED  BY <2>2, <2>4, <2>5 DEF Answers, p
<1>4. CASE c.readBuf # <<>>
  <2> DEFINE r == AtEnd(c.request)
  <2>1. parsed = [req |-> r, result |-> "SUCCESS"]
    BY <1>1, <1>4, EndStays
  <2>2. parsed.result = "SUCCESS" /\ parsed.req = r
    BY <2>1
  <2>3. r.method = c.request.method /\ r.path = path
    BY <1>1, FinishTurn
  <2>4. Parsing(r, c.readBuf)
    BY <1>1, <2>2, InputParsed
  <2>5. p = IF made.ok THEN [conn |-> laid.conn, ready |-> laid.ready, world |-> made.world]
            ELSE [conn |-> made.conn, ready |-> FALSE, world |-> made.world]
    BY <2>2 DEF Process
  <2> HIDE DEF r, parsed
  <2>6. d \in Objects /\ d.request = r
    BY <2>2, <2>4, ClearedForParse DEF Parsing
  <2>7. keep \in BOOLEAN
    BY DEF IsKeepAlive
  <2> HIDE DEF keep, d
  <2>8. asked \in Objects /\ asked.request = r
    BY <2>6, <2>7 DEF Objects
  <2> HIDE DEF asked
  <2> DEFINE resp == SetExtraHeaders(asked.response, asked.pending)
             e == [asked EXCEPT !.response = resp]
             extra == e.response.extra
  <2>9. e \in Objects /\ e.request = r
    <3>1. resp \in Responses
      BY <2>8 DEF SetExtraHeaders, Responses, Objects
    <3> HIDE DEF resp
    <3> QED  BY <2>8, <3>1 DEF Objects
  <2>10. e = [asked EXCEPT !.response = SetExtraHeaders(@, asked.pending)]
    BY <2>8 DEF Objects
  <2>11. made = ReplyWithFile(e, path, w)
    <3>1. ~Handled(asked.request.method, asked.request.path) /\ asked.request.path = path
      BY <1>2, <2>3, <2>8
    <3> HIDE DEF e
    <3> QED  BY <2>10, <3>1 DEF MakeResponse, Handled, made
  <2> HIDE DEF e, made, p, path, laid
  <2>12. ~Handled(e.request.method, path)
    BY <1>2, <2>3, <2>9
  <2>13. Yields(ReplyWithFile(e, path, w), Page(path, e.keepAlive, e.response.extra, w.fs), w.fs)
    BY <1>2, <2>9, <2>12, FileYields
  <2>14. Page(path, e.keepAlive, e.response.extra, w.fs) = <<>>
    BY <1>2 DEF Page
  <2>15. Yields(made, <<>>, w.fs)
    BY <2>11, <2>13, <2>14
  <2>16. /\ made.ok /\ laid.ready => Whole(laid.conn) = <<>>
         /\ ~(made.ok /\ laid.ready) => Unanswered(made.conn.request, w.fs)
         /\ laid.conn.request = made.conn.request
    BY <2>15 DEF Yields, laid
  <2>17. CASE made.ok
    <3>1. p = [conn |-> laid.conn, ready |-> laid.ready, world |-> made.world]
      BY <2>5, <2>17
    <3>2. p.conn = laid.conn /\ p.ready = laid.ready
      BY <3>1
    <3> QED  BY <2>16, <2>17, <3>2 DEF Answers, p
  <2>18. CASE ~made.ok
    <3>1. p = [conn |-> made.conn, ready |-> FALSE, world |-> made.world]
      BY <2>5, <2>18
    <3>2. p.conn = made.conn /\ ~p.ready
      BY <3>1
    <3> QED  BY <2>16, <2>18, <3>2 DEF Answers, p
  <2> QED  BY <2>17, <2>18
<1> QED  BY <1>3, <1>4

(* There is something of every request on the wire.                        *)
LEMMA WireSaysSomething ==
  ASSUME NEW a \in Asks
  PROVE  Len(Wire(a)) \in Nat \ {0}
<1> DEFINE wire == Wire(a)
           nothing == <<>>
<1>1. wire \in Seq(Tokens) /\ nothing \in Seq(Tokens) /\ Len(nothing) = 0
  BY WireTyped
<1>2. Parse(NewRequest, nothing).result = "INCOMPLETE"
  BY <1>1, RequestTyped, InputParsed
<1>3. ~At(nothing, 0, wire)
  <2> HIDE DEF nothing, wire
  <2>1. At(nothing, 0, Wire(a)) => Parse(NewRequest, nothing).result \in {"ERROR", "SUCCESS"}
    BY <1>1, RequestParsed
  <2> QED  BY <1>2, <2>1 DEF wire
<1> HIDE DEF nothing, wire
<1>4. Len(wire) # 0
  BY <1>1, <1>3 DEF At
<1> QED  BY <1>1, <1>4, LenProperties DEF wire

(* Where a request lies in what its client sends.                          *)
LEMMA RequestLies ==
  ASSUME NEW s \in Seq(Asks), NEW k \in 1..Len(s)
  PROVE  LET start == Len(WireOf(SubSeq(s, 1, k - 1)))
         IN  \A i \in 1..Len(Wire(s[k])) : WireOf(s)[start + i] = Wire(s[k])[i]
<1> DEFINE ss == [j \in 1..Len(s) |-> Wire(s[j])]
           front == SubSeq(s, 1, k - 1)
           before == [j \in 1..Len(front) |-> Wire(front[j])]
<1>1. Len(s) \in Nat /\ \A j \in 1..Len(s) : Wire(s[j]) \in Seq(Tokens)
  BY ElementOfSeq, WireTyped
<1>2. ss \in Seq(Seq(Tokens)) /\ Len(ss) = Len(s) /\ \A j \in 1..Len(s) : ss[j] = Wire(s[j])
  BY <1>1
<1>3. Len(front) = k - 1 /\ \A j \in 1..(k - 1) : front[j] = s[j]
  <2>1. Len(s) \in Nat /\ k \in Nat /\ k - 1 \in Nat /\ k - 1 =< Len(s)
    BY <1>1
  <2> QED  BY <2>1
<1>4. before = SubSeq(ss, 1, k - 1)
  <2> DEFINE part == SubSeq(ss, 1, k - 1)
  <2>1. part = [j \in 1..(k - 1) |-> ss[j]]
    BY <1>1, <1>2
  <2>2. before = [j \in 1..(k - 1) |-> Wire(front[j])]
    BY <1>3
  <2>3. \A j \in 1..(k - 1) : Wire(front[j]) = ss[j]
    BY <1>1, <1>2, <1>3
  <2> HIDE DEF part, before, ss, front
  <2> QED  BY <2>1, <2>2, <2>3 DEF part
<1>5. WireOf(s) = FlattenSeq(ss) /\ WireOf(front) = FlattenSeq(before)
  BY DEF WireOf
<1> HIDE DEF ss, before, front
<1>6. PICK at : PartsAt(at, ss)
  BY <1>2, FlattenParts
<1>7. at[k] = Len(FlattenSeq(SubSeq(ss, 1, k - 1)))
      /\ \A i \in 1..Len(ss[k]) : FlattenSeq(ss)[at[k] + i] = ss[k][i]
  BY <1>1, <1>2, <1>6 DEF PartsAt
<1> QED  BY <1>2, <1>4, <1>5, <1>7 DEF front
-----------------------------------------------------------------------------
(* The buffer holds what came on the wire since the last response.         *)
Buffered ==
  /\ hist.base =< taken /\ Len(conn.readBuf) = taken - hist.base
  /\ hist.whole =< Len(conn.readBuf)
  /\ \A i \in 1..Len(conn.readBuf) : conn.readBuf[i] = WireOf(stream)[hist.base + i]

(* How a request stands that the buffer starts with, and that the parser   *)
(* has seen all of: with this answer laid out, or with none to be had.     *)
Stands(answer) ==
  /\ pc \in {"reading", "queued"} => answer = <<>> /\ Unanswered(conn.request, world.fs)
  /\ pc = "writing" => Whole(conn) = answer
  /\ pc = "done" => out = answer

Answering ==
  \A k \in 1..Len(stream) :
    Serves(k) /\ Plain(stream[k]) /\ ~hist.raced
      => Stands(Answer(stream[k], hist.before, hist.failed))

(* A step that reads nothing.                                              *)
LEMMA BufferKept ==
  ASSUME TypeOK, Buffered, conn'.readBuf = conn.readBuf, UNCHANGED <<stream, taken>>,
         hist'.base = hist.base, hist'.whole \in {hist.whole, Len(conn.readBuf)}
  PROVE  Buffered'
<1>1. Len(conn.readBuf) \in Nat
  BY LenProperties DEF TypeOK, Objects
<1> QED  BY <1>1 DEF Buffered

(* Every step keeps it: what read() appends is what comes next.            *)
LEMMA BufferedKept == TypeOK /\ Sending /\ Buffered /\ [Next]_vars => Buffered'
<1> SUFFICES ASSUME TypeOK, Sending, Buffered, [Next]_vars PROVE Buffered'
  OBVIOUS
<1>1. /\ conn \in Objects /\ Len(conn.readBuf) < BufSize /\ conn.readBuf \in Seq(Tokens)
      /\ Parsing(conn.request, conn.readBuf) /\ Len(conn.readBuf) \in Nat
      /\ hist.base \in Nat /\ hist.whole \in Nat /\ taken \in Nat
  <2>1. /\ conn \in Objects /\ Len(conn.readBuf) < BufSize /\ Parsing(conn.request, conn.readBuf)
        /\ hist.base \in Nat /\ hist.whole \in Nat /\ taken \in Nat
    BY StreamTyped DEF TypeOK
  <2>2. conn.readBuf \in Seq(Tokens) /\ Len(conn.readBuf) \in Nat
    BY <2>1, LenProperties DEF Objects
  <2> QED  BY <2>1, <2>2
<1>2. Released(conn).readBuf = conn.readBuf /\ Released(UnmapFile(conn)) = Released(conn)
  BY <1>1, ReleasedTyped
<1>3. ASSUME NEW n \in 0..(Len(WireOf(stream)) - taken), NEW peer \in {"up", "fin", "rst"},
             Read(n, peer)
      PROVE  Buffered'
  <2> DEFINE input == SubSeq(WireOf(stream), taken + 1, taken + n)
             filled == AfterRead(conn, input)
             done == ReadResult(conn, input, peer) = "DONE"
             more == filled.readBuf
             was == Len(conn.readBuf)
  <2>1. /\ UNCHANGED <<stream, hist>> /\ conn' = IF done THEN filled ELSE Released(filled)
        /\ taken' = taken + Len(more) - was
    BY <1>3 DEF Read
  <2>2. filled \in Objects /\ TakesOn(conn.readBuf, more, WireOf(stream), taken)
    <3> DEFINE wire == WireOf(stream)
               from == taken
               c == conn
               d == AfterRead(c, SubSeq(wire, from + 1, from + n))
    <3>1. wire \in Seq(Tokens) /\ from \in 0..Len(wire) /\ n \in 0..(Len(wire) - from)
      BY StreamTyped DEF TypeOK
    <3>2. c \in Objects /\ Len(c.readBuf) < BufSize
      BY <1>1
    <3> HIDE DEF wire, from, c
    <3>3. d \in Objects /\ TakesOn(c.readBuf, d.readBuf, wire, from)
      BY <3>1, <3>2, ReadTaken
    <3> QED  BY <3>3 DEF wire, from, c
  <2> HIDE DEF filled, done
  <2>3. conn'.readBuf = more
    BY <2>1, <2>2, ReleasedTyped
  <2>4. Len(more) \in Nat
    BY <2>2, LenProperties DEF Objects
  <2> HIDE DEF more
  <2>5. /\ was =< Len(more) /\ \A i \in 1..was : more[i] = conn.readBuf[i]
        /\ \A i \in (was + 1)..Len(more) : more[i] = WireOf(stream)[taken + i - was]
    BY <1>1, <2>2 DEF TakesOn, Begins
  <2>6. hist.base =< taken /\ was = taken - hist.base /\ hist.whole =< was
    BY DEF Buffered
  <2> HIDE DEF was
  <2>7. was \in Nat
    BY <1>1 DEF was
  <2>8. \A i \in 1..Len(more) : more[i] = WireOf(stream)[hist.base + i]
    <3> TAKE i \in 1..Len(more)
    <3>1. CASE i =< was
      <4>1. i \in 1..was
        BY <2>4, <2>7, <3>1
      <4> QED  BY <2>5, <4>1 DEF Buffered, was
    <3>2. CASE i > was
      <4>1. i \in (was + 1)..Len(more) /\ taken + i - was = hist.base + i
        BY <1>1, <2>4, <2>6, <2>7, <3>2
      <4> QED  BY <2>5, <4>1
    <3> QED  BY <2>4, <2>7, <3>1, <3>2
  <2>9. /\ hist.base =< taken' /\ Len(more) = taken' - hist.base /\ hist.whole =< Len(more)
    <3> DEFINE m == Len(more)
               next == taken'
               t == taken
               b == hist.base
               h == hist.whole
    <3>1. next = t + m - was /\ m \in Nat /\ was =< m
      BY <2>1, <2>4, <2>5
    <3>2. t \in Nat /\ b \in Nat /\ h \in Nat /\ was \in Nat
      BY <1>1, <2>7
    <3>3. b =< t /\ was = t - b /\ h =< was
      BY <2>6
    <3> HIDE DEF m, next, t, b, h
    <3>4. b =< next /\ m = next - b /\ h =< m
      BY <3>1, <3>2, <3>3
    <3> QED  BY <3>4 DEF m, next, b, h
  <2> QED  BY <2>1, <2>3, <2>8, <2>9 DEF Buffered
<1>4. ASSUME NEW dbFails \in BOOLEAN, NEW fsNow \in {world.fs} \cup OtherFiles,
             Work(dbFails, fsNow)
      PROVE  Buffered'
  <2> DEFINE result == Process(conn, world, dbFails, fsNow)
  <2>1. IsWorld(world) /\ fsNow \in {Files} \cup OtherFiles
    BY DEF TypeOK, IsWorld
  <2>2. result.conn.readBuf = conn.readBuf
    BY <1>1, <2>1, ProcessTyped DEF Processed
  <2>3. conn' = result.conn /\ UNCHANGED <<stream, taken>>
    BY <1>4 DEF Work
  <2>4. hist'.base = hist.base /\ hist'.whole \in {hist.whole, Len(conn.readBuf)}
    BY <1>4 DEF Work, TypeOK
  <2> HIDE DEF result
  <2> QED  BY <2>2, <2>3, <2>4, BufferKept
<1>5. ASSUME NEW n \in 1..conn.toSend, Write(n) PROVE Buffered'
  <2>1. pc = "writing" /\ conn' = Written(conn, n) /\ UNCHANGED <<stream, taken, hist>>
    BY <1>5 DEF Write
  <2>2. Spans(conn)
    BY <2>1 DEF Sending
  <2>3. conn'.readBuf = conn.readBuf
    BY <1>1, <2>1, <2>2, WrittenSpans
  <2> QED  BY <2>1, <2>3, BufferKept
<1>6. CASE WriteFails
  BY <1>2, <1>6, BufferKept DEF WriteFails
<1>7. CASE KeepOpen
  <2>1. /\ conn' = Rewound(conn) /\ UNCHANGED <<stream, taken>>
        /\ hist'.base = taken /\ hist'.whole = 0
    BY <1>7 DEF KeepOpen, TypeOK
  <2>2. conn'.readBuf = <<>> /\ Len(<<>>) = 0
    BY <1>1, <2>1, RewoundTyped
  <2> QED  BY <1>1, <2>1, <2>2 DEF Buffered
<1>8. CASE CloseDone
  BY <1>2, <1>8, BufferKept DEF CloseDone
<1>9. CASE Close
  BY <1>2, <1>9, BufferKept DEF Close
<1>10. CASE Destroy
  BY <1>2, <1>10, BufferKept DEF Destroy
<1>11. CASE UNCHANGED vars
  BY <1>11 DEF Buffered, vars
<1> QED  BY <1>3, <1>4, <1>5, <1>6, <1>7, <1>8, <1>9, <1>10, <1>11 DEF Next

(* A step that leaves the buffer's account, and stands as before.          *)
LEMMA AnsweringStays ==
  ASSUME Answering, UNCHANGED stream, hist'.base = hist.base, hist'.whole = hist.whole,
         hist'.before = hist.before, hist'.failed = hist.failed, ~hist'.raced => ~hist.raced,
         \A answer : Stands(answer) /\ ~hist'.raced => Stands(answer)'
  PROVE  Answering'
<1> SUFFICES ASSUME NEW k \in 1..Len(stream), Serves(k)', Plain(stream[k]), ~hist'.raced
             PROVE  Stands(Answer(stream[k], hist.before, hist.failed))'
  BY DEF Answering
<1>1. Serves(k)
  BY DEF Serves, StartOf
<1>2. Stands(Answer(stream[k], hist.before, hist.failed))
  BY <1>1 DEF Answering
<1> QED  BY <1>2 DEF Stands

(* What a writev() leaves of the response.                                 *)
LEMMA ResponseGoesOn ==
  ASSUME TypeOK, Sending, NEW n \in 1..conn.toSend, Write(n)
  PROVE  /\ pc' \in {"writing", "done"}
         /\ pc' = "writing" => Whole(conn') = Whole(conn)
         /\ pc' = "done" => out' = Whole(conn)
<1> DEFINE rest == Rest(conn)
           now == SubSeq(rest, 1, n)
<1>1. conn \in Objects /\ out \in Seq(Output)
  BY DEF TypeOK, Output
<1>2. /\ pc = "writing" /\ conn' = Written(conn, n) /\ out' = out \o now
      /\ pc' = IF conn'.toSend <= 0 THEN "done" ELSE "writing"
  BY DEF Write
<1>3. Spans(conn) /\ out \o rest = Whole(conn)
  BY <1>2 DEF Sending
<1>4. /\ conn'.writeBuf = conn.writeBuf /\ conn'.iovCnt = conn.iovCnt
      /\ conn'.toSend = conn.toSend - n
      /\ n # conn.toSend => conn'.file = conn.file
  BY <1>1, <1>2, <1>3, WrittenSpans
<1>5. conn.toSend \in Nat /\ n \in Nat /\ n =< conn.toSend
  BY <1>1 DEF Objects
<1>6. rest \in Seq(Output) /\ Len(rest) = conn.toSend
  BY <1>1, <1>3, RestTyped
<1> HIDE DEF rest
<1>7. CASE n = conn.toSend
  <2>1. pc' = "done" /\ now = rest
    BY <1>2, <1>4, <1>5, <1>6, <1>7, SubSeqFull
  <2> QED  BY <1>2, <1>3, <2>1
<1>8. CASE n # conn.toSend
  <2>1. pc' = "writing"
    BY <1>2, <1>4, <1>5, <1>8
  <2>2. Whole(conn') = Whole(conn)
    BY <1>4, <1>8 DEF Whole
  <2> QED  BY <2>1, <2>2
<1> QED  BY <1>7, <1>8

(* A parser that is not at the end goes on to where a new one would come.  *)
LEMMA GoesOnAsNew ==
  ASSUME TypeOK, AsWhole, pc = "queued", conn.request.state # "FINISH"
  PROVE  SameTurn(Parse(conn.request, conn.readBuf), Parse(NewRequest, conn.readBuf))
<1> DEFINE part == SubSeq(conn.readBuf, 1, hist.seen)
           front == Parse(NewRequest, part)
<1>1. /\ conn.readBuf \in Seq(Tokens) /\ Parsing(conn.request, conn.readBuf)
      /\ hist.seen \in 0..Len(conn.readBuf)
  BY LenProperties DEF TypeOK, Objects, AsWhole
<1>2. part \in Seq(Tokens) /\ Begins(part, conn.readBuf)
  BY <1>1, SeenPart
<1>3. /\ SameHeading(conn.request, front.req) /\ front.result \in {"INCOMPLETE", "SUCCESS"}
      /\ front.result = "INCOMPLETE" => conn.request.path = front.req.path
  BY DEF AsWhole, Shown
<1> HIDE DEF part
<1>4. Parsing(NewRequest, part)
  BY <1>2, RequestTyped
<1>5. front.result = "INCOMPLETE"
  <2>1. front.result = "SUCCESS" => front.req.state = "FINISH"
    BY <1>2, <1>4, SuccessLeaves
  <2> HIDE DEF front
  <2> QED  BY <1>3, <2>1 DEF SameHeading
<1>6. Alike(conn.request, front.req)
  BY <1>3, <1>5 DEF SameHeading, Alike
<1> QED  BY <1>1, <1>2, <1>4, <1>5, <1>6, TakenUp

(* A request that the buffer starts with lies there.                       *)
LEMMA ServedLies ==
  ASSUME NEW s \in Seq(Asks), NEW k \in 1..Len(s), NEW buf \in Seq(Tokens), NEW base,
         base = Len(WireOf(SubSeq(s, 1, k - 1))), Len(Wire(s[k])) =< Len(buf),
         \A i \in 1..Len(buf) : buf[i] = WireOf(s)[base + i]
  PROVE  At(buf, 0, Wire(s[k])) /\ s[k] \in Asks
<1> DEFINE wire == Wire(s[k])
<1>1. s[k] \in Asks
  BY ElementOfSeq
<1>2. Len(wire) \in Nat /\ Len(buf) \in Nat
  BY <1>1, WireSaysSomething, LenProperties
<1>3. \A i \in 1..Len(wire) : WireOf(s)[base + i] = wire[i]
  BY RequestLies
<1> HIDE DEF wire
<1>4. Len(wire) =< Len(buf)
  BY DEF wire
<1>5. \A i \in 1..Len(wire) : 0 + i = i /\ i \in 1..Len(buf)
  BY <1>2, <1>4
<1>6. \A i \in 1..Len(wire) : buf[0 + i] = wire[i]
  BY <1>3, <1>5
<1> QED  BY <1>1, <1>2, <1>4, <1>6 DEF At, wire

(* Every step keeps it.  A request that was there to its end is answered   *)
(* by the process() that finds it, or has no answer, and finds none later. *)
LEMMA AnsweringKept ==
  TypeOK /\ Sending /\ AsWhole /\ Buffered /\ Answering /\ [Next]_vars => Answering'
<1> SUFFICES ASSUME TypeOK, Sending, AsWhole, Buffered, Answering, [Next]_vars PROVE Answering'
  OBVIOUS
<1>1. /\ conn \in Objects /\ Len(conn.readBuf) < BufSize /\ conn.readBuf \in Seq(Tokens)
      /\ Parsing(conn.request, conn.readBuf) /\ stream \in Seq(Asks)
      /\ IsWorld(world) /\ hist.raced \in BOOLEAN /\ hist.base \in Nat
  <2>1. /\ conn \in Objects /\ Len(conn.readBuf) < BufSize /\ Parsing(conn.request, conn.readBuf)
        /\ stream \in Seq(Asks) /\ IsWorld(world) /\ hist.raced \in BOOLEAN /\ hist.base \in Nat
    BY HttpConnectionAssumption DEF TypeOK
  <2> QED  BY <2>1 DEF Objects
<1>2. ASSUME UNCHANGED <<stream, hist>>, pc' \in {"closed", "orphaned"} PROVE Answering'
  BY <1>2, AnsweringStays DEF Stands
<1>3. ASSUME NEW n \in 0..(Len(WireOf(stream)) - taken), NEW peer \in {"up", "fin", "rst"},
             Read(n, peer)
      PROVE  Answering'
  <2> DEFINE input == SubSeq(WireOf(stream), taken + 1, taken + n)
             filled == AfterRead(conn, input)
             done == ReadResult(conn, input, peer) = "DONE"
  <2>1. /\ pc = "reading" /\ UNCHANGED <<stream, hist, world>>
        /\ conn' = IF done THEN filled ELSE Released(filled)
        /\ pc' = IF done THEN "queued" ELSE "closed"
    BY <1>3 DEF Read
  <2>2. filled.request = conn.request
    BY <1>1 DEF AfterRead, Objects
  <2> HIDE DEF filled, done
  <2>3. CASE done
    <3>1. conn'.request = conn.request /\ pc' = "queued"
      BY <2>1, <2>2, <2>3
    <3>2. \A answer : Stands(answer) => Stands(answer)'
      BY <2>1, <3>1 DEF Stands
    <3> QED  BY <2>1, <3>2, AnsweringStays
  <2>4. CASE ~done
    BY <1>2, <2>1, <2>4
  <2> QED  BY <2>3, <2>4
<1>4. ASSUME NEW dbFails \in BOOLEAN, NEW fsNow \in {world.fs} \cup OtherFiles,
             Work(dbFails, fsNow)
      PROVE  Answering'
  <2> DEFINE result == Process(conn, world, dbFails, fsNow)
             again == conn.request.state = "FINISH"
  <2>1. /\ pc \in {"queued", "orphaned"} /\ conn' = result.conn /\ UNCHANGED stream
        /\ pc' = CASE pc = "orphaned" -> "dropped"
                   [] pc = "queued" /\ result.ready -> "writing"
                   [] OTHER -> "reading"
        /\ world' = [result.world EXCEPT !.fs = fsNow]
        /\ hist' = [hist EXCEPT !.seen = Len(conn.readBuf),
                                !.whole = IF again THEN @ ELSE Len(conn.readBuf),
                                !.before = IF again THEN @ ELSE world,
                                !.failed = IF again THEN @ ELSE dbFails,
                                !.raced = @ \/ fsNow # world.fs]
    BY <1>4 DEF Work
  <2>2. fsNow \in {Files} \cup OtherFiles
    BY <1>1 DEF IsWorld
  <2>3. Processed(result, conn)
    BY <1>1, <2>2, ProcessTyped
  <2>4. result.ready \in BOOLEAN /\ world'.fs = fsNow
    <3>1. result.ready \in BOOLEAN /\ IsWorld(result.world)
      BY <2>3 DEF Processed
    <3> HIDE DEF result
    <3> QED  BY <2>1, <3>1 DEF IsWorld
  <2>5. /\ hist'.base = hist.base
        /\ again => /\ hist'.whole = hist.whole /\ hist'.before = hist.before
                    /\ hist'.failed = hist.failed
        /\ ~again => /\ hist'.whole = Len(conn.readBuf) /\ hist'.before = world
                     /\ hist'.failed = dbFails
    BY <2>1 DEF TypeOK
  <2>6. ~hist'.raced => ~hist.raced /\ fsNow = world.fs
    BY <2>1 DEF TypeOK
  <2>7. ASSUME NEW answer, Answers(result, answer, world.fs), fsNow = world.fs
        PROVE  Stands(answer)'
    <3> HIDE DEF result
    <3>1. CASE pc = "orphaned"
      BY <2>1, <3>1 DEF Stands
    <3>2. CASE pc = "queued" /\ result.ready = TRUE
      <4>1. pc' = "writing" /\ Whole(conn') = answer
        BY <2>1, <2>7, <3>2 DEF Answers
      <4> QED  BY <4>1 DEF Stands
    <3>3. CASE pc = "queued" /\ result.ready = FALSE
      <4>1. pc' = "reading" /\ answer = <<>> /\ Unanswered(conn'.request, world'.fs)
        BY <2>1, <2>4, <2>7, <3>3 DEF Answers
      <4> QED  BY <4>1 DEF Stands
    <3> QED  BY <2>1, <2>4, <3>1, <3>2, <3>3
  <2>8. CASE again
    <3>1. ASSUME NEW answer, Stands(answer), ~hist'.raced PROVE Stands(answer)'
      <4>1. CASE pc = "orphaned"
        BY <2>1, <4>1 DEF Stands
      <4>2. CASE pc = "queued"
        <5>1. answer = <<>> /\ Unanswered(conn.request, world.fs) /\ fsNow = world.fs
          BY <2>6, <3>1, <4>2 DEF Stands
        <5>2. Answers(result, <<>>, world.fs)
          BY <1>1, <2>8, <5>1, StillUnanswered
        <5> HIDE DEF result
        <5> QED  BY <2>7, <5>1, <5>2
      <4> QED  BY <2>1, <4>1, <4>2
    <3> HIDE DEF again, result
    <3> QED  BY <2>1, <2>5, <2>6, <2>8, <3>1, AnsweringStays
  <2>9. CASE ~again
    <3>1. hist'.before = world /\ hist'.failed = dbFails
      BY <2>5, <2>9
    <3> SUFFICES ASSUME NEW k \in 1..Len(stream), Serves(k)', Plain(stream[k]), ~hist'.raced,
                        NEW answer, answer = Answer(stream[k], world, dbFails)
                 PROVE  Stands(answer)'
      BY <2>1, <3>1 DEF Answering, Stands
    <3> DEFINE a == stream[k]
    <3>2. hist.base = Len(WireOf(SubSeq(stream, 1, k - 1))) /\ Len(Wire(a)) =< Len(conn.readBuf)
      <4>1. hist'.base = StartOf(k)' /\ hist'.whole >= Len(Wire(a))
        BY <2>1 DEF Serves
      <4>2. Len(Wire(a)) \in Nat /\ Len(conn.readBuf) \in Nat
        BY <1>1, WireSaysSomething, ElementOfSeq, LenProperties
      <4> QED  BY <2>1, <2>5, <2>9, <4>1, <4>2 DEF StartOf
    <3>3. At(conn.readBuf, 0, Wire(a)) /\ a \in Asks
      BY <1>1, <3>2, ServedLies DEF Buffered
    <3> HIDE DEF a
    <3>4. Plain(a) /\ answer = Answer(a, world, dbFails) /\ fsNow = world.fs
      BY <2>6 DEF a
    <3>5. CASE pc = "orphaned"
      BY <2>1, <3>5 DEF Stands
    <3>6. CASE pc = "queued"
      <4>1. SameTurn(Parse(conn.request, conn.readBuf), Parse(NewRequest, conn.readBuf))
        BY <2>9, <3>6, GoesOnAsNew
      <4>2. Answers(result, answer, world.fs)
        BY <1>1, <2>9, <3>3, <3>4, <4>1, RequestAnswered
      <4> HIDE DEF result
      <4> QED  BY <2>7, <3>4, <4>2
    <3> QED  BY <2>1, <3>5, <3>6
  <2> QED  BY <2>8, <2>9
<1>5. ASSUME NEW n \in 1..conn.toSend, Write(n) PROVE Answering'
  <2>1. pc = "writing" /\ UNCHANGED <<stream, hist>>
    BY <1>5 DEF Write
  <2>2. /\ pc' \in {"writing", "done"}
        /\ pc' = "writing" => Whole(conn') = Whole(conn)
        /\ pc' = "done" => out' = Whole(conn)
    BY <1>5, ResponseGoesOn
  <2>3. \A answer : Stands(answer) => Stands(answer)'
    BY <2>1, <2>2 DEF Stands
  <2> QED  BY <2>1, <2>3, AnsweringStays
<1>6. CASE WriteFails
  BY <1>2, <1>6 DEF WriteFails
<1>7. CASE KeepOpen
  <2>1. UNCHANGED stream /\ hist'.whole = 0
    BY <1>7 DEF KeepOpen, TypeOK
  <2>2. \A k \in 1..Len(stream) : ~Serves(k)'
    <3> SUFFICES ASSUME NEW k \in 1..Len(stream) PROVE ~(hist'.whole >= Len(Wire(stream[k])))
      BY <2>1 DEF Serves
    <3>1. Len(Wire(stream[k])) \in Nat \ {0}
      BY <1>1, ElementOfSeq, WireSaysSomething
    <3> QED  BY <2>1, <3>1
  <2> QED  BY <2>1, <2>2 DEF Answering
<1>8. CASE CloseDone
  BY <1>2, <1>8 DEF CloseDone
<1>9. CASE Close
  <2>1. pc' \in {"closed", "orphaned"} /\ UNCHANGED <<stream, hist>>
    BY <1>9 DEF Close
  <2> QED  BY <1>2, <2>1
<1>10. CASE Destroy
  BY <1>2, <1>10 DEF Destroy
<1>11. CASE UNCHANGED vars
  <2>1. UNCHANGED <<stream, hist>> /\ \A answer : Stands(answer) => Stands(answer)'
    BY <1>11 DEF Stands, vars
  <2> QED  BY <2>1, AnsweringStays
<1> QED  BY <1>3, <1>4, <1>5, <1>6, <1>7, <1>8, <1>9, <1>10, <1>11 DEF Next

(* A request that was there to its end when it was processed gets the      *)
(* answer to this request and to no other, or none where there is no page  *)
(* for it, whatever the requests before it left in the parser and however  *)
(* it was cut (HttpRequest.cpp:16-61, HttpResponse.cpp:18-39,              *)
(* HttpConnection.cpp:94-141).                                             *)
THEOREM AnswersAreRight == Spec => []AnswersItsRequest
<1>1. Init => AsWhole /\ Buffered /\ Answering
  <2> SUFFICES ASSUME Init PROVE Buffered /\ Answering
    BY AsWholeStarts
  <2>1. /\ hist.base = 0 /\ hist.whole = 0 /\ taken = 0 /\ conn.readBuf = <<>>
        /\ stream \in Seq(Asks)
    BY NewTyped, HttpConnectionAssumption DEF Init
  <2>2. Len(<<>>) = 0
    OBVIOUS
  <2>3. Buffered
    BY <2>1, <2>2 DEF Buffered
  <2>4. \A k \in 1..Len(stream) : ~Serves(k)
    <3> SUFFICES ASSUME NEW k \in 1..Len(stream) PROVE ~(hist.whole >= Len(Wire(stream[k])))
      BY DEF Serves
    <3>1. Len(Wire(stream[k])) \in Nat \ {0}
      BY <2>1, ElementOfSeq, WireSaysSomething
    <3> QED  BY <2>1, <3>1
  <2> QED  BY <2>3, <2>4 DEF Answering
<1>2. /\ TypeOK /\ Sending /\ AsWhole /\ Buffered /\ Answering /\ [Next]_vars
      => (AsWhole /\ Buffered /\ Answering)'
  BY AsWholeKept, BufferedKept, AnsweringKept
<1>3. Answering => AnswersItsRequest
  BY DEF Answering, AnswersItsRequest, Stands
<1> QED  BY <1>1, <1>2, <1>3, ResponseKept, PTL DEF Spec
-----------------------------------------------------------------------------
(* The object as Connection sees it, step by step.                         *)
LEMMA AbstractKept ==
  ASSUME conn' \in Objects, conn'.open = conn.open, conn'.readBuf = conn.readBuf,
         conn'.toSend = conn.toSend, conn'.haveSent = conn.haveSent,
         conn'.keepAlive = conn.keepAlive, UNCHANGED hist
  PROVE  Abstract' = Abstract
  BY DEF Abstract

(* Closing the object is Connection's Released.                            *)
LEMMA AbstractReleased ==
  ASSUME TypeOK, conn' = Released(conn), UNCHANGED hist
  PROVE  Abstract' = C!Released(Abstract)
<1>1. /\ conn'.open = FALSE /\ conn'.readBuf = conn.readBuf /\ conn'.toSend = conn.toSend
      /\ conn'.haveSent = conn.haveSent /\ conn'.keepAlive = conn.keepAlive
  BY ReleasedTyped DEF TypeOK
<1> QED  BY <1>1 DEF Abstract, C!Released

(* Reading from the socket is Connection's AfterRead.                      *)
LEMMA ReadAbstracted ==
  ASSUME TypeOK, NEW n \in 0..(Len(WireOf(stream)) - taken), NEW peer \in {"up", "fin", "rst"},
         Read(n, peer)
  PROVE  AbstractRead
<1> DEFINE input == SubSeq(WireOf(stream), taken + 1, taken + n)
           filled == AfterRead(conn, input)
           done == ReadResult(conn, input, peer) = "DONE"
           read == C!AfterRead(Abstract, n)
<1>1. /\ pc = "reading" /\ UNCHANGED hist /\ conn' = IF done THEN filled ELSE Released(filled)
      /\ pc' = IF done THEN "queued" ELSE "closed"
  BY DEF Read
<1>2. /\ Len(input) = n /\ filled \in Objects
      /\ Len(filled.readBuf) = Len(conn.readBuf) + (IF n < Room(conn) THEN n ELSE Room(conn))
      /\ Room(conn) \in Nat
      /\ filled.open = conn.open /\ filled.toSend = conn.toSend
      /\ filled.haveSent = conn.haveSent /\ filled.keepAlive = conn.keepAlive
  <2> DEFINE wire == WireOf(stream)
             from == taken
             c == conn
             d == AfterRead(c, SubSeq(wire, from + 1, from + n))
  <2>1. wire \in Seq(Tokens) /\ from \in 0..Len(wire) /\ n \in 0..(Len(wire) - from)
    BY StreamTyped DEF TypeOK
  <2>2. c \in Objects /\ Len(c.readBuf) < BufSize
    BY DEF TypeOK
  <2> HIDE DEF wire, from, c
  <2>3. /\ Len(SubSeq(wire, from + 1, from + n)) = n /\ d \in Objects
        /\ Len(d.readBuf) = Len(c.readBuf) + (IF n < Room(c) THEN n ELSE Room(c))
        /\ Room(c) \in Nat
        /\ d.open = c.open /\ d.toSend = c.toSend
        /\ d.haveSent = c.haveSent /\ d.keepAlive = c.keepAlive
    BY <2>1, <2>2, ReadTaken
  <2> QED  BY <2>3 DEF wire, from, c
<1>3. /\ Len(conn.readBuf) \in Nat /\ n \in Nat /\ Room(conn) = BufSize - 1 - Len(conn.readBuf)
  <2>1. Len(conn.readBuf) \in Nat
    BY LenProperties DEF TypeOK, Objects
  <2> QED  BY <2>1, StreamTyped DEF Room, TypeOK
<1>4. done <=> C!ReadResult(Abstract, n, peer) = "DONE"
  <2>1. n >= Room(conn) <=> C!Filled(Abstract, n)
    BY <1>3, HttpConnectionAssumption DEF C!Filled, Abstract
  <2>2. done <=> ~(n >= Room(conn)) /\ peer = "up"
    <3> HIDE DEF input
    <3> QED  BY <1>2, <1>3 DEF ReadResult
  <2>3. C!ReadResult(Abstract, n, peer) = "DONE" <=> ~C!Filled(Abstract, n) /\ peer = "up"
    BY DEF C!ReadResult
  <2> QED  BY <2>1, <2>2, <2>3
<1> HIDE DEF filled, done
<1>5. /\ read.fd = Abstract.fd /\ read.seen = Abstract.seen /\ read.toSend = Abstract.toSend
      /\ read.haveSent = Abstract.haveSent /\ read.keepAlive = Abstract.keepAlive
      /\ read.got = Len(filled.readBuf)
      /\ read = [fd |-> Abstract.fd, got |-> Len(filled.readBuf), seen |-> Abstract.seen,
                 toSend |-> Abstract.toSend, haveSent |-> Abstract.haveSent,
                 keepAlive |-> Abstract.keepAlive]
  <2>1. Len(filled.readBuf) = IF C!Filled(Abstract, n) THEN BufSize - 1 ELSE Len(conn.readBuf) + n
    BY <1>2, <1>3, HttpConnectionAssumption DEF C!Filled, Abstract
  <2> QED  BY <2>1 DEF C!AfterRead, Abstract
<1>6. CASE done
  <2>1. Abstract' = read
    BY <1>1, <1>2, <1>5, <1>6 DEF Abstract
  <2> QED  BY <1>1, <1>4, <1>6, <2>1 DEF AbstractRead
<1>7. CASE ~done
  <2>1. /\ conn'.open = FALSE /\ conn'.readBuf = filled.readBuf /\ conn'.toSend = conn.toSend
        /\ conn'.haveSent = conn.haveSent /\ conn'.keepAlive = conn.keepAlive
    BY <1>1, <1>2, <1>7, ReleasedTyped
  <2>2. Abstract' = C!Released(read)
    BY <1>1, <1>5, <2>1 DEF Abstract, C!Released
  <2> QED  BY <1>1, <1>4, <1>7, <2>2 DEF AbstractRead
<1> QED  BY <1>6, <1>7

(* The object with these members, and what becomes of it when process()    *)
(* clears and then sets some of them.                                      *)
Exactly(fd, got, seen, toSend, haveSent, keepAlive) ==
  [fd : {fd}, got : {got}, seen : {seen}, toSend : {toSend}, haveSent : {haveSent},
   keepAlive : {keepAlive}]

(* The fields determine the object.                                        *)
LEMMA ExactlyOne ==
  ASSUME NEW fd, NEW got, NEW seen, NEW toSend, NEW haveSent, NEW keepAlive,
         NEW c \in Exactly(fd, got, seen, toSend, haveSent, keepAlive),
         NEW d \in Exactly(fd, got, seen, toSend, haveSent, keepAlive)
  PROVE  c = d
  BY DEF Exactly

(* What Connection's Cleared, and a response after it, make of the fields. *)
LEMMA ClearedAs ==
  ASSUME NEW fd, NEW got, NEW seen, NEW toSend, NEW haveSent, NEW keepAlive,
         NEW c \in Exactly(fd, got, seen, toSend, haveSent, keepAlive)
  PROVE  /\ C!Cleared(c) \in Exactly(fd, got, got, 0, 0, keepAlive)
         /\ \A k : [C!Cleared(c) EXCEPT !.keepAlive = k] \in Exactly(fd, got, got, 0, 0, k)
         /\ \A k, n : [C!Cleared(c) EXCEPT !.keepAlive = k, !.toSend = n]
                        \in Exactly(fd, got, got, n, 0, k)
<1> DEFINE d == C!Cleared(c)
<1>1. d \in Exactly(fd, got, got, 0, 0, keepAlive)
  BY DEF C!Cleared, Exactly
<1> HIDE DEF d
<1>2. \A k : [d EXCEPT !.keepAlive = k] \in Exactly(fd, got, got, 0, 0, k)
  BY <1>1 DEF Exactly
<1>3. \A k, n : [d EXCEPT !.keepAlive = k, !.toSend = n] \in Exactly(fd, got, got, n, 0, k)
  BY <1>1 DEF Exactly
<1> QED  BY <1>1, <1>2, <1>3 DEF d

(* process() is one of the outcomes of Connection's Process.               *)
LEMMA WorkAbstracted ==
  ASSUME TypeOK, NEW dbFails \in BOOLEAN, NEW fsNow \in {world.fs} \cup OtherFiles,
         Work(dbFails, fsNow)
  PROVE  AbstractProcess
<1> DEFINE result == Process(conn, world, dbFails, fsNow)
           keep == conn'.keepAlive
           before == conn.keepAlive
           cleared == C!Cleared(Abstract)
           r == [conn |-> Abstract', ready |-> result.ready]
<1>1. Processed(result, conn)
  <2>1. IsWorld(world) /\ fsNow \in {Files} \cup OtherFiles
    BY DEF TypeOK, IsWorld
  <2> QED  BY <2>1, ProcessTyped DEF TypeOK
<1>2. /\ conn' = result.conn /\ hist'.seen = Len(conn.readBuf)
      /\ pc' = CASE pc = "orphaned" -> "dropped"
                 [] pc = "queued" /\ result.ready -> "writing"
                 [] OTHER -> "reading"
      /\ pc \in {"queued", "orphaned"}
  BY DEF Work, TypeOK
<1> HIDE DEF result
<1>3. /\ conn' \in Objects /\ result.ready \in BOOLEAN /\ conn'.open = conn.open
      /\ conn'.readBuf = conn.readBuf /\ conn'.haveSent = 0 /\ keep \in BOOLEAN
      /\ result.ready => LaidOut(conn') /\ conn.readBuf # <<>>
      /\ ~result.ready => conn'.toSend = 0
      /\ ~result.ready => (keep = before \/ conn.readBuf # <<>>)
  <2>1. /\ conn' \in Objects /\ result.ready \in BOOLEAN /\ conn'.open = conn.open
        /\ conn'.readBuf = conn.readBuf /\ conn'.haveSent = 0
        /\ result.ready => LaidOut(conn') /\ conn.readBuf # <<>>
        /\ ~result.ready => conn'.toSend = 0
    BY <1>1, <1>2 DEF Processed, Blank
  <2>2. ~result.ready => (keep = before \/ conn.readBuf # <<>>)
    BY <1>1, <1>2, Zenon DEF Processed
  <2>3. keep \in BOOLEAN
    BY <2>1 DEF Objects
  <2> QED  BY <2>1, <2>2, <2>3
<1> HIDE DEF keep, before
<1>4. /\ Len(conn.readBuf) \in Nat /\ conn.readBuf # <<>> => Len(conn.readBuf) > 0
  BY LenProperties, EmptySeq DEF TypeOK, Objects
<1>5. /\ Abstract' = [cleared EXCEPT !.keepAlive = keep, !.toSend = conn'.toSend]
      /\ ~result.ready => Abstract' = [cleared EXCEPT !.keepAlive = keep]
      /\ ~result.ready /\ keep = before => Abstract' = cleared
  <2> DEFINE fd == IF conn.open THEN 1 ELSE 0
             got == Len(conn.readBuf)
             size == conn'.toSend
             seen == hist.seen
             toSend == conn.toSend
             haveSent == conn.haveSent
  <2>1. Abstract' \in Exactly(fd, got, got, size, 0, keep)
    BY <1>2, <1>3 DEF Abstract, Exactly, keep
  <2>2. Abstract \in Exactly(fd, got, seen, toSend, haveSent, before)
    BY DEF Abstract, Exactly, before
  <2>3. ~result.ready => size = 0
    BY <1>3
  <2> HIDE DEF fd, got, size, seen, toSend, haveSent
  <2>4. Abstract' = [cleared EXCEPT !.keepAlive = keep, !.toSend = size]
    <3>1. [cleared EXCEPT !.keepAlive = keep, !.toSend = size]
            \in Exactly(fd, got, got, size, 0, keep)
      BY <2>2, ClearedAs
    <3> QED  BY <2>1, <3>1, ExactlyOne
  <2>5. ASSUME ~result.ready PROVE Abstract' = [cleared EXCEPT !.keepAlive = keep]
    <3>1. [cleared EXCEPT !.keepAlive = keep] \in Exactly(fd, got, got, 0, 0, keep)
      BY <2>2, ClearedAs
    <3> QED  BY <2>1, <2>3, <2>5, <3>1, ExactlyOne
  <2>6. ASSUME ~result.ready, keep = before PROVE Abstract' = cleared
    <3>1. cleared \in Exactly(fd, got, got, 0, 0, before)
      BY <2>2, ClearedAs
    <3> QED  BY <2>1, <2>3, <2>6, <3>1, ExactlyOne
  <2> HIDE DEF cleared
  <2>7. Abstract' = [cleared EXCEPT !.keepAlive = keep, !.toSend = conn'.toSend]
    BY <2>4 DEF size
  <2>8. ~result.ready /\ keep = before => Abstract' = cleared
    BY <2>6
  <2> QED  BY <2>5, <2>7, <2>8
<1>6. r.conn = Abstract' /\ r.ready = result.ready
  OBVIOUS
<1>7. r \in C!Process(Abstract)
  <2>1. CASE result.ready = TRUE
    <3>1. conn'.toSend \in 1..(WriteBufSize + MaxFile)
      BY <1>3, <2>1, LaidOutSpans
    <3>2. r = [conn |-> [cleared EXCEPT !.keepAlive = keep, !.toSend = conn'.toSend],
               ready |-> TRUE]
      BY <1>5, <2>1
    <3>3. Abstract.got > 0
      BY <1>3, <1>4, <2>1 DEF Abstract
    <3>4. r \in C!Answered(Abstract)
      <4> DEFINE Some(n) == {[conn |-> [cleared EXCEPT !.keepAlive = k, !.toSend = n],
                              ready |-> TRUE] : k \in BOOLEAN}
                 size == conn'.toSend
      <4>1. r \in Some(size)
        BY <1>3, <3>2
      <4>2. C!Answered(Abstract) = UNION {Some(n) : n \in 1..(WriteBufSize + MaxFile)}
        BY <3>3 DEF C!Answered
      <4>3. size \in 1..(WriteBufSize + MaxFile)
        BY <3>1
      <4> HIDE DEF Some, size, r
      <4> QED  BY <4>1, <4>2, <4>3
    <3> QED  BY <3>4 DEF C!Process
  <2>2. CASE result.ready = FALSE /\ conn.readBuf # <<>>
    <3>1. r = [conn |-> [cleared EXCEPT !.keepAlive = keep], ready |-> FALSE]
      BY <1>5, <2>2
    <3>2. Abstract.got > 0
      BY <1>4, <2>2 DEF Abstract
    <3>3. r \in C!Unanswered(Abstract)
      BY <1>3, <3>1, <3>2 DEF C!Unanswered
    <3> QED  BY <3>3 DEF C!Process
  <2>3. CASE result.ready = FALSE /\ conn.readBuf = <<>>
    <3>1. keep = before
      BY <1>3, <2>3
    <3>2. Abstract' = cleared
      BY <1>5, <2>3, <3>1
    <3>3. r = [conn |-> cleared, ready |-> FALSE]
      BY <2>3, <3>2
    <3> QED  BY <3>3 DEF C!Process, C!Incomplete
  <2> QED  BY <1>3, <2>1, <2>2, <2>3
<1>8. pc # "orphaned" => pc' = IF r.ready THEN "writing" ELSE "reading"
  BY <1>2, <1>6
<1> HIDE DEF r
<1> QED  BY <1>6, <1>7, <1>8 DEF AbstractProcess

(* A writev() is one of the outcomes of Connection's Write.                *)
LEMMA WriteAbstracted ==
  ASSUME TypeOK, Sending, NEW n \in 1..conn.toSend, Write(n)
  PROVE  AbstractWrite
<1> DEFINE fd == IF conn.open THEN 1 ELSE 0
           got == Len(conn.readBuf)
           seen == hist.seen
           keep == conn.keepAlive
           size == conn.toSend
           sent == conn.haveSent
           done == n = conn.toSend
           now == C!Sent(Abstract, n)
<1>1. /\ pc = "writing" /\ conn' = Written(conn, n) /\ UNCHANGED hist
      /\ pc' = IF conn'.toSend <= 0 THEN "done" ELSE "writing"
  BY DEF Write
<1>2. conn \in Objects /\ Spans(conn)
  BY <1>1 DEF TypeOK, Sending
<1>3. /\ conn'.open = conn.open /\ conn'.readBuf = conn.readBuf
      /\ conn'.keepAlive = conn.keepAlive
      /\ conn'.toSend = conn.toSend - n /\ conn'.haveSent = conn.haveSent + n
  BY <1>1, <1>2, WrittenSpans
<1>4. conn.toSend \in Nat /\ n \in Nat \ {0} /\ n =< conn.toSend
  BY <1>2 DEF Objects
<1>5. Abstract \in Exactly(fd, got, seen, size, sent, keep)
  BY DEF Abstract, Exactly, keep
<1>6. Abstract' \in Exactly(fd, got, seen, size - n, sent + n, keep)
  BY <1>1, <1>3 DEF Abstract, Exactly, keep
<1>7. Abstract.toSend = size /\ Abstract.haveSent = sent
  BY DEF Abstract
<1> HIDE DEF fd, got, seen, keep, sent
<1>8. now \in Exactly(fd, got, seen, size - n, sent + n, keep)
  BY <1>5, <1>7 DEF C!Sent, Exactly
<1>9. Abstract' = now
  BY <1>6, <1>8, ExactlyOne
<1> HIDE DEF now
<1>10. CASE done
  <2> DEFINE r == [conn |-> C!Sent(Abstract, Abstract.toSend), res |-> "DONE", room |-> TRUE]
  <2>1. r.conn = Abstract' /\ r.res = "DONE"
    BY <1>7, <1>9, <1>10 DEF now
  <2>2. r \in C!Write(Abstract, TRUE, "up")
    <3>1. r \in {[conn |-> C!Sent(Abstract, Abstract.toSend), res |-> "DONE", room |-> k] :
                   k \in BOOLEAN}
      OBVIOUS
    <3>2. Abstract.toSend # 0
      BY <1>4, <1>7
    <3> HIDE DEF r
    <3> QED  BY <3>1, <3>2 DEF C!Write
  <2>3. pc' = "done"
    BY <1>1, <1>3, <1>4, <1>10
  <2> HIDE DEF r
  <2> QED  BY <2>1, <2>2, <2>3 DEF AbstractWrite
<1>11. CASE ~done
  <2> DEFINE r == [conn |-> C!Sent(Abstract, n), res |-> "AGAIN", room |-> FALSE]
  <2>1. r.conn = Abstract' /\ r.res = "AGAIN"
    BY <1>9 DEF now
  <2>2. n \in 1..(Abstract.toSend - 1)
    BY <1>4, <1>7, <1>11
  <2>3. r \in C!Write(Abstract, TRUE, "up")
    <3> DEFINE last == Abstract.toSend - 1
    <3>1. n \in 1..last
      BY <2>2
    <3>2. r \in {[conn |-> C!Sent(Abstract, k), res |-> "AGAIN", room |-> FALSE] : k \in 1..last}
      <4> HIDE DEF last
      <4> QED  BY <3>1
    <3>3. Abstract.toSend # 0
      BY <1>4, <1>7
    <3> HIDE DEF r
    <3> QED  BY <3>2, <3>3 DEF C!Write
  <2>4. pc' = "writing"
    BY <1>1, <1>3, <1>4, <1>11
  <2> HIDE DEF r
  <2> QED  BY <2>1, <2>3, <2>4 DEF AbstractWrite
<1> QED  BY <1>10, <1>11

(* Keeping the connection is Connection's Rewound.                         *)
LEMMA RewindAbstracted ==
  ASSUME TypeOK, KeepOpen
  PROVE  Abstract' = C!Rewound(Abstract)
<1> DEFINE fd == IF conn.open THEN 1 ELSE 0
<1>1. conn' = Rewound(conn) /\ hist'.seen = 0
  BY DEF KeepOpen, TypeOK
<1>2. /\ conn'.open = conn.open /\ conn'.readBuf = <<>> /\ conn'.toSend = 0
      /\ conn'.haveSent = 0 /\ conn'.keepAlive = FALSE
  BY <1>1, RewoundTyped DEF TypeOK
<1>3. Abstract' \in Exactly(fd, 0, 0, 0, 0, FALSE)
  BY <1>1, <1>2, EmptySeq DEF Abstract, Exactly
<1>4. Abstract.fd = fd
  BY DEF Abstract
<1> HIDE DEF fd
<1>5. C!Rewound(Abstract) \in Exactly(fd, 0, 0, 0, 0, FALSE)
  BY <1>4 DEF C!Rewound, C!Opened, C!Unused, Exactly
<1> QED  BY <1>3, <1>5, ExactlyOne

(* Buffers, parser, response and iovec together do what Connection says    *)
(* that read(), process(), write(), reset() and closeConn() do to an       *)
(* object, so what WebServer concludes from Connection holds of the object *)
(* this module models (HttpConnection.cpp:41-92, 270-410).                 *)
THEOREM ObjectImplementsConnection == Spec => ImplementsConnection
<1>1. TypeOK /\ Sending /\ BeforeAndAfter /\ [Next]_vars => [AbstractStep]_vars
  <2> SUFFICES ASSUME TypeOK, Sending, Next PROVE AbstractStep
    OBVIOUS
  <2>1. ASSUME NEW n \in 0..(Len(WireOf(stream)) - taken), NEW peer \in {"up", "fin", "rst"},
               Read(n, peer)
        PROVE  AbstractStep
    <3>1. pc = "reading"
      BY <2>1 DEF Read
    <3> QED  BY <2>1, <3>1, ReadAbstracted DEF AbstractStep
  <2>2. ASSUME NEW dbFails \in BOOLEAN, NEW fsNow \in {world.fs} \cup OtherFiles,
               Work(dbFails, fsNow)
        PROVE  AbstractStep
    <3>1. pc = "queued" \/ pc = "orphaned"
      BY <2>2 DEF Work
    <3> QED  BY <2>2, <3>1, WorkAbstracted DEF AbstractStep
  <2>3. ASSUME NEW n \in 1..conn.toSend, Write(n) PROVE AbstractStep
    <3>1. pc = "writing"
      BY <2>3 DEF Write
    <3> QED  BY <2>3, <3>1, WriteAbstracted DEF AbstractStep
  <2>4. CASE WriteFails
    <3>1. pc = "writing" /\ conn' = Released(conn) /\ UNCHANGED hist
      BY <2>4, ReleasedTyped DEF WriteFails, TypeOK
    <3> QED  BY <3>1, AbstractReleased DEF AbstractStep
  <2>5. CASE KeepOpen
    <3>1. pc = "done" /\ conn.keepAlive
      BY <2>5 DEF KeepOpen
    <3> QED  BY <2>5, <3>1, RewindAbstracted DEF AbstractStep
  <2>6. CASE CloseDone
    <3>1. pc = "done" /\ ~conn.keepAlive /\ conn' = Released(conn) /\ UNCHANGED hist
      BY <2>6 DEF CloseDone
    <3> QED  BY <3>1, AbstractReleased DEF AbstractStep
  <2>7. CASE Close
    <3>1. /\ pc \in {"reading", "writing", "queued"}
          /\ conn' = Released(conn) /\ UNCHANGED hist
      BY <2>7 DEF Close
    <3> QED  BY <3>1, AbstractReleased DEF AbstractStep
  <2>8. CASE Destroy
    <3>1. pc = "dropped" /\ conn' = Released(conn) /\ UNCHANGED hist
      BY <2>8 DEF Destroy
    <3> QED  BY <3>1, AbstractReleased DEF AbstractStep
  <2> QED  BY <2>1, <2>2, <2>3, <2>4, <2>5, <2>6, <2>7, <2>8 DEF Next
<1> QED  BY <1>1, ResponseKept, PTL DEF Spec, ImplementsConnection
===============================================================================
