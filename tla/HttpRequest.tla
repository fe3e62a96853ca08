------------------------------ MODULE HttpRequest ------------------------------
(***************************************************************************)
(* The request parser as data: the members of an HttpRequest in a record,  *)
(* one operator per method.                                                *)
(*                                                                         *)
(* Input is a sequence of tokens: CR and LF, the text of a request line,   *)
(* of a header line or of one field of a form, each one token.  A cut      *)
(* inside a text shows the parser what a cut before its CR shows it: a     *)
(* line without an end; the fields of a form arrive whole.  The NUL bytes  *)
(* the parser writes over line ends and separators lie behind              *)
(* checked_idx_, where nobody reads again, and are left out; form values   *)
(* are sequences of character codes.                                       *)
(***************************************************************************)
EXTENDS Integers, Sequences, FiniteSetsExt

CONSTANTS
  HeaderNames,  \* names of header lines, spelled as the client spells them
  FormFields,   \* names of form fields
  Absent        \* no such entry in headers_ or post_

ASSUME RequestAssumption ==
  /\ {"Connection", "Content-Type", "Content-Length", "Cookie"} \subseteq HeaderNames
  /\ {"username", "password"} \subseteq FormFields

CR == [is |-> "cr"]
LF == [is |-> "lf"]
NUL == [is |-> "nul"]
RequestLine(method, path, version) ==
  [is |-> "line", method |-> method, path |-> path, version |-> version]
HeaderLine(name, value) == [is |-> "header", name |-> name, value |-> value]
FormField(name, value) == [is |-> "field", name |-> name, value |-> value]

NoHeaders == [n \in HeaderNames |-> Absent]
NoPost == [f \in FormFields |-> Absent]

(* The constructor.                                                        *)
NewRequest ==
  [state |-> "REQUEST_LINE", checked |-> 0, start |-> 0, method |-> "", path |-> "",
   version |-> "", headers |-> NoHeaders, body |-> <<>>, post |-> NoPost]

(* init(): body_ and post_ stay what the last request left in them.        *)
InitedRequest(r) == [NewRequest EXCEPT !.body = r.body, !.post = r.post]

GetHeader(r, name, none) == IF r.headers[name] = Absent THEN none ELSE r.headers[name]
GetPost(r, field) == IF r.post[field] = Absent THEN <<>> ELSE r.post[field]
IsKeepAlive(r) == r.headers["Connection"] \in {"keep-alive", "Keep-Alive"}

-----------------------------------------------------------------------------
(* parseLine(): the line that starts at start_line_ is complete, still     *)
(* open, or ends the wrong way.  Indices count from 0, as in the code.     *)
LineEnds(r, buf) == {i \in r.checked..(Len(buf) - 1) : buf[i + 1] \in {CR, LF}}

(* A CR that is the last token read so far: looked at again next time.     *)
CrIsLast(i, buf) == buf[i + 1] = CR /\ i + 1 = Len(buf)
CrLf(i, buf) == buf[i + 1] = CR /\ i + 1 < Len(buf) /\ buf[i + 2] = LF

(* Going past a CR that came last.                                         *)
OpenAtPastCr(r, buf) == [r EXCEPT !.checked = Len(buf)]
OpenAt(r, buf) ==
  [r EXCEPT !.checked = IF LineEnds(r, buf) = {} THEN Len(buf) ELSE Min(LineEnds(r, buf))]

ParseLine(r, buf) ==
  LET i == Min(LineEnds(r, buf))
  IN  CASE r.state \in {"BODY", "FINISH"} -> [req |-> r, status |-> "OK"]
        [] OTHER ->
             IF LineEnds(r, buf) = {} \/ CrIsLast(i, buf)
             THEN [req |-> OpenAt(r, buf), status |-> "OPEN"]
             ELSE IF CrLf(i, buf)
             THEN [req |-> [r EXCEPT !.checked = i + 2], status |-> "OK"]
             ELSE [req |-> [r EXCEPT !.checked = i], status |-> "BAD"]

(* parseRequestLine(): three words; the method in any case.  The members   *)
(* are assigned before they are looked at.                                 *)
ParseRequestLine(r, text) ==
  LET ok == /\ text[1].method \in {"GET", "get", "POST", "post"}
            /\ text[1].version = "HTTP/1.1"
      path == IF ok /\ text[1].path = "/" THEN "/login.html" ELSE text[1].path
  IN  IF Len(text) = 1 /\ text[1].is = "line"
      THEN [req |-> [r EXCEPT !.method = text[1].method, !.path = path, !.version = text[1].version],
            ok |-> ok]
      ELSE [req |-> r, ok |-> FALSE]

(* parseHeader(): a name, a colon, a value; the last of a name counts.     *)
ParseHeader(r, text) ==
  IF Len(text) = 1 /\ text[1].is = "header"
  THEN [req |-> [r EXCEPT !.headers[text[1].name] = text[1].value], ok |-> TRUE]
  ELSE [req |-> r, ok |-> FALSE]

-----------------------------------------------------------------------------
(* urlDecode(), on character codes: '+' is 43, '%' is 37.                  *)
HexToInt(c) ==
  CASE c \in 48..57 -> c - 48
    [] c \in 65..70 -> c - 55
    [] c \in 97..102 -> c - 87
    [] OTHER -> -1

IsEscape(s, i) ==
  /\ s[i] = 37 /\ i + 2 <= Len(s)
  /\ HexToInt(s[i + 1]) # -1 /\ HexToInt(s[i + 2]) # -1

UrlDecode(s) ==
  LET from[i \in 1..(Len(s) + 1)] ==
        IF i > Len(s) THEN <<>>
        ELSE IF s[i] = 43 THEN <<32>> \o from[i + 1]
        ELSE IF IsEscape(s, i)
        THEN <<HexToInt(s[i + 1]) * 16 + HexToInt(s[i + 2])>> \o from[i + 3]
        ELSE <<s[i]>> \o from[i + 1]
  IN  from[1]

(* parseFormUrlencoded(): a value reaches to the next field, and takes the *)
(* zeros along that follow it when the body is cut.                        *)
RawValue(body, i) ==
  IF i < Len(body) /\ body[i + 1] = NUL THEN body[i].value \o <<0>> ELSE body[i].value

ParseFormUrlencoded(body) ==
  LET Named(f) == {i \in 1..Len(body) : body[i].is = "field" /\ body[i].name = f}
  IN  [f \in FormFields |->
         IF \E i \in 1..Len(body) : body[i].is = "field" /\ body[i].name = f
         THEN UrlDecode(RawValue(body, Max(Named(f)))) ELSE Absent]

(* body_.assign(buf + checked_idx_, n): it does not look at read_idx; the  *)
(* buffer is zero behind what was read.                                    *)
BodyOf(r, buf, n) ==
  [i \in 1..n |-> IF r.checked + i <= Len(buf) THEN buf[r.checked + i] ELSE NUL]

HasForm(r) == r.method = "POST" /\ r.headers["Content-Type"] # Absent

(* A parseBody() that leaves post_ to the next form.                       *)
ParseBodyOver(r, buf) ==
  LET n == GetHeader(r, "Content-Length", 0)
  IN  IF HasForm(r) /\ n >= 0
      THEN [r EXCEPT !.body = BodyOf(r, buf, n), !.post = ParseFormUrlencoded(BodyOf(r, buf, n))]
      ELSE r

ParseBody(r, buf) ==
  LET n == GetHeader(r, "Content-Length", 0)
      cleared == [r EXCEPT !.post = NoPost]
  IN  IF HasForm(r) /\ n >= 0
      THEN [cleared EXCEPT
              !.body = BodyOf(r, buf, n),
              !.post = IF r.headers["Content-Type"] = "application/x-www-form-urlencoded"
                       THEN ParseFormUrlencoded(BodyOf(r, buf, n)) ELSE NoPost]
      ELSE cleared

-----------------------------------------------------------------------------
(* One turn of parse()'s loop; MORE: it goes round again.                  *)
Turn(r, result) == [req |-> r, result |-> result]

ParseTurn(r, buf) ==
  LET line == ParseLine(r, buf)
      text == SubSeq(buf, r.start + 1, line.req.checked - 2)
      at == [line.req EXCEPT !.start = line.req.checked]
      first == ParseRequestLine(at, text)
      header == ParseHeader(at, text)
  IN  CASE line.status = "OPEN" -> Turn(line.req, "INCOMPLETE")
        [] line.status = "BAD" -> Turn(line.req, "ERROR")
        [] line.status = "OK" /\ r.state = "REQUEST_LINE" ->
             IF first.ok THEN Turn([first.req EXCEPT !.state = "HEADERS"], "MORE")
             ELSE Turn(first.req, "ERROR")
        [] line.status = "OK" /\ r.state = "HEADERS" ->
             IF text = <<>> THEN Turn([at EXCEPT !.state = "BODY"], "MORE")
             ELSE Turn(header.req, IF header.ok THEN "MORE" ELSE "ERROR")
        [] line.status = "OK" /\ r.state = "BODY" ->
             Turn([ParseBody(at, buf) EXCEPT !.state = "FINISH"], "MORE")
        [] OTHER -> Turn(at, "SUCCESS")

(* parse(): every turn that goes round again takes a line or moves on to   *)
(* BODY or FINISH, so that Len(buf) + 3 turns are enough.                  *)
Parse(r, buf) ==
  LET turns[n \in 0..(Len(buf) + 3)] ==
        IF n = 0 THEN Turn(r, "MORE")
        ELSE LET before == turns[n - 1]
             IN  IF before.result = "MORE" THEN ParseTurn(before.req, buf) ELSE before
  IN  IF buf = <<>> THEN Turn(r, "INCOMPLETE") ELSE turns[Len(buf) + 3]
=============================================================================
