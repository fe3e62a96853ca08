----------------------------- MODULE HttpConnection ----------------------------
(***************************************************************************)
(* One connection from inside: what an HttpConnection reads, parses,       *)
(* answers and sends, for a client that sends a stream of requests in      *)
(* pieces of any size.  The reactor is reduced to what it promises the     *)
(* object: it reads, hands the object to a worker, writes, and then        *)
(* rewinds or closes it, one at a time; it may close it at any point       *)
(* outside process().  WebServer models how that comes about, and takes    *)
(* this object from Connection, which this module implements.              *)
(***************************************************************************)
EXTENDS HttpRequest, HttpResponse, SequencesExt

CONSTANTS
  BufSize,      \* READ_BUFFER_SIZE, in tokens
  WriteBufSize, \* WRITE_BUFFER_SIZE, in units
  MaxFile,      \* bound: units of the longest file
  Streams,      \* what a client may send: sequences of requests
  Files,        \* path -> FileInfo when the server starts
  OtherFiles,   \* what the files may be replaced with while the server runs
  Users,        \* name -> password when the server starts
  Sessions      \* the names behind session ids 1, 2, ... of earlier logins

(* STRING.  The provers do not know that a literal is a string, so those   *)
(* that a type needs are named.                                            *)
Strings == STRING \cup {"", "keep-alive", "application/x-www-form-urlencoded"}

(* Text is a sequence of character codes.                                  *)
Texts == Seq(Nat)
Bytes == 1..255
Cookies == Seq([name : Strings, value : Nat])

(* The requests a client can make.                                         *)
Asks ==
  [method : Strings, path : Paths, version : Strings, keep : BOOLEAN,
   cookie : {Absent} \cup Cookies, form : {Absent} \cup Texts \X Texts]

ASSUME HttpConnectionAssumption ==
  /\ BufSize \in Nat /\ BufSize > 1
  /\ WriteBufSize \in Nat /\ WriteBufSize > 4
  /\ MaxFile \in Nat
  /\ Paths \subseteq Strings /\ NoFile \notin Paths
  /\ {"/index.html", "/login.html", "/register.html"} \subseteq Paths
  /\ Streams \subseteq Seq(Asks)
  /\ Files \in [Paths -> FileInfo] /\ OtherFiles \subseteq [Paths -> FileInfo]
  /\ \A fs \in {Files} \cup OtherFiles : \A p \in Paths : fs[p].size =< MaxFile
  /\ DOMAIN Users \subseteq Texts /\ Users \in [DOMAIN Users -> Texts]
  /\ Sessions \in Seq(Texts)

(* What is not there is told from everything that may be.                  *)
ASSUME AbsentAssumption ==
  Absent \notin Strings \cup {"Keep-Alive"} \cup Nat \cup Cookies \cup Texts

VARIABLES
  stream,  \* the requests of this client
  taken,   \* how many tokens of them have been read
  conn,    \* the object
  pc,      \* what the reactor does with it
  world,   \* the user table, sessions_ and the files
  out,     \* the units of the current response the socket took
  hist     \* history: what the last process() saw, see Work

vars == <<stream, taken, conn, pc, world, out, hist>>

-----------------------------------------------------------------------------
(* The client: a request and the tokens it puts on the wire.               *)
Digit(n) == IF n < 10 THEN 48 + n ELSE 55 + n
Escaped(c) ==
  IF c = 32 THEN <<43>> ELSE IF c \in 97..122 THEN <<c>> ELSE <<37, Digit(c \div 16), Digit(c % 16)>>
Encoded(s) == FlattenSeq([i \in 1..Len(s) |-> Escaped(s[i])])

Line(text) == <<text, CR, LF>>
Fields(a) ==
  IF a.form = Absent THEN <<>>
  ELSE <<FormField("username", Encoded(a.form[1])), FormField("password", Encoded(a.form[2]))>>

Wire(a) ==
  Line(RequestLine(a.method, a.path, a.version))
    \o (IF a.keep THEN Line(HeaderLine("Connection", "keep-alive")) ELSE <<>>)
    \o (IF a.cookie # Absent THEN Line(HeaderLine("Cookie", a.cookie)) ELSE <<>>)
    \o (IF a.form # Absent
        THEN Line(HeaderLine("Content-Type", "application/x-www-form-urlencoded"))
               \o Line(HeaderLine("Content-Length", Len(Fields(a))))
        ELSE <<>>)
    \o <<CR, LF>> \o Fields(a)

WireOf(s) == FlattenSeq([k \in 1..Len(s) |-> Wire(s[k])])
StartOf(k) == Len(WireOf(SubSeq(stream, 1, k - 1)))

-----------------------------------------------------------------------------
(* The object.                                                             *)
Unmapped == [path |-> NoFile, size |-> 0]
Span(from, len) == [from |-> from, len |-> len]

NewConn ==
  [open |-> TRUE, readBuf |-> <<>>, writeBuf |-> <<>>, iov |-> <<Span(0, 0), Span(0, 0)>>,
   iovCnt |-> 0, toSend |-> 0, haveSent |-> 0, file |-> Unmapped, keepAlive |-> FALSE,
   pending |-> <<>>, request |-> NewRequest, response |-> InitedResponse]

UnmapFile(c) == [c EXCEPT !.file = Unmapped]

(* A closeConn() that leaves the file mapped.                              *)
ReleasedMapped(c) == [c EXCEPT !.open = FALSE]

(* closeConn() and the destructor.                                         *)
Released(c) == [UnmapFile(c) EXCEPT !.open = FALSE]

(* A reset() that forgets the read index.                                  *)
RewoundKeepingInput(c) ==
  [NewConn EXCEPT !.open = c.open, !.request = InitedRequest(c.request),
                  !.iov = c.iov, !.readBuf = c.readBuf]

(* reset(): a new object, but for the descriptor and what init() keeps.    *)
Rewound(c) ==
  [NewConn EXCEPT !.open = c.open, !.request = InitedRequest(c.request),
                  !.iov = c.iov]

(* read(): takes what there is, and fails when the buffer is full.         *)
Room(c) == BufSize - 1 - Len(c.readBuf)

AfterRead(c, input) ==
  [c EXCEPT !.readBuf = @ \o SubSeq(input, 1, IF Len(input) < Room(c) THEN Len(input) ELSE Room(c))]

ReadResult(c, input, peer) ==
  CASE Len(input) >= Room(c) -> "ERROR"
    [] Len(input) < Room(c) /\ peer = "fin" -> "PEER_CLOSE"
    [] Len(input) < Room(c) /\ peer = "rst" -> "ERROR"
    [] OTHER -> "DONE"

-----------------------------------------------------------------------------
(* makeResponse() and its handlers, from the object and the world to both. *)
Reply(c, resp, ok, w) == [conn |-> [c EXCEPT !.response = resp], ok |-> ok, world |-> w]

(* response_.build() after request_.setPath().                             *)
ReplyWithFile(c, path, w) ==
  LET built == Build(c.response, path, c.keepAlive, w.fs)
  IN  Reply([c EXCEPT !.request.path = path], built.resp, built.ok, w)

ServerError(c, w) == Reply(c, MakeErrorResponse(c.response, 500), TRUE, w)

(* The statement ends at the first zero, without its closing quote.        *)
CutsStatement(s) == \E i \in 1..Len(s) : s[i] = 0

Credentials(c) == <<GetPost(c.request, "username"), GetPost(c.request, "password")>>
IsUser(name, password, users) == name \in DOMAIN users /\ users[name] = password

HandleLogin(c, w, dbFails) ==
  LET name == Credentials(c)[1]
      cookie == <<SetCookie(Len(w.sessions) + 1)>>
  IN  CASE dbFails \/ CutsStatement(name) -> ServerError(c, w)
        [] OTHER ->
             IF IsUser(name, Credentials(c)[2], w.users)
             THEN ReplyWithFile([c EXCEPT !.pending = cookie,
                                          !.response = SetExtraHeaders(@, cookie)],
                                "/index.html", [w EXCEPT !.sessions = Append(@, name)])
             ELSE ReplyWithFile(c, "/login.html", w)

WithUser(users, name, password) ==
  [n \in DOMAIN users \cup {name} |-> IF n = name THEN password ELSE users[n]]

HandleRegister(c, w, dbFails) ==
  LET name == Credentials(c)[1]
      password == Credentials(c)[2]
      exists == name \in DOMAIN w.users
  IN  CASE dbFails \/ CutsStatement(name) \/ (~exists /\ CutsStatement(password)) ->
             ServerError(c, w)
        [] OTHER ->
             IF exists THEN ReplyWithFile(c, "/register.html", w)
             ELSE ReplyWithFile(c, "/login.html", [w EXCEPT !.users = WithUser(@, name, password)])

(* getCookieValue(): find() takes the first cookie whose name ends with    *)
(* the key, be it a longer name.                                           *)
GetCookieValue(cookies) ==
  LET hits == {i \in 1..Len(cookies) : cookies[i].name \in {"session_id", "my_session_id"}}
  IN  IF hits = {} THEN 0 ELSE cookies[Min(hits)].value

HandleWhoAmI(c, w) ==
  LET id == GetCookieValue(GetHeader(c.request, "Cookie", <<>>))
      user == IF id \in 1..Len(w.sessions) THEN w.sessions[id] ELSE <<>>
  IN  Reply(c, MakeTextResponse(200, Json(user), c.keepAlive), TRUE, w)

MakeResponse(c, w, dbFails) ==
  LET d == [c EXCEPT !.response = SetExtraHeaders(@, c.pending)]
      is == <<c.request.method, c.request.path>>
  IN  CASE is = <<"GET", "/whoami">> -> HandleWhoAmI(d, w)
        [] is = <<"POST", "/login">> -> HandleLogin(d, w, dbFails)
        [] is = <<"POST", "/register">> -> HandleRegister(d, w, dbFails)
        [] OTHER -> ReplyWithFile(d, c.request.path, w)

-----------------------------------------------------------------------------
(* prepareErrorResponse(): a fixed text, one unit here.                    *)
BadRequestPage == [is |-> "400"]

PrepareErrorResponse(c) ==
  [c EXCEPT !.writeBuf = <<BadRequestPage>>, !.iov[1] = Span(0, 1), !.iovCnt = 1, !.toSend = 1]

(* mapFile(): mmap refuses a length of zero, and directories.  It asks for *)
(* the size again, after build().                                          *)
CanMap(info) == info.kind = "file" /\ info.size > 0

HeaderLaid(c) ==
  [c EXCEPT !.writeBuf = c.response.buffer, !.iov[1] = Span(0, Len(c.response.buffer)), !.iovCnt = 1]

FileLaid(c, path, size) ==
  [HeaderLaid(c) EXCEPT !.file = [path |-> path, size |-> size], !.iov[2] = Span(0, size),
                        !.iovCnt = 2, !.toSend = Len(c.response.buffer) + size]

(* prepareWrite().                                                         *)
PrepareWrite(c, fs) ==
  LET path == c.response.file
  IN  CASE Len(c.response.buffer) >= WriteBufSize -> [conn |-> c, ready |-> FALSE]
        [] Len(c.response.buffer) < WriteBufSize /\ c.response.status = 200 /\ path # NoFile ->
             IF CanMap(fs[path]) THEN [conn |-> FileLaid(c, path, fs[path].size), ready |-> TRUE]
             ELSE [conn |-> HeaderLaid(c), ready |-> FALSE]
        [] OTHER -> [conn |-> [HeaderLaid(c) EXCEPT !.toSend = Len(c.response.buffer)], ready |-> TRUE]

(* process(): what it clears, the parse, and the three ways on from there. *)
Cleared(c) ==
  [UnmapFile(c) EXCEPT !.response = InitedResponse, !.pending = <<>>, !.writeBuf = <<>>,
                       !.iovCnt = 0, !.toSend = 0, !.haveSent = 0]

Process(c, w, dbFails, fsNow) ==
  LET parsed == Parse(c.request, c.readBuf)
      d == [Cleared(c) EXCEPT !.request = parsed.req]
      made == MakeResponse([d EXCEPT !.keepAlive = IsKeepAlive(parsed.req)], w, dbFails)
      laid == PrepareWrite(made.conn, fsNow)
  IN  CASE parsed.result = "INCOMPLETE" -> [conn |-> d, ready |-> FALSE, world |-> w]
        [] parsed.result = "ERROR" ->
             [conn |-> PrepareErrorResponse([d EXCEPT !.keepAlive = FALSE]), ready |-> TRUE, world |-> w]
        [] OTHER ->
             IF made.ok THEN [conn |-> laid.conn, ready |-> laid.ready, world |-> made.world]
             ELSE [conn |-> made.conn, ready |-> FALSE, world |-> made.world]

-----------------------------------------------------------------------------
(* write(): what is left for writev, and the iovec after n units of it.    *)
Rest(c) ==
  SubSeq(c.writeBuf, c.iov[1].from + 1, c.iov[1].from + c.iov[1].len)
    \o (IF c.iovCnt = 2
        THEN SubSeq(Content(c.file.path, c.file.size), c.iov[2].from + 1, c.iov[2].from + c.iov[2].len)
        ELSE <<>>)

(* An update that forgets the header's share of what was sent.             *)
AdvancedByAll(c, n) ==
  IF n >= c.iov[1].len
  THEN [c EXCEPT !.iov[1].len = 0,
                 !.iov[2] = IF c.iovCnt = 2 THEN Span(@.from + n, @.len - n) ELSE @]
  ELSE [c EXCEPT !.iov[1] = Span(@.from + n, @.len - n)]

Advanced(c, n) ==
  LET beyond == n - c.iov[1].len
  IN  IF n >= c.iov[1].len
      THEN [c EXCEPT !.iov[1].len = 0,
                     !.iov[2] = IF c.iovCnt = 2 THEN Span(@.from + beyond, @.len - beyond) ELSE @]
      ELSE [c EXCEPT !.iov[1] = Span(@.from + n, @.len - n)]

Sent(c, n) == [Advanced(c, n) EXCEPT !.toSend = @ - n, !.haveSent = @ + n]
Written(c, n) == IF c.toSend - n <= 0 THEN UnmapFile(Sent(c, n)) ELSE Sent(c, n)

-----------------------------------------------------------------------------
Init ==
  /\ stream \in Streams
  /\ taken = 0
  /\ conn = NewConn
  /\ pc = "reading"
  /\ world = [users |-> Users, sessions |-> Sessions, fs |-> Files]
  /\ out = <<>>
  /\ hist = [base |-> 0, seen |-> 0, whole |-> 0, raced |-> FALSE, failed |-> FALSE, before |-> world]

(* handleRead: n more tokens have arrived; the peer may have hung up.      *)
Read(n, peer) ==
  LET input == SubSeq(WireOf(stream), taken + 1, taken + n)
      filled == AfterRead(conn, input)
      done == ReadResult(conn, input, peer) = "DONE"
  IN  /\ pc = "reading" /\ (n > 0 \/ peer # "up")
      /\ taken' = taken + Len(filled.readBuf) - Len(conn.readBuf)
      /\ conn' = IF done THEN filled ELSE Released(filled)
      /\ pc' = IF done THEN "queued" ELSE "closed"
      /\ UNCHANGED <<stream, world, out, hist>>

(* The task of handleRead: process(), and what handleWakeup does with its  *)
(* result.  The files may be replaced between build() and mapFile().  A    *)
(* request that was parsed to its end and got no answer is answered once   *)
(* more when input follows it: the history keeps what the first run saw.   *)
Work(dbFails, fsNow) ==
  LET result == Process(conn, world, dbFails, fsNow)
      again == conn.request.state = "FINISH"
  IN  /\ pc \in {"queued", "orphaned"}
      /\ conn' = result.conn
      /\ world' = [result.world EXCEPT !.fs = fsNow]
      /\ pc' = CASE pc = "orphaned" -> "dropped"
                 [] pc = "queued" /\ result.ready -> "writing"
                 [] OTHER -> "reading"
      /\ hist' = [hist EXCEPT !.seen = Len(conn.readBuf),
                              !.whole = IF again THEN @ ELSE Len(conn.readBuf),
                              !.before = IF again THEN @ ELSE world,
                              !.failed = IF again THEN @ ELSE dbFails,
                              !.raced = @ \/ fsNow # world.fs]
      /\ UNCHANGED <<stream, taken, out>>

(* A writev() that takes n units, in handleWrite or in the loop of write(). *)
Write(n) ==
  /\ pc = "writing"
  /\ conn' = Written(conn, n)
  /\ out' = out \o SubSeq(Rest(conn), 1, n)
  /\ pc' = IF conn'.toSend <= 0 THEN "done" ELSE "writing"
  /\ UNCHANGED <<stream, taken, world, hist>>

(* A writev() that fails; handleWrite closes the connection.               *)
WriteFails ==
  /\ pc = "writing"
  /\ conn' = Released(UnmapFile(conn))
  /\ pc' = "closed"
  /\ UNCHANGED <<stream, taken, world, out, hist>>

(* handleWrite after write() returned DONE.                                *)
KeepOpen ==
  /\ pc = "done" /\ conn.keepAlive
  /\ conn' = Rewound(conn)
  /\ out' = <<>>
  /\ hist' = [hist EXCEPT !.base = taken, !.seen = 0, !.whole = 0,
                          !.raced = FALSE, !.failed = FALSE]
  /\ pc' = "reading"
  /\ UNCHANGED <<stream, taken, world>>

CloseDone ==
  /\ pc = "done" /\ ~conn.keepAlive
  /\ conn' = Released(conn)
  /\ pc' = "closed"
  /\ UNCHANGED <<stream, taken, world, out, hist>>

(* A timer or a hang-up: closeConn() of the reactor.  A task that is in    *)
(* the queue keeps the object until it has run.                            *)
Close ==
  /\ pc \in {"reading", "writing", "queued"}
  /\ conn' = Released(conn)
  /\ pc' = IF pc = "queued" THEN "orphaned" ELSE "closed"
  /\ UNCHANGED <<stream, taken, world, out, hist>>

Destroy ==
  /\ pc = "dropped"
  /\ conn' = Released(conn)
  /\ pc' = "closed"
  /\ UNCHANGED <<stream, taken, world, out, hist>>

Next ==
  \/ \E n \in 0..(Len(WireOf(stream)) - taken), peer \in {"up", "fin", "rst"} : Read(n, peer)
  \/ \E dbFails \in BOOLEAN, fsNow \in {world.fs} \cup OtherFiles : Work(dbFails, fsNow)
  \/ \E n \in 1..conn.toSend : Write(n)
  \/ WriteFails
  \/ KeepOpen
  \/ CloseDone
  \/ Close
  \/ Destroy

Spec == Init /\ [][Next]_vars

-----------------------------------------------------------------------------
(* The types of what the variables hold.                                   *)
Headers ==
  [is : {"header"}, name : {"Connection", "Content-Type"}, value : Strings]
    \cup [is : {"header"}, name : {"Content-Length"}, value : Nat]
    \cup [is : {"header"}, name : {"Cookie"}, value : Cookies]

Tokens ==
  {CR, LF} \cup [is : {"line"}, method : Strings, path : Paths, version : Strings]
    \cup Headers \cup [is : {"field"}, name : {"username", "password"}, value : Texts]

HeaderValues == Strings \cup Nat \cup Cookies

Parsers ==
  [state : {"REQUEST_LINE", "HEADERS", "BODY", "FINISH"}, checked : Nat, start : Nat,
   method : Strings, path : Strings, version : Strings,
   headers : [HeaderNames -> {Absent} \cup HeaderValues],
   body : Seq(Tokens \cup {NUL}), post : [FormFields -> {Absent} \cup Texts]]

(* The indices lie in what has been read, and a parser that is past the    *)
(* request line has a path of the server.                                  *)
Parsing(r, buf) ==
  /\ r \in Parsers
  /\ r.headers["Content-Length"] \in {Absent} \cup Nat
  /\ r.headers["Cookie"] \in {Absent} \cup Cookies
  /\ r.checked =< Len(buf)
  /\ r.state # "REQUEST_LINE" => r.path \in Paths

Codes == {200, 400, 403, 404, 500}
CookieUnits == [is : {"cookie"}, id : Nat]
Extras == {e \in Seq(CookieUnits) : Len(e) =< 1}
HeaderUnits ==
  [is : {"status"}, code : Codes] \cup [is : {"connection"}, as : {"keep-alive", "close"}]
    \cup CookieUnits \cup [is : {"length"}, n : Nat]
Bodies == [is : {"page"}, code : Codes] \cup [is : {"json"}, user : Texts] \cup {BadRequestPage}
Units == HeaderUnits \cup Bodies
FileUnits == [is : {"data"}, path : Paths, at : Nat]

Responses ==
  [status : Codes, keepAlive : BOOLEAN, file : Paths \cup {NoFile}, extra : Extras,
   buffer : Seq(Units)]

Iovecs == [1..2 -> [from : Nat, len : Nat]]

Objects ==
  [open : BOOLEAN, readBuf : Seq(Tokens), writeBuf : Seq(Units), iov : Iovecs,
   iovCnt : 0..2, toSend : Nat, haveSent : Nat, file : [path : Paths \cup {NoFile}, size : Nat],
   keepAlive : BOOLEAN, pending : Extras, request : Parsers, response : Responses]

IsWorld(w) ==
  /\ w \in [users : {w.users}, sessions : Seq(Texts), fs : {Files} \cup OtherFiles]
  /\ DOMAIN w.users \subseteq Texts /\ w.users \in [DOMAIN w.users -> Texts]

TypeOK ==
  /\ stream \in Streams
  /\ taken \in 0..Len(WireOf(stream))
  /\ conn \in Objects
  /\ Len(conn.readBuf) < BufSize
  /\ Parsing(conn.request, conn.readBuf)
  /\ pc \in {"reading", "queued", "orphaned", "writing", "done", "dropped", "closed"}
  /\ IsWorld(world)
  /\ out \in Seq(Units \cup FileUnits)
  /\ hist \in [base : Nat, seen : Nat, whole : Nat, raced : BOOLEAN, failed : BOOLEAN,
               before : {hist.before}]
  /\ IsWorld(hist.before)

-----------------------------------------------------------------------------
(* What a client is promised: the page it asked for, with the status, the  *)
(* cookie and the length that go with it; <<>> where there is no answer.   *)
Page(path, keep, extra, fs) ==
  IF CanMap(fs[path])
  THEN <<Status(200), ConnectionHeader(keep)>> \o extra \o <<ContentLength(fs[path].size)>>
         \o Content(path, fs[path].size)
  ELSE <<>>

(* A request whose name and password hold no zeros, at which a statement   *)
(* would end, and that has no cookie of a longer name that ends as the     *)
(* session's does.                                                         *)
Plain(a) ==
  /\ a.form # Absent => a.form \in Seq(Bytes) \X Seq(Bytes)
  /\ a.cookie # Absent => \A i \in 1..Len(a.cookie) : a.cookie[i].name # "my_session_id"

Understood(a) == a.version = "HTTP/1.1" /\ a.method \in {"GET", "get", "POST", "post"}
OnDatabase(a) == a.method = "POST" /\ a.path \in {"/login", "/register"}
AsksWho(a) == a.method = "GET" /\ a.path = "/whoami"

(* A form that was not sent is one with an empty name and password.        *)
NamedIn(a) == IF a.form = Absent THEN <<>> ELSE a.form[1]
PasswordIn(a) == IF a.form = Absent THEN <<>> ELSE a.form[2]

WhoIs(a, w) ==
  LET own == IF a.cookie = Absent THEN {}
             ELSE {i \in 1..Len(a.cookie) : a.cookie[i].name = "session_id"}
      id == IF own = {} THEN 0 ELSE a.cookie[Min(own)].value
  IN  IF id \in 1..Len(w.sessions) THEN w.sessions[id] ELSE <<>>

LoginAnswer(a, w) ==
  IF IsUser(NamedIn(a), PasswordIn(a), w.users)
  THEN Page("/index.html", a.keep, <<SetCookie(Len(w.sessions) + 1)>>, w.fs)
  ELSE Page("/login.html", a.keep, <<>>, w.fs)

RegisterAnswer(a, w) ==
  Page(IF NamedIn(a) \in DOMAIN w.users THEN "/register.html" ELSE "/login.html",
       a.keep, <<>>, w.fs)

Answer(a, w, failed) ==
  CASE ~Understood(a) -> <<BadRequestPage>>
    [] Understood(a) /\ OnDatabase(a) /\ failed ->
         <<Status(500), ConnectionHeader(FALSE), ContentLength(1), ErrorPage(500)>>
    [] Understood(a) /\ OnDatabase(a) /\ ~failed ->
         IF a.path = "/login" THEN LoginAnswer(a, w) ELSE RegisterAnswer(a, w)
    [] Understood(a) /\ AsksWho(a) ->
         <<Status(200), ConnectionHeader(a.keep), ContentLength(1), Json(WhoIs(a, w))>>
    [] OTHER -> Page(IF a.path = "/" THEN "/login.html" ELSE a.path, a.keep, <<>>, w.fs)

(* The buffer starts with request k, and all of it had been read when the  *)
(* parser came to its end.                                                 *)
Serves(k) == hist.base = StartOf(k) /\ hist.whole >= Len(Wire(stream[k]))

(* A request that had been read to its end when it was processed, from a   *)
(* buffer that starts with it, gets the answer to this request and to no   *)
(* other: the page or status it asks for, for the user it names, whatever  *)
(* the requests before it left in the parser, however it was cut.  It is   *)
(* left without an answer only if there is no page for it: the 404 and 403 *)
(* that build() makes are not sent.  Excepted: a file that was replaced    *)
(* while the response was put together, zeros in a name or password, and   *)
(* a cookie that is mistaken for the session's (HttpRequest.cpp:16-61,     *)
(* HttpResponse.cpp:18-39, HttpConnection.cpp:94-141).                     *)
AnswersItsRequest ==
  \A k \in 1..Len(stream) :
    LET answer == Answer(stream[k], hist.before, hist.failed)
    IN  Serves(k) /\ Plain(stream[k]) /\ ~hist.raced =>
          /\ pc = "done" => out = answer
          /\ pc = "reading" => answer = <<>>

(* Where a parser stands, and what it knows of the request but the body.   *)
Heading(r) == <<r.state, r.start, r.checked, r.method, r.version, r.headers>>

(* What the parser has made of the input does not depend on how the input  *)
(* was cut into reads: a new parser that is shown all of it at once stands *)
(* at the same place with the same request, and fails if and only if this  *)
(* one did.  The body is excepted: it is taken when the blank line is      *)
(* seen, as far as it has arrived (HttpRequest.cpp:51-54, 63-90).          *)
SegmentsDoNotMatter ==
  LET whole == Parse(NewRequest, SubSeq(conn.readBuf, 1, hist.seen))
  IN  hist.seen > 0 /\ pc \in {"reading", "writing"} =>
        /\ Heading(conn.request) = Heading(whole.req)
        /\ whole.result = "INCOMPLETE" => conn.request.path = whole.req.path
        /\ pc = "writing" => (whole.result = "ERROR" <=> conn.writeBuf = <<BadRequestPage>>)

(* What the socket took, followed by what the iovec still points at, is    *)
(* the response as it was laid out, and bytes_to_send_ counts the rest:    *)
(* no unit is sent twice or skipped however writev() splits header and     *)
(* file (HttpConnection.cpp:329-374).                                      *)
SentAsBuilt ==
  pc \in {"writing", "done"} =>
    LET file == IF conn.iovCnt = 2 /\ pc = "writing" THEN Content(conn.file.path, conn.file.size)
                ELSE <<>>
        left == IF pc = "writing" THEN Rest(conn) ELSE <<>>
    IN  /\ pc = "writing" => out \o left = conn.writeBuf \o file
        /\ Len(left) = conn.toSend
        /\ Len(out) = conn.haveSent

(* The file stays mapped while units of it are to be sent, and no longer:  *)
(* not while the connection waits for the next request, and not when the   *)
(* object is gone, on whatever path it went (HttpConnection.cpp:376-403).  *)
MappedWhileNeeded ==
  /\ conn.file # Unmapped => pc \in {"writing", "dropped"}
  /\ pc = "writing" /\ conn.iovCnt = 2 => conn.file # Unmapped

Says(keep) == \E i \in 1..Len(out) : out[i] = ConnectionHeader(keep)

(* The connection is closed after a response if and only if the response   *)
(* said so.  Excepted: the 500 page, which says "close" although the       *)
(* connection is kept open when the client asked for that                  *)
(* (HttpConnection.cpp:159, HttpResponse.cpp:41; WebServer.cpp:240).       *)
ClosesAsAnnounced ==
  [][pc = "done" =>
       \/ pc' = IF Says(TRUE) THEN "reading" ELSE "closed"
       \/ conn.keepAlive /\ out[1] = Status(500)]_vars

-----------------------------------------------------------------------------
(* The object as Connection describes it.                                  *)
Abstract ==
  [fd |-> IF conn.open THEN 1 ELSE 0, got |-> Len(conn.readBuf), seen |-> hist.seen,
   toSend |-> conn.toSend, haveSent |-> conn.haveSent, keepAlive |-> conn.keepAlive]

C == INSTANCE Connection
       WITH Fd <- {1}, NoFd <- 0, BufSegs <- BufSize - 1, MaxResp <- WriteBufSize + MaxFile

AbstractRead ==
  \E n \in 0..(Len(WireOf(stream)) - taken), peer \in {"up", "fin", "rst"} :
    LET read == C!AfterRead(Abstract, n)
    IN  IF C!ReadResult(Abstract, n, peer) = "DONE"
        THEN Abstract' = read /\ pc' = "queued"
        ELSE Abstract' = C!Released(read) /\ pc' = "closed"

AbstractProcess ==
  \E r \in C!Process(Abstract) :
    /\ Abstract' = r.conn
    /\ pc # "orphaned" => pc' = IF r.ready THEN "writing" ELSE "reading"

AbstractWrite ==
  \E r \in C!Write(Abstract, TRUE, "up") :
    /\ Abstract' = r.conn
    /\ pc' = IF r.res = "DONE" THEN "done" ELSE "writing"

AbstractStep ==
  CASE pc = "reading" -> AbstractRead \/ Abstract' = C!Released(Abstract)
    [] pc = "queued" -> AbstractProcess \/ Abstract' = C!Released(Abstract)
    [] pc = "orphaned" -> AbstractProcess
    [] pc = "writing" -> AbstractWrite \/ Abstract' = C!Released(Abstract)
    [] pc = "done" -> Abstract' = IF conn.keepAlive THEN C!Rewound(Abstract) ELSE C!Released(Abstract)
    [] OTHER -> Abstract' = C!Released(Abstract)

(* Buffers, parser, response and iovec together do what Connection says    *)
(* that read(), process(), write(), reset() and closeConn() do to an       *)
(* object: what WebServer concludes from Connection holds of the code this *)
(* module models.                                                          *)
ImplementsConnection == [][AbstractStep]_vars
=============================================================================
