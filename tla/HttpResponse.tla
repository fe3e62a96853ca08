------------------------------ MODULE HttpResponse -----------------------------
(***************************************************************************)
(* The response builder as data: an HttpResponse in a record, one operator *)
(* per method.  buffer_ is a sequence of units: the status line, the       *)
(* Connection header, extra headers, Content-Length, and a body of one     *)
(* unit where the response carries its own.  Content types are left out.   *)
(***************************************************************************)
EXTENDS Integers, Sequences

CONSTANTS
  Paths,   \* paths a request may name
  NoFile   \* file_path_ is empty

(* What stat() says of a path.                                             *)
FileInfo == [kind : {"file", "dir", "missing", "unreadable"}, size : Nat]

Status(code) == [is |-> "status", code |-> code]
ConnectionHeader(keep) == [is |-> "connection", as |-> IF keep THEN "keep-alive" ELSE "close"]
SetCookie(id) == [is |-> "cookie", id |-> id]
ContentLength(n) == [is |-> "length", n |-> n]
ErrorPage(code) == [is |-> "page", code |-> code]
Json(user) == [is |-> "json", user |-> user]
Data(path, i) == [is |-> "data", path |-> path, at |-> i]

(* The content of a file of that size.                                     *)
Content(path, size) == [i \in 1..size |-> Data(path, i)]

(* The constructor and init().                                             *)
InitedResponse ==
  [status |-> 200, keepAlive |-> FALSE, file |-> NoFile, extra |-> <<>>, buffer |-> <<>>]

SetExtraHeaders(resp, headers) == [resp EXCEPT !.extra = headers]

(* addStatusLine() and addHeaders().                                       *)
HeaderOf(resp, length) ==
  <<Status(resp.status), ConnectionHeader(resp.keepAlive)>> \o resp.extra
    \o <<ContentLength(length)>>

(* makeErrorResponse(): keep_alive_ is what init() or build() left.        *)
MakeErrorResponse(resp, code) ==
  LET r == [resp EXCEPT !.status = code, !.file = NoFile]
  IN  [r EXCEPT !.buffer = resp.buffer \o HeaderOf(r, 1) \o <<ErrorPage(code)>>]

(* makeTextResponse(): init() takes the extra headers away.                *)
MakeTextResponse(code, text, keep) ==
  LET r == [InitedResponse EXCEPT !.status = code, !.keepAlive = keep]
  IN  [r EXCEPT !.buffer = HeaderOf(r, 1) \o <<text>>]

Started(path, keep, resp) ==
  [resp EXCEPT !.status = 200, !.keepAlive = keep, !.buffer = <<>>, !.file = path]

(* A build() that takes the keep_alive of the response before it.          *)
BuildForClose(resp, path, keep, fs) ==
  LET r == Started(path, FALSE, resp)
  IN  [resp |-> [r EXCEPT !.buffer = HeaderOf(r, fs[path].size)], ok |-> fs[path].kind = "file"]

(* build(): the pages for 404 and 403 are made, and false is returned.     *)
Build(resp, path, keep, fs) ==
  LET r == Started(path, keep, resp)
  IN  CASE fs[path].kind \in {"missing", "dir"} -> [resp |-> MakeErrorResponse(r, 404), ok |-> FALSE]
        [] fs[path].kind = "unreadable" -> [resp |-> MakeErrorResponse(r, 403), ok |-> FALSE]
        [] OTHER -> [resp |-> [r EXCEPT !.buffer = HeaderOf(r, fs[path].size)], ok |-> TRUE]
=============================================================================
