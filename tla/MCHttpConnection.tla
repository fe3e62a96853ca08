--------------------------- MODULE MCHttpConnection ---------------------------
EXTENDS HttpConnection

(* Character codes: a user "a b" with password "p", a free name "+".       *)
AB == <<97, 32, 98>>
Plus == <<43>>
P == <<112>>
MCUsers == [n \in {AB} |-> P]
MCSessions == <<AB>>

File(n) == [kind |-> "file", size |-> n]
Gone == [kind |-> "missing", size |-> 0]

MCFiles ==
  [p \in Paths |->
     CASE p = "/index.html" -> File(3)
       [] p \in {"/login.html", "/register.html"} -> File(2)
       [] p = "/empty.html" -> File(0)
       [] p = "/secret" -> [kind |-> "unreadable", size |-> 1]
       [] p = "/" -> [kind |-> "dir", size |-> 1]
       [] OTHER -> Gone]

(* The front page grows, the login page goes, a page appears.              *)
MCOtherFiles ==
  {[p \in Paths |->
      CASE p = "/index.html" -> File(2)
        [] p = "/login.html" -> Gone
        [] p = "/none.html" -> File(1)
        [] OTHER -> MCFiles[p]]}

Ask(method, path, keep) ==
  [method |-> method, path |-> path, version |-> "HTTP/1.1", keep |-> keep,
   cookie |-> Absent, form |-> Absent]
WithForm(path, name, password) == [Ask("POST", path, TRUE) EXCEPT !.form = <<name, password>>]

(* What may follow a login or a registration on the same connection: the   *)
(* cookie is the one that a login before it was given.                     *)
MCNext ==
  {Ask("GET", "/", FALSE), Ask("POST", "/login", TRUE),
   [Ask("GET", "/whoami", TRUE) EXCEPT !.cookie = <<[name |-> "session_id", value |-> 2]>>],
   WithForm("/login", AB, Plus), WithForm("/login", Plus, P), WithForm("/register", AB, P)}

(* Requests that no page, or no file to map, or no request line answers.   *)
MCOdd ==
  {Ask("GET", "/none.html", TRUE), Ask("GET", "/empty.html", TRUE), Ask("GET", "/secret", TRUE),
   Ask("get", "/index.html", TRUE), [Ask("GET", "/", TRUE) EXCEPT !.version = "HTTP/1.0"]}

MCStreams ==
  {<<a, b>> : a \in {WithForm("/login", AB, P), WithForm("/register", Plus, P)}, b \in MCNext}
    \cup {<<a, Ask("GET", "/index.html", FALSE)>> : a \in MCOdd}
    \cup {<<Ask("GET", "/index.html", TRUE), WithForm("/register", Plus, P),
            Ask("GET", "/", FALSE)>>}
=============================================================================
