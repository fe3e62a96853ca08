------------------------------- MODULE Accounts -------------------------------
(***************************************************************************)
(* Login, registration and sessions, as workers run them side by side over *)
(* one pool of database connections, one user table and one sessions_ map. *)
(*                                                                         *)
(* The user table is the database's.  Its schema is not in the repository: *)
(* here a name is a key, so an insert for a name that is there fails, as   *)
(* the handler is prepared for.  A query may fail at any time.             *)
(***************************************************************************)
EXTENDS SqlConnPool

CONSTANTS
  Name, Password,
  NoPassword,  \* the empty string
  MaxLogins    \* bound: sessions that are made

ASSUME AccountsAssumption == NoPassword \in Password /\ MaxLogins \in Nat

VARIABLES
  req,       \* what each worker is doing
  table,     \* the passwords stored for each name
  sessions,  \* sessions_
  counter,   \* session_counter_
  cookies,   \* history: the sessions clients were given, and for what
  told       \* history: who was told that registration succeeded

accountVars == <<req, table, sessions, counter, cookies, told>>
vars == <<sqlVars, accountVars>>

Idle == [at |-> "idle", kind |-> "none", name |-> "none", pass |-> "none",
         verdict |-> "none", sid |-> 0]

Init ==
  /\ PoolInit
  /\ req = [w \in Worker |-> Idle]
  /\ table = [n \in Name |-> {}]
  /\ sessions = <<>> /\ counter = 0
  /\ cookies = {} /\ told = {}

At(w, place) == req[w].at = place
Go(w, place, verdict) == req' = [req EXCEPT ![w].at = place, ![w].verdict = verdict]

(* handleLogin and handleRegister begin by taking a connection.            *)
LoginsBegun == counter + Cardinality({v \in Worker : req[v].kind = "login"
                                                    /\ req[v].at # "store"})

Begin(w, kind, name, pass) ==
  /\ At(w, "idle")
  /\ kind = "login" => LoginsBegun < MaxLogins
  /\ req' = [req EXCEPT ![w] = [Idle EXCEPT !.at = "getConn", !.kind = kind,
                                            !.name = name, !.pass = pass]]
  /\ UNCHANGED <<sqlVars, table, sessions, counter, cookies, told>>

WaitForConn(w) ==
  /\ At(w, "getConn") /\ Waits(w)
  /\ UNCHANGED accountVars

TakeConn(w) ==
  /\ At(w, "getConn") /\ GetConn(w)
  /\ Go(w, "select", "none")
  /\ UNCHANGED <<table, sessions, counter, cookies, told>>

(* A failed query answers 500, from inside the block of the connection.    *)
LeakOnError == "idle"                                   \* handle not given back
AfterError == "free"

QueryFails(w) ==
  /\ req[w].at \in {"select", "insert"}
  /\ Go(w, AfterError, "error")
  /\ UNCHANGED <<sqlVars, table, sessions, counter, cookies, told>>

(* login_ok: there is a row, and its password is the one given.            *)
LoginOkWithoutRow(name, pass) ==                        \* "" for a missing row
  pass \in table[name] \cup (IF table[name] = {} THEN {NoPassword} ELSE {})
LoginOk(name, pass) == pass \in table[name]

SelectPassword(w) ==
  /\ At(w, "select") /\ req[w].kind = "login"
  /\ Go(w, "free", IF LoginOk(req[w].name, req[w].pass) THEN "ok" ELSE "refused")
  /\ UNCHANGED <<sqlVars, table, sessions, counter, cookies, told>>

SelectName(w) ==
  /\ At(w, "select") /\ req[w].kind = "register"
  /\ IF table[req[w].name] = {} THEN Go(w, "insert", "none") ELSE Go(w, "free", "refused")
  /\ UNCHANGED <<sqlVars, table, sessions, counter, cookies, told>>

InsertError == "ok"                                     \* the result not checked
InsertRefused == "error"

InsertUser(w) ==
  /\ At(w, "insert")
  /\ IF table[req[w].name] = {}
     THEN /\ table' = [table EXCEPT ![req[w].name] = {req[w].pass}]
          /\ Go(w, "free", "ok")
     ELSE UNCHANGED table /\ Go(w, "free", InsertRefused)
  /\ UNCHANGED <<sqlVars, sessions, counter, cookies, told>>

(* ~SqlConnRAII.  Only a login that succeeded has more to do.              *)
ReleaseConn(w) ==
  /\ At(w, "free") /\ FreeConn(w)
  /\ IF req[w].kind = "login" /\ req[w].verdict = "ok"
     THEN Go(w, "number", "ok") /\ UNCHANGED told
     ELSE /\ req' = [req EXCEPT ![w] = Idle]
          /\ told' = IF req[w].verdict = "ok"
                     THEN told \cup {<<req[w].name, req[w].pass>>} ELSE told
  /\ UNCHANGED <<table, sessions, counter, cookies>>

(* generateSessionId: the id is the time, the counter and a hash of the    *)
(* name; what tells two ids apart for certain is the counter.              *)
CountedLater == counter                                 \* read, not incremented
Counted == counter + 1

NumberSession(w) ==
  /\ At(w, "number")
  /\ counter' = Counted
  /\ req' = [req EXCEPT ![w].at = "store", ![w].sid = Counted]
  /\ UNCHANGED <<sqlVars, table, sessions, cookies, told>>

StoreSession(w) ==
  LET sid == req[w].sid IN
  /\ At(w, "store")
  /\ sessions' = [s \in DOMAIN sessions \cup {sid} |->
                    IF s = sid THEN req[w].name ELSE sessions[s]]
  /\ cookies' = cookies \cup {<<sid, req[w].name, req[w].pass>>}
  /\ req' = [req EXCEPT ![w] = Idle]
  /\ UNCHANGED <<sqlVars, table, counter, told>>

Wakeup(w) == SpuriousWakeup(w) /\ UNCHANGED accountVars

-----------------------------------------------------------------------------
Handler(w) ==
  \/ WaitForConn(w) \/ TakeConn(w) \/ QueryFails(w)
  \/ SelectPassword(w) \/ SelectName(w) \/ InsertUser(w) \/ ReleaseConn(w)
  \/ NumberSession(w) \/ StoreSession(w)

Next ==
  \E w \in Worker :
    \/ \E kind \in {"login", "register"}, n \in Name, p \in Password : Begin(w, kind, n, p)
    \/ Handler(w) \/ Wakeup(w)

Spec == Init /\ [][Next]_vars

-----------------------------------------------------------------------------
(* Types; a worker holds a connection exactly inside its block.            *)
Places == {"idle", "getConn", "select", "insert", "free", "number", "store"}
Requests == [at : Places, kind : {"none", "login", "register"}, name : Name \cup {"none"},
             pass : Password \cup {"none"}, verdict : {"none", "ok", "refused", "error"},
             sid : Nat]

TypeOK ==
  /\ PoolTypeOK
  /\ req \in [Worker -> Requests]
  /\ \A w \in Worker :
       /\ ~At(w, "idle") => req[w].name \in Name /\ req[w].pass \in Password
       /\ held[w] # NoSql <=> req[w].at \in {"select", "insert", "free"}
       /\ w \in asleep \cup woken => At(w, "getConn")
       /\ At(w, "store") => req[w].sid \in 1..counter
  /\ table \in [Name -> SUBSET Password]
  /\ counter \in Nat /\ DOMAIN sessions \subseteq 1..counter
  /\ cookies \subseteq Nat \X Name \X Password /\ told \subseteq Name \X Password

(* A session belongs to a user whose password was presented, and no login  *)
(* that runs at the same time takes it over: what whoami answers to the    *)
(* cookie is the name it was given for.                                    *)
CookieNamesItsUser ==
  \A c \in cookies : sessions[c[1]] = c[2] /\ c[3] \in table[c[2]]

(* Whoever is told that registration succeeded owns the name, although the *)
(* name is looked up and inserted by two statements.                       *)
SuccessMeansOwned == \A t \in told : table[t[1]] = {t[2]}
=============================================================================
