---------------------------- MODULE AccountsProofs -----------------------------
(***************************************************************************)
(* The pool of connections and the accounts, for any number of workers,    *)
(* handles, names and passwords.                                           *)
(***************************************************************************)
EXTENDS Accounts, FiniteSetTheorems, SequenceTheorems, TLAPS

-----------------------------------------------------------------------------
(* The pool, whoever uses it.  Where each handle is, said without counting: *)
(* no handle is twice in the queue, with two workers, or in both, and none  *)
(* is nowhere.                                                              *)
HandlesApart ==
  /\ \A i, j \in DOMAIN connQueue : connQueue[i] = connQueue[j] => i = j
  /\ \A v, w \in Worker : held[v] = held[w] /\ held[v] # NoSql => v = w
  /\ \A i \in DOMAIN connQueue, w \in Worker : connQueue[i] # held[w]
  /\ \A s \in Sql :
       (\E i \in DOMAIN connQueue : connQueue[i] = s) \/ (\E w \in Worker : held[w] = s)
  /\ freeCount = Len(connQueue) /\ useCount = Cardinality(Holders)

(* Apart means accounted for: each handle is counted once.                 *)
LEMMA ApartIsAccountedFor ==
  ASSUME PoolTypeOK, HandlesApart
  PROVE  HandlesAccountedFor
<1> SUFFICES ASSUME NEW s \in Sql
             PROVE  Cardinality({i \in DOMAIN connQueue : connQueue[i] = s})
                      + Cardinality({w \in Worker : held[w] = s}) = 1
  BY DEF HandlesAccountedFor, HandlesApart
<1> USE PoolAssumption
<1> DEFINE Q == {i \in DOMAIN connQueue : connQueue[i] = s}
           H == {w \in Worker : held[w] = s}
<1>1. ASSUME \E i \in DOMAIN connQueue : connQueue[i] = s PROVE Cardinality(Q) + Cardinality(H) = 1
  <2>1. PICK i \in DOMAIN connQueue : connQueue[i] = s
    BY <1>1
  <2>2. Q = {i}
    BY <2>1 DEF HandlesApart
  <2>3. H = {}
    BY <2>1 DEF HandlesApart
  <2>4. Cardinality(Q) = 1 /\ Cardinality(H) = 0
    BY <2>2, <2>3, FS_Singleton, FS_EmptySet
  <2> QED  BY <2>4
<1>2. ASSUME ~\E i \in DOMAIN connQueue : connQueue[i] = s PROVE Cardinality(Q) + Cardinality(H) = 1
  <2>1. PICK w \in Worker : held[w] = s
    BY <1>2 DEF HandlesApart
  <2>2. H = {w}
    BY <2>1 DEF HandlesApart
  <2>3. Q = {}
    BY <1>2
  <2>4. Cardinality(Q) = 0 /\ Cardinality(H) = 1
    BY <2>2, <2>3, FS_Singleton, FS_EmptySet
  <2> QED  BY <2>4
<1>3. Cardinality(Q) + Cardinality(H) = 1
  BY <1>1, <1>2
<1> QED  BY <1>3

(* The pool is filled with each handle once.                               *)
LEMMA PoolFilled ==
  ASSUME PoolInit
  PROVE  PoolTypeOK /\ HandlesApart
<1> USE PoolAssumption
<1> DEFINE n == Cardinality(Sql)
           f == SetToSeq(Sql)
<1>1. n \in Nat /\ \E g : g \in Bijection(1..n, Sql)
  BY FS_CardinalityType DEF ExistsBijection
<1>2. PICK g : g \in Bijection(1..n, Sql)
  BY <1>1
<1>3. g \in [1..n -> Sql] /\ IsInjective(g)
  BY <1>2 DEF Bijection, Injection
<1>4. f \in [1..n -> Sql] /\ IsInjective(f)
  BY <1>3 DEF SetToSeq
<1> HIDE DEF f
<1>5. f \in Injection(1..n, Sql) /\ IsFiniteSet(1..n) /\ Cardinality(1..n) = n
  BY <1>1, <1>4, FS_Interval DEF Injection
<1>6. f \in Surjection(1..n, Sql)
  BY <1>5, FS_Injection
<1> HIDE DEF n
<1>7. f \in Seq(Sql) /\ Len(f) = n /\ DOMAIN f = 1..n
  BY <1>1, <1>4
<1>8. connQueue = f /\ freeCount = n /\ useCount = 0 /\ held = [w \in Worker |-> NoSql]
  BY DEF PoolInit, f, n
<1>9. PoolTypeOK
  BY <1>7, <1>8 DEF PoolInit, PoolTypeOK
<1>10. useCount = Cardinality(Holders)
  <2>1. Holders = {}
    BY <1>8 DEF Holders
  <2> QED  BY <1>8, <2>1, FS_EmptySet
<1>11. \A i, j \in DOMAIN connQueue : connQueue[i] = connQueue[j] => i = j
  BY <1>4, <1>8 DEF IsInjective
<1>12. \A s \in Sql : \E i \in DOMAIN connQueue : connQueue[i] = s
  BY <1>6, <1>7, <1>8 DEF Surjection
<1>13. \A i \in DOMAIN connQueue : connQueue[i] \in Sql
  BY <1>7, <1>8, <1>4
<1> QED  BY <1>7, <1>8, <1>9, <1>10, <1>11, <1>12, <1>13 DEF HandlesApart

(* getConn moves the handle at the head of the queue to a worker that has  *)
(* none.                                                                   *)
LEMMA HandleTaken ==
  ASSUME PoolTypeOK, HandlesApart, NEW w \in Worker, held[w] = NoSql, GetConn(w)
  PROVE  HandlesApart' /\ held' = [held EXCEPT ![w] = Head(connQueue)] /\ Head(connQueue) \in Sql
<1> USE PoolAssumption
<1> DEFINE h == Head(connQueue)
<1>1. /\ connQueue \in Seq(Sql) /\ connQueue # <<>>
      /\ connQueue' = Tail(connQueue) /\ held' = [held EXCEPT ![w] = h]
      /\ freeCount' = freeCount - 1 /\ useCount' = useCount + 1
  BY DEF GetConn, InUse, PoolTypeOK
<1>2. /\ Len(connQueue) \in Nat /\ DOMAIN connQueue = 1..Len(connQueue)
      /\ connQueue' \in Seq(Sql) /\ Len(connQueue') = Len(connQueue) - 1
      /\ DOMAIN connQueue' = 1..(Len(connQueue) - 1) /\ Len(connQueue) >= 1
      /\ h \in Sql /\ h = connQueue[1]
      /\ \A i \in DOMAIN connQueue' : connQueue'[i] = connQueue[i + 1]
  BY <1>1, HeadTailProperties, LenProperties, EmptySeq
<1> HIDE DEF h
<1>3. held \in [Worker -> Sql \cup {NoSql}]
  BY DEF PoolTypeOK
<1>4. \A v \in Worker : held'[v] = IF v = w THEN h ELSE held[v]
  BY <1>1, <1>3
<1>5. \A v \in Worker : held[v] # h
  BY <1>2 DEF HandlesApart
<1>6. \A i, j \in DOMAIN connQueue' : connQueue'[i] = connQueue'[j] => i = j
  <2> SUFFICES ASSUME NEW i \in DOMAIN connQueue', NEW j \in DOMAIN connQueue',
                      connQueue'[i] = connQueue'[j]
               PROVE  i = j
    OBVIOUS
  <2>1. i + 1 \in DOMAIN connQueue /\ j + 1 \in DOMAIN connQueue
    BY <1>2
  <2>2. i + 1 = j + 1
    BY <1>2, <2>1 DEF HandlesApart
  <2> QED  BY <1>2, <2>2
<1>7. \A v, u \in Worker : held'[v] = held'[u] /\ held'[v] # NoSql => v = u
  BY <1>4, <1>5 DEF HandlesApart
<1>8. \A i \in DOMAIN connQueue', v \in Worker : connQueue'[i] # held'[v]
  <2> SUFFICES ASSUME NEW i \in DOMAIN connQueue', NEW v \in Worker
               PROVE  connQueue'[i] # held'[v]
    OBVIOUS
  <2>1. i + 1 \in DOMAIN connQueue /\ 1 \in DOMAIN connQueue /\ i + 1 # 1
    BY <1>2
  <2> QED  BY <1>2, <1>4, <2>1 DEF HandlesApart
<1>9. ASSUME NEW s \in Sql
      PROVE  (\E i \in DOMAIN connQueue' : connQueue'[i] = s) \/ (\E v \in Worker : held'[v] = s)
  <2>1. CASE \E i \in DOMAIN connQueue : connQueue[i] = s
    <3>1. PICK i \in DOMAIN connQueue : connQueue[i] = s
      BY <2>1
    <3>2. CASE i = 1
      BY <1>2, <1>4, <3>1, <3>2
    <3>3. CASE i # 1
      <4>1. i - 1 \in DOMAIN connQueue' /\ (i - 1) + 1 = i
        BY <1>2, <3>3
      <4>2. connQueue'[i - 1] = s
        BY <1>2, <3>1, <4>1
      <4> QED  BY <4>1, <4>2
    <3> QED  BY <3>2, <3>3
  <2>2. CASE \E v \in Worker : held[v] = s
    BY <1>4, <2>2
  <2> QED  BY <2>1, <2>2 DEF HandlesApart
<1>10. useCount' = Cardinality(Holders')
  <2>1. Holders' = Holders \cup {w} /\ w \notin Holders /\ IsFiniteSet(Holders)
    BY <1>2, <1>3, <1>4, FS_Subset DEF Holders
  <2> QED  BY <1>1, <2>1, FS_AddElement DEF HandlesApart
<1> QED  BY <1>1, <1>2, <1>6, <1>7, <1>8, <1>9, <1>10 DEF HandlesApart, h

(* ~SqlConnRAII moves it back, to the end of the queue.                    *)
LEMMA HandleReturned ==
  ASSUME PoolTypeOK, HandlesApart, NEW w \in Worker, FreeConn(w)
  PROVE  HandlesApart' /\ held' = [held EXCEPT ![w] = NoSql]
<1> USE PoolAssumption
<1> DEFINE h == held[w]
           n == Len(connQueue)
<1>1. held \in [Worker -> Sql \cup {NoSql}] /\ connQueue \in Seq(Sql)
  BY DEF PoolTypeOK
<1>2. /\ h \in Sql /\ h # NoSql
      /\ connQueue' = Append(connQueue, h) /\ held' = [held EXCEPT ![w] = NoSql]
      /\ freeCount' = freeCount + 1 /\ useCount' = useCount - 1
  BY <1>1 DEF FreeConn
<1>3. /\ n \in Nat /\ DOMAIN connQueue = 1..n
      /\ connQueue' \in Seq(Sql) /\ Len(connQueue') = n + 1 /\ DOMAIN connQueue' = 1..(n + 1)
      /\ \A i \in DOMAIN connQueue : connQueue'[i] = connQueue[i]
      /\ connQueue'[n + 1] = h
  BY <1>1, <1>2, AppendProperties, LenProperties
<1>4. \A v \in Worker : held'[v] = IF v = w THEN NoSql ELSE held[v]
  BY <1>1, <1>2
<1>5. \A i \in DOMAIN connQueue : connQueue[i] # h /\ connQueue[i] \in Sql
  BY <1>1 DEF HandlesApart
<1>6. \A i \in DOMAIN connQueue' : i \in DOMAIN connQueue \/ i = n + 1
  BY <1>3
<1> HIDE DEF h, n
<1>7. \A i, j \in DOMAIN connQueue' : connQueue'[i] = connQueue'[j] => i = j
  BY <1>3, <1>5, <1>6 DEF HandlesApart
<1>8. \A v, u \in Worker : held'[v] = held'[u] /\ held'[v] # NoSql => v = u
  BY <1>4 DEF HandlesApart
<1>9. \A i \in DOMAIN connQueue', v \in Worker : connQueue'[i] # held'[v]
  <2> SUFFICES ASSUME NEW i \in DOMAIN connQueue', NEW v \in Worker
               PROVE  connQueue'[i] # held'[v]
    OBVIOUS
  <2>1. CASE i \in DOMAIN connQueue
    BY <1>3, <1>4, <1>5, <2>1 DEF HandlesApart
  <2>2. CASE i = n + 1
    <3>1. v # w => held[v] # h
      BY <1>2 DEF HandlesApart, h
    <3> QED  BY <1>2, <1>3, <1>4, <2>2, <3>1
  <2> QED  BY <1>6, <2>1, <2>2
<1>10. ASSUME NEW s \in Sql
       PROVE  (\E i \in DOMAIN connQueue' : connQueue'[i] = s) \/ (\E v \in Worker : held'[v] = s)
  <2>1. CASE \E i \in DOMAIN connQueue : connQueue[i] = s
    <3>1. PICK i \in DOMAIN connQueue : connQueue[i] = s
      BY <2>1
    <3>2. i \in DOMAIN connQueue'
      BY <1>3
    <3> QED  BY <1>3, <3>1, <3>2
  <2>2. CASE \E v \in Worker : held[v] = s
    <3>1. PICK v \in Worker : held[v] = s
      BY <2>2
    <3>2. CASE v = w
      <4>1. n + 1 \in DOMAIN connQueue'
        BY <1>3
      <4> QED  BY <1>3, <3>1, <3>2, <4>1 DEF h
    <3>3. CASE v # w
      BY <1>4, <3>1, <3>3
    <3> QED  BY <3>2, <3>3
  <2> QED  BY <2>1, <2>2 DEF HandlesApart
<1>11. useCount' = Cardinality(Holders')
  <2>1. Holders' = Holders \ {w} /\ w \in Holders /\ IsFiniteSet(Holders)
    BY <1>2, <1>4, FS_Subset DEF Holders, h
  <2>2. Cardinality(Holders) \in Nat
    BY <2>1, FS_CardinalityType
  <2> QED  BY <1>2, <2>1, <2>2, FS_RemoveElement DEF HandlesApart
<1>12. freeCount' = Len(connQueue')
  BY <1>2, <1>3 DEF HandlesApart, n
<1> QED  BY <1>2, <1>7, <1>8, <1>9, <1>10, <1>11, <1>12 DEF HandlesApart

-----------------------------------------------------------------------------
(* The steps of a handler.  A step that goes to a place changes nothing    *)
(* else about the request than the place and the verdict.                  *)
LEMMA GoEffect ==
  ASSUME req \in [Worker -> Requests], NEW w \in Worker, NEW place \in Places,
         NEW verdict \in {"none", "ok", "refused", "error"}, Go(w, place, verdict)
  PROVE  /\ req' \in [Worker -> Requests]
         /\ req'[w].at = place /\ req'[w].verdict = verdict
         /\ req'[w].kind = req[w].kind /\ req'[w].name = req[w].name
         /\ req'[w].pass = req[w].pass /\ req'[w].sid = req[w].sid
         /\ \A v \in Worker : v # w => req'[v] = req[v]
<1> DEFINE r == [req[w] EXCEPT !.at = place, !.verdict = verdict]
<1>1. req[w] \in Requests
  OBVIOUS
<1>2. r \in Requests /\ r.at = place /\ r.verdict = verdict /\ r.kind = req[w].kind
      /\ r.name = req[w].name /\ r.pass = req[w].pass /\ r.sid = req[w].sid
  BY <1>1 DEF Requests
<1>3. req' = [req EXCEPT ![w] = r]
  BY DEF Go
<1> HIDE DEF r
<1> QED  BY <1>2, <1>3

(* A handler that is done becomes idle.                                    *)
LEMMA IdleEffect ==
  ASSUME req \in [Worker -> Requests], NEW w \in Worker, req' = [req EXCEPT ![w] = Idle]
  PROVE  /\ req' \in [Worker -> Requests] /\ req'[w] = Idle /\ req'[w].at = "idle"
         /\ \A v \in Worker : v # w => req'[v] = req[v]
  BY DEF Requests, Idle, Places

(* A handler that begins takes its input.                                  *)
LEMMA BeginEffect ==
  ASSUME TypeOK, NEW w \in Worker, NEW kind \in {"login", "register"}, NEW name \in Name,
         NEW pass \in Password, Begin(w, kind, name, pass)
  PROVE  /\ req' \in [Worker -> Requests]
         /\ req'[w].at = "getConn" /\ req'[w].verdict = "none"
         /\ req'[w].name = name /\ req'[w].pass = pass
         /\ \A v \in Worker : v # w => req'[v] = req[v]
<1> DEFINE r == [Idle EXCEPT !.at = "getConn", !.kind = kind, !.name = name, !.pass = pass]
<1>1. r \in Requests /\ r.at = "getConn" /\ r.verdict = "none" /\ r.name = name /\ r.pass = pass
  BY DEF Requests, Idle, Places
<1>2. req' = [req EXCEPT ![w] = r] /\ req \in [Worker -> Requests]
  BY DEF Begin, TypeOK
<1> HIDE DEF r
<1> QED  BY <1>1, <1>2

(* A login that is numbered keeps everything but its place and number.     *)
LEMMA NumberEffect ==
  ASSUME TypeOK, NEW w \in Worker, NumberSession(w)
  PROVE  /\ req' \in [Worker -> Requests]
         /\ req'[w].at = "store" /\ req'[w].sid = counter + 1
         /\ req'[w].kind = req[w].kind /\ req'[w].name = req[w].name
         /\ req'[w].pass = req[w].pass /\ req'[w].verdict = req[w].verdict
         /\ \A v \in Worker : v # w => req'[v] = req[v]
<1> DEFINE r == [req[w] EXCEPT !.at = "store", !.sid = counter + 1]
<1>1. req[w] \in Requests /\ counter + 1 \in Nat
  BY DEF TypeOK
<1>2. r \in Requests /\ r.at = "store" /\ r.sid = counter + 1 /\ r.kind = req[w].kind
      /\ r.name = req[w].name /\ r.pass = req[w].pass /\ r.verdict = req[w].verdict
  BY <1>1 DEF Requests, Places
<1>3. req' = [req EXCEPT ![w] = r] /\ req \in [Worker -> Requests]
  BY DEF NumberSession, Counted, TypeOK
<1> HIDE DEF r
<1> QED  BY <1>2, <1>3

(* The pool's own types, under its operations.                             *)
LEMMA PoolTypeStep ==
  ASSUME PoolTypeOK, NEW w \in Worker,
         GetConn(w) \/ Waits(w) \/ FreeConn(w) \/ SpuriousWakeup(w)
  PROVE  /\ PoolTypeOK'
         /\ GetConn(w) => Head(connQueue) \in Sql
<1> USE PoolAssumption
<1>1. CASE GetConn(w)
  <2>1. Head(connQueue) \in Sql /\ Tail(connQueue) \in Seq(Sql)
    BY <1>1, HeadTailProperties DEF GetConn, PoolTypeOK
  <2> QED  BY <1>1, <2>1 DEF GetConn, PoolTypeOK
<1>2. CASE Waits(w)
  BY <1>2 DEF Waits, GetConn, PoolTypeOK
<1>3. CASE FreeConn(w)
  <2>1. held[w] \in Sql /\ Append(connQueue, held[w]) \in Seq(Sql)
    BY <1>3, AppendProperties DEF FreeConn, PoolTypeOK
  <2>2. connQueue' \in Seq(Sql) /\ held' \in [Worker -> Sql \cup {NoSql}]
    BY <1>3, <2>1 DEF FreeConn, PoolTypeOK
  <2>3. asleep' \subseteq Worker /\ woken' \subseteq Worker \ asleep'
    BY <1>3 DEF FreeConn, NotifyOne, PoolTypeOK
  <2>4. ~(GetConn(w) /\ ~(Head(connQueue) \in Sql))
    BY HeadTailProperties DEF GetConn, PoolTypeOK
  <2> QED  BY <2>2, <2>3, <2>4 DEF PoolTypeOK
<1>4. CASE SpuriousWakeup(w)
  BY <1>4 DEF SpuriousWakeup, GetConn, PoolTypeOK
<1> QED  BY <1>1, <1>2, <1>3, <1>4

(* Types; a worker has a handle exactly while it is inside the block of    *)
(* its SqlConnRAII, and sleeps only where it takes one.                    *)
THEOREM TypeCorrect == Spec => []TypeOK
<1> USE PoolAssumption
<1>1. Init => TypeOK
  <2> SUFFICES ASSUME Init PROVE TypeOK
    OBVIOUS
  <2>1. PoolTypeOK /\ held = [w \in Worker |-> NoSql] /\ asleep = {} /\ woken = {}
    BY PoolFilled DEF Init, PoolInit
  <2>2. req \in [Worker -> Requests] /\ \A w \in Worker : req[w].at = "idle"
    BY DEF Init, Idle, Requests, Places
  <2>3. table \in [Name -> SUBSET Password]
    BY DEF Init
  <2>4. counter \in Nat /\ DOMAIN sessions \subseteq 1..counter
    BY DEF Init
  <2> QED  BY <2>1, <2>2, <2>3, <2>4 DEF Init, TypeOK, At
<1>2. TypeOK /\ [Next]_vars => TypeOK'
  <2> SUFFICES ASSUME TypeOK, [Next]_vars PROVE TypeOK'
    OBVIOUS
  <2>0. PoolTypeOK /\ req \in [Worker -> Requests]
    BY DEF TypeOK
  <2>1. CASE UNCHANGED vars
    BY <2>1 DEF vars, sqlVars, accountVars, TypeOK, PoolTypeOK, At
  <2>2. ASSUME NEW w \in Worker, NEW kind \in {"login", "register"}, NEW n \in Name,
               NEW p \in Password, Begin(w, kind, n, p)
        PROVE  TypeOK'
    <3>1. /\ req[w].at = "idle" /\ UNCHANGED sqlVars
          /\ UNCHANGED <<table, sessions, counter, cookies, told>>
      BY <2>2 DEF Begin, At
    <3>2. /\ req' \in [Worker -> Requests] /\ req'[w].at = "getConn"
          /\ req'[w].name = n /\ req'[w].pass = p
          /\ \A v \in Worker : v # w => req'[v] = req[v]
      BY <2>2, BeginEffect
    <3>3. PoolTypeOK'
      BY <2>0, <3>1 DEF sqlVars, PoolTypeOK
    <3> QED  BY <3>1, <3>2, <3>3 DEF TypeOK, sqlVars, At
  <2>3. ASSUME NEW w \in Worker, WaitForConn(w) PROVE TypeOK'
    <3>1. PoolTypeOK'
      BY <2>0, <2>3, PoolTypeStep DEF WaitForConn
    <3> QED  BY <2>3, <3>1 DEF WaitForConn, Waits, accountVars, TypeOK, At
  <2>4. ASSUME NEW w \in Worker, TakeConn(w) PROVE TypeOK'
    <3>1. PoolTypeOK' /\ Head(connQueue) \in Sql
      BY <2>0, <2>4, PoolTypeStep DEF TakeConn
    <3>2. /\ req' \in [Worker -> Requests] /\ req'[w].at = "select"
          /\ req'[w].name = req[w].name /\ req'[w].pass = req[w].pass
          /\ \A v \in Worker : v # w => req'[v] = req[v]
      BY <2>0, <2>4, GoEffect DEF TakeConn, Places
    <3>3. /\ req[w].at = "getConn" /\ held' = [held EXCEPT ![w] = Head(connQueue)]
          /\ asleep' = asleep /\ woken' = woken \ {w} /\ w \notin asleep
          /\ UNCHANGED <<table, sessions, counter, cookies, told>>
      BY <2>4 DEF TakeConn, GetConn, At
    <3> QED  BY <3>1, <3>2, <3>3 DEF TypeOK, PoolTypeOK, At
  <2>5. ASSUME NEW w \in Worker, QueryFails(w) PROVE TypeOK'
    <3>1. /\ req' \in [Worker -> Requests] /\ req'[w].at = "free"
          /\ req'[w].name = req[w].name /\ req'[w].pass = req[w].pass
          /\ \A v \in Worker : v # w => req'[v] = req[v]
      BY <2>0, <2>5, GoEffect DEF QueryFails, AfterError, Places
    <3> QED  BY <2>5, <3>1 DEF QueryFails, TypeOK, PoolTypeOK, sqlVars, At
  <2>6. ASSUME NEW w \in Worker, SelectPassword(w) PROVE TypeOK'
    <3>1. /\ req' \in [Worker -> Requests] /\ req'[w].at = "free"
          /\ req'[w].name = req[w].name /\ req'[w].pass = req[w].pass
          /\ \A v \in Worker : v # w => req'[v] = req[v]
      BY <2>0, <2>6, GoEffect DEF SelectPassword, Places
    <3> QED  BY <2>6, <3>1 DEF SelectPassword, TypeOK, PoolTypeOK, sqlVars, At
  <2>7. ASSUME NEW w \in Worker, SelectName(w) PROVE TypeOK'
    <3>1. /\ req' \in [Worker -> Requests] /\ req'[w].at \in {"insert", "free"}
          /\ req'[w].name = req[w].name /\ req'[w].pass = req[w].pass
          /\ \A v \in Worker : v # w => req'[v] = req[v]
      BY <2>0, <2>7, GoEffect DEF SelectName, Places
    <3> QED  BY <2>7, <3>1 DEF SelectName, TypeOK, PoolTypeOK, sqlVars, At
  <2>8. ASSUME NEW w \in Worker, InsertUser(w) PROVE TypeOK'
    <3>1. /\ req' \in [Worker -> Requests] /\ req'[w].at = "free"
          /\ req'[w].name = req[w].name /\ req'[w].pass = req[w].pass
          /\ \A v \in Worker : v # w => req'[v] = req[v]
      BY <2>0, <2>8, GoEffect DEF InsertUser, InsertRefused, Places
    <3>2. table' \in [Name -> SUBSET Password]
      BY <2>8 DEF InsertUser, TypeOK, At
    <3> QED  BY <2>8, <3>1, <3>2 DEF InsertUser, TypeOK, PoolTypeOK, sqlVars, At
  <2>9. ASSUME NEW w \in Worker, ReleaseConn(w) PROVE TypeOK'
    <3>1. PoolTypeOK'
      BY <2>0, <2>9, PoolTypeStep DEF ReleaseConn
    <3>2. /\ req' \in [Worker -> Requests]
          /\ req'[w].at \in {"number", "idle"}
          /\ req'[w].at = "number" => req'[w].name = req[w].name /\ req'[w].pass = req[w].pass
          /\ \A v \in Worker : v # w => req'[v] = req[v]
      BY <2>0, <2>9, GoEffect, IdleEffect DEF ReleaseConn, Places
    <3>3. /\ req[w].at = "free" /\ held' = [held EXCEPT ![w] = NoSql]
          /\ asleep' \cup woken' \subseteq asleep \cup woken
          /\ UNCHANGED <<table, sessions, counter, cookies>>
      BY <2>9 DEF ReleaseConn, FreeConn, NotifyOne, At
    <3>4. req[w].name \in Name /\ req[w].pass \in Password
      BY <3>3 DEF TypeOK, At
    <3>5. told' \subseteq Name \X Password
      BY <2>9, <3>4 DEF ReleaseConn, TypeOK
    <3> QED  BY <3>1, <3>2, <3>3, <3>4, <3>5 DEF TypeOK, PoolTypeOK, At
  <2>10. ASSUME NEW w \in Worker, NumberSession(w) PROVE TypeOK'
    <3>1. req[w].at = "number" /\ counter' = counter + 1
          /\ UNCHANGED <<sqlVars, table, sessions, cookies, told>>
      BY <2>10 DEF NumberSession, Counted, At
    <3> QED  BY <2>10, <3>1, NumberEffect DEF TypeOK, PoolTypeOK, sqlVars, At
  <2>11. ASSUME NEW w \in Worker, StoreSession(w) PROVE TypeOK'
    <3>1. /\ req[w].at = "store" /\ req' = [req EXCEPT ![w] = Idle]
          /\ UNCHANGED <<sqlVars, table, counter, told>>
          /\ cookies' = cookies \cup {<<req[w].sid, req[w].name, req[w].pass>>}
          /\ DOMAIN sessions' = DOMAIN sessions \cup {req[w].sid}
      BY <2>11 DEF StoreSession, At
    <3>2. req[w].sid \in 1..counter /\ req[w].name \in Name /\ req[w].pass \in Password
      BY <3>1 DEF TypeOK, At
    <3>3. cookies' \subseteq Nat \X Name \X Password
      BY <3>1, <3>2 DEF TypeOK
    <3>4. counter' \in Nat /\ DOMAIN sessions' \subseteq 1..counter'
      BY <3>1, <3>2 DEF TypeOK
    <3> QED  BY <2>0, <3>1, <3>3, <3>4, IdleEffect DEF TypeOK, PoolTypeOK, sqlVars, At
  <2>12. ASSUME NEW w \in Worker, Wakeup(w) PROVE TypeOK'
    <3>1. PoolTypeOK'
      BY <2>0, <2>12, PoolTypeStep DEF Wakeup
    <3> QED  BY <2>12, <3>1 DEF Wakeup, SpuriousWakeup, accountVars, TypeOK, At
  <2> QED
    BY <2>1, <2>2, <2>3, <2>4, <2>5, <2>6, <2>7, <2>8, <2>9, <2>10, <2>11, <2>12
    DEF Next, Handler
<1> QED  BY <1>1, <1>2, PTL DEF Spec

(* A handle is queued or with one worker, never with two and never with    *)
(* none, and the pool's two counters say how many are which: getConn and   *)
(* the destructor of SqlConnRAII pair up, whatever fails between them.     *)
THEOREM NoHandleLost == Spec => []HandlesAccountedFor
<1>1. Init => HandlesApart
  BY PoolFilled DEF Init
<1>2. TypeOK /\ HandlesApart /\ [Next]_vars => HandlesApart'
  <2> SUFFICES ASSUME TypeOK, HandlesApart, [Next]_vars PROVE HandlesApart'
    OBVIOUS
  <2>1. ASSUME NEW w \in Worker, TakeConn(w) PROVE HandlesApart'
    <3>1. held[w] = NoSql /\ GetConn(w)
      BY <2>1 DEF TakeConn, TypeOK, At
    <3> QED  BY <3>1, HandleTaken DEF TypeOK
  <2>2. ASSUME NEW w \in Worker, ReleaseConn(w) PROVE HandlesApart'
    BY <2>2, HandleReturned DEF ReleaseConn, TypeOK
  <2>3. CASE UNCHANGED <<connQueue, freeCount, useCount, held>>
    BY <2>3 DEF HandlesApart, Holders
  <2>4. CASE UNCHANGED sqlVars
    BY <2>3, <2>4 DEF sqlVars
  <2>5. ASSUME NEW w \in Worker, WaitForConn(w) \/ Wakeup(w) PROVE HandlesApart'
    BY <2>3, <2>5 DEF WaitForConn, Waits, Wakeup, SpuriousWakeup
  <2> QED
    BY <2>1, <2>2, <2>4, <2>5 DEF Next, Handler, Begin, QueryFails, SelectPassword, SelectName,
       InsertUser, NumberSession, StoreSession, vars
<1>3. TypeOK /\ HandlesApart => HandlesAccountedFor
  BY ApartIsAccountedFor DEF TypeOK
<1> QED  BY <1>1, <1>2, <1>3, TypeCorrect, PTL DEF Spec

(* One notify_one per handle given back is enough: while a worker sleeps   *)
(* in getConn, every handle in the queue has a woken worker of its own.    *)
THEOREM NoSignalMissed == Spec => []NoHandleIdle
<1> USE PoolAssumption
<1>1. Init => NoHandleIdle
  BY DEF Init, PoolInit, NoHandleIdle
<1>2. TypeOK /\ NoHandleIdle /\ [Next]_vars => NoHandleIdle'
  <2> SUFFICES ASSUME TypeOK, NoHandleIdle, [Next]_vars PROVE NoHandleIdle'
    OBVIOUS
  <2>0. /\ IsFiniteSet(woken) /\ Cardinality(woken) \in Nat
        /\ connQueue \in Seq(Sql) /\ Len(connQueue) \in Nat
        /\ asleep \cap woken = {} /\ held \in [Worker -> Sql \cup {NoSql}]
    BY FS_Subset, FS_CardinalityType, LenProperties DEF TypeOK, PoolTypeOK
  <2>1. ASSUME NEW w \in Worker, Waits(w) PROVE NoHandleIdle'
    <3>1. Len(connQueue') = 0 /\ Cardinality(woken') \in Nat
      BY <2>0, <2>1, FS_RemoveElement, FS_CardinalityType DEF Waits
    <3> QED  BY <3>1 DEF NoHandleIdle
  <2>2. ASSUME NEW w \in Worker, GetConn(w) PROVE NoHandleIdle'
    <3>1. Len(connQueue') = Len(connQueue) - 1
      BY <2>0, <2>2, HeadTailProperties DEF GetConn
    <3>2. Cardinality(woken') >= Cardinality(woken) - 1 /\ Cardinality(woken') \in Nat
      <4>1. woken' = woken \ {w}
        BY <2>2 DEF GetConn
      <4>2. IsFiniteSet(woken \ {w})
            /\ Cardinality(woken \ {w})
                 = IF w \in woken THEN Cardinality(woken) - 1 ELSE Cardinality(woken)
        BY <2>0, FS_RemoveElement
      <4>3. Cardinality(woken \ {w}) \in Nat
        BY <4>2, FS_CardinalityType
      <4> QED  BY <2>0, <4>1, <4>2, <4>3
    <3>3. asleep' = asleep
      BY <2>2 DEF GetConn
    <3> QED  BY <2>0, <3>1, <3>2, <3>3 DEF NoHandleIdle
  <2>3. ASSUME NEW w \in Worker, FreeConn(w) PROVE NoHandleIdle'
    <3>1. Len(connQueue') = Len(connQueue) + 1
      <4>1. held[w] \in Sql /\ connQueue' = Append(connQueue, held[w])
        BY <2>0, <2>3 DEF FreeConn
      <4> QED  BY <2>0, <4>1, AppendProperties
    <3>2. CASE asleep = {} /\ UNCHANGED <<asleep, woken>>
      BY <3>2 DEF NoHandleIdle
    <3>3. ASSUME NEW v \in asleep, asleep' = asleep \ {v}, woken' = woken \cup {v}
          PROVE  NoHandleIdle'
      <4>1. v \notin woken
        BY <2>0, <3>3
      <4>2. Cardinality(woken') = Cardinality(woken) + 1
        BY <2>0, <3>3, <4>1, FS_AddElement
      <4> QED  BY <2>0, <3>1, <3>3, <4>2 DEF NoHandleIdle
    <3> QED  BY <2>3, <3>2, <3>3 DEF FreeConn, NotifyOne
  <2>4. ASSUME NEW w \in Worker, SpuriousWakeup(w) PROVE NoHandleIdle'
    <3>1. Cardinality(woken') = Cardinality(woken) + 1 /\ Len(connQueue') = Len(connQueue)
      BY <2>0, <2>4, FS_AddElement DEF SpuriousWakeup
    <3> QED  BY <2>0, <2>4, <3>1 DEF NoHandleIdle, SpuriousWakeup
  <2>5. CASE UNCHANGED sqlVars
    BY <2>5 DEF NoHandleIdle, sqlVars
  <2> QED
    BY <2>1, <2>2, <2>3, <2>4, <2>5 DEF Next, Handler, Begin, WaitForConn, TakeConn, QueryFails,
       SelectPassword, SelectName, InsertUser, ReleaseConn, NumberSession, StoreSession, Wakeup,
       vars
<1> QED  BY <1>1, <1>2, TypeCorrect, PTL DEF Spec

-----------------------------------------------------------------------------
(* What is stored for a name stays: an insert finds the name taken.        *)
LEMMA RowsStay ==
  ASSUME TypeOK, [Next]_vars, NEW n \in Name, table[n] # {}
  PROVE  table'[n] = table[n]
<1>1. ASSUME NEW w \in Worker, InsertUser(w) PROVE table'[n] = table[n]
  BY <1>1 DEF InsertUser, TypeOK
<1> QED
  BY <1>1 DEF Next, Handler, Begin, WaitForConn, TakeConn, QueryFails, SelectPassword,
     SelectName, ReleaseConn, NumberSession, StoreSession, Wakeup, vars, accountVars

(* A verdict "ok" is about the table: the name is the worker's own, or the *)
(* password is the one stored.                                             *)
VerdictTrue(w) ==
  /\ req[w].at \in {"idle", "getConn", "select", "insert"} => req[w].verdict = "none"
  /\ req[w].at = "insert" => req[w].kind = "register"
  /\ req[w].at \in {"number", "store"} => req[w].kind = "login" /\ req[w].verdict = "ok"
  /\ req[w].verdict = "ok" =>
       IF req[w].kind = "login" THEN req[w].pass \in table[req[w].name]
                                ELSE table[req[w].name] = {req[w].pass}
VerdictsTrue == \A w \in Worker : VerdictTrue(w)

(* Every step of every worker keeps the verdicts true.                     *)
LEMMA VerdictsTrueStep ==
  ASSUME TypeOK, VerdictsTrue, [Next]_vars
  PROVE  VerdictsTrue'
<1>0. req \in [Worker -> Requests]
  BY DEF TypeOK
<1>1. ASSUME NEW v \in Worker, req'[v] = req[v] PROVE VerdictTrue(v)'
  <2>1. VerdictTrue(v)
    BY DEF VerdictsTrue
  <2>2. CASE req[v].verdict # "ok"
    BY <1>1, <2>1, <2>2 DEF VerdictTrue
  <2>3. CASE req[v].verdict = "ok"
    <3>1. table[req[v].name] # {} /\ req[v].name \in Name
      BY <2>1, <2>3 DEF VerdictTrue, TypeOK, At
    <3>2. table'[req[v].name] = table[req[v].name]
      BY <3>1, RowsStay
    <3> QED  BY <1>1, <2>1, <3>2 DEF VerdictTrue
  <2> QED  BY <2>2, <2>3
<1>2. ASSUME NEW w \in Worker, \A v \in Worker : v # w => req'[v] = req[v], VerdictTrue(w)'
      PROVE  VerdictsTrue'
  BY <1>1, <1>2 DEF VerdictsTrue
<1>3. CASE UNCHANGED req
  BY <1>1, <1>3 DEF VerdictsTrue
<1>4. ASSUME NEW w \in Worker, NEW kind \in {"login", "register"}, NEW n \in Name,
             NEW p \in Password, Begin(w, kind, n, p)
      PROVE  VerdictsTrue'
  <2>1. /\ req'[w].at = "getConn" /\ req'[w].verdict = "none"
        /\ \A v \in Worker : v # w => req'[v] = req[v]
    BY <1>4, BeginEffect
  <2> QED  BY <1>2, <2>1 DEF VerdictTrue
<1>5. ASSUME NEW w \in Worker, TakeConn(w) PROVE VerdictsTrue'
  <2>1. /\ req'[w].at = "select" /\ req'[w].verdict = "none"
        /\ \A v \in Worker : v # w => req'[v] = req[v]
    BY <1>0, <1>5, GoEffect DEF TakeConn, Places
  <2> QED  BY <1>2, <2>1 DEF VerdictTrue
<1>6. ASSUME NEW w \in Worker, QueryFails(w) PROVE VerdictsTrue'
  <2>1. /\ req'[w].at = "free" /\ req'[w].verdict = "error"
        /\ \A v \in Worker : v # w => req'[v] = req[v]
    BY <1>0, <1>6, GoEffect DEF QueryFails, AfterError, Places
  <2> QED  BY <1>2, <2>1 DEF VerdictTrue
<1>7. ASSUME NEW w \in Worker, SelectPassword(w) PROVE VerdictsTrue'
  <2> DEFINE verdict == IF LoginOk(req[w].name, req[w].pass) THEN "ok" ELSE "refused"
  <2>1. Go(w, "free", verdict) /\ verdict \in {"none", "ok", "refused", "error"}
        /\ req[w].kind = "login" /\ table' = table
    BY <1>7 DEF SelectPassword
  <2>2. verdict = "ok" => req[w].pass \in table[req[w].name]
    BY DEF LoginOk
  <2> HIDE DEF verdict
  <2>3. /\ req'[w].at = "free" /\ req'[w].verdict = verdict /\ req'[w].kind = "login"
        /\ req'[w].name = req[w].name /\ req'[w].pass = req[w].pass
        /\ \A v \in Worker : v # w => req'[v] = req[v]
    BY <1>0, <2>1, GoEffect DEF Places
  <2> QED  BY <1>2, <2>1, <2>2, <2>3 DEF VerdictTrue
<1>8. ASSUME NEW w \in Worker, SelectName(w) PROVE VerdictsTrue'
  <2>1. /\ \/ req'[w].at = "insert" /\ req'[w].verdict = "none" /\ req'[w].kind = "register"
           \/ req'[w].at = "free" /\ req'[w].verdict = "refused"
        /\ \A v \in Worker : v # w => req'[v] = req[v]
    BY <1>0, <1>8, GoEffect DEF SelectName, Places
  <2> QED  BY <1>2, <2>1 DEF VerdictTrue
<1>9. ASSUME NEW w \in Worker, InsertUser(w) PROVE VerdictsTrue'
  <2> DEFINE name == req[w].name
  <2>1. /\ req'[w].at = "free" /\ req'[w].kind = req[w].kind
        /\ req'[w].name = name /\ req'[w].pass = req[w].pass
        /\ \A v \in Worker : v # w => req'[v] = req[v]
    BY <1>0, <1>9, GoEffect DEF InsertUser, InsertRefused, Places
  <2>2. req[w].kind = "register" /\ name \in Name
    BY <1>9 DEF InsertUser, TypeOK, VerdictsTrue, VerdictTrue, At
  <2>3. req'[w].verdict = "ok" => table'[name] = {req[w].pass}
    BY <1>0, <1>9, <2>2, GoEffect DEF InsertUser, InsertRefused, Places, TypeOK
  <2> QED  BY <1>2, <2>1, <2>2, <2>3 DEF VerdictTrue
<1>10. ASSUME NEW w \in Worker, ReleaseConn(w) PROVE VerdictsTrue'
  <2>1. CASE req[w].kind = "login" /\ req[w].verdict = "ok"
    <3>1. /\ req'[w].at = "number" /\ req'[w].verdict = "ok" /\ req'[w].kind = "login"
          /\ req'[w].name = req[w].name /\ req'[w].pass = req[w].pass
          /\ \A v \in Worker : v # w => req'[v] = req[v]
      BY <1>0, <1>10, <2>1, GoEffect DEF ReleaseConn, Places
    <3>2. req[w].pass \in table[req[w].name] /\ table' = table
      BY <1>10, <2>1 DEF VerdictsTrue, VerdictTrue, ReleaseConn
    <3> QED  BY <1>2, <3>1, <3>2 DEF VerdictTrue
  <2>2. CASE ~(req[w].kind = "login" /\ req[w].verdict = "ok")
    <3>1. req'[w] = Idle /\ \A v \in Worker : v # w => req'[v] = req[v]
      BY <1>0, <1>10, <2>2, IdleEffect DEF ReleaseConn
    <3> QED  BY <1>2, <3>1 DEF VerdictTrue, Idle
  <2> QED  BY <2>1, <2>2
<1>11. ASSUME NEW w \in Worker, NumberSession(w) PROVE VerdictsTrue'
  <2>1. /\ req'[w].at = "store" /\ req'[w].kind = req[w].kind
        /\ req'[w].name = req[w].name /\ req'[w].pass = req[w].pass
        /\ req'[w].verdict = req[w].verdict
        /\ \A v \in Worker : v # w => req'[v] = req[v]
    BY <1>11, NumberEffect
  <2>2. req[w].at = "number" /\ table' = table /\ VerdictTrue(w)
    BY <1>11 DEF NumberSession, At, VerdictsTrue
  <2> QED  BY <1>2, <2>1, <2>2 DEF VerdictTrue
<1>12. ASSUME NEW w \in Worker, StoreSession(w) PROVE VerdictsTrue'
  <2>1. req'[w] = Idle /\ \A v \in Worker : v # w => req'[v] = req[v]
    BY <1>0, <1>12, IdleEffect DEF StoreSession
  <2> QED  BY <1>2, <2>1 DEF VerdictTrue, Idle
<1> QED
  BY <1>3, <1>4, <1>5, <1>6, <1>7, <1>8, <1>9, <1>10, <1>11, <1>12
  DEF Next, Handler, WaitForConn, Wakeup, vars, accountVars

(* No worker ever carries an "ok" that the user table does not bear out.   *)
THEOREM VerdictsHold == Spec => []VerdictsTrue
<1>1. Init => VerdictsTrue
  BY DEF Init, Idle, VerdictsTrue, VerdictTrue
<1> QED  BY <1>1, VerdictsTrueStep, TypeCorrect, PTL DEF Spec

(* Whoever is told that registration succeeded owns the name: the look-up  *)
(* and the insert are two statements, and two workers may pass the first   *)
(* with one name, but only one of them is told ok.                         *)
THEOREM NamesAreOwned == Spec => []SuccessMeansOwned
<1>1. Init => SuccessMeansOwned
  BY DEF Init, SuccessMeansOwned
<1>2. TypeOK /\ VerdictsTrue /\ SuccessMeansOwned /\ [Next]_vars => SuccessMeansOwned'
  <2> SUFFICES ASSUME TypeOK, VerdictsTrue, SuccessMeansOwned, [Next]_vars,
                      NEW t \in told'
               PROVE  table'[t[1]] = {t[2]}
    BY DEF SuccessMeansOwned
  <2>1. t[1] \in Name /\ table[t[1]] = {t[2]}
    <3>1. CASE t \in told
      BY <3>1 DEF SuccessMeansOwned, TypeOK
    <3>2. CASE t \notin told
      <4>1. PICK w \in Worker : ReleaseConn(w) /\ told' # told
        BY <3>2 DEF Next, Handler, Begin, WaitForConn, TakeConn, QueryFails, SelectPassword,
           SelectName, InsertUser, NumberSession, StoreSession, Wakeup, vars, accountVars
      <4>2. /\ t = <<req[w].name, req[w].pass>> /\ req[w].verdict = "ok"
            /\ req[w].at = "free" /\ req[w].kind # "login"
        BY <3>2, <4>1 DEF ReleaseConn, At
      <4> QED  BY <4>2 DEF VerdictsTrue, VerdictTrue, TypeOK, At
    <3> QED  BY <3>1, <3>2
  <2> QED  BY <2>1, RowsStay
<1> QED  BY <1>1, <1>2, TypeCorrect, VerdictsHold, PTL DEF Spec

(* A number that generateSessionId has given out is one session's only:    *)
(* it is under way with one worker, or in sessions_.                       *)
NumbersApart ==
  /\ \A w \in Worker : At(w, "store") => req[w].sid \notin DOMAIN sessions
  /\ \A v, w \in Worker : At(v, "store") /\ At(w, "store") /\ req[v].sid = req[w].sid => v = w

(* The counter only grows, so a new number is new.                         *)
LEMMA NumbersApartStep ==
  ASSUME TypeOK, NumbersApart, [Next]_vars
  PROVE  NumbersApart'
<1>0. req \in [Worker -> Requests]
  BY DEF TypeOK
<1>1. ASSUME NEW w \in Worker, req'[w].at # "store", sessions' = sessions,
             \A v \in Worker : v # w => req'[v] = req[v]
      PROVE  NumbersApart'
  BY <1>1 DEF NumbersApart, At
<1>2. CASE UNCHANGED <<req, sessions>>
  BY <1>2 DEF NumbersApart, At
<1>3. ASSUME NEW w \in Worker, NEW kind \in {"login", "register"}, NEW n \in Name,
             NEW p \in Password, Begin(w, kind, n, p)
      PROVE  NumbersApart'
  <2>1. req'[w].at = "getConn" /\ \A v \in Worker : v # w => req'[v] = req[v]
    BY <1>3, BeginEffect
  <2> QED  BY <1>1, <1>3, <2>1 DEF Begin
<1>4. ASSUME NEW w \in Worker,
             TakeConn(w) \/ QueryFails(w) \/ SelectPassword(w) \/ SelectName(w) \/ InsertUser(w)
      PROVE  NumbersApart'
  <2>1. \E place \in Places \ {"store"}, verdict \in {"none", "ok", "refused", "error"} :
          Go(w, place, verdict)
    BY <1>4 DEF TakeConn, QueryFails, SelectPassword, SelectName, InsertUser, InsertRefused,
       AfterError, Places
  <2>2. req'[w].at # "store" /\ \A v \in Worker : v # w => req'[v] = req[v]
    BY <1>0, <2>1, GoEffect
  <2>3. sessions' = sessions
    BY <1>4 DEF TakeConn, QueryFails, SelectPassword, SelectName, InsertUser
  <2> QED  BY <1>1, <2>2, <2>3
<1>5. ASSUME NEW w \in Worker, ReleaseConn(w) PROVE NumbersApart'
  <2>1. req'[w].at # "store" /\ \A v \in Worker : v # w => req'[v] = req[v]
    BY <1>0, <1>5, GoEffect, IdleEffect DEF ReleaseConn, Places
  <2> QED  BY <1>1, <1>5, <2>1 DEF ReleaseConn
<1>6. ASSUME NEW w \in Worker, NumberSession(w) PROVE NumbersApart'
  <2>1. /\ req'[w].at = "store" /\ req'[w].sid = counter + 1
        /\ \A v \in Worker : v # w => req'[v] = req[v]
    BY <1>6, NumberEffect
  <2>2. sessions' = sessions /\ counter + 1 \notin DOMAIN sessions
    BY <1>6 DEF NumberSession, TypeOK
  <2>3. \A v \in Worker : At(v, "store") => req[v].sid # counter + 1
    BY DEF TypeOK
  <2> QED  BY <2>1, <2>2, <2>3 DEF NumbersApart, At
<1>7. ASSUME NEW w \in Worker, StoreSession(w) PROVE NumbersApart'
  <2>1. req'[w].at = "idle" /\ \A v \in Worker : v # w => req'[v] = req[v]
    BY <1>0, <1>7, IdleEffect DEF StoreSession
  <2>2. DOMAIN sessions' = DOMAIN sessions \cup {req[w].sid} /\ At(w, "store")
    BY <1>7 DEF StoreSession
  <2> QED  BY <2>1, <2>2 DEF NumbersApart, At
<1> QED
  BY <1>2, <1>3, <1>4, <1>5, <1>6, <1>7
  DEF Next, Handler, WaitForConn, Wakeup, vars, accountVars

(* A session is never taken over: the cookie a client was given names, for *)
(* as long as the server runs, the user whose password it presented.       *)
THEOREM CookiesAreTrue == Spec => []CookieNamesItsUser
<1> DEFINE Stored == \A c \in cookies : c[1] \in DOMAIN sessions
           Inv == NumbersApart /\ Stored /\ CookieNamesItsUser
<1>1. Init => Inv
  BY DEF Init, Idle, NumbersApart, CookieNamesItsUser, At
<1>2. TypeOK /\ VerdictsTrue /\ Inv /\ [Next]_vars => Inv'
  <2> SUFFICES ASSUME TypeOK, VerdictsTrue, Inv, [Next]_vars PROVE Inv'
    OBVIOUS
  <2>1. NumbersApart'
    BY NumbersApartStep
  <2>2. ASSUME NEW c \in cookies
        PROVE  /\ c[1] \in DOMAIN sessions' /\ sessions'[c[1]] = c[2]
               /\ c[3] \in table'[c[2]]
    <3>1. c[1] \in DOMAIN sessions /\ sessions[c[1]] = c[2] /\ c[3] \in table[c[2]]
      BY DEF CookieNamesItsUser
    <3>2. c[2] \in Name
      BY DEF TypeOK
    <3>3. c[3] \in table'[c[2]]
      BY <3>1, <3>2, RowsStay
    <3>4. ASSUME NEW w \in Worker, StoreSession(w)
          PROVE  c[1] \in DOMAIN sessions' /\ sessions'[c[1]] = sessions[c[1]]
      BY <3>1, <3>4 DEF StoreSession, NumbersApart
    <3>5. CASE UNCHANGED sessions
      BY <3>1, <3>3, <3>5
    <3> QED
      BY <3>1, <3>3, <3>4, <3>5 DEF Next, Handler, Begin, WaitForConn, TakeConn, QueryFails,
         SelectPassword, SelectName, InsertUser, ReleaseConn, NumberSession, Wakeup, vars,
         accountVars
  <2>3. ASSUME NEW c \in cookies', c \notin cookies
        PROVE  /\ c[1] \in DOMAIN sessions' /\ sessions'[c[1]] = c[2]
               /\ c[3] \in table'[c[2]]
    <3>1. PICK w \in Worker : StoreSession(w)
      BY <2>3 DEF Next, Handler, Begin, WaitForConn, TakeConn, QueryFails, SelectPassword,
         SelectName, InsertUser, ReleaseConn, NumberSession, Wakeup, vars, accountVars
    <3>2. /\ c = <<req[w].sid, req[w].name, req[w].pass>> /\ req[w].at = "store"
          /\ table' = table
      BY <2>3, <3>1 DEF StoreSession, At
    <3>3. req[w].pass \in table[req[w].name]
      BY <3>2 DEF VerdictsTrue, VerdictTrue
    <3>4. c[1] \in DOMAIN sessions' /\ sessions'[c[1]] = c[2]
      BY <3>1, <3>2 DEF StoreSession
    <3> QED  BY <3>2, <3>3, <3>4
  <2> QED  BY <2>1, <2>2, <2>3 DEF CookieNamesItsUser
<1> QED  BY <1>1, <1>2, TypeCorrect, VerdictsHold, PTL DEF Spec
=============================================================================
