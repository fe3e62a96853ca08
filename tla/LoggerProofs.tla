------------------------------ MODULE LoggerProofs -----------------------------
(***************************************************************************)
(* What the logger keeps of what is logged, for any number of threads,     *)
(* rotations, days, kills and files that cannot be opened.                 *)
(***************************************************************************)
EXTENDS Logger, DataLemmas

Current == <<log.date, log.index>>

(* A message was numbered and stamped when log() was called.               *)
Stamped(M) == \A m \in M : m.n < thr[m.by].n /\ m.run <= kills

AllStamped ==
  /\ Stamped(Filed) /\ Stamped(InHand) /\ Stamped(Queued) /\ Stamped(Called)
  /\ \A p \in Thread : thr[p].at # "idle" => thr[p].msg.by = p

(* While the queue is open, a thread's messages pass these places in turn. *)
Before(A, B) == \A a \in A, b \in B : a.by = b.by => a.n < b.n

InTurn ==
  ~closed =>
    /\ \A p \in Thread : thr[p].at # "write"
    /\ Before(Filed, InHand) /\ Before(Filed, Queued) /\ Before(Filed, Called)
    /\ Before(InHand, Queued) /\ Before(InHand, Called)
    /\ Before(Queued, Called)
    /\ \A i, j \in 1..Len(queue) : i < j /\ queue[i].by = queue[j].by => queue[i].n < queue[j].n

(* What this run has filed is in the current file or one before it, unless *)
(* the date was set back.                                                  *)
NotAfter(f, g) == (f[1] < g[1]) \/ (f[1] = g[1] /\ f[2] <= g[2])

CurrentLast ==
  /\ log.date <= today
  /\ \A f \in File : \A i \in 1..Len(Content(f)) :
       Content(f)[i].run = kills => NotAfter(f, Current)

NoneAhead == ~setBack => CurrentLast

(* Before init() nothing runs, and nothing of this run is filed.           *)
Fresh ==
  main = "init" =>
    /\ ~log.open /\ taken = <<>>
    /\ \A p \in Thread : thr[p].at = "idle"
    /\ \A m \in Filed : m.run # kills

(* The worker runs between init() and the end of the join in stop(), and   *)
(* with a file unless one could not be opened.                             *)
WorkerRuns ==
  /\ worker # "exited" => main \in {"up", "joining"}
  /\ failures = 0 /\ main \in {"up", "joining"} => log.open

(* What the worker took is written, and on disk when stop() is done.       *)
Stored == {m \in Message : OnDisk(m)}

TakenIsKept ==
  failures = 0 /\ main # "init" =>
    /\ \A i \in 1..Len(taken) : taken[i] \in Filed \/ (i = Len(taken) /\ worker = "writing")
    /\ main \in {"closed", "stopped"} => \A i \in 1..Len(taken) : taken[i] \in Stored

-----------------------------------------------------------------------------
(* Lengths of messages, and of sequences of them.                          *)
LEMMA SizeTyped ==
  ASSUME NEW m \in Message
  PROVE  Size(m) \in Nat
BY DEF Size, Message

(* The recursion in SumOf adds message by message.                         *)
Adds(f, s) ==
  f[0] = 0 /\ \A i \in 1..Len(s) : f[i] = f[i - 1] + Size(s[i])

(* SumOf is the last value of that recursion.                              *)
LEMMA SumAdds ==
  ASSUME NEW s \in Seq(Message)
  PROVE  \E f \in [0..Len(s) -> Nat] : Adds(f, s) /\ SumOf(s) = f[Len(s)]
<1>0. Len(s) \in Nat /\ \A i \in 1..Len(s) : s[i] \in Message
  BY LenProperties, ElementOfSeq
<1> DEFINE n == Len(s)
           Sums(f) == f = [i \in 0..n |-> IF i = 0 THEN 0 ELSE f[i - 1] + Size(s[i])]
           step == [i \in 1..n |-> [k \in Nat |-> k + Size(s[i])]]
<1>1. \E f : Sums(f)
  <2>1. \A i \in 1..n : Size(s[i]) \in Nat
    BY <1>0, SizeTyped
  <2>2. step \in [1..n -> [Nat -> Nat]]
    BY <2>1
  <2>3. PICK f \in [0..n -> Nat] : Iterates(f, 0, step, n)
    <3> HIDE DEF step
    <3> QED  BY <1>0, <2>2, RecursionExists
  <2>4. f[0] = 0 /\ \A i \in 1..n : f[i] = f[i - 1] + Size(s[i])
    <3>1. f[0] = 0 /\ \A i \in 1..n : f[i] = step[i][f[i - 1]]
      <4> HIDE DEF step
      <4> QED  BY <2>3 DEF Iterates
    <3>2. \A i \in 1..n : i - 1 \in 0..n /\ f[i - 1] \in Nat
      BY <1>0
    <3> QED  BY <3>1, <3>2
  <2>5. f = [i \in 0..n |-> IF i = 0 THEN 0 ELSE f[i - 1] + Size(s[i])]
    BY <1>0, <2>4
  <2> QED  BY <2>5
<1>2. ASSUME NEW f, Sums(f)
      PROVE  f \in [0..n -> Nat] /\ Adds(f, s)
  <2>1. f[0] = 0
    BY <1>0, <1>2
  <2>2. \A i \in 1..n : f[i] = f[i - 1] + Size(s[i])
    BY <1>0, <1>2
  <2> DEFINE P == {i \in 0..n : f[i] \in Nat}
  <2>3. \A i \in 0..(n - 1) : i \in P => i + 1 \in P
    <3>1. SUFFICES ASSUME NEW i \in 0..(n - 1), f[i] \in Nat
                   PROVE  f[i + 1] \in Nat /\ i + 1 \in 0..n
      BY <1>0
    <3>2. i + 1 \in 1..n /\ i + 1 - 1 = i
      BY <1>0
    <3>3. Size(s[i + 1]) \in Nat
      BY <1>0, <3>2, SizeTyped
    <3>4. f[i + 1] = f[i] + Size(s[i + 1])
      BY <2>2, <3>2
    <3> QED  BY <1>0, <3>1, <3>2, <3>3, <3>4
  <2>4. 0 \in P
    BY <1>0, <2>1
  <2>5. \A i \in 0..n : i \in P
    <3> HIDE DEF P
    <3> QED  BY <1>0, <2>3, <2>4, BoundedInduction
  <2>6. f = [i \in 0..n |-> f[i]]
    BY <1>2
  <2> QED  BY <2>1, <2>2, <2>5, <2>6 DEF Adds
<1> DEFINE h == CHOOSE f : Sums(f)
<1>3. Sums(h)
  <2> HIDE DEF Sums
  <2> QED  BY <1>1
<1>4. SumOf(s) = h[n]
  BY DEF SumOf
<1>5. h \in [0..n -> Nat] /\ Adds(h, s)
  <2> HIDE DEF Sums, h
  <2> QED  BY <1>2, <1>3
<1> HIDE DEF h
<1> QED  BY <1>4, <1>5

(* Sizes are numbers.                                                      *)
LEMMA SumTyped ==
  ASSUME NEW s \in Seq(Message)
  PROVE  SumOf(s) \in Nat
<1>1. Len(s) \in Nat
  BY LenProperties
<1>2. PICK f \in [0..Len(s) -> Nat] : Adds(f, s) /\ SumOf(s) = f[Len(s)]
  BY SumAdds
<1> QED  BY <1>1, <1>2

(* A message that is appended adds its length.                             *)
LEMMA SumOfAppended ==
  ASSUME NEW s \in Seq(Message), NEW m \in Message
  PROVE  SumOf(Append(s, m)) = SumOf(s) + Size(m)
<1> DEFINE t == Append(s, m)
           n == Len(s)
<1>1. /\ n \in Nat /\ t \in Seq(Message) /\ Len(t) = n + 1
      /\ \A i \in 1..n : t[i] = s[i]
      /\ t[n + 1] = m
  BY LenProperties, AppendProperties
<1>2. PICK f \in [0..n -> Nat] : Adds(f, s) /\ SumOf(s) = f[n]
  BY SumAdds
<1>3. PICK g \in [0..Len(t) -> Nat] : Adds(g, t) /\ SumOf(t) = g[Len(t)]
  <2> HIDE DEF t
  <2> QED  BY <1>1, SumAdds
<1> HIDE DEF t
<1> DEFINE P == {i \in 0..n : f[i] = g[i]}
<1>4. 0 \in P
  BY <1>1, <1>2, <1>3 DEF Adds
<1>5. \A i \in 0..(n - 1) : i \in P => i + 1 \in P
  <2>1. SUFFICES ASSUME NEW i \in 0..(n - 1), f[i] = g[i]
                 PROVE  f[i + 1] = g[i + 1] /\ i + 1 \in 0..n
    OBVIOUS
  <2>2. i + 1 \in 1..n /\ i + 1 \in 1..Len(t) /\ i + 1 - 1 = i
    BY <1>1
  <2>3. f[i + 1] = f[i] + Size(s[i + 1]) /\ g[i + 1] = g[i] + Size(t[i + 1])
    BY <1>2, <1>3, <2>2 DEF Adds
  <2> QED  BY <1>1, <2>1, <2>2, <2>3
<1>6. \A i \in 0..n : i \in P
  <2> HIDE DEF P
  <2> QED  BY <1>1, <1>4, <1>5, BoundedInduction
<1>7. n + 1 \in 1..Len(t) /\ n + 1 - 1 = n /\ n \in 0..n
  BY <1>1
<1>8. g[n + 1] = g[n] + Size(m) /\ f[n] = g[n]
  BY <1>1, <1>3, <1>6, <1>7 DEF Adds
<1> QED  BY <1>1, <1>2, <1>3, <1>8 DEF t

(* An empty file has no size.                                              *)
LEMMA SumOfNone == SumOf(<<>>) = 0
<1>1. <<>> \in Seq(Message) /\ Len(<<>>) = 0
  BY EmptySeq
<1>2. PICK f \in [0..Len(<<>>) -> Nat] : Adds(f, <<>>) /\ SumOf(<<>>) = f[Len(<<>>)]
  BY <1>1, SumAdds
<1> QED  BY <1>1, <1>2 DEF Adds

-----------------------------------------------------------------------------
(* The file operations, of log and disk together.                          *)
Pairs == [log : Logs, disk : [File -> Seq(Message)]]

Sound(L) == L \in Pairs /\ Buffered(L.log)

(* What a file holds once the buffer of the open file is in it.            *)
Held(L, f) == IF L.log.open /\ Name(L) = f THEN L.disk[f] \o L.log.buf ELSE L.disk[f]

(* No message is lost from one file.                                       *)
Keeps(L, A) == \A f \in File : \A x : Has(L.disk[f], x) => Has(A.disk[f], x)

(* Same file and size.                                                     *)
SamePlace(L, A) == /\ A.log.date = L.log.date /\ A.log.index = L.log.index
                   /\ A.log.size = L.log.size /\ A.log.missed = L.log.missed

(* The name of the open file is that of a file.                            *)
LEMMA NameTyped ==
  ASSUME NEW L \in Pairs
  PROVE  Name(L) \in File /\ Name(L) = <<L.log.date, L.log.index>>
BY DEF Pairs, Logs, Name, File

(* Joined sequences have what either has.                                  *)
LEMMA HasJoined ==
  ASSUME NEW S, NEW s \in Seq(S), NEW t \in Seq(S), NEW x
  PROVE  Has(s \o t, x) <=> Has(s, x) \/ Has(t, x)
<1>1. Len(s) \in Nat /\ Len(t) \in Nat
  BY LenProperties
<1>2. /\ Len(s \o t) = Len(s) + Len(t)
      /\ \A i \in 1..(Len(s) + Len(t)) : (s \o t)[i] = IF i =< Len(s) THEN s[i] ELSE t[i - Len(s)]
  BY ConcatProperties
<1> DEFINE u == s \o t
           n == Len(s)
<1>3. Len(u) = n + Len(t) /\ \A i \in 1..n : i \in 1..Len(u) /\ u[i] = s[i]
  BY <1>1, <1>2
<1>4. \A i \in 1..Len(t) : n + i \in 1..Len(u) /\ u[n + i] = t[i]
  <2>1. SUFFICES ASSUME NEW i \in 1..Len(t) PROVE n + i \in 1..Len(u) /\ u[n + i] = t[i]
    OBVIOUS
  <2>2. n + i \in 1..(n + Len(t)) /\ ~(n + i =< n) /\ n + i - n = i
    BY <1>1
  <2> QED  BY <1>2, <2>2
<1>5. \A i \in 1..Len(u) : i \in 1..n \/ (i - n \in 1..Len(t) /\ u[i] = t[i - n])
  <2>1. SUFFICES ASSUME NEW i \in 1..Len(u), ~(i \in 1..n)
                 PROVE  i - n \in 1..Len(t) /\ u[i] = t[i - n]
    OBVIOUS
  <2>2. ~(i =< n) /\ i - n \in 1..Len(t) /\ i \in 1..(n + Len(t))
    BY <1>1, <1>3, <2>1
  <2> QED  BY <1>2, <2>2
<1> HIDE DEF u
<1>6. ASSUME Has(u, x) PROVE Has(s, x) \/ Has(t, x)
  <2>1. PICK i \in 1..Len(u) : u[i] = x
    BY <1>6 DEF Has
  <2> QED  BY <1>3, <1>5, <2>1 DEF Has
<1>7. ASSUME Has(s, x) PROVE Has(u, x)
  BY <1>3, <1>7 DEF Has
<1>8. ASSUME Has(t, x) PROVE Has(u, x)
  BY <1>4, <1>8 DEF Has
<1> QED  BY <1>6, <1>7, <1>8 DEF u

(* The buffer goes to the file.                                            *)
LEMMA Spills ==
  ASSUME NEW L \in Pairs
  PROVE  /\ Spilled(L) \in Pairs
         /\ Spilled(L).log = [L.log EXCEPT !.buf = <<>>]
         /\ Spilled(L).disk = [L.disk EXCEPT ![Name(L)] = @ \o L.log.buf]
<1>1. L.log \in Logs /\ L.disk \in [File -> Seq(Message)] /\ Name(L) \in File
  BY NameTyped DEF Pairs
<1>2. L.log.buf \in Seq(Message) /\ <<>> \in Seq(Message)
  BY <1>1, EmptySeq DEF Logs
<1>3. L.disk[Name(L)] \o L.log.buf \in Seq(Message)
  BY <1>1, <1>2, ConcatProperties
<1>4. [L.log EXCEPT !.buf = <<>>] \in Logs
  BY <1>1, <1>2 DEF Logs
<1>5. [L.disk EXCEPT ![Name(L)] = @ \o L.log.buf] \in [File -> Seq(Message)]
  BY <1>1, <1>3
<1>6. Spilled(L).log = [L.log EXCEPT !.buf = <<>>]
  BY DEF Spilled, Pairs
<1>7. Spilled(L).disk = [L.disk EXCEPT ![Name(L)] = @ \o L.log.buf]
  BY DEF Spilled, Pairs
<1>8. Spilled(L) \in [log : {[L.log EXCEPT !.buf = <<>>]},
                      disk : {[L.disk EXCEPT ![Name(L)] = @ \o L.log.buf]}]
  BY DEF Spilled, Pairs
<1> QED  BY <1>4, <1>5, <1>6, <1>7, <1>8 DEF Pairs

(* Whether it is flushed or closed, a file keeps what is held for it.      *)
LEMMA SpillsHeld ==
  ASSUME NEW L \in Pairs, L.log.open
  PROVE  LET S == Spilled(L)
         IN  /\ S \in Pairs /\ SamePlace(L, S) /\ Name(S) = Name(L)
             /\ S.log.open /\ S.log.buf = <<>> /\ S.log.pending = L.log.pending
             /\ \A f \in File : S.disk[f] = Held(L, f)
             /\ Keeps(L, S)
<1> DEFINE S == Spilled(L)
<1>1. L \in Pairs /\ L.log \in Logs /\ L.disk \in [File -> Seq(Message)] /\ Name(L) \in File
  BY NameTyped DEF Pairs
<1>2. /\ S \in Pairs
      /\ S.log = [L.log EXCEPT !.buf = <<>>]
      /\ S.disk = [L.disk EXCEPT ![Name(L)] = @ \o L.log.buf]
  BY <1>1, Spills
<1> HIDE DEF S
<1>3. /\ S.log.open = L.log.open /\ S.log.date = L.log.date /\ S.log.index = L.log.index
      /\ S.log.size = L.log.size /\ S.log.missed = L.log.missed
      /\ S.log.buf = <<>> /\ S.log.pending = L.log.pending
  BY <1>1, <1>2 DEF Logs
<1>4. Name(S) = Name(L)
  BY <1>3 DEF Name
<1>5. \A f \in File : S.disk[f] = Held(L, f)
  BY <1>1, <1>2 DEF Held
<1>6. Keeps(L, S)
  <2>1. SUFFICES ASSUME NEW f \in File, NEW x, Has(L.disk[f], x) PROVE Has(S.disk[f], x)
    BY DEF Keeps
  <2>2. L.disk[f] \in Seq(Message) /\ L.log.buf \in Seq(Message)
    BY <1>1 DEF Logs
  <2>3. Has(L.disk[f] \o L.log.buf, x)
    BY <2>1, <2>2, HasJoined
  <2> QED  BY <1>5, <2>1, <2>3 DEF Held
<1> QED  BY <1>2, <1>3, <1>4, <1>5, <1>6 DEF SamePlace, S

(* F is L with nothing left in the buffer.                                 *)
Emptied(L, F) ==
  /\ F \in Pairs /\ SamePlace(L, F) /\ F.log.buf = <<>>
  /\ \A f \in File : F.disk[f] = Held(L, f)
  /\ Keeps(L, F)

(* flush writes the buffer to the open file.                               *)
LEMMA Flushes ==
  ASSUME NEW L \in Pairs, L.log.open \/ L.log.buf = <<>>
  PROVE  Emptied(L, FlushUnlocked(L)) /\ FlushUnlocked(L).log.open = L.log.open
<1>1. CASE ~L.log.open
  <2>1. FlushUnlocked(L) = L
    BY <1>1 DEF FlushUnlocked
  <2>2. L.log.buf = <<>>
    BY <1>1
  <2>3. \A f \in File : L.disk[f] = Held(L, f)
    BY <1>1 DEF Held
  <2> QED  BY <2>1, <2>2, <2>3 DEF Emptied, SamePlace, Keeps
<1>2. CASE L.log.open
  <2> DEFINE S == Spilled(L)
             F == FlushUnlocked(L)
  <2>1. /\ S \in Pairs /\ SamePlace(L, S) /\ S.log.open /\ S.log.buf = <<>>
        /\ \A f \in File : S.disk[f] = Held(L, f)
        /\ Keeps(L, S)
    BY <1>2, SpillsHeld
  <2>2. F = [S EXCEPT !.log.pending = 0]
    BY <1>2 DEF FlushUnlocked
  <2> HIDE DEF S, F
  <2>3. F.disk = S.disk /\ F.log = [S.log EXCEPT !.pending = 0] /\ F \in Pairs
    BY <2>1, <2>2 DEF Pairs, Logs
  <2>4. /\ F.log.open = S.log.open /\ F.log.date = S.log.date /\ F.log.index = S.log.index
        /\ F.log.size = S.log.size /\ F.log.buf = S.log.buf
    BY <2>1, <2>3 DEF Pairs, Logs
  <2>5. Keeps(L, F) /\ SamePlace(L, F)
    BY <2>1, <2>3, <2>4 DEF Keeps, SamePlace
  <2>6. F.log.open = L.log.open
    BY <1>2, <2>1, <2>4 DEF Pairs, Logs
  <2> QED  BY <2>1, <2>3, <2>4, <2>5, <2>6 DEF Emptied, F
<1>3. L.log.open \in BOOLEAN
  BY DEF Pairs, Logs
<1> QED  BY <1>1, <1>2, <1>3

(* Closing the file writes its buffer first.                               *)
LEMMA Closes ==
  ASSUME NEW L \in Pairs, L.log.open \/ L.log.buf = <<>>
  PROVE  Emptied(L, CloseLogFile(L)) /\ CloseLogFile(L).log.open = FALSE
<1>0. L.log.open \in BOOLEAN
  BY DEF Pairs, Logs
<1>1. CASE ~L.log.open
  <2>1. CloseLogFile(L) = L
    BY <1>1 DEF CloseLogFile
  <2>2. L.log.buf = <<>>
    BY <1>1
  <2>3. \A f \in File : L.disk[f] = Held(L, f)
    BY <1>1 DEF Held
  <2> QED  BY <1>0, <1>1, <2>1, <2>2, <2>3 DEF Emptied, SamePlace, Keeps
<1>2. CASE L.log.open
  <2> DEFINE S == Spilled(L)
             F == CloseLogFile(L)
  <2>1. /\ S \in Pairs /\ SamePlace(L, S) /\ S.log.open /\ S.log.buf = <<>>
        /\ \A f \in File : S.disk[f] = Held(L, f)
        /\ Keeps(L, S)
    BY <1>2, SpillsHeld
  <2>2. F = [S EXCEPT !.log.open = FALSE]
    BY <1>2 DEF CloseLogFile
  <2> HIDE DEF S, F
  <2>3. F.disk = S.disk /\ F.log = [S.log EXCEPT !.open = FALSE] /\ F \in Pairs
    BY <2>1, <2>2 DEF Pairs, Logs
  <2>4. /\ F.log.open = FALSE /\ F.log.date = S.log.date /\ F.log.index = S.log.index
        /\ F.log.size = S.log.size /\ F.log.buf = S.log.buf
    BY <2>1, <2>3 DEF Pairs, Logs
  <2>5. Keeps(L, F) /\ SamePlace(L, F)
    BY <2>1, <2>3, <2>4 DEF Keeps, SamePlace
  <2> QED  BY <2>1, <2>3, <2>4, <2>5 DEF Emptied, F
<1> QED  BY <1>0, <1>1, <1>2

(* With the buffer written, the disk has all there is.                     *)
LEMMA EmptiedIsSound ==
  ASSUME NEW L, NEW F, Emptied(L, F)
  PROVE  Sound(F) /\ \A f \in File : Held(F, f) = F.disk[f]
<1>1. /\ F \in Pairs /\ F.log.buf = <<>> /\ F.log.pending \in Nat
      /\ \A f \in File : F.disk[f] \in Seq(Message)
  BY DEF Emptied, Pairs, Logs
<1>2. Len(<<>>) = 0 /\ \A f \in File : F.disk[f] \o <<>> = F.disk[f]
  BY <1>1, EmptySeq, ConcatEmptySeq
<1> QED  BY <1>1, <1>2 DEF Sound, Buffered, Held

(* Flushing before closing makes no difference.                            *)
LEMMA EmptiedTwice ==
  ASSUME NEW L, NEW F, NEW C, Emptied(L, F), Emptied(F, C)
  PROVE  Emptied(L, C)
<1>1. \A f \in File : Held(F, f) = F.disk[f]
  BY EmptiedIsSound
<1>2. C \in Pairs /\ SamePlace(L, C) /\ C.log.buf = <<>> /\ \A f \in File : C.disk[f] = Held(L, f)
  BY <1>1 DEF Emptied, SamePlace
<1>3. Keeps(L, C)
  BY DEF Emptied, Keeps
<1> QED  BY <1>2, <1>3 DEF Emptied

(* The file after this one: the next of the day, or the first of today.    *)
Follows(L, R) ==
  /\ R.log.date = today
  /\ IF today # L.log.date THEN R.log.index = 0 ELSE R.log.index = L.log.index + 1

(* R is L at its next file, with nothing in the buffer.                    *)
Moved(L, R) ==
  /\ R \in Pairs /\ Follows(L, R) /\ R.log.buf = <<>>
  /\ \A f \in File : R.disk[f] = Held(L, f)
  /\ Keeps(L, R)

(* Rotation closes the file and goes on to another name.                   *)
LEMMA Moves ==
  ASSUME NEW L, Sound(L), today \in 0..MaxDay, Name(Rotated(L)) \in File
  PROVE  Moved(L, Rotated(L)) /\ Rotated(L).log.open = FALSE
<1> DEFINE F == FlushUnlocked(L)
           C == CloseLogFile(F)
           R == Rotated(L)
<1>1. Emptied(L, F)
  BY Flushes DEF Sound, Buffered
<1>2. Emptied(F, C) /\ C.log.open = FALSE
  <2>1. F \in Pairs /\ F.log.buf = <<>>
    <3> HIDE DEF F
    <3> QED  BY <1>1 DEF Emptied
  <2> HIDE DEF F
  <2> QED  BY <2>1, Closes
<1>3. Emptied(L, C)
  <2> HIDE DEF F, C
  <2> QED  BY <1>1, <1>2, EmptiedTwice
<1>4. R = IF today # L.log.date
          THEN [C EXCEPT !.log.date = today, !.log.index = 0, !.log.size = 0]
          ELSE [C EXCEPT !.log.index = @ + 1, !.log.size = 0]
  BY DEF Rotated
<1> HIDE DEF F, C, R
<1>5. /\ C \in Pairs /\ C.log \in Logs /\ C.log.date = L.log.date /\ C.log.index = L.log.index
      /\ C.log.index \in Nat /\ C.log.date \in 0..MaxDay /\ C.log.buf = <<>>
      /\ \A f \in File : C.disk[f] = Held(L, f)
  BY <1>3 DEF Emptied, SamePlace, Pairs, Logs
<1> DEFINE d == IF today # L.log.date THEN today ELSE C.log.date
           i == IF today # L.log.date THEN 0 ELSE C.log.index + 1
           g == [C.log EXCEPT !.date = d, !.index = i, !.size = 0]
<1>6. /\ g.date = d /\ g.index = i /\ g.size = 0 /\ g.open = FALSE /\ g.buf = <<>>
      /\ g.pending = C.log.pending
      /\ g \in [open : {FALSE}, date : {d}, index : {i}, size : {0}, missed : {C.log.missed},
                buf : {<<>>}, pending : {C.log.pending}]
  <2> HIDE DEF d, i
  <2> QED  BY <1>2, <1>5 DEF Logs
<1>7. R.log = g /\ R.disk = C.disk /\ R \in [log : {g}, disk : {C.disk}]
  <2>1. CASE today # L.log.date
    <3>1. R = [C EXCEPT !.log.date = today, !.log.index = 0, !.log.size = 0]
      BY <1>4, <2>1
    <3>2. g = [C.log EXCEPT !.date = today, !.index = 0, !.size = 0]
      BY <2>1
    <3> HIDE DEF g
    <3> QED  BY <1>5, <3>1, <3>2 DEF Pairs, Logs
  <2>2. CASE today = L.log.date
    <3>1. R = [C EXCEPT !.log.index = @ + 1, !.log.size = 0]
      BY <1>4, <2>2
    <3>2. g = [C.log EXCEPT !.index = @ + 1, !.size = 0]
      BY <1>5, <2>2 DEF Logs
    <3> HIDE DEF g
    <3> QED  BY <1>5, <3>1, <3>2 DEF Pairs, Logs
  <2> QED  BY <2>1, <2>2
<1>8. d = today /\ Name(R) = <<d, i>>
  <2>1. d = today
    BY <1>5
  <2> HIDE DEF d, i, g
  <2> QED  BY <1>6, <1>7, <2>1 DEF Name
<1>9. i \in 0..MaxIndex
  BY <1>8 DEF File, R
<1>10. R \in Pairs
  <2>1. g \in Logs
    <3>1. /\ d \in 0..MaxDay /\ <<>> \in Seq(Message)
          /\ C.log.pending \in Nat /\ C.log.missed \in Nat
      BY <1>5, <1>8, EmptySeq DEF Logs
    <3> HIDE DEF d, i
    <3> QED  BY <1>5, <1>9, <3>1 DEF Logs
  <2> HIDE DEF g
  <2> QED  BY <1>5, <1>7, <2>1 DEF Pairs
<1>11. Follows(L, R)
  BY <1>5, <1>6, <1>7, <1>8 DEF Follows
<1>12. Keeps(L, R)
  BY <1>3, <1>7 DEF Emptied, Keeps
<1> HIDE DEF d, i, g
<1> QED  BY <1>5, <1>6, <1>7, <1>10, <1>11, <1>12 DEF Moved, R

(* After a rotation the disk has all there is.                             *)
LEMMA MovedIsSound ==
  ASSUME NEW L, NEW R, Moved(L, R)
  PROVE  Sound(R) /\ \A f \in File : Held(R, f) = R.disk[f]
<1>1. Emptied(R, R)
  <2>1. \A f \in File : R.disk[f] \in Seq(Message)
    BY DEF Moved, Pairs
  <2>2. \A f \in File : R.disk[f] \o <<>> = R.disk[f]
    BY <2>1, ConcatEmptySeq
  <2> QED  BY <2>2 DEF Moved, Emptied, SamePlace, Keeps, Held
<1> QED  BY <1>1, EmptiedIsSound

(* What the open file held that is not in log.size, log.missed counts.     *)
Known(L) == L.log.size + L.log.missed

(* An attempt to open the next file: it opens, and its size is known or    *)
(* missed, or it is one of the MaxFailures that do not.                    *)
Opened(R, O) ==
  /\ O \in Pairs /\ O.disk = R.disk /\ O.log.buf = <<>>
  /\ O.log.date = R.log.date /\ O.log.index = R.log.index

(* Opening a file finds its size, or misses it, or fails.                  *)
LEMMA Opens ==
  ASSUME NEW R \in Pairs, R.log.buf = <<>>, R.log.open = FALSE, NEW r \in OpenLogFile(R)
  PROVE  /\ Opened(R, r.L) /\ r.ok \in BOOLEAN
         /\ r.L.log.open => r.ok /\ Known(r.L) = SumOf(r.L.disk[Name(r.L)])
         /\ ~r.L.log.open => failures # MaxFailures
<1>1. R \in Pairs /\ R.log \in Logs /\ R.disk \in [File -> Seq(Message)] /\ Name(R) \in File
  BY NameTyped DEF Pairs
<1> DEFINE all == SumOf(R.disk[Name(R)])
           O(j, k) == [R EXCEPT !.log.open = TRUE, !.log.size = j, !.log.missed = k]
<1>2. all \in Nat
  BY <1>1, SumTyped
<1>3. OpenWithSize(R) = O(all, 0) /\ OpenUnsized(R) = O(0, all)
  BY DEF OpenWithSize, OpenUnsized
<1>4. ASSUME NEW j \in Nat, NEW k \in Nat, j + k = all
      PROVE  /\ Opened(R, O(j, k)) /\ O(j, k).log.open = TRUE
             /\ Known(O(j, k)) = SumOf(O(j, k).disk[Name(O(j, k))])
  <2> DEFINE A == O(j, k)
             g == [R.log EXCEPT !.open = TRUE, !.size = j, !.missed = k]
  <2>1. A.disk = R.disk /\ A.log = g /\ A \in [log : {g}, disk : {R.disk}]
    BY <1>1, <1>4 DEF Pairs, Logs
  <2> HIDE DEF A
  <2>2. /\ g.open = TRUE /\ g.date = R.log.date /\ g.index = R.log.index
        /\ g.size = j /\ g.missed = k /\ g.buf = R.log.buf /\ g \in Logs
    BY <1>1, <1>4 DEF Logs
  <2> HIDE DEF g
  <2>3. Name(A) = Name(R)
    BY <2>1, <2>2 DEF Name
  <2>4. A \in Pairs
    BY <1>1, <2>1, <2>2 DEF Pairs
  <2>5. Opened(R, A)
    BY <2>1, <2>2, <2>4 DEF Opened
  <2>6. Known(A) = all
    BY <1>4, <2>1, <2>2 DEF Known
  <2> HIDE DEF O
  <2> QED  BY <2>1, <2>2, <2>3, <2>5, <2>6 DEF A
<1> HIDE DEF all, O
<1>5. CASE r.L \in {O(all, 0), O(0, all)} /\ r.ok = TRUE
  <2>1. PICK j \in {0, all}, k \in {0, all} : j + k = all /\ r.L = O(j, k)
    BY <1>2, <1>5
  <2>2. j \in Nat /\ k \in Nat
    BY <1>2
  <2> QED  BY <1>4, <1>5, <2>1, <2>2
<1>6. CASE failures # MaxFailures /\ r \in [L : {R}, ok : BOOLEAN]
  <2>1. r.L = R /\ r.ok \in BOOLEAN
    BY <1>6
  <2> QED  BY <1>6, <2>1 DEF Opened
<1>7. \/ r.L \in {O(all, 0), O(0, all)} /\ r.ok = TRUE
      \/ failures # MaxFailures /\ r \in [L : {R}, ok : BOOLEAN]
  BY <1>3 DEF OpenLogFile
<1> QED  BY <1>5, <1>6, <1>7

(* rotate_if_needed: stay, or move on to a file that opens or does not.    *)
Stays(L, m) == today = L.log.date /\ ~TooLong(m)

(* A message goes to the file that is open, or to the next one.            *)
LEMMA StaysOrMoves ==
  ASSUME NEW L, Sound(L), today \in 0..MaxDay, NEW m, NEW r \in RotateIfNeeded(L, m)
  PROVE  \/ Stays(L, m) /\ r.L = L /\ r.ok = TRUE
         \/ /\ ~Stays(L, m) /\ Moved(L, r.L) /\ r.ok \in BOOLEAN
            /\ r.L.log.open => r.ok /\ Known(r.L) = SumOf(r.L.disk[Name(r.L)])
            /\ ~r.L.log.open => failures # MaxFailures
<1>1. CASE Stays(L, m)
  <2>1. r = [L |-> L, ok |-> TRUE]
    BY <1>1 DEF RotateIfNeeded, Stays
  <2> QED  BY <1>1, <2>1
<1>2. CASE ~Stays(L, m)
  <2>1. Name(Rotated(L)) \in File /\ r \in OpenLogFile(Rotated(L))
    BY <1>2 DEF RotateIfNeeded, Stays
  <2>2. Moved(L, Rotated(L)) /\ Rotated(L).log.open = FALSE
    BY <2>1, Moves
  <2>3. Rotated(L) \in Pairs /\ Rotated(L).log.buf = <<>>
    BY <2>2 DEF Moved
  <2>4. /\ Opened(Rotated(L), r.L) /\ r.ok \in BOOLEAN
        /\ r.L.log.open => r.ok /\ Known(r.L) = SumOf(r.L.disk[Name(r.L)])
        /\ ~r.L.log.open => failures # MaxFailures
    BY <2>1, <2>2, <2>3, Opens
  <2>5. Moved(L, r.L)
    BY <2>2, <2>4 DEF Opened, Moved, Follows, Keeps
  <2> QED  BY <1>2, <2>4, <2>5
<1> QED  BY <1>1, <1>2

(* A message that is written is the last of its file, and on disk when it  *)
(* is an error.                                                            *)
LEMMA Appends ==
  ASSUME NEW L, Sound(L), L.log.open, NEW m \in Message, NEW A \in Appended(L, m)
  PROVE  /\ Sound(A) /\ Name(A) = Name(L) /\ A.log.open
         /\ A.log.date = L.log.date /\ A.log.index = L.log.index
         /\ A.log.size = L.log.size + Size(m) /\ A.log.missed = L.log.missed
         /\ \A f \in File : Held(A, f) = IF f = Name(L) THEN Append(Held(L, f), m) ELSE Held(L, f)
         /\ Keeps(L, A)
         /\ m.error => A.log.buf = <<>>
<1> DEFINE W == [L EXCEPT !.log.buf = Append(@, m), !.log.size = @ + Size(m),
                          !.log.pending = @ + 1]
           b == Append(L.log.buf, m)
           k == L.log.size + Size(m)
           n == L.log.pending + 1
<1>1. /\ L \in Pairs /\ L.log \in Logs /\ L.disk \in [File -> Seq(Message)] /\ Buffered(L.log)
      /\ L.log.buf \in Seq(Message) /\ L.log.open = TRUE
  BY DEF Sound, Pairs, Logs
<1>2. b \in Seq(Message) /\ k \in Nat /\ n \in Nat /\ Len(b) = Len(L.log.buf) + 1
  BY <1>1, SizeTyped, AppendProperties DEF Logs
<1>3. W.log = [L.log EXCEPT !.buf = b, !.size = k, !.pending = n] /\ W.disk = L.disk
      /\ W \in [log : {[L.log EXCEPT !.buf = b, !.size = k, !.pending = n]}, disk : {L.disk}]
  BY <1>1 DEF Logs, Pairs
<1> HIDE DEF W
<1>4. /\ W.log.open = TRUE /\ W.log.date = L.log.date /\ W.log.index = L.log.index
      /\ W.log.size = k /\ W.log.missed = L.log.missed /\ W.log.buf = b /\ W.log.pending = n
      /\ W.log \in Logs
  <2> HIDE DEF b, k, n
  <2> QED  BY <1>1, <1>2, <1>3 DEF Logs
<1>5. W \in Pairs
  <2> DEFINE g == [L.log EXCEPT !.buf = b, !.size = k, !.pending = n]
  <2> HIDE DEF g
  <2>1. W \in [log : {g}, disk : {L.disk}] /\ g \in Logs
    BY <1>3, <1>4 DEF g
  <2> QED  BY <1>1, <2>1 DEF Pairs
<1>6. Name(W) = Name(L)
  BY <1>4 DEF Name
<1>7. \A f \in File : Held(W, f) = IF f = Name(L) THEN Append(Held(L, f), m) ELSE Held(L, f)
  <2>1. SUFFICES ASSUME NEW f \in File
                 PROVE  Held(W, f) = IF f = Name(L) THEN Append(Held(L, f), m) ELSE Held(L, f)
    OBVIOUS
  <2>2. L.disk[f] \in Seq(Message)
    BY <1>1
  <2>3. L.disk[f] \o Append(L.log.buf, m) = Append(L.disk[f] \o L.log.buf, m)
    <3>1. <<m>> \in Seq(Message) /\ L.disk[f] \o L.log.buf \in Seq(Message)
      BY <1>1, <2>2, ConcatProperties
    <3>2. /\ Append(L.log.buf, m) = L.log.buf \o <<m>>
          /\ Append(L.disk[f] \o L.log.buf, m) = (L.disk[f] \o L.log.buf) \o <<m>>
      BY <1>1, <3>1, AppendIsConcat
    <3> DEFINE d == L.disk[f]
               t == L.log.buf
               o == <<m>>
    <3>3. d \in Seq(Message) /\ t \in Seq(Message) /\ o \in Seq(Message)
      BY <1>1, <2>2, <3>1
    <3>4. (d \o t) \o o = d \o (t \o o)
      <4> HIDE DEF d, t, o
      <4> QED  BY <3>3, ConcatAssociative
    <3> QED  BY <3>2, <3>4
  <2> QED  BY <1>1, <1>3, <1>4, <1>6, <2>3 DEF Held
<1>8. Keeps(L, W)
  BY <1>3 DEF Keeps
<1>9. CASE A = FlushUnlocked(W)
  <2>1. Emptied(W, A) /\ A.log.open = W.log.open
    BY <1>4, <1>5, <1>9, Flushes
  <2>2. Sound(A) /\ \A f \in File : Held(A, f) = Held(W, f)
    BY <2>1, EmptiedIsSound DEF Emptied
  <2>3. Keeps(L, A) /\ A.log.buf = <<>>
    BY <1>8, <2>1 DEF Emptied, Keeps
  <2>4. /\ A.log.date = L.log.date /\ A.log.index = L.log.index
        /\ A.log.size = k /\ A.log.missed = L.log.missed
    BY <1>4, <2>1 DEF Emptied, SamePlace
  <2>5. Name(A) = Name(L)
    BY <2>4 DEF Name
  <2> QED  BY <1>4, <1>7, <2>1, <2>2, <2>3, <2>4, <2>5
<1>10. CASE A = W /\ ~MustFlush(W, m)
  <2>1. ~m.error /\ n < FlushEvery
    BY <1>2, <1>4, <1>10, LoggerAssumption DEF MustFlush
  <2>2. Len(b) =< n
    BY <1>1, <1>2, LenProperties DEF Buffered, Logs
  <2>3. Sound(A)
    BY <1>4, <1>5, <1>10, <2>1, <2>2 DEF Sound, Buffered
  <2> QED  BY <1>4, <1>6, <1>7, <1>8, <1>10, <2>1, <2>3
<1>11. A = FlushUnlocked(W) \/ (A = W /\ ~MustFlush(W, m))
  BY DEF Appended, W
<1> QED  BY <1>9, <1>10, <1>11

-----------------------------------------------------------------------------
(* What a call of write_message does to the files.                         *)
Pair == [log |-> log, disk |-> disk]

(* The file written next is the current one or follows it.                 *)
Onward ==
  \/ log'.date = log.date /\ log'.index = log.index
  \/ /\ log'.date = today
     /\ IF today # log.date THEN log'.index = 0 ELSE log'.index = log.index + 1

NothingLost == \A f \in File : \A x : Has(disk[f], x) => Has(disk'[f], x)

Wrote(m) ==
  /\ log'.open /\ written' = written \cup {m} /\ failures' = failures
  /\ \A f \in File : Content(f)' = IF f = Current' THEN Append(Content(f), m) ELSE Content(f)
  /\ m.error => log'.buf = <<>>
  /\ \/ /\ Current' = Current /\ log.open /\ ~TooLong(m)
        /\ log'.size = log.size + Size(m) /\ log'.missed = log.missed
     \/ /\ Current' # Current
        /\ log'.size + log'.missed = SumOf(Content(Current')) + Size(m)

Dropped ==
  /\ ~log'.open /\ written' = written
  /\ \A f \in File : Content(f)' = Content(f)
  /\ (~log.open /\ failures' = failures) \/ failures' = failures + 1

Effect(m) ==
  /\ Sound(Pair)' /\ failures' \in 0..MaxFailures
  /\ Onward /\ NothingLost
  /\ Wrote(m) \/ Dropped

(* The state of the logger as the pair the lemmas speak of.                *)
LEMMA PairIsSound ==
  ASSUME TypeOK
  PROVE  /\ Sound(Pair) /\ Name(Pair) = Current /\ Current \in File
         /\ \A f \in File : Content(f) = Held(Pair, f) /\ Content(f) \in Seq(Message)
<1>1. log \in Logs /\ disk \in [File -> Seq(Message)] /\ Buffered(log)
  BY DEF TypeOK
<1>2. Pair \in Pairs /\ Pair.log = log /\ Pair.disk = disk
  BY <1>1 DEF Pair, Pairs
<1>3. Name(Pair) = Current /\ Current \in File
  BY <1>2, NameTyped DEF Name, Current
<1>4. \A f \in File : Content(f) = Held(Pair, f)
  BY <1>2, <1>3 DEF Content, Held, Current
<1>5. \A f \in File : Content(f) \in Seq(Message)
  <2>1. SUFFICES ASSUME NEW f \in File PROVE Content(f) \in Seq(Message)
    OBVIOUS
  <2>2. disk[f] \in Seq(Message) /\ log.buf \in Seq(Message)
    BY <1>1 DEF Logs
  <2>3. disk[f] \o log.buf \in Seq(Message)
    BY <2>2, ConcatProperties
  <2> QED  BY <2>2, <2>3 DEF Content
<1> QED  BY <1>1, <1>2, <1>3, <1>4, <1>5 DEF Sound

(* write_message writes at the end of a file, or drops the message.        *)
LEMMA WriteEffect ==
  ASSUME TypeOK, NEW m \in Message, WriteMessage(m)
  PROVE  Effect(m)
<1> DEFINE L == Pair
<1>0. today \in 0..MaxDay /\ failures \in 0..MaxFailures /\ MaxFailures \in Nat
  BY LoggerAssumption DEF TypeOK
<1>1. /\ Sound(L) /\ Name(L) = Current /\ Current \in File
      /\ \A f \in File : Content(f) = Held(L, f) /\ Content(f) \in Seq(Message)
      /\ L.log = log /\ L.disk = disk /\ L \in Pairs
  BY PairIsSound DEF Pair, Sound
<1>2. PICK r \in RotateIfNeeded(L, m) :
        /\ failures' = IF r.L.log.open \/ (today = log.date /\ ~TooLong(m))
                       THEN failures ELSE failures + 1
        /\ \/ /\ r.ok /\ r.L.log.open
              /\ \E A \in Appended(r.L, m) : log' = A.log /\ disk' = A.disk
              /\ written' = written \cup {m}
           \/ /\ ~(r.ok /\ r.L.log.open)
              /\ log' = r.L.log /\ disk' = r.L.disk
              /\ UNCHANGED written
  BY DEF WriteMessage, Pair
<1> HIDE DEF L
<1> DEFINE M == r.L
<1>3. \/ Stays(L, m) /\ M = L /\ r.ok = TRUE
      \/ /\ ~Stays(L, m) /\ Moved(L, M) /\ r.ok \in BOOLEAN
         /\ M.log.open => r.ok /\ Known(M) = SumOf(M.disk[Name(M)])
         /\ ~M.log.open => failures # MaxFailures
  BY <1>0, <1>1, StaysOrMoves
<1>4. Stays(L, m) <=> today = log.date /\ ~TooLong(m)
  BY <1>1 DEF Stays
<1> HIDE DEF M
<1>5. /\ Sound(M) /\ M \in Pairs /\ Keeps(L, M)
      /\ \A f \in File : Held(M, f) = Content(f)
  <2>1. CASE M = L
    BY <1>1, <2>1 DEF Keeps
  <2>2. CASE Moved(L, M)
    <3>1. Sound(M) /\ \A f \in File : Held(M, f) = M.disk[f]
      BY <2>2, MovedIsSound
    <3> QED  BY <1>1, <2>2, <3>1 DEF Moved
  <2> QED  BY <1>3, <2>1, <2>2
<1>6. \/ M.log.date = log.date /\ M.log.index = log.index
      \/ /\ M.log.date = today
         /\ IF today # log.date THEN M.log.index = 0 ELSE M.log.index = log.index + 1
  BY <1>1, <1>3 DEF Moved, Follows
<1>7. failures' \in 0..MaxFailures
      /\ (M.log.open => failures' = failures)
      /\ (~M.log.open => (~log.open /\ failures' = failures) \/ failures' = failures + 1)
  BY <1>0, <1>1, <1>2, <1>3, <1>4 DEF M
<1>8. CASE r.ok /\ M.log.open
  <2>1. PICK A \in Appended(M, m) : log' = A.log /\ disk' = A.disk
    BY <1>2, <1>8 DEF M
  <2>2. /\ Sound(A) /\ Name(A) = Name(M) /\ A.log.open
        /\ A.log.date = M.log.date /\ A.log.index = M.log.index
        /\ A.log.size = M.log.size + Size(m) /\ A.log.missed = M.log.missed
        /\ \A f \in File : Held(A, f) = IF f = Name(M) THEN Append(Held(M, f), m) ELSE Held(M, f)
        /\ Keeps(M, A)
        /\ m.error => A.log.buf = <<>>
    BY <1>5, <1>8, Appends
  <2>3. Pair' = A /\ Sound(Pair)'
    <3>1. A \in Pairs
      BY <2>2 DEF Sound
    <3>2. A = [log |-> A.log, disk |-> A.disk]
      BY <3>1 DEF Pairs
    <3> QED  BY <2>1, <2>2, <3>2 DEF Pair, Sound
  <2>4. Current' = Name(M)
    BY <2>1, <2>2 DEF Current, Name
  <2>5. \A f \in File : Content(f)' = IF f = Current' THEN Append(Content(f), m) ELSE Content(f)
    <3>1. \A f \in File : Content(f)' = Held(A, f)
      BY <2>1, <2>2 DEF Content, Held, Name
    <3> QED  BY <1>5, <2>2, <2>4, <3>1
  <2>6. Onward
    BY <1>6, <2>1, <2>2 DEF Onward
  <2>7. NothingLost
    BY <1>1, <1>5, <2>1, <2>2 DEF NothingLost, Keeps
  <2>8. \/ /\ Current' = Current /\ log.open /\ ~TooLong(m)
           /\ log'.size = log.size + Size(m) /\ log'.missed = log.missed
        \/ /\ Current' # Current
           /\ log'.size + log'.missed = SumOf(Content(Current')) + Size(m)
    <3>1. CASE Stays(L, m) /\ M = L
      BY <1>1, <1>4, <1>8, <2>1, <2>2, <2>4, <3>1
    <3>2. CASE ~Stays(L, m) /\ Moved(L, M) /\ (M.log.open => Known(M) = SumOf(M.disk[Name(M)]))
      <4>1. Current' # Current
        <5>1. log.date \in 0..MaxDay /\ log.index \in 0..MaxIndex /\ MaxIndex \in Nat
          BY LoggerAssumption DEF TypeOK, Logs
        <5>2. Name(M) = <<M.log.date, M.log.index>>
          BY DEF Name
        <5>3. M.log.date # log.date \/ M.log.index # log.index
          BY <1>1, <3>2, <5>1 DEF Moved, Follows
        <5> QED  BY <2>4, <5>2, <5>3 DEF Current
      <4>2. M.disk[Name(M)] = Content(Current')
        <5>1. Name(M) \in File
          BY <1>5, NameTyped
        <5>2. \A f \in File : M.disk[f] = Content(f)
          BY <1>1, <3>2 DEF Moved
        <5> QED  BY <2>4, <5>1, <5>2
      <4>3. M.log.size + M.log.missed = SumOf(Content(Current'))
        BY <1>8, <3>2, <4>2 DEF Known
      <4>4. M.log.size \in Nat /\ M.log.missed \in Nat /\ Size(m) \in Nat
        BY <1>5, SizeTyped DEF Pairs, Logs
      <4>5. M.log.size + Size(m) + M.log.missed = SumOf(Content(Current')) + Size(m)
        <5> DEFINE a == M.log.size
                   b == M.log.missed
                   c == Size(m)
                   d == SumOf(Content(Current'))
        <5>1. a \in Nat /\ b \in Nat /\ c \in Nat /\ a + b = d
          BY <4>3, <4>4
        <5> HIDE DEF a, b, c, d
        <5>2. a + c + b = d + c
          BY <5>1
        <5> QED  BY <5>2 DEF a, b, c, d
      <4> QED  BY <2>1, <2>2, <4>1, <4>5
    <3> QED  BY <1>3, <3>1, <3>2
  <2>9. written' = written \cup {m}
    BY <1>2, <1>8 DEF M
  <2>10. Wrote(m)
    BY <1>7, <1>8, <2>1, <2>2, <2>5, <2>8, <2>9 DEF Wrote
  <2> QED  BY <1>7, <2>3, <2>6, <2>7, <2>10 DEF Effect
<1>9. CASE ~(r.ok /\ M.log.open)
  <2>1. log' = M.log /\ disk' = M.disk /\ written' = written
    BY <1>2, <1>9 DEF M
  <2>2. ~M.log.open
    BY <1>3, <1>9
  <2>3. Pair' = M /\ Sound(Pair)'
    <3>1. M = [log |-> M.log, disk |-> M.disk]
      BY <1>5 DEF Pairs
    <3> QED  BY <1>5, <2>1, <3>1 DEF Pair, Sound
  <2>4. \A f \in File : Content(f)' = Content(f)
    BY <1>5, <2>1, <2>2 DEF Content, Held
  <2>5. Onward
    BY <1>6, <2>1 DEF Onward
  <2>6. NothingLost
    BY <1>1, <1>5, <2>1 DEF NothingLost, Keeps
  <2>7. Dropped
    BY <1>7, <2>1, <2>2, <2>4 DEF Dropped
  <2> QED  BY <1>7, <2>3, <2>5, <2>6, <2>7 DEF Effect
<1> QED  BY <1>8, <1>9

(* What a file holds is kept when it is flushed or closed, ...             *)
Tidied ==
  /\ Sound(Pair)' /\ NothingLost
  /\ \A f \in File : Content(f)' = Content(f)
  /\ Current' = Current /\ log'.date = log.date
  /\ log'.size = log.size /\ log'.missed = log.missed

(* A step that only writes the buffer out loses nothing.                   *)
LEMMA EmptiedIsTidied ==
  ASSUME TypeOK, NEW F, Emptied(Pair, F), log' = F.log, disk' = F.disk
  PROVE  Tidied /\ \A f \in File : disk'[f] = Content(f)
<1>1. /\ F \in Pairs /\ F.log.buf = <<>> /\ F.log.date = log.date /\ F.log.index = log.index
      /\ F.log.size = log.size /\ F.log.missed = log.missed
      /\ \A f \in File : F.disk[f] = Content(f)
  BY PairIsSound DEF Emptied, SamePlace, Pair
<1>2. Sound(F) /\ \A f \in File : Held(F, f) = F.disk[f]
  BY EmptiedIsSound
<1>3. Pair' = F
  <2>1. F = [log |-> F.log, disk |-> F.disk]
    BY <1>1 DEF Pairs
  <2> QED  BY <2>1 DEF Pair
<1>4. Sound(Pair)'
  BY <1>2, <1>3 DEF Sound
<1>5. \A f \in File : Content(f)' = Held(F, f)
  BY DEF Content, Held, Name
<1>6. NothingLost
  BY DEF Emptied, Keeps, NothingLost, Pair
<1> QED  BY <1>1, <1>2, <1>4, <1>5, <1>6 DEF Tidied, Current

(* The worker's flush is such a step.                                      *)
LEMMA FlushTidies ==
  ASSUME TypeOK, WorkerFlushes
  PROVE  Tidied /\ log'.open = log.open
<1> DEFINE F == FlushUnlocked(Pair)
<1>1. Sound(Pair)
  BY PairIsSound
<1>2. Emptied(Pair, F) /\ F.log.open = log.open
  <2>1. Pair \in Pairs /\ (Pair.log.open \/ Pair.log.buf = <<>>) /\ Pair.log.open = log.open
    BY <1>1 DEF Sound, Buffered, Pair
  <2> QED  BY <2>1, Flushes
<1>3. log' = F.log /\ disk' = F.disk
  BY DEF WorkerFlushes, Pair
<1> HIDE DEF F
<1> QED  BY <1>2, <1>3, EmptiedIsTidied

(* stop()'s closing of the file is such a step, and leaves nothing in the  *)
(* buffer.                                                                 *)
LEMMA CloseTidies ==
  ASSUME TypeOK, StopClosesFile
  PROVE  Tidied /\ log'.open = FALSE /\ \A f \in File : disk'[f] = Content(f)
<1> DEFINE F == CloseLogFile(Pair)
<1>1. Sound(Pair)
  BY PairIsSound
<1>2. Emptied(Pair, F) /\ F.log.open = FALSE
  <2>1. Pair \in Pairs /\ (Pair.log.open \/ Pair.log.buf = <<>>)
    BY <1>1 DEF Sound, Buffered, Pair
  <2> QED  BY <2>1, Closes
<1>3. log' = F.log /\ disk' = F.disk
  BY DEF StopClosesFile, Pair
<1> HIDE DEF F
<1> QED  BY <1>2, <1>3, EmptiedIsTidied

(* ... cut short when the process is killed, ...                           *)
LEMMA HasLeft ==
  ASSUME NEW s \in Seq(Message), NEW k \in 0..Len(s), NEW x, Has(SubSeq(s, 1, k), x)
  PROVE  Has(s, x) /\ SubSeq(s, 1, k) \in Seq(Message)
<1>1. Len(s) \in Nat
  BY LenProperties
<1>2. /\ SubSeq(s, 1, k) \in Seq(Message) /\ Len(SubSeq(s, 1, k)) = k
      /\ \A i \in 1..k : SubSeq(s, 1, k)[i] = s[i]
  <2>1. /\ SubSeq(s, 1, k) \in Seq(Message)
        /\ Len(SubSeq(s, 1, k)) = IF 1 <= k THEN k - 1 + 1 ELSE 0
        /\ \A i \in 1..(k - 1 + 1) : SubSeq(s, 1, k)[i] = s[1 + i - 1]
    BY <1>1, SubSeqProperties
  <2>2. (IF 1 <= k THEN k - 1 + 1 ELSE 0) = k /\ k - 1 + 1 = k /\ \A i \in 1..k : 1 + i - 1 = i
    BY <1>1
  <2> QED  BY <2>1, <2>2
<1>3. PICK i \in 1..k : SubSeq(s, 1, k)[i] = x
  BY <1>2 DEF Has
<1>4. i \in 1..Len(s)
  BY <1>1
<1> QED  BY <1>2, <1>3, <1>4 DEF Has

(* A kill may cost the buffer, and nothing on disk.                        *)
LEMMA KillCuts ==
  ASSUME TypeOK, Kill
  PROVE  /\ Sound(Pair)' /\ log' = NoLog /\ NothingLost
         /\ \A f \in File : \A x : Has(Content(f)', x) => Has(Content(f), x)
<1>1. /\ disk \in [File -> Seq(Message)] /\ log.buf \in Seq(Message) /\ Current \in File
      /\ log \in Logs /\ Buffered(log) /\ log.open \in BOOLEAN
  BY PairIsSound DEF TypeOK, Logs
<1>2. PICK k \in 0..Len(log.buf) :
        disk' = [disk EXCEPT ![<<log.date, log.index>>] = @ \o SubSeq(log.buf, 1, k)]
  BY DEF Kill
<1> DEFINE cut == SubSeq(log.buf, 1, k)
<1>3. cut \in Seq(Message) /\ \A x : Has(cut, x) => Has(log.buf, x)
  <2>1. cut \in Seq(Message)
    <3>1. Len(log.buf) \in Nat /\ \A i \in 1..Len(log.buf) : log.buf[i] \in Message
      BY <1>1, LenProperties, ElementOfSeq
    <3> QED  BY <1>2, <3>1, SubSeqProperties
  <2> QED  BY <1>1, <2>1, HasLeft
<1>4. disk' = [disk EXCEPT ![Current] = @ \o cut]
  BY <1>2 DEF Current
<1> HIDE DEF cut
<1>5. disk'[Current] = disk[Current] \o cut /\ \A f \in File : f # Current => disk'[f] = disk[f]
  BY <1>1, <1>4
<1>12. \A x : Has(disk[Current] \o cut, x) <=> Has(disk[Current], x) \/ Has(cut, x)
  <2> DEFINE d == disk[Current]
  <2>1. d \in Seq(Message)
    BY <1>1
  <2> HIDE DEF d
  <2>2. \A x : Has(d \o cut, x) <=> Has(d, x) \/ Has(cut, x)
    BY <1>3, <2>1, HasJoined
  <2> QED  BY <2>2 DEF d
<1>6. disk' \in [File -> Seq(Message)]
  <2>1. disk[Current] \o cut \in Seq(Message)
    BY <1>1, <1>3, ConcatProperties
  <2> QED  BY <1>1, <1>4, <2>1
<1>7. log' = NoLog
  BY DEF Kill
<1>8. NoLog \in Logs /\ NoLog.buf = <<>> /\ NoLog.open = FALSE /\ NoLog.pending = 0
  BY LoggerAssumption, EmptySeq DEF NoLog, Logs
<1>9. Sound(Pair)'
  <2>1. Pair' \in Pairs /\ Pair'.log = NoLog
    BY <1>6, <1>7, <1>8 DEF Pair, Pairs
  <2>2. Len(<<>>) = 0
    OBVIOUS
  <2>3. Buffered(NoLog)
    BY <1>8, <2>2 DEF Buffered
  <2> QED  BY <2>1, <2>3 DEF Sound
<1>10. NothingLost
  <2>1. SUFFICES ASSUME NEW f \in File, NEW x, Has(disk[f], x) PROVE Has(disk'[f], x)
    BY DEF NothingLost
  <2>2. disk[f] \in Seq(Message)
    BY <1>1
  <2>3. CASE f = Current
    BY <1>5, <1>12, <2>1, <2>3
  <2>4. CASE f # Current
    BY <1>5, <2>1, <2>4
  <2> QED  BY <2>3, <2>4
<1>11. \A f \in File : \A x : Has(Content(f)', x) => Has(Content(f), x)
  <2>1. SUFFICES ASSUME NEW f \in File, NEW x, Has(Content(f)', x) PROVE Has(Content(f), x)
    OBVIOUS
  <2>2. Content(f)' = disk'[f]
    BY <1>7, <1>8 DEF Content
  <2>3. disk[f] \in Seq(Message)
    BY <1>1
  <2>4. CASE f = Current
    <3>1. Has(disk[f], x) \/ Has(log.buf, x)
      BY <1>3, <1>5, <1>12, <2>1, <2>2, <2>4
    <3>2. CASE log.open
      BY <1>1, <2>3, <2>4, <3>1, <3>2, HasJoined DEF Content, Current
    <3>3. CASE ~log.open
      <4>1. log.buf = <<>>
        BY <1>1, <3>3 DEF Buffered
      <4>2. ~Has(<<>>, x)
        BY DEF Has
      <4> QED  BY <3>1, <3>3, <4>1, <4>2 DEF Content
    <3> QED  BY <3>2, <3>3
  <2>5. CASE f # Current
    BY <1>5, <2>1, <2>2, <2>5 DEF Content, Current
  <2> QED  BY <2>4, <2>5
<1> QED  BY <1>7, <1>9, <1>10, <1>11

(* ... and found on disk by the init() of the next run.                    *)
LEMMA InitOpens ==
  ASSUME TypeOK, InitLogger
  PROVE  /\ Sound(Pair)' /\ disk' = disk /\ Current' = <<today, 0>> /\ log'.date = today
         /\ \A f \in File : Content(f)' = disk[f]
         /\ log'.open => /\ initialized' = TRUE /\ failures' = failures
                         /\ log'.size + log'.missed = SumOf(disk[Current'])
         /\ ~log'.open => failures # MaxFailures /\ failures' = failures + 1
         /\ initialized' \in BOOLEAN /\ worker' \in {"popping", "exited"}
<1> DEFINE g == [NoLog EXCEPT !.date = today]
           R == [log |-> g, disk |-> disk]
<1>0. today \in 0..MaxDay /\ disk \in [File -> Seq(Message)] /\ MaxIndex \in Nat
  BY LoggerAssumption DEF TypeOK
<1>1. /\ g \in Logs /\ g.buf = <<>> /\ g.open = FALSE /\ g.date = today /\ g.index = 0
      /\ R \in Pairs /\ R.log = g /\ R.disk = disk
  <2>1. NoLog \in Logs /\ NoLog.buf = <<>> /\ NoLog.open = FALSE /\ NoLog.index = 0
    BY LoggerAssumption, EmptySeq DEF NoLog, Logs
  <2>2. /\ g \in Logs /\ g.buf = <<>> /\ g.open = FALSE /\ g.date = today /\ g.index = 0
    <3> HIDE DEF NoLog
    <3> QED  BY <1>0, <2>1 DEF Logs
  <2> HIDE DEF g
  <2> QED  BY <1>0, <2>2 DEF Pairs
<1>2. PICK r \in OpenLogFile(R) :
        /\ log' = r.L.log
        /\ failures' = IF r.L.log.open THEN failures ELSE failures + 1
        /\ initialized' = r.ok
        /\ worker' = IF r.ok THEN "popping" ELSE "exited"
  BY DEF InitLogger
<1>3. disk' = disk
  BY DEF InitLogger
<1> HIDE DEF R, g
<1> DEFINE O == r.L
<1>4. /\ Opened(R, O) /\ r.ok \in BOOLEAN
      /\ O.log.open => r.ok /\ Known(O) = SumOf(O.disk[Name(O)])
      /\ ~O.log.open => failures # MaxFailures
  BY <1>1, <1>2, Opens
<1> HIDE DEF O
<1>5. /\ O \in Pairs /\ O.disk = disk /\ O.log.buf = <<>> /\ O.log.date = today /\ O.log.index = 0
      /\ O.log.pending \in Nat /\ O.log.open \in BOOLEAN
  BY <1>1, <1>4 DEF Opened, Pairs, Logs
<1>6. log' = O.log
  BY <1>2 DEF O
<1>7. Sound(Pair)'
  <2>1. O = [log |-> O.log, disk |-> O.disk]
    BY <1>5 DEF Pairs
  <2>2. Pair' = O
    BY <1>3, <1>5, <1>6, <2>1 DEF Pair
  <2>3. Buffered(O.log)
    BY <1>5, EmptySeq DEF Buffered
  <2> QED  BY <1>5, <2>2, <2>3 DEF Sound
<1>8. \A f \in File : Content(f)' = disk[f]
  <2>1. \A f \in File : disk[f] \o <<>> = disk[f]
    BY <1>0, ConcatEmptySeq
  <2> QED  BY <1>3, <1>5, <1>6, <2>1 DEF Content
<1>9. Current' = Name(O) /\ Current' = <<today, 0>>
  BY <1>5, <1>6 DEF Name, Current
<1>10. worker' \in {"popping", "exited"} /\ initialized' \in BOOLEAN
  BY <1>2, <1>4
<1>11. /\ log'.open => /\ initialized' = TRUE /\ failures' = failures
                       /\ log'.size + log'.missed = SumOf(disk[Current'])
       /\ ~log'.open => failures # MaxFailures /\ failures' = failures + 1
  BY <1>2, <1>4, <1>5, <1>6, <1>9 DEF O, Known
<1> QED  BY <1>3, <1>5, <1>6, <1>7, <1>8, <1>9, <1>10, <1>11

(* The bounds are numbers.                                                 *)
LEMMA Bounds ==
  /\ MaxLog \in Nat /\ MaxDay \in Nat /\ MaxFailures \in Nat /\ MaxKills \in Nat
  /\ Capacity \in Nat /\ 0 <= Capacity
BY LoggerAssumption

(* A sound pair has the types of its parts.                                *)
LEMMA SoundTyped ==
  ASSUME Sound(Pair)'
  PROVE  log' \in Logs /\ Buffered(log)' /\ disk' \in [File -> Seq(Message)]
<1>1. Pair' = [log |-> log', disk |-> disk']
  BY DEF Pair
<1> QED  BY <1>1 DEF Sound, Pairs, Buffered

(* log() stamps a message; the call ends when it is pushed or written.     *)
LEMMA CallTyped ==
  ASSUME TypeOK, NEW p \in Thread
  PROVE  /\ thr[p] \in Callers /\ thr[p].n \in 0..MaxLog
         /\ thr[p].at \in {"idle", "push", "write"}
         /\ thr[p].at # "idle" => thr[p].msg \in Message
         /\ Returned(p) \in [Thread -> Callers]
         /\ Returned(p)[p].at = "idle" /\ Returned(p)[p].n = thr[p].n
         /\ \A q \in Thread : q # p => Returned(p)[q] = thr[q]
<1>1. thr \in [Thread -> Callers] /\ thr[p] \in Callers
  BY DEF TypeOK
<1>2. /\ thr[p].n \in 0..MaxLog /\ thr[p].at \in {"idle", "push", "write"}
      /\ thr[p].at # "idle" => thr[p].msg \in Message
  BY <1>1 DEF Callers
<1> DEFINE c == [[thr[p] EXCEPT !.at = "idle"] EXCEPT !.msg = <<>>]
<1>3. c \in Callers /\ c.at = "idle" /\ c.n = thr[p].n
  <2>1. /\ c.at = "idle" /\ c.n = thr[p].n /\ c.msg = <<>>
        /\ c \in [at : {"idle"}, n : {thr[p].n}, msg : {<<>>}]
    BY <1>1 DEF Callers
  <2> HIDE DEF c
  <2> QED  BY <1>2, <2>1 DEF Callers
<1>4. Returned(p) = [thr EXCEPT ![p] = c]
  BY <1>1 DEF Returned
<1> HIDE DEF c
<1> QED  BY <1>1, <1>2, <1>3, <1>4

Stamp(p, e) == [by |-> p, n |-> thr[p].n, error |-> e, run |-> kills]

(* A call stamps a message with the next number of its thread.             *)
LEMMA LogTyped ==
  ASSUME TypeOK, NEW p \in Thread, NEW e \in BOOLEAN, Log(p, e)
  PROVE  /\ Stamp(p, e) \in Message /\ thr' \in [Thread -> Callers]
         /\ thr'[p].at = "push" /\ thr'[p].n = thr[p].n + 1 /\ thr'[p].msg = Stamp(p, e)
         /\ \A q \in Thread : q # p => thr'[q] = thr[q]
<1>1. thr \in [Thread -> Callers] /\ thr[p].n \in 0..MaxLog /\ thr[p].n < MaxLog /\ MaxLog \in Nat
  BY CallTyped, LoggerAssumption DEF TypeOK, Log
<1>2. Stamp(p, e) \in Message
  BY <1>1, LoggerAssumption DEF Stamp, Message, TypeOK
<1> DEFINE c == [at |-> "push", n |-> thr[p].n + 1, msg |-> Stamp(p, e)]
<1>3. thr' = [thr EXCEPT ![p] = c]
  BY <1>1 DEF Log, Stamp
<1>4. c \in Callers /\ c.at = "push" /\ c.n = thr[p].n + 1 /\ c.msg = Stamp(p, e)
  <2> DEFINE x == Stamp(p, e)
  <2> HIDE DEF x
  <2>1. [at |-> "push", n |-> thr[p].n + 1, msg |-> x] \in Callers
    BY <1>1, <1>2 DEF Callers, x
  <2> QED  BY <2>1 DEF x
<1> HIDE DEF c
<1> QED  BY <1>1, <1>2, <1>3, <1>4

(* Every variable has its type.                                            *)
THEOREM TypeCorrect == Spec => []TypeOK
<1>1. Init => TypeOK
  <2> SUFFICES ASSUME Init PROVE TypeOK
    OBVIOUS
  <2>1. log \in Logs /\ Buffered(log)
    BY LoggerAssumption, EmptySeq DEF Init, NoLog, Logs, Buffered
  <2>2. thr \in [Thread -> Callers]
    BY LoggerAssumption DEF Init, Callers
  <2>3. queue = <<>> /\ taken = <<>> /\ closed = FALSE
    BY DEF Init, Fifo!Init
  <2>4. disk \in [File -> Seq(Message)]
    BY EmptySeq DEF Init
  <2>5. Len(queue) <= Capacity /\ queue \in Seq(Message) /\ taken \in Seq(Message)
    BY <2>3, EmptySeq, LoggerAssumption
  <2>6. today \in 0..MaxDay /\ failures \in 0..MaxFailures /\ kills \in 0..MaxKills
    BY Bounds DEF Init
  <2>7. /\ closed \in BOOLEAN /\ initialized \in BOOLEAN /\ worker = "exited" /\ main = "init"
        /\ written = {} /\ logged = {} /\ setBack = FALSE
    BY <2>3 DEF Init
  <2> QED  BY <2>1, <2>2, <2>4, <2>5, <2>6, <2>7 DEF TypeOK
<1>2. TypeOK /\ [Next]_vars => TypeOK'
  <2> SUFFICES ASSUME TypeOK, [Next]_vars PROVE TypeOK'
    OBVIOUS
  <2>1. CASE UNCHANGED vars
    BY <2>1 DEF vars, TypeOK
  <2>2. ASSUME NEW m \in Message, WriteMessage(m)
        PROVE  /\ log' \in Logs /\ Buffered(log)' /\ disk' \in [File -> Seq(Message)]
               /\ written' \subseteq Message /\ failures' \in 0..MaxFailures
    <3>1. Effect(m)
      BY <2>2, WriteEffect
    <3>2. written' \subseteq Message
      BY <3>1 DEF Effect, Wrote, Dropped, TypeOK
    <3> QED  BY <3>1, <3>2, SoundTyped DEF Effect
  <2>3. CASE InitLogger
    <3>1. /\ log' \in Logs /\ Buffered(log)' /\ disk' \in [File -> Seq(Message)]
          /\ failures' \in 0..MaxFailures /\ initialized' \in BOOLEAN
          /\ worker' \in {"popping", "exited"}
      <4>1. failures \in 0..MaxFailures
        BY DEF TypeOK
      <4>2. /\ Sound(Pair)' /\ disk' = disk
            /\ initialized' \in BOOLEAN /\ worker' \in {"popping", "exited"}
            /\ failures' = failures \/ (failures # MaxFailures /\ failures' = failures + 1)
        BY <2>3, InitOpens
      <4>3. failures' \in 0..MaxFailures
        BY <4>1, <4>2, Bounds
      <4>4. log' \in Logs /\ Buffered(log)' /\ disk' \in [File -> Seq(Message)]
        BY <4>2, SoundTyped
      <4> QED  BY <4>2, <4>3, <4>4
    <3> QED  BY <2>3, <3>1 DEF InitLogger, pool, date, TypeOK
  <2>4. CASE StopCloses
    BY <2>4 DEF StopCloses, Fifo!Shut, counts, TypeOK
  <2>5. CASE StopClosesFile
    <3>1. log' \in Logs /\ Buffered(log)' /\ disk' \in [File -> Seq(Message)]
      BY <2>5, CloseTidies, SoundTyped DEF Tidied
    <3> QED  BY <2>5, <3>1 DEF StopClosesFile, pool, counts, TypeOK
  <2>6. CASE StopReturns
    BY <2>6 DEF StopReturns, pool, counts, TypeOK
  <2>7. ASSUME NEW p \in Thread, NEW e \in BOOLEAN, Log(p, e) PROVE TypeOK'
    <3>1. /\ thr' \in [Thread -> Callers] /\ thr'[p].msg \in Message
          /\ logged' = logged \cup {thr'[p].msg}
      <4>1. logged' = logged \cup {thr'[p].msg}
        BY <2>7 DEF Log
      <4> QED  BY <2>7, <4>1, LogTyped
    <3> QED  BY <2>7, <3>1 DEF Log, pool, counts, TypeOK
  <2>8. ASSUME NEW p \in Thread, PushAccepted(p) PROVE TypeOK'
    <3>1. thr[p].msg \in Message /\ thr' \in [Thread -> Callers]
      BY <2>8, CallTyped DEF PushAccepted
    <3>2. queue' = Append(queue, thr[p].msg) /\ Len(queue) < Capacity
      BY <2>8 DEF PushAccepted, Fifo!Put
    <3>3. queue' \in Seq(Message) /\ Len(queue') <= Capacity
      <4>1. queue \in Seq(Message) /\ Len(queue) \in Nat /\ Capacity \in Nat
        BY LoggerAssumption, LenProperties DEF TypeOK
      <4> QED  BY <3>1, <3>2, <4>1, AppendProperties
    <3> QED  BY <2>8, <3>1, <3>3 DEF PushAccepted, Fifo!Put, counts, TypeOK
  <2>9. ASSUME NEW p \in Thread, PushRefused(p) PROVE TypeOK'
    <3>1. thr[p] \in Callers /\ thr[p].at = "push"
      BY <2>9, CallTyped DEF PushRefused
    <3>2. [thr[p] EXCEPT !.at = "write"] \in Callers
      BY <3>1 DEF Callers
    <3>3. thr' \in [Thread -> Callers]
      BY <2>9, <3>2 DEF PushRefused, TypeOK
    <3> QED  BY <2>9, <3>3 DEF PushRefused, pool, counts, TypeOK
  <2>10. ASSUME NEW p \in Thread, WriteItself(p) PROVE TypeOK'
    <3>1. thr[p].msg \in Message /\ thr' \in [Thread -> Callers]
      BY <2>10, CallTyped DEF WriteItself
    <3> QED  BY <2>2, <2>10, <3>1 DEF WriteItself, pool, date, TypeOK
  <2>11. CASE WorkerPops
    <3>1. queue \in Seq(Message) /\ queue # <<>> /\ Len(queue) \in Nat /\ Capacity \in Nat
      BY <2>11, LoggerAssumption, LenProperties DEF WorkerPops, Fifo!Take, TypeOK
    <3>2. Head(queue) \in Message /\ Tail(queue) \in Seq(Message) /\ Len(Tail(queue)) = Len(queue) - 1
      BY <3>1, HeadTailProperties
    <3>3. taken' = Append(taken, Head(queue)) /\ queue' = Tail(queue)
      BY <2>11 DEF WorkerPops, Fifo!Take
    <3>4. taken' \in Seq(Message) /\ taken' # <<>>
      BY <3>2, <3>3, AppendProperties DEF TypeOK
    <3>5. queue' \in Seq(Message) /\ Len(queue') <= Capacity
      BY <3>1, <3>2, <3>3 DEF TypeOK
    <3> QED  BY <2>11, <3>4, <3>5 DEF WorkerPops, Fifo!Take, counts, TypeOK
  <2>12. CASE WorkerWrites
    <3>1. taken[Len(taken)] \in Message
      BY <2>12, ElementOfSeq, LenProperties, EmptySeq DEF WorkerWrites, TypeOK
    <3> QED  BY <2>2, <2>12, <3>1 DEF WorkerWrites, pool, date, TypeOK
  <2>13. CASE WorkerRefused
    BY <2>13 DEF WorkerRefused, pool, counts, TypeOK
  <2>14. CASE WorkerFlushes
    <3>1. log' \in Logs /\ Buffered(log)' /\ disk' \in [File -> Seq(Message)]
      BY <2>14, FlushTidies, SoundTyped DEF Tidied
    <3> QED  BY <2>14, <3>1 DEF WorkerFlushes, pool, counts, TypeOK
  <2>15. CASE DateChanges
    BY <2>15, LoggerAssumption DEF DateChanges, pool, TypeOK
  <2>16. CASE Kill
    <3>1. log' \in Logs /\ Buffered(log)' /\ disk' \in [File -> Seq(Message)]
      BY <2>16, KillCuts, SoundTyped
    <3>2. thr' \in [Thread -> Callers]
      <4>1. \A p \in Thread : thr[p].n \in 0..MaxLog
        BY CallTyped
      <4> QED  BY <2>16, <4>1 DEF Kill, Callers
    <3>3. queue' \in Seq(Message) /\ Len(queue') <= Capacity /\ taken' \in Seq(Message)
      BY <2>16, EmptySeq, LoggerAssumption DEF Kill
    <3>4. kills' \in 0..MaxKills
      BY <2>16, Bounds DEF Kill, TypeOK
    <3>5. /\ closed' = FALSE /\ initialized' = FALSE /\ worker' = "exited" /\ main' = "init"
          /\ written' = written /\ logged' = {} /\ today' = today /\ setBack' = FALSE
          /\ failures' = failures
      BY <2>16 DEF Kill
    <3> QED  BY <3>1, <3>2, <3>3, <3>4, <3>5 DEF TypeOK
  <2> QED
    BY <2>1, <2>3, <2>4, <2>5, <2>6, <2>7, <2>8, <2>9, <2>10, <2>11, <2>12, <2>13, <2>14, <2>15, <2>16
    DEF Next, Stopping, Caller, Worker
<1> QED  BY <1>1, <1>2, PTL DEF Spec

-----------------------------------------------------------------------------
(* The steps that touch the files.                                         *)
LEMMA TakenTyped ==
  ASSUME TypeOK, worker = "writing"
  PROVE  taken[Len(taken)] \in Message /\ Len(taken) \in 1..Len(taken)
BY ElementOfSeq, LenProperties, EmptySeq DEF TypeOK

(* Any other step leaves the files, what was written and the count of      *)
(* files that could not be opened as they are.                             *)
LEMMA FileSteps ==
  ASSUME TypeOK, [Next]_vars
  PROVE  \/ UNCHANGED <<log, disk, written, failures>>
         \/ InitLogger \/ WorkerFlushes \/ StopClosesFile \/ Kill
         \/ \E m \in Message : WriteMessage(m)
<1>1. ASSUME NEW p \in Thread, WriteItself(p) PROVE \E m \in Message : WriteMessage(m)
  BY <1>1, CallTyped DEF WriteItself
<1>2. CASE WorkerWrites
  BY <1>2, TakenTyped DEF WorkerWrites
<1>3. CASE StopCloses \/ StopReturns \/ WorkerRefused \/ WorkerPops \/ DateChanges
  BY <1>3 DEF StopCloses, StopReturns, WorkerRefused, WorkerPops, DateChanges, counts
<1>4. ASSUME NEW p \in Thread, PushAccepted(p) \/ PushRefused(p) \/ \E e \in BOOLEAN : Log(p, e)
      PROVE  UNCHANGED <<log, disk, written, failures>>
  BY <1>4 DEF PushAccepted, PushRefused, Log, counts
<1>5. CASE UNCHANGED vars
  BY <1>5 DEF vars
<1> QED  BY <1>1, <1>2, <1>3, <1>4, <1>5 DEF Next, Stopping, Caller, Worker

(* Nothing happens to the files.                                           *)
LEMMA SameContent ==
  ASSUME UNCHANGED <<log, disk>>
  PROVE  Current' = Current /\ \A f \in File : Content(f)' = Content(f)
BY DEF Content, Current

(* The size that rotation is decided by is the size of the file, less what *)
(* the file held if its size could not be read when it was opened: a       *)
(* message that is written is added, and a rotation starts anew.           *)
THEOREM SizesAreTrue == Spec => []SizeIsTrue
<1>1. Init => SizeIsTrue
  BY DEF Init, NoLog, SizeIsTrue
<1>2. TypeOK /\ TypeOK' /\ SizeIsTrue /\ [Next]_vars => SizeIsTrue'
  <2> SUFFICES ASSUME TypeOK, TypeOK', SizeIsTrue, [Next]_vars, log'.open
               PROVE  log'.size + log'.missed = SumOf(Content(Current)')
    BY DEF SizeIsTrue, Current
  <2>0. Current \in File /\ Current' \in File /\ \A f \in File : Content(f) \in Seq(Message)
    <3>1. Current' \in File
      BY DEF TypeOK, Logs, Current, File
    <3> QED  BY <3>1, PairIsSound
  <2>1. log.open => log.size + log.missed = SumOf(Content(Current))
    BY DEF SizeIsTrue, Current
  <2>2. \A f : Current' = f => Content(f)' = Content(Current)'
    BY DEF Content, Current
  <2>3. CASE UNCHANGED <<log, disk, written, failures>>
    BY <2>0, <2>1, <2>3 DEF Content, Current
  <2>4. CASE InitLogger
    BY <2>0, <2>4, InitOpens DEF Content, Current
  <2>5. CASE WorkerFlushes
    <3>1. /\ Current' = Current /\ log'.open = log.open
          /\ log'.size = log.size /\ log'.missed = log.missed
          /\ \A f \in File : Content(f)' = Content(f)
      BY <2>5, FlushTidies DEF Tidied
    <3>2. PICK c \in File : c = Current
      BY <2>0
    <3>3. Content(c)' = Content(Current)' /\ Content(c)' = Content(c)
      BY <2>2, <3>1, <3>2
    <3> QED  BY <2>1, <3>1, <3>2, <3>3
  <2>6. CASE StopClosesFile
    BY <2>6, CloseTidies
  <2>7. CASE Kill
    BY <2>7, KillCuts DEF NoLog
  <2>8. ASSUME NEW m \in Message, WriteMessage(m)
        PROVE  log'.size + log'.missed = SumOf(Content(Current)')
    <3>1. Wrote(m)
      BY <2>8, WriteEffect DEF Effect, Dropped
    <3> DEFINE g == Current'
    <3>2. Content(Current)' = Append(Content(g), m)
      BY <2>0, <3>1 DEF Wrote, Content, Current
    <3>3. Content(g) \in Seq(Message)
      BY <2>0
    <3>4. SumOf(Content(Current)') = SumOf(Content(g)) + Size(m)
      <4> DEFINE s == Content(g)
      <4> HIDE DEF s
      <4>1. s \in Seq(Message)
        BY <3>3 DEF s
      <4>2. SumOf(Append(s, m)) = SumOf(s) + Size(m)
        BY <4>1, SumOfAppended
      <4> QED  BY <3>2, <4>2 DEF s
    <3>5. log'.size + log'.missed = SumOf(Content(g)) + Size(m)
      <4>1. CASE Current' # Current
        BY <3>1, <4>1 DEF Wrote
      <4>2. CASE Current' = Current
        <5>1. log'.size = log.size + Size(m) /\ log'.missed = log.missed /\ log.open
          BY <3>1, <4>2 DEF Wrote
        <5> DEFINE a == log.size
                   b == log.missed
                   c == Size(m)
                   d == SumOf(Content(g))
        <5>2. a \in Nat /\ b \in Nat /\ c \in Nat /\ a + b = d
          BY <2>1, <4>2, <5>1, SizeTyped DEF TypeOK, Logs
        <5>3. log'.size = a + c /\ log'.missed = b
          BY <5>1
        <5> HIDE DEF a, b, c, d
        <5>4. log'.size + log'.missed = d + c
          BY <5>2, <5>3
        <5> QED  BY <5>4 DEF c, d
      <4> QED  BY <4>1, <4>2
    <3> QED  BY <3>4, <3>5
  <2> QED  BY <2>3, <2>4, <2>5, <2>6, <2>7, <2>8, FileSteps
<1> QED  BY <1>1, <1>2, TypeCorrect, PTL DEF Spec

-----------------------------------------------------------------------------
(* Where the messages come from that a step puts into a place.             *)
LEMMA HasAppended ==
  ASSUME NEW s \in Seq(Message), NEW m \in Message, NEW x
  PROVE  Has(Append(s, m), x) <=> Has(s, x) \/ x = m
<1>1. Len(s) \in Nat
  BY LenProperties
<1> DEFINE t == Append(s, m)
<1>2. Len(t) = Len(s) + 1 /\ (\A i \in 1..Len(s) : t[i] = s[i]) /\ t[Len(s) + 1] = m
  BY AppendProperties
<1>3. Has(s, x) => Has(t, x)
  <2>1. \A i \in 1..Len(s) : i \in 1..Len(t)
    BY <1>1, <1>2
  <2> HIDE DEF t
  <2> QED  BY <1>2, <2>1 DEF Has
<1>4. x = m => Has(t, x)
  <2>1. Len(s) + 1 \in 1..Len(t)
    BY <1>1, <1>2
  <2> HIDE DEF t
  <2> QED  BY <1>2, <2>1 DEF Has
<1>5. ASSUME NEW i \in 1..Len(t), t[i] = x PROVE Has(s, x) \/ x = m
  <2>1. i \in 1..Len(s) \/ i = Len(s) + 1
    BY <1>1, <1>2
  <2> HIDE DEF t
  <2> QED  BY <1>2, <1>5, <2>1 DEF Has
<1> HIDE DEF t
<1> QED  BY <1>3, <1>4, <1>5 DEF Has, t

(* A message that is written is filed, and nothing else is.                *)
LEMMA WriteFiles ==
  ASSUME TypeOK, NEW m \in Message, WriteMessage(m)
  PROVE  /\ \A x \in Filed' : x \in Filed \/ x = m
         /\ \A x \in Filed : x \in Filed'
         /\ log'.open => m \in Filed'
<1>0. Effect(m) /\ Current' \in File /\ \A f \in File : Content(f) \in Seq(Message)
  <2>1. Effect(m)
    BY WriteEffect
  <2>2. log' \in Logs
    BY <2>1, SoundTyped DEF Effect
  <2> QED  BY <2>1, <2>2, PairIsSound DEF Current, Logs, File
<1>1. CASE Dropped
  <2>1. \A f \in File : \A x : Has(Content(f)', x) <=> Has(Content(f), x)
    BY <1>1 DEF Dropped
  <2> QED  BY <1>1, <2>1 DEF Filed, Dropped
<1>2. CASE Wrote(m)
  <2>1. ASSUME NEW f \in File, NEW x
        PROVE  Has(Content(f)', x) <=> Has(Content(f), x) \/ (f = Current' /\ x = m)
    <3> DEFINE c == Content(f)
               d == Content(f)'
    <3>1. c \in Seq(Message)
      BY <1>0
    <3>2. d = IF f = Current' THEN Append(c, m) ELSE c
      BY <1>2 DEF Wrote
    <3> HIDE DEF c, d
    <3>3. Has(d, x) <=> Has(c, x) \/ (f = Current' /\ x = m)
      BY <3>1, <3>2, HasAppended
    <3> QED  BY <3>3 DEF c, d
  <2> QED  BY <1>0, <2>1 DEF Filed
<1> QED  BY <1>0, <1>1, <1>2 DEF Effect

(* What comes into the files was in the hands of the worker, or of its     *)
(* thread.                                                                 *)
LEMMA FiledFrom ==
  ASSUME TypeOK, [Next]_vars, NEW x \in Filed'
  PROVE  \/ x \in Filed
         \/ WorkerWrites /\ x \in InHand
         \/ \E p \in Thread : WriteItself(p) /\ x = thr[p].msg
<1>0. x \in Message /\ disk \in [File -> Seq(Message)] /\ log.buf \in Seq(Message)
  BY DEF Filed, TypeOK, Logs
<1>1. CASE WorkerWrites
  <2>1. taken[Len(taken)] \in Message /\ WriteMessage(taken[Len(taken)])
    BY <1>1, TakenTyped DEF WorkerWrites
  <2> QED  BY <1>0, <1>1, <2>1, WriteFiles DEF InHand, WorkerWrites
<1>2. ASSUME NEW p \in Thread, WriteItself(p) PROVE x \in Filed \/ x = thr[p].msg
  BY <1>2, CallTyped, WriteFiles DEF WriteItself
<1>3. CASE UNCHANGED <<log, disk>>
  <2>1. \A f \in File : Content(f)' = Content(f)
    BY <1>3, SameContent
  <2> QED  BY <1>0, <2>1 DEF Filed
<1>4. CASE WorkerFlushes \/ StopClosesFile
  <2>1. \A f \in File : Content(f)' = Content(f)
    BY <1>4, FlushTidies, CloseTidies DEF Tidied
  <2> QED  BY <1>0, <2>1 DEF Filed
<1>5. CASE Kill
  <2>1. \A f \in File : Has(Content(f)', x) => Has(Content(f), x)
    BY <1>5, KillCuts
  <2> QED  BY <1>0, <2>1 DEF Filed
<1>6. CASE InitLogger
  <2>1. \A f \in File : Content(f)' = disk[f]
    BY <1>6, InitOpens
  <2>2. PICK f \in File : Has(disk[f], x)
    BY <2>1 DEF Filed
  <2>3. Has(Content(f), x)
    <3>1. disk[f] \in Seq(Message)
      BY <1>0
    <3>2. Has(disk[f] \o log.buf, x)
      BY <1>0, <2>2, <3>1, HasJoined
    <3> QED  BY <2>2, <3>2 DEF Content
  <2> QED  BY <1>0, <2>3 DEF Filed
<1>7. \/ UNCHANGED <<log, disk>> \/ InitLogger \/ WorkerFlushes \/ StopClosesFile \/ Kill
      \/ WorkerWrites \/ \E p \in Thread : WriteItself(p)
  BY DEF Next, vars, Stopping, Caller, Worker, StopCloses, StopReturns, WorkerRefused, WorkerPops,
     DateChanges, counts, PushAccepted, PushRefused, Log
<1> QED  BY <1>1, <1>2, <1>3, <1>4, <1>5, <1>6, <1>7

(* What the worker has was the head of the queue.                          *)
LEMMA InHandFrom ==
  ASSUME TypeOK, [Next]_vars, NEW x \in InHand'
  PROVE  \/ x \in InHand /\ UNCHANGED <<worker, taken>>
         \/ WorkerPops /\ x = Head(queue) /\ x \in Queued
<1>1. worker' = "writing" /\ x = taken'[Len(taken')] /\ x \in Message
  BY DEF InHand
<1>2. UNCHANGED <<worker, taken>> \/ WorkerPops
  <2>1. CASE InitLogger
    BY <1>1, <2>1, InitOpens
  <2> QED
    BY <1>1, <2>1 DEF Next, vars, Stopping, Caller, Worker, StopCloses, StopReturns, StopClosesFile,
       WorkerRefused, WorkerWrites, WorkerFlushes, DateChanges, Kill, pool, PushAccepted, PushRefused,
       WriteItself, Log, Fifo!Put, Fifo!Shut
<1>3. CASE WorkerPops
  <2>1. /\ queue \in Seq(Message) /\ queue # <<>> /\ taken \in Seq(Message)
        /\ taken' = Append(taken, Head(queue))
    BY <1>3 DEF WorkerPops, Fifo!Take, TypeOK
  <2>2. Head(queue) = queue[1] /\ 1 \in 1..Len(queue) /\ Head(queue) \in Message
    BY <2>1, HeadTailProperties, LenProperties, ElementOfSeq, EmptySeq
  <2>3. x = Head(queue)
    BY <1>1, <2>1, <2>2, AppendProperties
  <2> QED  BY <1>1, <1>3, <2>2, <2>3 DEF Queued, Has
<1>4. CASE UNCHANGED <<worker, taken>>
  BY <1>1, <1>4 DEF InHand
<1> QED  BY <1>2, <1>3, <1>4

(* The steps that change the queue.                                        *)
LEMMA QueueSteps ==
  ASSUME [Next]_vars
  PROVE  \/ queue' = queue
         \/ WorkerPops \/ Kill \/ \E p \in Thread : PushAccepted(p)
BY DEF Next, vars, Stopping, Caller, Worker, InitLogger, StopCloses, StopReturns, StopClosesFile,
   WorkerRefused, WorkerWrites, WorkerFlushes, DateChanges, pool, PushRefused, WriteItself, Log, Fifo!Shut

(* A pop moves every message one place to the front.                       *)
LEMMA PopShifts ==
  ASSUME TypeOK, WorkerPops
  PROVE  /\ queue' = Tail(queue) /\ Len(queue) \in Nat /\ Len(queue') = Len(queue) - 1
         /\ Head(queue) = queue[1] /\ 1 \in 1..Len(queue)
         /\ \A i \in 1..Len(queue') : i + 1 \in 1..Len(queue) /\ queue'[i] = queue[i + 1]
<1>1. queue \in Seq(Message) /\ queue # <<>> /\ queue' = Tail(queue) /\ Len(queue) \in Nat
  BY LenProperties DEF WorkerPops, Fifo!Take, TypeOK
<1>2. /\ Len(Tail(queue)) = Len(queue) - 1
      /\ \A i \in 1..Len(Tail(queue)) : Tail(queue)[i] = queue[i + 1]
      /\ Head(queue) = queue[1] /\ 1 \in 1..Len(queue)
  BY <1>1, HeadTailProperties, EmptySeq, LenProperties
<1> QED  BY <1>1, <1>2

(* What comes into the queue was pushed by its thread.                     *)
LEMMA QueuedFrom ==
  ASSUME TypeOK, [Next]_vars, NEW x \in Queued'
  PROVE  x \in Queued \/ \E p \in Thread : PushAccepted(p) /\ x = thr[p].msg
<1>0. x \in Message /\ Has(queue', x) /\ queue \in Seq(Message)
  BY DEF Queued, TypeOK
<1>1. CASE queue' = queue
  BY <1>0, <1>1 DEF Queued
<1>2. CASE WorkerPops
  <2>1. PICK i \in 1..Len(queue') : queue'[i] = x
    BY <1>0 DEF Has
  <2>2. i + 1 \in 1..Len(queue) /\ queue[i + 1] = x
    BY <1>2, <2>1, PopShifts
  <2> QED  BY <1>0, <2>2 DEF Queued, Has
<1>3. CASE Kill
  BY <1>0, <1>3 DEF Kill, Has
<1>4. ASSUME NEW p \in Thread, PushAccepted(p) PROVE x \in Queued \/ x = thr[p].msg
  <2>1. thr[p].msg \in Message /\ queue' = Append(queue, thr[p].msg)
    BY <1>4, CallTyped DEF PushAccepted, Fifo!Put
  <2> QED  BY <1>0, <2>1, HasAppended DEF Queued
<1> QED  BY <1>1, <1>2, <1>3, <1>4, QueueSteps

(* A thread's calls.                                                       *)
LEMMA CallSteps ==
  ASSUME TypeOK, [Next]_vars, NEW p \in Thread
  PROVE  \/ thr'[p] = thr[p]
         \/ thr'[p].at = "idle" /\ thr'[p].n = thr[p].n
         \/ PushRefused(p) /\ thr'[p].n = thr[p].n /\ thr'[p].msg = thr[p].msg /\ thr[p].at = "push"
         \/ \E e \in BOOLEAN : /\ Log(p, e) /\ thr'[p].n = thr[p].n + 1
                               /\ thr'[p].msg = Stamp(p, e) /\ Stamp(p, e) \in Message
                               /\ thr'[p].at = "push"
<1>0. thr \in [Thread -> Callers] /\ thr[p] \in Callers
  BY DEF TypeOK
<1>1. CASE UNCHANGED thr
  BY <1>1
<1>2. CASE Kill
  BY <1>2 DEF Kill
<1>3. ASSUME NEW q \in Thread, PushAccepted(q) \/ WriteItself(q)
      PROVE  thr'[p] = thr[p] \/ (thr'[p].at = "idle" /\ thr'[p].n = thr[p].n)
  BY <1>3, CallTyped DEF PushAccepted, WriteItself
<1>4. ASSUME NEW q \in Thread, PushRefused(q)
      PROVE  \/ thr'[p] = thr[p]
             \/ PushRefused(p) /\ thr'[p].n = thr[p].n /\ thr'[p].msg = thr[p].msg /\ thr[p].at = "push"
  BY <1>0, <1>4 DEF PushRefused, Callers
<1>5. ASSUME NEW q \in Thread, NEW e \in BOOLEAN, Log(q, e)
      PROVE  \/ thr'[p] = thr[p]
             \/ /\ Log(p, e) /\ thr'[p].n = thr[p].n + 1 /\ thr'[p].at = "push"
                /\ thr'[p].msg = Stamp(p, e) /\ Stamp(p, e) \in Message
  BY <1>5, LogTyped
<1>6. \/ UNCHANGED thr \/ Kill
      \/ \E q \in Thread : PushAccepted(q) \/ WriteItself(q) \/ PushRefused(q)
                           \/ \E e \in BOOLEAN : Log(q, e)
  BY DEF Next, vars, Stopping, Caller, Worker, InitLogger, StopCloses, StopReturns, StopClosesFile,
     WorkerRefused, WorkerWrites, WorkerPops, WorkerFlushes, DateChanges
<1> QED  BY <1>1, <1>2, <1>3, <1>4, <1>5, <1>6

-----------------------------------------------------------------------------
(* The worker is up, and has a file, whenever it may have to write.        *)
THEOREM WorkerIsUp == Spec => []WorkerRuns
<1>1. Init => WorkerRuns
  BY DEF Init, WorkerRuns
<1>2. TypeOK /\ WorkerRuns /\ [Next]_vars => WorkerRuns'
  <2> SUFFICES ASSUME TypeOK, WorkerRuns, [Next]_vars PROVE WorkerRuns'
    OBVIOUS
  <2>0. failures \in Nat
    BY Bounds DEF TypeOK
  <2>1. ASSUME NEW m \in Message, WriteMessage(m), main' = main
        PROVE  failures' = 0 /\ main' \in {"up", "joining"} => log'.open
    <3>1. Effect(m)
      BY <2>1, WriteEffect
    <3> QED  BY <2>0, <2>1, <3>1 DEF Effect, Wrote, Dropped, WorkerRuns
  <2>2. CASE InitLogger
    BY <2>0, <2>2, InitOpens DEF InitLogger, WorkerRuns
  <2>3. CASE WorkerFlushes
    BY <2>3, FlushTidies DEF WorkerFlushes, counts, WorkerRuns
  <2>4. CASE WorkerWrites
    <3>1. taken[Len(taken)] \in Message /\ WriteMessage(taken[Len(taken)])
      BY <2>4, TakenTyped DEF WorkerWrites
    <3> QED  BY <2>1, <2>4, <3>1 DEF WorkerWrites, WorkerRuns
  <2>5. ASSUME NEW p \in Thread, WriteItself(p) PROVE WorkerRuns'
    <3>1. thr[p].msg \in Message /\ WriteMessage(thr[p].msg)
      BY <2>5, CallTyped DEF WriteItself
    <3> QED  BY <2>1, <2>5, <3>1 DEF WriteItself, WorkerRuns
  <2>6. CASE StopCloses \/ Stopping \/ WorkerPops \/ WorkerRefused \/ DateChanges \/ Kill
    BY <2>6 DEF StopCloses, Stopping, StopClosesFile, StopReturns, Joined, WorkerPops, WorkerRefused,
       DateChanges, Kill, counts, WorkerRuns
  <2>7. ASSUME NEW p \in Thread, PushAccepted(p) \/ PushRefused(p) \/ \E e \in BOOLEAN : Log(p, e)
        PROVE  WorkerRuns'
    BY <2>7 DEF PushAccepted, PushRefused, Log, counts, WorkerRuns
  <2>8. CASE UNCHANGED vars
    BY <2>8 DEF vars, WorkerRuns
  <2> QED  BY <2>2, <2>3, <2>4, <2>5, <2>6, <2>7, <2>8 DEF Next, Caller, Worker
<1> QED  BY <1>1, <1>2, TypeCorrect, PTL DEF Spec

(* A thread's count of calls and the number of the run never go back.      *)
LEMMA CountsGrow ==
  ASSUME TypeOK, [Next]_vars
  PROVE  /\ kills \in Nat /\ kills' \in Nat /\ kills <= kills'
         /\ \A p \in Thread : thr[p].n \in Nat /\ thr'[p].n \in Nat /\ thr[p].n <= thr'[p].n
<1>1. kills \in Nat /\ \A p \in Thread : thr[p].n \in Nat
  BY Bounds, CallTyped DEF TypeOK
<1>2. kills' = kills \/ kills' = kills + 1
  BY DEF Next, vars, Stopping, Caller, Worker, InitLogger, StopCloses, StopReturns, StopClosesFile,
     WorkerRefused, WorkerWrites, WorkerPops, WorkerFlushes, DateChanges, PushAccepted, PushRefused,
     WriteItself, Log, Kill, counts
<1>3. \A p \in Thread : thr'[p].n = thr[p].n \/ thr'[p].n = thr[p].n + 1
  BY CallSteps
<1> QED  BY <1>1, <1>2, <1>3

(* The number of a message stays below the count of its thread.            *)
LEMMA StampedStill ==
  ASSUME TypeOK, [Next]_vars, NEW m \in Message, Stamped({m})
  PROVE  m.n < thr'[m.by].n /\ m.run <= kills'
<1>1. m.by \in Thread /\ m.n \in Nat /\ m.run \in Nat
  BY Bounds DEF Message
<1>2. m.n < thr[m.by].n /\ m.run <= kills
  BY DEF Stamped
<1>3. /\ kills \in Nat /\ kills' \in Nat /\ kills <= kills'
      /\ thr[m.by].n \in Nat /\ thr'[m.by].n \in Nat /\ thr[m.by].n <= thr'[m.by].n
  BY <1>1, CountsGrow
<1> QED  BY <1>1, <1>2, <1>3

(* So does that of a new message.                                          *)
LEMMA StampedNow ==
  ASSUME TypeOK, [Next]_vars, NEW p \in Thread, NEW e \in BOOLEAN, Log(p, e)
  PROVE  LET m == Stamp(p, e) IN m.by = p /\ m.n < thr'[p].n /\ m.run <= kills'
<1>1. thr[p].n \in Nat /\ thr'[p].n = thr[p].n + 1 /\ kills \in Nat /\ kills' = kills
  BY LogTyped, CountsGrow DEF Log, counts
<1> QED  BY <1>1 DEF Stamp

(* Wherever a message is, it has the stamp of the call of log() that made  *)
(* it: an earlier number than the thread's next call, and no later run.    *)
THEOREM StampsHold == Spec => []AllStamped
<1>1. Init => AllStamped
  <2> SUFFICES ASSUME Init PROVE AllStamped
    OBVIOUS
  <2>1. Filed = {}
    BY DEF Init, Content, NoLog, Filed, Has
  <2>2. InHand = {} /\ Queued = {} /\ Called = {}
    BY DEF Init, Fifo!Init, InHand, Queued, Called, Has
  <2> QED  BY <2>1, <2>2 DEF Init, AllStamped, Stamped
<1>2. TypeOK /\ AllStamped /\ [Next]_vars => AllStamped'
  <2> SUFFICES ASSUME TypeOK, AllStamped, [Next]_vars PROVE AllStamped'
    OBVIOUS
  <2> DEFINE All == Filed \cup InHand \cup Queued \cup Called
  <2>1. ASSUME NEW m \in All PROVE m \in Message /\ m.n < thr'[m.by].n /\ m.run <= kills'
    <3>1. m \in Message /\ Stamped({m})
      BY DEF AllStamped, Stamped, Filed, InHand, Queued, Called
    <3> QED  BY <3>1, StampedStill
  <2>2. ASSUME NEW p \in Thread, thr[p].at # "idle" PROVE thr[p].msg \in All /\ thr[p].msg.by = p
    <3>1. thr[p].msg \in Message
      BY <2>2, CallTyped
    <3> QED  BY <2>2, <3>1 DEF Called, AllStamped
  <2>3. \A m \in Filed' : m \in All
    <3>1. \A m \in Filed' : m \in Filed \/ m \in InHand
                            \/ \E p \in Thread : thr[p].at # "idle" /\ m = thr[p].msg
      BY FiledFrom DEF WriteItself
    <3> QED  BY <2>2, <3>1
  <2>4. \A m \in InHand' : m \in All
    BY InHandFrom
  <2>5. \A m \in Queued' : m \in All
    <3>1. \A m \in Queued' : m \in Queued
                             \/ \E p \in Thread : thr[p].at # "idle" /\ m = thr[p].msg
      BY QueuedFrom DEF PushAccepted
    <3> QED  BY <2>2, <3>1
  <2>6. ASSUME NEW p \in Thread, thr'[p].at # "idle"
        PROVE  LET m == thr'[p].msg IN m.by = p /\ m.n < thr'[m.by].n /\ m.run <= kills'
    <3>1. CASE thr'[p] = thr[p] \/ (thr'[p].msg = thr[p].msg /\ thr[p].at = "push")
      <4>1. thr[p].at # "idle" /\ thr'[p].msg = thr[p].msg
        BY <2>6, <3>1
      <4> QED  BY <2>1, <2>2, <4>1
    <3>2. ASSUME NEW e \in BOOLEAN, Log(p, e), thr'[p].msg = Stamp(p, e)
          PROVE  LET m == thr'[p].msg IN m.by = p /\ m.n < thr'[m.by].n /\ m.run <= kills'
      BY <3>2, StampedNow
    <3> QED  BY <2>6, <3>1, <3>2, CallSteps
  <2>7. \A m \in Called' : m.n < thr'[m.by].n /\ m.run <= kills'
    BY <2>6 DEF Called
  <2> HIDE DEF All
  <2> QED  BY <2>1, <2>3, <2>4, <2>5, <2>6, <2>7 DEF AllStamped, Stamped
<1> QED  BY <1>1, <1>2, TypeCorrect, PTL DEF Spec

(* Nothing of a run is filed before its init().                            *)
THEOREM StartsFresh == Spec => []Fresh
<1>1. Init => Fresh
  BY DEF Init, Fifo!Init, Content, NoLog, Filed, Has, Fresh
<1>2. TypeOK /\ AllStamped /\ WorkerRuns /\ Fresh /\ [Next]_vars => Fresh'
  <2> SUFFICES ASSUME TypeOK, AllStamped, WorkerRuns, Fresh, [Next]_vars, main' = "init"
               PROVE  /\ ~log'.open /\ taken' = <<>>
                      /\ \A p \in Thread : thr'[p].at = "idle"
                      /\ \A m \in Filed' : m.run # kills'
    BY DEF Fresh
  <2>1. CASE Kill
    <3>1. \A m \in Filed' : m \in Filed /\ m.run \in Nat
      BY <2>1, KillCuts, Bounds DEF Filed, Message
    <3>2. \A m \in Filed : m.run <= kills
      BY DEF AllStamped, Stamped
    <3>3. kills' = kills + 1 /\ kills \in Nat
      BY <2>1, Bounds DEF Kill, TypeOK
    <3>4. \A m \in Filed' : m.run # kills'
      BY <3>1, <3>2, <3>3
    <3> QED  BY <2>1, <3>4 DEF Kill, NoLog
  <2>2. CASE main = "init" /\ ~Kill
    <3>1. worker = "exited" /\ \A p \in Thread : thr[p].at = "idle"
      BY <2>2 DEF WorkerRuns, Fresh
    <3>2. UNCHANGED <<log, disk, taken, thr, kills>>
      BY <2>2, <3>1 DEF Next, vars, Stopping, Caller, Worker, InitLogger, StopCloses, StopReturns,
         StopClosesFile, WorkerRefused, WorkerWrites, WorkerPops, WorkerFlushes, DateChanges, PushAccepted,
         PushRefused, WriteItself, Log, pool
    <3>3. \A m \in Filed' : m \in Filed
      BY <3>2, SameContent DEF Filed
    <3> QED  BY <2>2, <3>1, <3>2, <3>3 DEF Fresh
  <2>3. main = "init" \/ Kill
    BY DEF Next, vars, Stopping, Caller, Worker, InitLogger, StopCloses, StopReturns, StopClosesFile,
       WorkerRefused, WorkerWrites, WorkerPops, WorkerFlushes, DateChanges, PushAccepted, PushRefused,
       WriteItself, Log
  <2> QED  BY <2>1, <2>2, <2>3
<1> QED  BY <1>1, <1>2, TypeCorrect, StampsHold, WorkerIsUp, PTL DEF Spec

-----------------------------------------------------------------------------
(* What is on disk stays there, whatever happens.                          *)
LEMMA DiskKeeps ==
  ASSUME TypeOK, [Next]_vars
  PROVE  NothingLost /\ \A m : OnDisk(m) => OnDisk(m)'
<1>1. NothingLost
  <2>1. CASE UNCHANGED disk
    BY <2>1 DEF NothingLost
  <2>2. CASE InitLogger
    BY <2>1, <2>2, InitOpens
  <2>3. CASE WorkerFlushes \/ StopClosesFile
    BY <2>3, FlushTidies, CloseTidies DEF Tidied
  <2>4. CASE Kill
    BY <2>4, KillCuts
  <2>5. ASSUME NEW m \in Message, WriteMessage(m) PROVE NothingLost
    BY <2>5, WriteEffect DEF Effect
  <2> QED  BY <2>1, <2>2, <2>3, <2>4, <2>5, FileSteps
<1>2. disk \in [File -> Seq(Message)] /\ disk' \in [File -> Seq(Message)]
  <2>1. disk' \in [File -> Seq(Message)]
    <3>1. CASE UNCHANGED disk
      BY <3>1 DEF TypeOK
    <3>2. CASE InitLogger
      BY <3>1, <3>2, InitOpens
    <3>3. CASE WorkerFlushes \/ StopClosesFile \/ Kill
      BY <3>3, FlushTidies, CloseTidies, KillCuts, SoundTyped DEF Tidied
    <3>4. ASSUME NEW m \in Message, WriteMessage(m) PROVE disk' \in [File -> Seq(Message)]
      BY <3>4, WriteEffect, SoundTyped DEF Effect
    <3> QED  BY <3>1, <3>2, <3>3, <3>4, FileSteps
  <2> QED  BY <2>1 DEF TypeOK
<1>3. \A f \in File : /\ DOMAIN disk[f] = 1..Len(disk[f])
                      /\ DOMAIN disk'[f] = 1..Len(disk'[f])
  BY <1>2, LenProperties
<1>4. ASSUME NEW m, NEW f \in File, NEW i \in DOMAIN disk[f], disk[f][i] = m PROVE OnDisk(m)'
  <2>1. Has(disk[f], m)
    BY <1>3, <1>4 DEF Has
  <2>2. Has(disk'[f], m)
    BY <1>1, <2>1 DEF NothingLost
  <2> QED  BY <1>3, <2>2 DEF Has, OnDisk
<1> QED  BY <1>1, <1>4 DEF OnDisk

(* What is written with nothing left in the buffer is on disk.             *)
LEMMA FiledIsOnDisk ==
  ASSUME TypeOK, NEW m, NEW f \in File, Has(disk[f], m)
  PROVE  OnDisk(m)
<1>1. DOMAIN disk[f] = 1..Len(disk[f])
  BY LenProperties DEF TypeOK
<1> QED  BY <1>1 DEF OnDisk, Has

(* A message of level error is on disk once it is written, and stays there *)
(* when the process is killed: write_message flushes it at once.           *)
THEOREM ErrorsAreKept == Spec => []ErrorsReachDisk
<1>1. Init => ErrorsReachDisk
  BY DEF Init, ErrorsReachDisk
<1>2. TypeOK /\ TypeOK' /\ ErrorsReachDisk /\ [Next]_vars => ErrorsReachDisk'
  <2> SUFFICES ASSUME TypeOK, TypeOK', ErrorsReachDisk, [Next]_vars, NEW m \in written', m.error
               PROVE  OnDisk(m)'
    BY DEF ErrorsReachDisk
  <2>1. CASE m \in written
    BY <2>1, DiskKeeps DEF ErrorsReachDisk
  <2>2. CASE m \notin written
    <3>1. PICK x \in Message : WriteMessage(x)
      <4>1. UNCHANGED written \/ \E x \in Message : WriteMessage(x)
        BY FileSteps DEF InitLogger, WorkerFlushes, StopClosesFile, Kill
      <4> QED  BY <2>2, <4>1
    <3>2. Effect(x)
      BY <3>1, WriteEffect
    <3>3. x = m /\ Wrote(m)
      BY <2>2, <3>2 DEF Effect, Wrote, Dropped
    <3>4. /\ Current' \in File /\ log'.buf = <<>>
          /\ \A f \in File : Content(f)' = IF f = Current' THEN Append(Content(f), m) ELSE Content(f)
      BY <3>3 DEF Wrote, TypeOK, Logs, File, Current
    <3>5. PICK c \in File : c = Current'
      BY <3>4
    <3> DEFINE s == Content(c)
    <3>6. s \in Seq(Message) /\ m \in Message
      BY <3>1, <3>3, PairIsSound
    <3>7. Content(c)' = Append(s, m)
      BY <3>4, <3>5
    <3>8. disk'[c] = Content(c)'
      <4>1. disk'[c] \in Seq(Message)
        BY DEF TypeOK
      <4>2. disk'[c] \o <<>> = disk'[c]
        BY <4>1, ConcatEmptySeq
      <4> QED  BY <3>4, <4>2 DEF Content
    <3> HIDE DEF s
    <3>9. Has(disk'[c], m)
      BY <3>6, <3>7, <3>8, HasAppended
    <3>10. DOMAIN disk'[c] = 1..Len(disk'[c])
      BY LenProperties DEF TypeOK
    <3> QED  BY <3>9, <3>10 DEF OnDisk, Has
  <2> QED  BY <2>1, <2>2
<1> QED  BY <1>1, <1>2, TypeCorrect, PTL DEF Spec

(* A file that is open grows past max_file_size only by what could not be  *)
(* read of its size: every message but the first of an opening is counted  *)
(* before it is written.                                                   *)
THEOREM LimitIsKept == Spec => OverLimitOnlyByRotation
<1> DEFINE A == \A f \in File :
                  (/\ log.open /\ <<log.date, log.index>> = f
                   /\ Content(f)' # Content(f) /\ kills' = kills)
                    => SumOf(Content(f)') <= MaxFileSize + log.missed
<1>1. TypeOK /\ SizeIsTrue /\ Fresh /\ [Next]_vars => [A]_vars
  <2> SUFFICES ASSUME TypeOK, SizeIsTrue, Fresh, [Next]_vars, NEW f \in File,
                      Content(f)' # Content(f), log.open, Current = f, kills' = kills
               PROVE  SumOf(Content(f)') <= MaxFileSize + log.missed
    BY DEF Current
  <2>1. /\ log.size + log.missed = SumOf(Content(f)) /\ log.size \in Nat /\ log.missed \in Nat
        /\ MaxFileSize \in Nat /\ Content(f) \in Seq(Message)
    BY PairIsSound, LoggerAssumption DEF SizeIsTrue, Current, TypeOK, Logs
  <2>2. PICK m \in Message : WriteMessage(m)
    <3>1. ~UNCHANGED <<log, disk>>
      BY SameContent
    <3>2. ~(WorkerFlushes \/ StopClosesFile)
      BY FlushTidies, CloseTidies DEF Tidied
    <3>3. ~Kill
      <4>1. kills \in Nat
        BY Bounds DEF TypeOK
      <4>2. Kill => kills' = kills + 1
        BY DEF Kill
      <4> QED  BY <4>1, <4>2
    <3>4. ~InitLogger
      BY DEF InitLogger, Fresh
    <3> QED  BY <3>1, <3>2, <3>3, <3>4, FileSteps
  <2>3. Effect(m) /\ Size(m) \in Nat
    BY <2>2, WriteEffect, SizeTyped
  <2>4. Wrote(m) /\ f = Current' /\ Content(f)' = Append(Content(f), m)
    BY <2>3 DEF Effect, Wrote, Dropped
  <2>5. ~TooLong(m)
    BY <2>4 DEF Wrote
  <2> DEFINE s == Content(f)
  <2> HIDE DEF s
  <2>6. SumOf(Append(s, m)) = SumOf(s) + Size(m)
    BY <2>1, SumOfAppended DEF s
  <2>7. SumOf(Content(f)') = SumOf(s) + Size(m)
    BY <2>4, <2>6 DEF s
  <2> DEFINE a == log.size
             b == log.missed
             c == Size(m)
             d == SumOf(Content(f)')
             e == SumOf(s)
  <2>8. /\ a \in Nat /\ b \in Nat /\ c \in Nat /\ MaxFileSize \in Nat
        /\ a + b = e /\ d = e + c /\ ~(a + c > MaxFileSize)
    BY <2>1, <2>3, <2>5, <2>7 DEF TooLong, s
  <2> HIDE DEF a, b, c, d, e
  <2>9. d <= MaxFileSize + b
    BY <2>8
  <2> QED  BY <2>9 DEF b, d
<1> QED  BY <1>1, TypeCorrect, SizesAreTrue, StartsFresh, PTL DEF Spec, OverLimitOnlyByRotation

-----------------------------------------------------------------------------
(* The file written next is never before a file of this run.               *)
LEMMA OnwardIsAfter ==
  ASSUME TypeOK, Onward, log.date <= today
  PROVE  /\ log'.date <= today
         /\ \A f \in File : NotAfter(f, Current) => NotAfter(f, Current')
         /\ NotAfter(Current', Current')
<1>1. /\ log.date \in Nat /\ log.index \in Nat /\ today \in Nat
      /\ \A f \in File : f[1] \in Nat /\ f[2] \in Nat
  <2>1. MaxDay \in Nat /\ MaxIndex \in Nat
    BY LoggerAssumption
  <2>2. \A f \in File : f[1] \in Nat /\ f[2] \in Nat
    BY <2>1 DEF File
  <2> QED  BY <2>1, <2>2 DEF TypeOK, Logs
<1>2. /\ Current[1] = log.date /\ Current[2] = log.index
      /\ Current'[1] = log'.date /\ Current'[2] = log'.index
  BY DEF Current
<1>3. log'.date \in Nat /\ log'.index \in Nat /\ log'.date <= today
  BY <1>1 DEF Onward
<1>4. log'.date = log.date => log'.index = log.index \/ log'.index = log.index + 1
  BY <1>1 DEF Onward
<1>5. log'.date = log.date \/ log.date < log'.date
  BY <1>1 DEF Onward
<1>6. ASSUME NEW f \in File, NotAfter(f, Current) PROVE NotAfter(f, Current')
  <2>1. f[1] < log.date \/ (f[1] = log.date /\ f[2] <= log.index)
    BY <1>2, <1>6 DEF NotAfter
  <2>2. f[1] < log'.date \/ (f[1] = log'.date /\ f[2] <= log'.index)
    BY <1>1, <1>3, <1>4, <1>5, <2>1
  <2> QED  BY <1>2, <2>2 DEF NotAfter
<1>7. NotAfter(Current', Current')
  BY <1>2, <1>3 DEF NotAfter
<1> QED  BY <1>3, <1>6, <1>7

(* No file of this run is ahead of the one that is written, if the date is *)
(* not set back.                                                           *)
THEOREM CurrentIsLast == Spec => []NoneAhead
<1>1. Init => NoneAhead
  BY DEF Init, NoLog, NoneAhead, CurrentLast, Content
<1>2. TypeOK /\ AllStamped /\ Fresh /\ NoneAhead /\ [Next]_vars => NoneAhead'
  <2> SUFFICES ASSUME TypeOK, AllStamped, Fresh, NoneAhead, [Next]_vars, ~setBack'
               PROVE  CurrentLast'
    BY DEF NoneAhead
  <2>0. /\ log.date \in Nat /\ today \in Nat /\ kills \in Nat
        /\ \A f \in File : Content(f) \in Seq(Message)
        /\ Kill => kills' # kills
    <3>1. Kill => kills' = kills + 1
      BY DEF Kill
    <3> QED  BY <3>1, Bounds, PairIsSound DEF TypeOK, Logs
  <2>9. ~Kill => CurrentLast /\ (today' = today \/ DateChanges)
    <3>1. ~Kill => ~setBack /\ (today' = today \/ DateChanges)
      BY DEF Next, vars, Stopping, Caller, Worker, InitLogger, StopCloses, StopReturns, StopClosesFile,
         WorkerRefused, WorkerWrites, WorkerPops, WorkerFlushes, DateChanges, PushAccepted, PushRefused,
         WriteItself, Log, date, counts
    <3> QED  BY <3>1 DEF NoneAhead
  <2>1. CASE UNCHANGED <<log, disk, kills>>
    <3>1. CurrentLast /\ today <= today' /\ today' \in Nat
      <4>1. CurrentLast /\ (today' = today \/ DateChanges)
        BY <2>0, <2>1, <2>9
      <4>2. CASE DateChanges
        <5>1. PICK day \in 0..MaxDay : today' = day /\ setBack' = (setBack \/ day < today)
          BY <4>2 DEF DateChanges
        <5>2. ~(day < today)
          BY <5>1, Zenon
        <5> QED  BY <2>0, <4>1, <5>1, <5>2, Bounds
      <4> QED  BY <2>0, <4>1, <4>2
    <3>2. Current' = Current /\ \A f \in File : Content(f)' = Content(f)
      BY <2>1, SameContent
    <3> QED  BY <2>0, <2>1, <3>1, <3>2 DEF CurrentLast
  <2>2. CASE WorkerFlushes \/ StopClosesFile
    <3>1. Tidied /\ UNCHANGED <<today, kills>>
      BY <2>2, FlushTidies, CloseTidies DEF WorkerFlushes, StopClosesFile, counts
    <3> QED  BY <2>0, <2>9, <3>1 DEF Tidied, CurrentLast
  <2>3. CASE InitLogger
    <3>1. log'.date = today /\ UNCHANGED <<today, kills, disk>> /\ \A f \in File : Content(f)' = disk[f]
      BY <2>3, InitOpens DEF InitLogger, date
    <3>2. ASSUME NEW f \in File, NEW i \in 1..Len(disk[f]) PROVE disk[f][i].run # kills
      <4>1. disk[f][i] \in Message /\ Content(f) = disk[f]
        BY <2>3, ElementOfSeq DEF InitLogger, Fresh, Content, TypeOK
      <4>2. disk[f][i] \in Filed
        BY <4>1 DEF Filed, Has
      <4> QED  BY <2>3, <4>2 DEF InitLogger, Fresh
    <3> QED  BY <2>0, <3>1, <3>2 DEF CurrentLast
  <2>4. CASE Kill
    <3>1. log'.date = 0 /\ kills' = kills + 1 /\ today' = today
      BY <2>4 DEF Kill, NoLog
    <3>2. ASSUME NEW f \in File, NEW i \in 1..Len(Content(f)') PROVE Content(f)'[i].run # kills'
      <4> DEFINE m == Content(f)'[i]
      <4>1. Has(Content(f)', m)
        BY DEF Has
      <4> HIDE DEF m
      <4>2. PICK j \in 1..Len(Content(f)) : Content(f)[j] = m
        BY <2>4, <4>1, KillCuts DEF Has
      <4>3. m \in Message
        BY <2>0, <4>2, ElementOfSeq
      <4>4. m \in Filed /\ m.run \in Nat
        BY <4>2, <4>3, Bounds DEF Filed, Has, Message
      <4>5. m.run <= kills
        BY <4>4 DEF AllStamped, Stamped
      <4> QED  BY <2>0, <3>1, <4>4, <4>5 DEF m
    <3> QED  BY <2>0, <3>1, <3>2 DEF CurrentLast
  <2>5. ASSUME NEW x \in Message, WriteMessage(x), UNCHANGED <<today, kills>> PROVE CurrentLast'
    <3>1. Effect(x) /\ CurrentLast
      BY <2>0, <2>5, <2>9, WriteEffect
    <3>2. /\ log'.date <= today
          /\ \A f \in File : NotAfter(f, Current) => NotAfter(f, Current')
          /\ NotAfter(Current', Current')
      BY <3>1, OnwardIsAfter DEF Effect, CurrentLast
    <3>3. ASSUME NEW f \in File, NEW i \in 1..Len(Content(f)'), Content(f)'[i].run = kills
          PROVE  NotAfter(f, Current')
      <4>1. CASE Content(f)' = Content(f)
        BY <3>1, <3>2, <3>3, <4>1 DEF CurrentLast
      <4>2. CASE f = Current'
        BY <3>2, <4>2
      <4> QED  BY <3>1, <4>1, <4>2 DEF Effect, Wrote, Dropped
    <3> QED  BY <2>5, <3>2, <3>3 DEF CurrentLast
  <2>6. CASE WorkerWrites
    BY <2>5, <2>6, TakenTyped DEF WorkerWrites, date
  <2>7. ASSUME NEW p \in Thread, WriteItself(p) PROVE CurrentLast'
    BY <2>5, <2>7, CallTyped DEF WriteItself, date
  <2>8. \/ UNCHANGED <<log, disk, kills>> \/ InitLogger \/ WorkerFlushes \/ StopClosesFile \/ Kill
        \/ WorkerWrites \/ \E p \in Thread : WriteItself(p)
    BY DEF Next, vars, Stopping, Caller, Worker, StopCloses, StopReturns, WorkerRefused, WorkerPops,
       DateChanges, counts, PushAccepted, PushRefused, Log
  <2> QED  BY <2>1, <2>2, <2>3, <2>4, <2>6, <2>7, <2>8
<1> QED  BY <1>1, <1>2, TypeCorrect, StampsHold, StartsFresh, PTL DEF Spec

-----------------------------------------------------------------------------
(* What is logged now has a later number than what was logged before.      *)
LEMMA StampedIsLast ==
  ASSUME TypeOK, AllStamped, NEW p \in Thread, NEW e \in BOOLEAN, Log(p, e),
         NEW a \in Filed \cup InHand \cup Queued
  PROVE  a.by = Stamp(p, e).by => a.n < Stamp(p, e).n
<1>1. a.n < thr[a.by].n
  BY DEF AllStamped, Stamped
<1> QED  BY <1>1 DEF Stamp

(* While the queue is open a thread's messages pass from place to place in *)
(* the order it logged them: no call writes past the queue.                *)
THEOREM TurnsAreKept == Spec => []InTurn
<1>1. Init => InTurn
  <2> SUFFICES ASSUME Init PROVE InTurn
    OBVIOUS
  <2>1. Filed = {}
    BY DEF Init, Content, NoLog, Filed, Has
  <2>2. InHand = {} /\ Queued = {} /\ Called = {} /\ Len(queue) = 0
    BY DEF Init, Fifo!Init, InHand, Queued, Called, Has
  <2>3. \A p \in Thread : thr[p].at # "write"
    BY DEF Init
  <2> QED  BY <2>1, <2>2, <2>3 DEF InTurn, Before
<1>2. TypeOK /\ AllStamped /\ InTurn /\ [Next]_vars => InTurn'
  <2> SUFFICES ASSUME TypeOK, AllStamped, InTurn, [Next]_vars, ~closed' PROVE InTurn'
    BY DEF InTurn
  <2>1. CASE Kill
    <3>1. InHand' = {} /\ Queued' = {} /\ Called' = {} /\ Len(queue') = 0
          /\ \A p \in Thread : thr'[p].at # "write"
      <4>1. /\ queue' = <<>> /\ worker' = "exited"
            /\ \A p \in Thread : thr'[p].at = "idle"
        BY <2>1 DEF Kill
      <4>2. InHand' = {} /\ Called' = {}
        BY <4>1 DEF InHand, Called
      <4>3. Len(queue') = 0
        BY <4>1
      <4>4. Queued' = {}
        BY <4>3 DEF Queued, Has
      <4> QED  BY <4>1, <4>2, <4>3, <4>4
    <3> QED  BY <3>1 DEF InTurn, Before
  <2>2. CASE ~Kill
    <3>1. ~closed
      BY <2>2 DEF Next, vars, Stopping, Caller, Worker, InitLogger, StopCloses, StopReturns,
         StopClosesFile, WorkerRefused, WorkerWrites, WorkerPops, WorkerFlushes, DateChanges, PushAccepted,
         PushRefused, WriteItself, Log, pool, Fifo!Put, Fifo!Take, Fifo!Shut
    <3>2. /\ \A p \in Thread : thr[p].at # "write"
          /\ Before(Filed, InHand) /\ Before(Filed, Queued) /\ Before(Filed, Called)
          /\ Before(InHand, Queued) /\ Before(InHand, Called)
          /\ Before(Queued, Called)
          /\ \A i, j \in 1..Len(queue) : i < j /\ queue[i].by = queue[j].by => queue[i].n < queue[j].n
      BY <3>1 DEF InTurn
    <3>3. \A x \in Filed' : x \in Filed \/ (WorkerWrites /\ x \in InHand)
      BY <3>2, FiledFrom DEF WriteItself
    <3>4. ASSUME NEW p \in Thread, thr[p].at # "idle"
          PROVE  thr[p].msg \in Called /\ thr[p].msg.by = p
      BY <3>4, CallTyped DEF Called, AllStamped
    <3>5. \A x \in Queued' : x \in Queued \/ x \in Called
      BY <3>4, QueuedFrom DEF PushAccepted
    <3>6. \A x \in Called' : \/ x \in Called
                             \/ \E p \in Thread, e \in BOOLEAN : Log(p, e) /\ x = Stamp(p, e)
      <4>1. SUFFICES ASSUME NEW p \in Thread, thr'[p].at # "idle"
                     PROVE  \/ thr'[p].msg \in Called
                            \/ \E e \in BOOLEAN : Log(p, e) /\ thr'[p].msg = Stamp(p, e)
        BY DEF Called
      <4> QED  BY <3>4, <4>1, CallSteps
    <3>7. \A p \in Thread : thr'[p].at # "write"
      <4>1. \A p \in Thread : ~PushRefused(p)
        BY <3>1 DEF PushRefused, Refused
      <4> QED  BY <3>2, <4>1, CallSteps
    <3>8. ASSUME NEW A, A \subseteq Filed \cup InHand \cup Queued, Before(A, Called)
          PROVE  Before(A, Called')
      <4>1. SUFFICES ASSUME NEW a \in A, NEW b \in Called', a.by = b.by PROVE a.n < b.n
        BY DEF Before
      <4>2. CASE b \in Called
        BY <3>8, <4>1, <4>2 DEF Before
      <4>3. ASSUME NEW p \in Thread, NEW e \in BOOLEAN, Log(p, e), b = Stamp(p, e) PROVE a.n < b.n
        BY <3>8, <4>1, <4>3, StampedIsLast
      <4> QED  BY <3>6, <4>2, <4>3
    <3>9. Before(Filed', InHand')
      <4>1. SUFFICES ASSUME NEW a \in Filed', NEW b \in InHand', a.by = b.by PROVE a.n < b.n
        BY DEF Before
      <4>2. ~WorkerWrites
        BY DEF InHand, WorkerWrites
      <4> QED  BY <3>2, <3>3, <4>1, <4>2, InHandFrom DEF Before
    <3>10. Before(Filed', Queued')
      BY <3>2, <3>3, <3>5 DEF Before
    <3>11. Before(Filed', Called')
      <4>1. Before(Filed \cup InHand, Called')
        <5>1. Before(Filed \cup InHand, Called)
          BY <3>2 DEF Before
        <5> QED  BY <3>8, <5>1
      <4> QED  BY <3>3, <4>1 DEF Before
    <3>12. CASE WorkerPops
      <4>1. /\ UNCHANGED thr /\ Called' = Called
            /\ \A x \in InHand' : x = queue[1] /\ x \in Queued
        BY <3>12, InHandFrom, PopShifts DEF WorkerPops, Called, InHand
      <4>2. /\ 1 \in 1..Len(queue) /\ Len(queue) \in Nat /\ Len(queue') = Len(queue) - 1
            /\ \A i \in 1..Len(queue') : i + 1 \in 1..Len(queue) /\ queue'[i] = queue[i + 1]
        BY <3>12, PopShifts
      <4>3. Before(InHand', Queued')
        <5>1. SUFFICES ASSUME NEW a \in InHand', NEW b \in Queued', a.by = b.by PROVE a.n < b.n
          BY DEF Before
        <5>2. PICK i \in 1..Len(queue') : queue'[i] = b
          BY DEF Queued, Has
        <5>3. i + 1 \in 1..Len(queue) /\ queue[i + 1] = b /\ 1 < i + 1
          BY <4>2, <5>2
        <5> QED  BY <3>2, <4>1, <4>2, <5>1, <5>3
      <4>4. Before(InHand', Called') /\ Before(Queued', Called')
        <5>1. \A x \in Queued' : x \in Queued
          <6>1. \A p \in Thread : ~PushAccepted(p)
            BY <3>12, <4>1, CallTyped DEF PushAccepted
          <6> QED  BY <6>1, QueuedFrom
        <5> QED  BY <3>2, <4>1, <5>1 DEF Before
      <4>5. \A i, j \in 1..Len(queue') : i < j /\ queue'[i].by = queue'[j].by => queue'[i].n < queue'[j].n
        <5>1. SUFFICES ASSUME NEW i \in 1..Len(queue'), NEW j \in 1..Len(queue'),
                              i < j, queue'[i].by = queue'[j].by
                       PROVE  queue'[i].n < queue'[j].n
          OBVIOUS
        <5>2. /\ i + 1 \in 1..Len(queue) /\ j + 1 \in 1..Len(queue) /\ i + 1 < j + 1
              /\ queue'[i] = queue[i + 1] /\ queue'[j] = queue[j + 1]
          BY <4>2, <5>1
        <5> QED  BY <3>2, <5>1, <5>2
      <4> QED  BY <3>7, <3>9, <3>10, <3>11, <4>3, <4>4, <4>5 DEF InTurn
    <3>13. CASE ~WorkerPops
      <4>1. \A x \in InHand' : x \in InHand
        BY <3>13, InHandFrom
      <4>2. Before(InHand', Queued')
        BY <3>2, <3>5, <4>1 DEF Before
      <4>3. Before(InHand', Called')
        <5>1. Before(InHand, Called')
          BY <3>2, <3>8
        <5> QED  BY <4>1, <5>1 DEF Before
      <4>4. ASSUME NEW p \in Thread, PushAccepted(p)
            PROVE  /\ Before(Queued', Called')
                   /\ \A i, j \in 1..Len(queue') :
                        i < j /\ queue'[i].by = queue'[j].by => queue'[i].n < queue'[j].n
        <5> DEFINE m == thr[p].msg
        <5>1. /\ m \in Message /\ m \in Called /\ m.by = p /\ queue' = Append(queue, m)
              /\ queue \in Seq(Message)
          BY <3>4, <4>4, CallTyped DEF PushAccepted, Fifo!Put, TypeOK
        <5>2. /\ thr'[p].at = "idle" /\ \A q \in Thread : q # p => thr'[q] = thr[q]
          BY <4>4, CallTyped DEF PushAccepted
        <5> HIDE DEF m
        <5>3. \A b \in Called' : b \in Called /\ b.by # p
          <6>1. SUFFICES ASSUME NEW q \in Thread, thr'[q].at # "idle"
                         PROVE  thr'[q].msg \in Called /\ thr'[q].msg.by # p
            BY DEF Called
          <6>2. q # p /\ thr'[q] = thr[q]
            BY <5>2, <6>1
          <6> QED  BY <3>4, <6>1, <6>2
        <5>4. \A a \in Queued' : a \in Queued \/ a = m
          BY <5>1, HasAppended DEF Queued
        <5>5. Before(Queued', Called')
          BY <3>2, <5>1, <5>3, <5>4 DEF Before
        <5>6. /\ Len(queue) \in Nat /\ Len(queue') = Len(queue) + 1
              /\ \A i \in 1..Len(queue) : queue'[i] = queue[i] /\ queue[i] \in Queued
              /\ queue'[Len(queue) + 1] = m
          BY <5>1, AppendProperties, LenProperties, ElementOfSeq DEF Queued, Has
        <5>7. ASSUME NEW i \in 1..Len(queue'), NEW j \in 1..Len(queue'),
                     i < j, queue'[i].by = queue'[j].by
              PROVE  queue'[i].n < queue'[j].n
          <6>1. i \in 1..Len(queue) /\ (j \in 1..Len(queue) \/ j = Len(queue) + 1)
            BY <5>6, <5>7
          <6>2. CASE j \in 1..Len(queue)
            BY <3>2, <5>6, <5>7, <6>1, <6>2
          <6>3. CASE j = Len(queue) + 1
            BY <3>2, <5>1, <5>6, <5>7, <6>1, <6>3 DEF Before
          <6> QED  BY <6>1, <6>2, <6>3
        <5> QED  BY <5>5, <5>7
      <4>5. CASE queue' = queue
        <5>1. Queued' = Queued
          BY <4>5 DEF Queued
        <5>2. Before(Queued, Called')
          BY <3>2, <3>8
        <5> QED  BY <3>2, <3>7, <3>9, <3>10, <3>11, <4>2, <4>3, <4>5, <5>1, <5>2 DEF InTurn
      <4>6. CASE \E p \in Thread : PushAccepted(p)
        BY <3>7, <3>9, <3>10, <3>11, <4>2, <4>3, <4>4, <4>6 DEF InTurn
      <4> QED  BY <2>2, <3>13, <4>5, <4>6, QueueSteps
    <3> QED  BY <3>12, <3>13
  <2> QED  BY <2>1, <2>2
<1> QED  BY <1>1, <1>2, TypeCorrect, StampsHold, PTL DEF Spec

(* When one file is not after another, order between them is order within  *)
(* one.                                                                    *)
LEMMA NoneAfter ==
  ASSUME NEW f \in File, NEW g \in File, NEW i, NEW j, NotAfter(g, f), Precedes(f, i, g, j)
  PROVE  f = g /\ i < j
<1>1. MaxDay \in Nat /\ MaxIndex \in Nat
  BY LoggerAssumption
<1>2. f[1] \in Nat /\ f[2] \in Nat /\ g[1] \in Nat /\ g[2] \in Nat
  BY <1>1 DEF File
<1>3. ~(f[1] < g[1]) /\ ~(f[1] = g[1] /\ f[2] < g[2])
  BY <1>2 DEF NotAfter
<1> QED  BY <1>3 DEF Precedes

(* Until stop() closes the queue, and if the date is not set back, the     *)
(* files hold a thread's messages of this run once and in the order it     *)
(* logged them: only the worker writes, and what it writes was logged      *)
(* after all that is filed.                                                *)
THEOREM OrderIsKept == Spec => []InOrder
<1> DEFINE Ordered == \A f, g \in File :
             \A i \in 1..Len(Content(f)), j \in 1..Len(Content(g)) :
               (/\ Content(f)[i].by = Content(g)[j].by
                /\ Content(f)[i].run = kills /\ Content(g)[j].run = kills
                /\ Precedes(f, i, g, j)) => Content(f)[i].n < Content(g)[j].n
<1>0. TypeOK => (InOrder <=> (~closed /\ ~setBack => Ordered))
  <2> SUFFICES ASSUME TypeOK PROVE InOrder <=> (~closed /\ ~setBack => Ordered)
    OBVIOUS
  <2>1. \A f \in File : DOMAIN Content(f) = 1..Len(Content(f))
    BY PairIsSound, LenProperties
  <2> QED  BY <2>1 DEF InOrder
<1>1. Init => (~closed /\ ~setBack => Ordered)
  <2> SUFFICES ASSUME Init PROVE Ordered
    OBVIOUS
  <2>1. \A f \in File : Len(Content(f)) = 0
    BY DEF Init, Content, NoLog
  <2> QED  BY <2>1
<1>2. TypeOK /\ AllStamped /\ Fresh /\ NoneAhead /\ InTurn /\ (~closed /\ ~setBack => Ordered) /\ [Next]_vars
        => (~closed /\ ~setBack => Ordered)'
  <2> SUFFICES ASSUME TypeOK, AllStamped, Fresh, NoneAhead, InTurn, ~closed /\ ~setBack => Ordered, [Next]_vars,
                      ~closed', ~setBack'
               PROVE  Ordered'
    OBVIOUS
  <2>0. \A f \in File : Content(f) \in Seq(Message) /\ Len(Content(f)) \in Nat
    BY PairIsSound, LenProperties
  <2>1. CASE ~Kill /\ \A f \in File : Content(f)' = Content(f)
    <3>1. ~closed /\ kills' = kills
      BY <2>1 DEF Next, vars, Stopping, Caller, Worker, InitLogger, StopCloses, StopReturns,
         StopClosesFile, WorkerRefused, WorkerWrites, WorkerPops, WorkerFlushes, DateChanges, PushAccepted,
         PushRefused, WriteItself, Log, pool, counts, Fifo!Put, Fifo!Take, Fifo!Shut
    <3>2. ~setBack
      BY <2>1 DEF Next, vars, Stopping, Caller, Worker, InitLogger, StopCloses, StopReturns,
         StopClosesFile, WorkerRefused, WorkerWrites, WorkerPops, WorkerFlushes, DateChanges, PushAccepted,
         PushRefused, WriteItself, Log, date, counts
    <3> QED  BY <2>1, <3>1, <3>2
  <2>2. ASSUME \A f \in File : \A i \in 1..Len(Content(f)') : Content(f)'[i].run # kills' PROVE Ordered'
    BY <2>2
  <2>3. CASE Kill
    <3>1. ASSUME NEW f \in File, NEW i \in 1..Len(Content(f)') PROVE Content(f)'[i].run # kills'
      <4> DEFINE m == Content(f)'[i]
      <4>1. Has(Content(f)', m)
        BY DEF Has
      <4> HIDE DEF m
      <4>2. PICK j \in 1..Len(Content(f)) : Content(f)[j] = m
        BY <2>3, <4>1, KillCuts DEF Has
      <4>3. m \in Message
        BY <2>0, <4>2, ElementOfSeq
      <4>4. m \in Filed /\ m.run \in Nat
        BY <4>2, <4>3, Bounds DEF Filed, Has, Message
      <4>5. m.run <= kills /\ kills \in Nat
        BY <4>4, Bounds DEF AllStamped, Stamped, TypeOK
      <4>6. kills' = kills + 1
        BY <2>3 DEF Kill
      <4> QED  BY <4>4, <4>5, <4>6 DEF m
    <3> QED  BY <2>2, <3>1
  <2>4. CASE InitLogger
    <3>1. UNCHANGED kills /\ \A f \in File : Content(f)' = Content(f)
      BY <2>4, InitOpens DEF InitLogger, Fresh, Content
    <3>2. ASSUME NEW f \in File, NEW i \in 1..Len(Content(f)) PROVE Content(f)[i].run # kills
      <4>1. Content(f)[i] \in Message
        BY <2>0, ElementOfSeq
      <4>2. Content(f)[i] \in Filed
        BY <4>1 DEF Filed, Has
      <4> QED  BY <2>4, <4>2 DEF InitLogger, Fresh
    <3> QED  BY <2>2, <3>1, <3>2
  <2>5. ASSUME WorkerWrites PROVE Ordered'
    <3> DEFINE m == taken[Len(taken)]
    <3>1. m \in Message /\ WriteMessage(m) /\ m \in InHand /\ UNCHANGED <<closed, kills, date>>
      BY <2>5, TakenTyped DEF WorkerWrites, InHand, pool
    <3> HIDE DEF m
    <3>2. Effect(m) /\ ~closed /\ ~setBack
      BY <3>1, WriteEffect DEF date
    <3>3. CASE Dropped
      BY <2>1, <3>1, <3>2, <3>3 DEF Dropped
    <3>4. CASE Wrote(m)
      <4>1. PICK c \in File : c = Current'
        <5>1. log' \in Logs
          BY <3>2, SoundTyped DEF Effect
        <5>2. Current' \in File
          BY <5>1 DEF Current, Logs, File
        <5> QED  BY <5>2
      <4>2. ASSUME NEW f \in File
            PROVE  \/ Content(f)' = Content(f)
                   \/ /\ f = c /\ Len(Content(f)') = Len(Content(f)) + 1
                      /\ \A i \in 1..Len(Content(f)) : Content(f)'[i] = Content(f)[i]
                      /\ Content(f)'[Len(Content(f)) + 1] = m
        <5> DEFINE s == Content(f)
                   t == Content(f)'
        <5>1. s \in Seq(Message) /\ t = IF f = c THEN Append(s, m) ELSE s
          BY <2>0, <3>4, <4>1 DEF Wrote
        <5> HIDE DEF s, t
        <5> SUFFICES \/ t = s
                     \/ /\ f = c /\ Len(t) = Len(s) + 1
                        /\ \A i \in 1..Len(s) : t[i] = s[i]
                        /\ t[Len(s) + 1] = m
          BY DEF s, t
        <5> QED  BY <3>1, <5>1, AppendProperties
      <4>3. ASSUME NEW f \in File, NEW i \in 1..Len(Content(f)')
            PROVE  \/ i \in 1..Len(Content(f)) /\ Content(f)'[i] = Content(f)[i]
                   \/ f = c /\ i = Len(Content(f)) + 1 /\ Content(f)'[i] = m
        BY <2>0, <4>2
      <4>4. \A f \in File : \A i \in 1..Len(Content(f)) : Content(f)[i] \in Filed
        <5>1. \A f \in File : \A i \in 1..Len(Content(f)) : Content(f)[i] \in Message
          BY <2>0, ElementOfSeq
        <5> QED  BY <5>1 DEF Filed, Has
      <4>5. ASSUME NEW g \in File, NEW j \in 1..Len(Content(g)), Content(g)[j].run = kills
            PROVE  NotAfter(g, c)
        <5>1. log.date <= today /\ NotAfter(g, Current)
          BY <3>2, <4>5 DEF NoneAhead, CurrentLast
        <5> QED  BY <3>2, <4>1, <5>1, OnwardIsAfter DEF Effect
      <4>6. SUFFICES ASSUME NEW f \in File, NEW g \in File,
                            NEW i \in 1..Len(Content(f)'), NEW j \in 1..Len(Content(g)'),
                            Content(f)'[i].by = Content(g)'[j].by,
                            Content(f)'[i].run = kills, Content(g)'[j].run = kills,
                            Precedes(f, i, g, j)
                     PROVE  Content(f)'[i].n < Content(g)'[j].n
        BY <3>1
      <4>7. CASE /\ i \in 1..Len(Content(f)) /\ Content(f)'[i] = Content(f)[i]
                 /\ j \in 1..Len(Content(g)) /\ Content(g)'[j] = Content(g)[j]
        BY <3>2, <4>6, <4>7
      <4>8. CASE /\ i \in 1..Len(Content(f)) /\ Content(f)'[i] = Content(f)[i]
                 /\ Content(g)'[j] = m
        <5>1. Before(Filed, InHand)
          BY <3>2 DEF InTurn
        <5> QED  BY <3>1, <4>4, <4>6, <4>8, <5>1 DEF Before
      <4>9. CASE /\ f = c /\ i = Len(Content(f)) + 1
                 /\ j \in 1..Len(Content(g)) /\ Content(g)'[j] = Content(g)[j]
        <5>1. NotAfter(g, f)
          BY <4>5, <4>6, <4>9
        <5>2. f = g /\ i < j
          BY <4>6, <5>1, NoneAfter
        <5> QED  BY <2>0, <4>9, <5>2
      <4>10. CASE f = c /\ i = Len(Content(f)) + 1 /\ g = c /\ j = Len(Content(g)) + 1
        <5>1. f = g /\ i = j /\ i \in Nat
          BY <2>0, <4>10
        <5>2. f[1] \in Nat /\ f[2] \in Nat
          BY LoggerAssumption DEF File
        <5> QED  BY <4>6, <5>1, <5>2 DEF Precedes
      <4> QED  BY <4>3, <4>7, <4>8, <4>9, <4>10
    <3> QED  BY <3>2, <3>3, <3>4 DEF Effect
  <2>6. CASE WorkerFlushes \/ StopClosesFile
    BY <2>1, <2>3, <2>6, FlushTidies, CloseTidies DEF Tidied
  <2>7. CASE UNCHANGED <<log, disk>>
    BY <2>1, <2>3, <2>7, SameContent
  <2>8. \A p \in Thread : ~WriteItself(p)
    BY DEF InTurn, WriteItself, pool
  <2>9. \/ UNCHANGED <<log, disk>> \/ InitLogger \/ WorkerFlushes \/ StopClosesFile \/ Kill
        \/ WorkerWrites \/ \E p \in Thread : WriteItself(p)
    BY DEF Next, vars, Stopping, Caller, Worker, StopCloses, StopReturns, WorkerRefused, WorkerPops,
       DateChanges, counts, PushAccepted, PushRefused, Log
  <2> QED  BY <2>3, <2>4, <2>5, <2>6, <2>7, <2>8, <2>9
<1> HIDE DEF Ordered
<1> QED
  BY <1>0, <1>1, <1>2, TypeCorrect, StampsHold, StartsFresh, CurrentIsLast, TurnsAreKept, PTL DEF Spec

-----------------------------------------------------------------------------
(* Nothing that is filed is lost unless the process is killed.             *)
LEMMA FiledStays ==
  ASSUME TypeOK, Fresh, [Next]_vars, ~Kill, NEW x \in Filed
  PROVE  x \in Filed'
<1>1. CASE \A f \in File : Content(f)' = Content(f)
  BY <1>1 DEF Filed
<1>2. ASSUME NEW m \in Message, WriteMessage(m) PROVE x \in Filed'
  BY <1>2, WriteFiles
<1>3. UNCHANGED <<log, disk>> => \A f \in File : Content(f)' = Content(f)
  BY SameContent
<1>4. WorkerFlushes \/ StopClosesFile => \A f \in File : Content(f)' = Content(f)
  BY FlushTidies, CloseTidies DEF Tidied
<1>5. InitLogger => \A f \in File : Content(f)' = Content(f)
  BY InitOpens DEF InitLogger, Fresh, Content
<1> QED  BY <1>1, <1>2, <1>3, <1>4, <1>5, FileSteps

(* A file that could not be opened is not forgotten.                       *)
LEMMA FailuresStay ==
  ASSUME TypeOK, [Next]_vars, failures' = 0
  PROVE  failures = 0
<1>1. failures \in Nat
  BY Bounds DEF TypeOK
<1>2. ASSUME NEW m \in Message, WriteMessage(m) PROVE failures' = failures \/ failures' = failures + 1
  BY <1>2, WriteEffect DEF Effect, Wrote, Dropped
<1>3. InitLogger => failures' = failures \/ failures' = failures + 1
  BY InitOpens
<1>4. WorkerFlushes \/ StopClosesFile \/ Kill => failures' = failures
  BY DEF WorkerFlushes, StopClosesFile, Kill, counts
<1> QED  BY <1>1, <1>2, <1>3, <1>4, FileSteps

(* What the worker took it writes, to a file that is open, and stop()      *)
(* closes the file only after it.                                          *)
THEOREM TakenStays == Spec => []TakenIsKept
<1>1. Init => TakenIsKept
  BY DEF Init, TakenIsKept
<1>2. TypeOK /\ TypeOK' /\ WorkerRuns /\ WorkerRuns' /\ Fresh /\ TakenIsKept /\ [Next]_vars => TakenIsKept'
  <2> SUFFICES ASSUME TypeOK, TypeOK', WorkerRuns, WorkerRuns', Fresh, TakenIsKept, [Next]_vars,
                      failures' = 0, main' # "init"
               PROVE  /\ \A i \in 1..Len(taken') :
                           taken'[i] \in Filed' \/ (i = Len(taken') /\ worker' = "writing")
                      /\ main' \in {"closed", "stopped"} => \A i \in 1..Len(taken') : taken'[i] \in Stored'
    BY DEF TakenIsKept
  <2>0. failures = 0 /\ ~Kill
    BY FailuresStay DEF Kill
  <2>1. \A x : (x \in Filed => x \in Filed') /\ (x \in Stored => x \in Stored')
    BY <2>0, FiledStays, DiskKeeps DEF Stored
  <2>2. CASE InitLogger
    <3>1. taken' = <<>>
      BY <2>2 DEF InitLogger, Fresh, pool
    <3> QED  BY <3>1
  <2>3. ASSUME main # "init"
        PROVE  /\ \A i \in 1..Len(taken) : taken[i] \in Filed' \/ (i = Len(taken) /\ worker = "writing")
               /\ main \in {"closed", "stopped"} => \A i \in 1..Len(taken) : taken[i] \in Stored'
    BY <2>0, <2>1, <2>3 DEF TakenIsKept
  <2>4. CASE WorkerPops
    <3>1. /\ worker = "popping" /\ worker' = "writing" /\ taken' = Append(taken, Head(queue))
          /\ main' = main /\ main \in {"up", "joining"} /\ queue # <<>> /\ queue \in Seq(Message)
          /\ taken \in Seq(Message)
      BY <2>4 DEF WorkerPops, Fifo!Take, WorkerRuns, TypeOK
    <3>2. /\ Len(taken) \in Nat /\ Len(taken') = Len(taken) + 1
          /\ \A i \in 1..Len(taken) : taken'[i] = taken[i]
      <4>1. Head(queue) \in Message
        BY <3>1, HeadTailProperties
      <4> QED  BY <3>1, <4>1, AppendProperties, LenProperties
    <3>3. \A i \in 1..Len(taken) : taken[i] \in Filed'
      BY <2>3, <3>1
    <3>4. \A i \in 1..Len(taken') : i \in 1..Len(taken) \/ i = Len(taken')
      BY <3>2
    <3> QED  BY <3>1, <3>2, <3>3, <3>4
  <2>5. CASE WorkerWrites
    <3> DEFINE m == taken[Len(taken)]
    <3>1. /\ m \in Message /\ WriteMessage(m) /\ main \in {"up", "joining"} /\ UNCHANGED <<taken, main>>
          /\ worker' = "popping"
      BY <2>5, TakenTyped DEF WorkerWrites, WorkerRuns, pool
    <3>2. log'.open
      BY <3>1 DEF WorkerRuns
    <3>3. m \in Filed'
      <4> HIDE DEF m
      <4> QED  BY <3>1, <3>2, WriteFiles
    <3> QED  BY <2>3, <3>1, <3>3
  <2>6. CASE StopClosesFile
    <3>1. /\ main = "joining" /\ main' = "closed" /\ worker = "exited" /\ worker' = worker /\ taken' = taken
      BY <2>6 DEF StopClosesFile, Joined, pool
    <3>2. \A i \in 1..Len(taken) : taken[i] \in Filed /\ taken[i] \in Filed'
      BY <2>0, <2>1, <3>1 DEF TakenIsKept
    <3>3. ASSUME NEW m \in Filed PROVE m \in Stored'
      <4>1. PICK f \in File : Has(Content(f), m)
        BY DEF Filed
      <4>2. Has(disk'[f], m)
        BY <2>6, <4>1, CloseTidies
      <4>3. DOMAIN disk'[f] = 1..Len(disk'[f])
        BY LenProperties DEF TypeOK
      <4> QED  BY <4>2, <4>3 DEF OnDisk, Has, Stored, Filed
    <3> QED  BY <3>1, <3>2, <3>3
  <2>7. CASE UNCHANGED <<taken, main, worker>>
    BY <2>3, <2>7
  <2>8. CASE StopCloses
    BY <2>3, <2>8 DEF StopCloses, Fifo!Shut
  <2>9. CASE StopReturns
    BY <2>3, <2>9 DEF StopReturns, pool
  <2>10. CASE WorkerRefused \/ WorkerFlushes
    <3>1. UNCHANGED <<taken, main>> /\ worker # "writing" /\ main # "init"
      BY <2>10 DEF WorkerRefused, WorkerFlushes, pool
    <3> QED  BY <2>3, <3>1
  <2>11. \/ InitLogger \/ WorkerPops \/ WorkerWrites \/ StopClosesFile \/ StopCloses \/ StopReturns
         \/ WorkerRefused \/ WorkerFlushes \/ UNCHANGED <<taken, main, worker>>
    BY <2>0 DEF Next, vars, Stopping, Caller, Worker, DateChanges, PushAccepted, PushRefused, WriteItself,
       Log, pool, Fifo!Put
  <2> QED  BY <2>2, <2>4, <2>5, <2>6, <2>7, <2>8, <2>9, <2>10, <2>11
<1> QED  BY <1>1, <1>2, TypeCorrect, WorkerIsUp, StartsFresh, PTL DEF Spec

(* Where the messages of the run are while stop() has not closed the file. *)
InTime ==
  failures = 0 /\ main \in {"init", "up", "joining"} =>
    logged \subseteq Filed \cup InHand \cup Queued \cup Called

(* While stop() has not closed the file, and files open, no message of the *)
(* run is lost: log() hands it to the queue, the worker takes it from      *)
(* there and writes it, or its thread writes it itself.                    *)
THEOREM NoneIsLostInTime == Spec => []InTime
<1>1. Init => InTime
  BY DEF Init, InTime
<1>2. TypeOK /\ WorkerRuns /\ WorkerRuns' /\ Fresh /\ InTime /\ [Next]_vars => InTime'
  <2> SUFFICES ASSUME TypeOK, WorkerRuns, WorkerRuns', Fresh, InTime, [Next]_vars,
                      failures' = 0, main' \in {"init", "up", "joining"}, NEW x \in logged'
               PROVE  x \in Filed' \cup InHand' \cup Queued' \cup Called'
    BY DEF InTime
  <2>1. ~Kill
    BY DEF Kill
  <2>2. failures = 0 /\ main \in {"init", "up", "joining"}
    <3>1. main \in {"init", "up", "joining"}
      BY <2>1 DEF Next, vars, Stopping, Caller, Worker, InitLogger, StopCloses, StopReturns,
         StopClosesFile, WorkerRefused, WorkerWrites, WorkerPops, WorkerFlushes, DateChanges,
         PushAccepted, PushRefused, WriteItself, Log
    <3> QED  BY <3>1, FailuresStay
  <2>3. x \in logged \/ \E p \in Thread, e \in BOOLEAN : Log(p, e) /\ x = thr'[p].msg
    BY <2>1 DEF Next, vars, Stopping, Caller, Worker, InitLogger, StopCloses, StopReturns,
       StopClosesFile, WorkerRefused, WorkerWrites, WorkerPops, WorkerFlushes, DateChanges,
       PushAccepted, PushRefused, WriteItself, Log
  <2>4. CASE x \in Filed
    BY <2>1, <2>4, FiledStays
  <2>5. CASE x \in InHand
    <3>1. worker = "writing" /\ x = taken[Len(taken)] /\ x \in Message
      BY <2>5 DEF InHand
    <3>2. CASE WorkerWrites
      <4>1. WriteMessage(x) /\ main' \in {"up", "joining"}
        BY <3>1, <3>2 DEF WorkerWrites, WorkerRuns
      <4>2. log'.open
        BY <4>1 DEF WorkerRuns
      <4> QED  BY <3>1, <4>1, <4>2, WriteFiles
    <3>3. CASE UNCHANGED <<worker, taken>>
      BY <3>1, <3>3 DEF InHand
    <3> QED
      BY <2>1, <3>1, <3>2, <3>3 DEF Next, vars, Stopping, Caller, Worker, InitLogger, StopCloses,
         StopReturns, StopClosesFile, WorkerRefused, WorkerPops, WorkerFlushes, DateChanges, PushAccepted,
         PushRefused, WriteItself, Log, pool, Fifo!Put, Fifo!Shut, WorkerRuns
  <2>6. CASE x \in Queued
    <3>1. x \in Message /\ Has(queue, x) /\ queue \in Seq(Message)
      BY <2>6 DEF Queued, TypeOK
    <3>2. CASE queue' = queue
      BY <3>1, <3>2 DEF Queued
    <3>3. ASSUME NEW p \in Thread, PushAccepted(p) PROVE x \in Queued'
      <4>1. thr[p].msg \in Message /\ queue' = Append(queue, thr[p].msg)
        BY <3>3, CallTyped DEF PushAccepted, Fifo!Put
      <4> QED  BY <3>1, <4>1, HasAppended DEF Queued
    <3>4. CASE WorkerPops
      <4>1. PICK i \in 1..Len(queue) : queue[i] = x
        BY <3>1 DEF Has
      <4>2. /\ Len(queue) \in Nat /\ Len(queue') = Len(queue) - 1 /\ Head(queue) = queue[1]
            /\ \A j \in 1..Len(queue') : queue'[j] = queue[j + 1]
        BY <3>4, PopShifts
      <4>3. CASE i = 1
        <5>1. /\ worker' = "writing" /\ taken' = Append(taken, x) /\ taken \in Seq(Message)
          BY <3>4, <4>1, <4>2, <4>3 DEF WorkerPops, Fifo!Take, TypeOK
        <5>2. taken'[Len(taken')] = x
          BY <3>1, <5>1, AppendProperties
        <5> QED  BY <3>1, <5>1, <5>2 DEF InHand
      <4>4. CASE i # 1
        <5>1. i - 1 \in 1..Len(queue') /\ i - 1 + 1 = i
          BY <4>1, <4>2, <4>4
        <5>2. queue'[i - 1] = x
          BY <4>1, <4>2, <5>1
        <5> QED  BY <3>1, <5>1, <5>2 DEF Queued, Has
      <4> QED  BY <4>3, <4>4
    <3> QED  BY <2>1, <3>2, <3>3, <3>4, QueueSteps
  <2>7. CASE x \in Called
    <3>1. PICK p \in Thread : thr[p].at # "idle" /\ thr[p].msg = x
      BY <2>7 DEF Called
    <3>2. x \in Message
      BY <2>7 DEF Called
    <3>3. CASE thr'[p] = thr[p] \/ (PushRefused(p) /\ thr'[p].msg = x)
      <4>1. thr'[p].at # "idle" /\ thr'[p].msg = x
        BY <3>1, <3>3 DEF PushRefused, TypeOK, Callers
      <4> QED  BY <3>2, <4>1 DEF Called
    <3>4. CASE PushAccepted(p)
      <4>1. queue' = Append(queue, x) /\ queue \in Seq(Message)
        BY <3>1, <3>4 DEF PushAccepted, Fifo!Put, TypeOK
      <4> QED  BY <3>2, <4>1, HasAppended DEF Queued
    <3>5. CASE WriteItself(p)
      <4>1. main' \in {"up", "joining"} /\ WriteMessage(x)
        BY <2>2, <3>1, <3>5 DEF WriteItself, Fresh
      <4>2. log'.open
        BY <4>1 DEF WorkerRuns
      <4> QED  BY <3>2, <4>1, <4>2, WriteFiles
    <3>6. \/ thr'[p] = thr[p] \/ (PushRefused(p) /\ thr'[p].msg = x)
          \/ PushAccepted(p) \/ WriteItself(p)
      <4>1. ASSUME NEW q \in Thread, q # p, PushAccepted(q) \/ WriteItself(q) \/ PushRefused(q)
            PROVE  thr'[p] = thr[p]
        <5>1. PushRefused(q) => thr'[p] = thr[p]
          BY <4>1 DEF PushRefused, TypeOK
        <5> QED  BY <4>1, <5>1, CallTyped DEF PushAccepted, WriteItself
      <4>2. ASSUME NEW q \in Thread, NEW e \in BOOLEAN, Log(q, e) PROVE thr'[p] = thr[p]
        BY <3>1, <4>2, LogTyped DEF Log
      <4>3. PushRefused(p) => thr'[p].msg = x
        BY <3>1 DEF PushRefused, TypeOK, Callers
      <4>4. \/ UNCHANGED thr
            \/ \E q \in Thread : PushAccepted(q) \/ WriteItself(q) \/ PushRefused(q)
                                 \/ \E e \in BOOLEAN : Log(q, e)
        BY <2>1 DEF Next, vars, Stopping, Caller, Worker, InitLogger, StopCloses, StopReturns,
           StopClosesFile, WorkerRefused, WorkerWrites, WorkerPops, WorkerFlushes, DateChanges
      <4> QED  BY <4>1, <4>2, <4>3, <4>4
    <3> QED  BY <3>3, <3>4, <3>5, <3>6
  <2>8. ASSUME NEW p \in Thread, NEW e \in BOOLEAN, Log(p, e), x = thr'[p].msg
        PROVE  x \in Called'
    BY <2>8, LogTyped DEF Called
  <2> QED  BY <2>2, <2>3, <2>4, <2>5, <2>6, <2>7, <2>8 DEF InTime
<1> QED  BY <1>1, <1>2, TypeCorrect, WorkerIsUp, StartsFresh, PTL DEF Spec

(* As long as every file can be opened, a message is lost only if the      *)
(* queue refused it and stop() had closed the file before its thread wrote *)
(* it.  None that the worker took is lost: the worker is joined before the *)
(* file is closed, and writes what it took though the queue is closed.     *)
THEOREM StopKeepsWhatWasTaken == Spec => []StopLosesOnlyTheLate
<1>1. TypeOK /\ Fresh /\ InTime /\ TakenIsKept => StopLosesOnlyTheLate
  <2> SUFFICES ASSUME TypeOK, Fresh, InTime, TakenIsKept, failures = 0
               PROVE  /\ Lost # {} => main \in {"closed", "stopped"}
                      /\ \A i \in 1..Len(taken) : taken[i] \notin Lost
                      /\ main \in {"closed", "stopped"} =>
                           \A i \in 1..Len(taken) : OnDisk(taken[i])
    BY DEF StopLosesOnlyTheLate
  <2>1. Lost # {} => main \in {"closed", "stopped"}
    BY DEF InTime, Lost, TypeOK
  <2>2. ASSUME NEW i \in 1..Len(taken)
        PROVE  /\ taken[i] \notin Lost
               /\ main \in {"closed", "stopped"} => OnDisk(taken[i])
    <3>1. taken[i] \in Message /\ main # "init"
      <4>1. taken \in Seq(Message) /\ taken # <<>>
        BY <2>2, EmptySeq DEF TypeOK
      <4> QED  BY <2>2, <4>1, ElementOfSeq DEF Fresh
    <3>2. taken[i] \in Filed \/ taken[i] \in InHand
      BY <3>1 DEF TakenIsKept, InHand
    <3> QED  BY <3>1, <3>2 DEF Lost, TakenIsKept, Stored
  <2> QED  BY <2>1, <2>2
<1> QED  BY <1>1, TypeCorrect, StartsFresh, NoneIsLostInTime, TakenStays, PTL
================================================================================
