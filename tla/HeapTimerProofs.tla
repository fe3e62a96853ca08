----------------------------- MODULE HeapTimerProofs -----------------------------
(***************************************************************************)
(* The heap of timers: it stays a heap, its map of places stays the        *)
(* inverse of the vector, epoll_wait never oversleeps, and the whole does  *)
(* what a set of deadlines would.                                          *)
(*                                                                         *)
(* sift_up mends a heap in which one node may be earlier than its parent   *)
(* (OrderedBut), sift_down one in which one node may be later than its     *)
(* children (OrderedDown).  After del and adjust the node put in a place   *)
(* may be either, so both are run there, and one of them does nothing.     *)
(***************************************************************************)
EXTENDS HeapTimer, DataLemmas

(* A timer that is well formed: ref_ names exactly the descriptors with a  *)
(* node, each at its place.                                                *)
RefMap == UNION {[D -> Nat] : D \in SUBSET Fd}
Timer == [heap : Seq(Node), ref : RefMap]

Formed(t) ==
  /\ t \in Timer
  /\ DOMAIN t.ref = {t.heap[i].fd : i \in Places(t)}
  /\ \A i \in Places(t) : t.ref[t.heap[i].fd] = i

(* The same said place by place and descriptor by descriptor.              *)
LEMMA FormedFacts ==
  ASSUME NEW t, Formed(t)
  PROVE  /\ Len(t.heap) \in Nat /\ Places(t) = 1..Len(t.heap) /\ t.heap \in Seq(Node)
         /\ \A i \in 1..Len(t.heap) :
              /\ t.heap[i] \in Node /\ t.heap[i].fd \in Fd /\ t.heap[i].expires \in 0..MaxNow
              /\ t.heap[i].fd \in DOMAIN t.ref /\ t.ref[t.heap[i].fd] = i
         /\ \A f \in DOMAIN t.ref :
              f \in Fd /\ t.ref[f] \in 1..Len(t.heap) /\ t.heap[t.ref[f]].fd = f
         /\ t.ref \in [DOMAIN t.ref -> Nat]
<1>1. t.heap \in Seq(Node) /\ t.ref \in RefMap
  BY DEF Formed, Timer
<1>2. Len(t.heap) \in Nat /\ Places(t) = 1..Len(t.heap)
  BY <1>1 DEF Places
<1>3. PICK D \in SUBSET Fd : t.ref \in [D -> Nat]
  BY <1>1 DEF RefMap
<1>4. \A i \in 1..Len(t.heap) : t.heap[i] \in Node
  BY <1>1
<1>5. \A i \in 1..Len(t.heap) :
              /\ t.heap[i] \in Node /\ t.heap[i].fd \in Fd /\ t.heap[i].expires \in 0..MaxNow
              /\ t.heap[i].fd \in DOMAIN t.ref /\ t.ref[t.heap[i].fd] = i
  BY <1>2, <1>4 DEF Formed, Node
<1>6. ASSUME NEW f \in DOMAIN t.ref
      PROVE  f \in Fd /\ t.ref[f] \in 1..Len(t.heap) /\ t.heap[t.ref[f]].fd = f
  <2>1. PICK i \in 1..Len(t.heap) : f = t.heap[i].fd
    BY <1>2 DEF Formed
  <2> QED  BY <1>5, <2>1
<1> QED  BY <1>1, <1>2, <1>3, <1>5, <1>6

(* What makes a timer well formed.                                         *)
LEMMA MakesFormed ==
  ASSUME NEW h \in Seq(Node), NEW D \in SUBSET Fd, NEW r \in [D -> Nat],
         \A i \in 1..Len(h) : h[i].fd \in D /\ r[h[i].fd] = i,
         \A f \in D : r[f] \in 1..Len(h) /\ h[r[f]].fd = f
  PROVE  Formed([heap |-> h, ref |-> r])
<1>1. PICK t : t = [heap |-> h, ref |-> r]
  OBVIOUS
<1>2. t.heap = h /\ t.ref = r /\ DOMAIN r = D /\ DOMAIN h = 1..Len(h) /\ Len(h) \in Nat
  BY <1>1
<1>3. r \in RefMap
  BY DEF RefMap
<1>4. t \in Timer
  BY <1>1, <1>3 DEF Timer
<1>5. DOMAIN t.ref = {t.heap[i].fd : i \in Places(t)}
  BY <1>2 DEF Places
<1>6. \A i \in Places(t) : t.ref[t.heap[i].fd] = i
  BY <1>2 DEF Places
<1>7. Formed(t)
  BY <1>4, <1>5, <1>6 DEF Formed
<1> QED  BY <1>1, <1>7
-----------------------------------------------------------------------------
(* The same nodes, in other places perhaps.                                *)
SameNodes(t, u) ==
  /\ Formed(u) /\ Len(u.heap) = Len(t.heap) /\ DOMAIN u.ref = DOMAIN t.ref
  /\ \A f \in DOMAIN t.ref : u.heap[u.ref[f]] = t.heap[t.ref[f]]

(* Nodes kept twice are kept.                                              *)
LEMMA SameNodesChain ==
  ASSUME NEW t, NEW u, NEW v, SameNodes(t, u), SameNodes(u, v)
  PROVE  SameNodes(t, v)
BY DEF SameNodes

(* swapNode: the two nodes have changed places, and ref_ knows.            *)
LEMMA SwapKeeps ==
  ASSUME NEW t, Formed(t), NEW i \in Places(t), NEW j \in Places(t), i # j
  PROVE  /\ SameNodes(t, SwapNode(t, i, j))
         /\ SwapNode(t, i, j).heap[i] = t.heap[j] /\ SwapNode(t, i, j).heap[j] = t.heap[i]
         /\ \A k \in Places(t) \ {i, j} : SwapNode(t, i, j).heap[k] = t.heap[k]
<1> DEFINE h == [t.heap EXCEPT ![i] = t.heap[j], ![j] = t.heap[i]]
           r == [t.ref EXCEPT ![t.heap[j].fd] = i, ![t.heap[i].fd] = j]
           D == DOMAIN t.ref
<1>1. /\ Places(t) = 1..Len(t.heap) /\ t.heap \in Seq(Node)
      /\ \A k \in 1..Len(t.heap) : t.heap[k] \in Node /\ t.heap[k].fd \in D /\ t.ref[t.heap[k].fd] = k
      /\ \A f \in D : f \in Fd /\ t.ref[f] \in 1..Len(t.heap) /\ t.heap[t.ref[f]].fd = f
      /\ t.ref \in [D -> Nat] /\ Len(t.heap) \in Nat
  BY FormedFacts
<1>2. /\ h \in Seq(Node) /\ Len(h) = Len(t.heap)
      /\ h[i] = t.heap[j] /\ h[j] = t.heap[i]
      /\ \A k \in 1..Len(t.heap) : k # i /\ k # j => h[k] = t.heap[k]
  <2>1. /\ i \in 1..Len(t.heap) /\ j \in 1..Len(t.heap) /\ t.heap[i] \in Node /\ t.heap[j] \in Node
        /\ t.heap \in Seq(Node)
    BY <1>1
  <2>2. PICK g : g = [t.heap EXCEPT ![i] = t.heap[j]]
    OBVIOUS
  <2>3. /\ g \in Seq(Node) /\ Len(g) = Len(t.heap)
        /\ \A k \in 1..Len(t.heap) : g[k] = IF k = i THEN t.heap[j] ELSE t.heap[k]
    BY <2>1, <2>2, ExceptSeq
  <2>4. PICK x \in Node : x = t.heap[i]
    BY <2>1
  <2>5. h = [g EXCEPT ![j] = x]
    BY <2>2, <2>4
  <2> HIDE DEF h
  <2>6. /\ h \in Seq(Node) /\ Len(h) = Len(t.heap)
        /\ \A k \in 1..Len(t.heap) : h[k] = IF k = j THEN x ELSE g[k]
    BY <2>1, <2>3, <2>5, ExceptSeq
  <2> QED  BY <2>1, <2>3, <2>4, <2>6
<1>3. /\ r \in [D -> Nat] /\ r[t.heap[j].fd] = i /\ r[t.heap[i].fd] = j
      /\ \A f \in D : f # t.heap[i].fd /\ f # t.heap[j].fd => r[f] = t.ref[f]
  <2>1. t.heap[i].fd # t.heap[j].fd
    BY <1>1
  <2> QED  BY <1>1, <2>1
<1> HIDE DEF h, r
<1>4. ASSUME NEW k \in 1..Len(h) PROVE h[k].fd \in D /\ r[h[k].fd] = k
  <2>1. CASE k = i
    BY <1>1, <1>2, <1>3, <2>1
  <2>2. CASE k = j
    BY <1>1, <1>2, <1>3, <2>2
  <2>3. CASE k # i /\ k # j
    <3>1. h[k] = t.heap[k] /\ t.heap[k].fd \in D /\ t.ref[t.heap[k].fd] = k
      BY <1>1, <1>2, <2>3
    <3>2. t.heap[k].fd # t.heap[i].fd /\ t.heap[k].fd # t.heap[j].fd
      BY <1>1, <2>3, <3>1
    <3> QED  BY <1>3, <3>1, <3>2
  <2> QED  BY <2>1, <2>2, <2>3
<1>5. ASSUME NEW f \in D PROVE r[f] \in 1..Len(h) /\ h[r[f]] = t.heap[t.ref[f]] /\ h[r[f]].fd = f
  <2>1. CASE f = t.heap[i].fd
    BY <1>1, <1>2, <1>3, <2>1
  <2>2. CASE f = t.heap[j].fd
    BY <1>1, <1>2, <1>3, <2>2
  <2>3. CASE f # t.heap[i].fd /\ f # t.heap[j].fd
    <3>1. r[f] = t.ref[f] /\ t.ref[f] \in 1..Len(t.heap) /\ t.heap[t.ref[f]].fd = f
      BY <1>1, <1>3, <2>3
    <3>2. t.ref[f] # i /\ t.ref[f] # j
      BY <2>3, <3>1
    <3> QED  BY <1>2, <3>1, <3>2
  <2> QED  BY <2>1, <2>2, <2>3
<1>6. Formed([heap |-> h, ref |-> r])
  <2>1. D \in SUBSET Fd /\ \A f \in D : r[f] \in 1..Len(h) /\ h[r[f]].fd = f
    BY <1>1, <1>5
  <2> HIDE DEF D
  <2> QED  BY <1>2, <1>3, <1>4, <2>1, MakesFormed
<1>7. PICK u : u = SwapNode(t, i, j)
  OBVIOUS
<1>8. u = [heap |-> h, ref |-> r] /\ u.heap = h /\ u.ref = r
  BY <1>7 DEF SwapNode, h, r
<1> QED  BY <1>1, <1>2, <1>3, <1>5, <1>6, <1>7, <1>8 DEF SameNodes
-----------------------------------------------------------------------------
(* A parent's place.                                                       *)
LEMMA ParentPlace ==
  ASSUME NEW k \in Nat
  PROVE  /\ k \div 2 \in Nat
         /\ k > 1 => k \div 2 >= 1 /\ k \div 2 < k
         /\ \A p \in Nat : k \div 2 = p <=> k = 2 * p \/ k = 2 * p + 1
OBVIOUS

(* The first n places are a heap, and what is wrong with them when the     *)
(* node at i may belong higher up.                                         *)
Ordered(t, n) == \A k \in 2..n : ~Earlier(t, k, k \div 2)

OrderedBut(t, i, n) ==
  /\ \A k \in 2..n : k # i => ~Earlier(t, k, k \div 2)
  /\ i > 1 => \A k \in 2..n : k \div 2 = i => ~Earlier(t, k, i \div 2)

(* Beyond place n nothing has moved.                                       *)
SameBeyond(t, u, n) == \A k \in Places(t) : k > n => u.heap[k] = t.heap[k]

(* No node is earlier than one before it in this order, nor twice removed. *)
LEMMA EarlierOrder ==
  ASSUME NEW t, Formed(t), NEW a \in Places(t), NEW b \in Places(t), NEW c \in Places(t)
  PROVE  /\ Earlier(t, a, b) => ~Earlier(t, b, a)
         /\ ~Earlier(t, a, b) /\ ~Earlier(t, b, c) => ~Earlier(t, a, c)
<1>1. t.heap[a].expires \in Nat /\ t.heap[b].expires \in Nat /\ t.heap[c].expires \in Nat
  BY FormedFacts, TimerAssumption
<1> QED  BY <1>1 DEF Earlier

(* A turn of sift_up.                                                      *)
LEMMA UpTurnKeeps ==
  ASSUME NEW t, Formed(t), NEW n \in 1..Len(t.heap), NEW i \in 1..n,
         i > 1, Earlier(t, i, i \div 2)
  PROVE  LET u == SwapNode(t, i \div 2, i)
         IN  /\ SameNodes(t, u) /\ SameBeyond(t, u, n)
             /\ i \div 2 \in 1..(i - 1)
             /\ OrderedBut(t, i, n) => OrderedBut(u, i \div 2, n)
<1> DEFINE p == i \div 2
<1>1. Places(t) = 1..Len(t.heap) /\ Len(t.heap) \in Nat /\ n \in Nat /\ i \in Nat
  BY FormedFacts
<1>2. p \in 1..(i - 1) /\ p \in Nat /\ p \in Places(t) /\ i \in Places(t) /\ p # i
  <2>1. p \in 1..(i - 1) /\ p \in Nat
    BY <1>1, ParentPlace
  <2> QED  BY <1>1, <2>1
<1>3. Earlier(t, i, p) /\ ~Earlier(t, p, i)
  BY <1>2, EarlierOrder
<1>4. OrderedBut(t, i, n) => \A k \in 2..n : k \div 2 = i => ~Earlier(t, k, p)
  BY DEF OrderedBut
<1> HIDE DEF p
<1>5. PICK u : u = SwapNode(t, p, i)
  OBVIOUS
<1>6. /\ SameNodes(t, u) /\ u.heap[p] = t.heap[i] /\ u.heap[i] = t.heap[p]
      /\ \A k \in Places(t) : k # p /\ k # i => u.heap[k] = t.heap[k]
  BY <1>2, <1>5, SwapKeeps
<1>7. SameBeyond(t, u, n)
  <2>1. p =< n /\ i =< n
    BY <1>1, <1>2
  <2>2. ASSUME NEW k \in Places(t), k > n PROVE u.heap[k] = t.heap[k]
    <3>1. k # p /\ k # i
      BY <1>1, <1>2, <2>1, <2>2
    <3> QED  BY <1>6, <3>1
  <2> QED  BY <2>2 DEF SameBeyond
<1>8. ASSUME OrderedBut(t, i, n) PROVE OrderedBut(u, p, n)
  <2>1. ASSUME NEW k \in 2..n, k # p PROVE ~Earlier(u, k, k \div 2)
    <3>1. PICK q \in Places(t) : q = k \div 2 /\ q # k /\ k \in Places(t)
      BY <1>1, ParentPlace
    <3>2. CASE k = i
      <4>1. q = p
        BY <3>1, <3>2 DEF p
      <4>2. u.heap[k] = t.heap[p] /\ u.heap[q] = t.heap[i]
        BY <1>6, <3>2, <4>1
      <4> QED  BY <1>3, <3>1, <4>2 DEF Earlier
    <3>3. CASE k # i /\ q = i
      <4>1. ~Earlier(t, k, p)
        BY <1>4, <1>8, <3>1, <3>3
      <4>2. u.heap[k] = t.heap[k] /\ u.heap[q] = t.heap[p]
        BY <1>6, <2>1, <3>1, <3>3
      <4> QED  BY <3>1, <4>1, <4>2 DEF Earlier
    <3>4. CASE k # i /\ q # i
      <4>1. ~Earlier(t, k, q) /\ u.heap[k] = t.heap[k]
        BY <1>6, <1>8, <2>1, <3>1, <3>4 DEF OrderedBut
      <4>2. CASE q = p
        <5>1. ~Earlier(t, k, i)
          BY <1>2, <1>3, <3>1, <4>1, <4>2, EarlierOrder
        <5>2. u.heap[q] = t.heap[i]
          BY <1>6, <4>2
        <5> QED  BY <3>1, <4>1, <5>1, <5>2 DEF Earlier
      <4>3. CASE q # p
        <5>1. u.heap[q] = t.heap[q]
          BY <1>6, <3>1, <3>4, <4>3
        <5> QED  BY <3>1, <4>1, <5>1 DEF Earlier
      <4> QED  BY <4>2, <4>3
    <3> QED  BY <3>2, <3>3, <3>4
  <2>2. ASSUME p > 1, NEW k \in 2..n, k \div 2 = p PROVE ~Earlier(u, k, p \div 2)
    <3>1. PICK g \in Places(t) : /\ g = p \div 2 /\ g # p /\ g # i /\ k \in Places(t) /\ k # p
                                 /\ p \in 2..n
      <4>1. p \div 2 < p /\ p \div 2 >= 1 /\ p \div 2 \in Nat /\ p < k
        BY <1>1, <1>2, <2>2, ParentPlace
      <4> QED  BY <1>1, <1>2, <4>1
    <3>2. ~Earlier(t, p, g)
      BY <1>2, <1>8, <3>1 DEF OrderedBut
    <3>3. u.heap[g] = t.heap[g]
      BY <1>6, <3>1
    <3>4. CASE k = i
      <4>1. u.heap[k] = t.heap[p]
        BY <1>6, <3>4
      <4> QED  BY <3>1, <3>2, <3>3, <4>1 DEF Earlier
    <3>5. CASE k # i
      <4>1. u.heap[k] = t.heap[k]
        BY <1>6, <3>1, <3>5
      <4>2. ~Earlier(t, k, p)
        BY <1>8, <2>2, <3>5 DEF OrderedBut
      <4>3. ~Earlier(t, k, g)
        BY <1>2, <3>1, <3>2, <4>2, EarlierOrder
      <4> QED  BY <3>1, <3>3, <4>1, <4>3 DEF Earlier
    <3> QED  BY <3>4, <3>5
  <2> QED  BY <2>1, <2>2 DEF OrderedBut
<1> QED  BY <1>2, <1>5, <1>6, <1>7, <1>8 DEF p
-----------------------------------------------------------------------------
(* The states of a loop: a timer and an index in it.                       *)
Turning == {s \in [t : Timer, i : Nat] : Formed(s.t) /\ s.i \in Places(s.t)}

(* sift_up's turns stay within the timer.                                  *)
LEMMA UpTurnTyped ==
  ASSUME NEW s \in Turning
  PROVE  UpTurn(s) \in Turning
<1>1. Formed(s.t) /\ s.i \in 1..Len(s.t.heap) /\ Len(s.t.heap) \in Nat
  BY FormedFacts DEF Turning
<1>2. CASE s.i > 1 /\ Earlier(s.t, s.i, s.i \div 2)
  <2>1. PICK u : u = SwapNode(s.t, s.i \div 2, s.i)
    OBVIOUS
  <2>2. Len(s.t.heap) \in 1..Len(s.t.heap) /\ s.i \in 1..Len(s.t.heap)
    BY <1>1
  <2>3. SameNodes(s.t, u) /\ s.i \div 2 \in 1..(s.i - 1)
    BY <1>1, <1>2, <2>1, <2>2, UpTurnKeeps
  <2>4. Formed(u) /\ u \in Timer /\ Len(u.heap) = Len(s.t.heap)
    BY <2>3 DEF SameNodes, Formed
  <2>5. s.i \div 2 \in Places(u) /\ s.i \div 2 \in Nat
    BY <1>1, <2>3, <2>4, FormedFacts
  <2>6. UpTurn(s) = [t |-> u, i |-> s.i \div 2]
    BY <1>2, <2>1 DEF UpTurn
  <2> QED  BY <2>4, <2>5, <2>6 DEF Turning
<1>3. CASE ~(s.i > 1 /\ Earlier(s.t, s.i, s.i \div 2))
  BY <1>3 DEF UpTurn
<1> QED  BY <1>2, <1>3

(* sift_up is what its turns make of the timer.                            *)
LEMMA SiftUpTurns ==
  ASSUME NEW t, Formed(t), NEW i \in Places(t)
  PROVE  \E f : /\ f[0] = [t |-> t, i |-> i]
                /\ \A k \in 1..(i \div 2) : f[k] = UpTurn(f[k - 1])
                /\ SiftUp(t, i) = f[i \div 2].t
<1> DEFINE h == i \div 2
           Loop1(f) == f = [k \in 0..h |-> IF k = 0 THEN [t |-> t, i |-> i] ELSE UpTurn(f[k - 1])]
           step == [n \in 1..h |-> [s \in Turning |-> UpTurn(s)]]
           base == [t |-> t, i |-> i]
<1>1. i \in Nat \ {0} /\ t \in Timer /\ h \in Nat
  <2>1. i \in Nat \ {0} /\ t \in Timer
    BY FormedFacts DEF Formed
  <2> QED  BY <2>1, ParentPlace
<1> HIDE DEF h
<1>2. base \in Turning
  BY <1>1 DEF Turning
<1>3. step \in [1..h -> [Turning -> Turning]]
  BY UpTurnTyped
<1>4. PICK g \in [0..h -> Turning] : g[0] = base /\ \A n \in 1..h : g[n] = step[n][g[n - 1]]
  <2> HIDE DEF step, base
  <2>1. \E g \in [0..h -> Turning] : Iterates(g, base, step, h)
    BY <1>1, <1>2, <1>3, RecursionExists
  <2> QED  BY <2>1 DEF Iterates
<1>5. \A n \in 1..h : g[n] = UpTurn(g[n - 1])
  <2> TAKE n \in 1..h
  <2>1. g[n - 1] \in Turning
    BY <1>1
  <2> QED  BY <1>4, <2>1
<1>6. Loop1(g)
  <2>1. g = [k \in 0..h |-> g[k]]
    OBVIOUS
  <2>2. \A k \in 0..h : g[k] = IF k = 0 THEN [t |-> t, i |-> i] ELSE UpTurn(g[k - 1])
    BY <1>1, <1>4, <1>5
  <2> QED  BY <2>1, <2>2
<1>7. PICK f : f = CHOOSE x : Loop1(x)
  OBVIOUS
<1>8. Loop1(f)
  <2> HIDE DEF Loop1
  <2> QED  BY <1>6, <1>7
<1>9. f[0] = [t |-> t, i |-> i] /\ \A k \in 1..h : f[k] = UpTurn(f[k - 1])
  <2>1. f = [k \in 0..h |-> IF k = 0 THEN [t |-> t, i |-> i] ELSE UpTurn(f[k - 1])]
    BY <1>8
  <2> HIDE DEF Loop1
  <2> DEFINE e(k) == IF k = 0 THEN [t |-> t, i |-> i] ELSE UpTurn(f[k - 1])
  <2>2. \A k \in 0..h : f[k] = e(k)
    <3>1. f = [k \in 0..h |-> e(k)]
      BY <2>1
    <3> HIDE DEF e
    <3> QED  BY <3>1
  <2> QED  BY <1>1, <2>2
<1>10. SiftUp(t, i) = f[h].t
  BY <1>7 DEF SiftUp, h
<1> QED  BY <1>9, <1>10 DEF h

(* sift_up moves nodes among the first n places only, and brings the node  *)
(* at i to where it belongs.                                               *)
LEMMA SiftUpKeeps ==
  ASSUME NEW t, Formed(t), NEW n \in 1..Len(t.heap), NEW i \in 1..n
  PROVE  /\ SameNodes(t, SiftUp(t, i)) /\ SameBeyond(t, SiftUp(t, i), n)
         /\ OrderedBut(t, i, n) => Ordered(SiftUp(t, i), n)
<1>1. Places(t) = 1..Len(t.heap) /\ Len(t.heap) \in Nat /\ n \in Nat /\ i \in Nat
  BY FormedFacts
<1> DEFINE h == i \div 2
<1>0. h \in Nat
  BY <1>1, ParentPlace
<1>2. PICK f : /\ f[0] = [t |-> t, i |-> i]
               /\ \A k \in 1..h : f[k] = UpTurn(f[k - 1])
               /\ SiftUp(t, i) = f[h].t
  BY <1>1, SiftUpTurns DEF h
<1> DEFINE Ended(s) == ~(s.i > 1 /\ Earlier(s.t, s.i, s.i \div 2))
           Kept(s) == /\ SameNodes(t, s.t) /\ SameBeyond(t, s.t, n) /\ s.i \in 1..n
                      /\ OrderedBut(t, i, n) => OrderedBut(s.t, s.i, n)
           S == {k \in 0..h : Kept(f[k]) /\ (Ended(f[k]) \/ f[k].i \div 2 =< h - k)}
<1>3. 0 \in S
  <2>1. f[0].t = t /\ f[0].i = i
    BY <1>2
  <2>2. SameNodes(t, t) /\ SameBeyond(t, t, n)
    BY DEF SameNodes, SameBeyond
  <2>3. f[0].i \div 2 =< h - 0
    BY <1>0, <2>1 DEF h
  <2> QED  BY <1>0, <1>1, <2>1, <2>2, <2>3
<1> HIDE DEF h
<1>4. ASSUME NEW k \in 0..(h - 1), k \in S PROVE k + 1 \in S
  <2>1. PICK s : s = f[k]
    OBVIOUS
  <2>2. Kept(s) /\ (Ended(s) \/ s.i \div 2 =< h - k) /\ k + 1 \in 0..h /\ f[k + 1] = UpTurn(s)
    <3>1. k + 1 \in 1..h /\ k + 1 \in 0..h /\ (k + 1) - 1 = k
      BY <1>0
    <3> QED  BY <1>2, <1>4, <2>1, <3>1
  <2>3. CASE Ended(s)
    <3>1. f[k + 1] = s
      BY <2>2, <2>3 DEF UpTurn
    <3> HIDE DEF Ended, Kept
    <3> QED  BY <2>2, <2>3, <3>1
  <2>4. CASE ~Ended(s)
    <3>1. PICK u : u = SwapNode(s.t, s.i \div 2, s.i)
      OBVIOUS
    <3>2. Formed(s.t) /\ Len(s.t.heap) = Len(t.heap) /\ s.i \in 1..n
      BY <2>2 DEF SameNodes
    <3>3. /\ SameNodes(s.t, u) /\ SameBeyond(s.t, u, n) /\ s.i \div 2 \in 1..(s.i - 1)
          /\ OrderedBut(s.t, s.i, n) => OrderedBut(u, s.i \div 2, n)
      BY <2>4, <3>1, <3>2, UpTurnKeeps
    <3>4. PICK v : v = f[k + 1]
      OBVIOUS
    <3>5. v.t = u /\ v.i = s.i \div 2
      BY <2>2, <2>4, <3>1, <3>4 DEF UpTurn
    <3>6. SameNodes(t, v.t) /\ SameBeyond(t, v.t, n)
      <4>1. Places(s.t) = Places(t)
        BY <3>2, FormedFacts
      <4> QED  BY <2>2, <3>3, <3>5, <4>1, SameNodesChain DEF SameBeyond
    <3>7. v.i \in 1..n /\ v.i \div 2 =< h - (k + 1)
      <4>1. v.i \in 1..n /\ v.i =< h - k /\ v.i >= 1
        BY <1>1, <2>2, <2>4, <3>2, <3>3, <3>5
      <4>2. PICK x \in Nat : x = v.i
        BY <1>1, <4>1
      <4>3. x \div 2 \in Nat /\ x \div 2 =< x - 1
        BY <4>1, <4>2, ParentPlace
      <4> QED  BY <1>0, <4>1, <4>2, <4>3
    <3>8. OrderedBut(t, i, n) => OrderedBut(v.t, v.i, n)
      BY <2>2, <3>3, <3>5
    <3>9. Kept(v)
      BY <3>6, <3>7, <3>8
    <3> HIDE DEF Kept, Ended
    <3> QED  BY <2>2, <3>4, <3>7, <3>9
  <2> HIDE DEF S
  <2> QED  BY <2>3, <2>4
<1>5. h \in S
  <2> HIDE DEF S
  <2>1. h \in 0..h
    BY <1>0
  <2>2. \A k \in 0..h : k \in S
    BY <1>0, <1>3, <1>4, BoundedInduction
  <2> QED  BY <2>1, <2>2
<1>6. PICK s : s = f[h]
  OBVIOUS
<1>7. Kept(s) /\ Ended(s)
  <2>1. Kept(s) /\ (Ended(s) \/ s.i \div 2 =< h - h) /\ s.i \in 1..n
    BY <1>5, <1>6
  <2>2. ASSUME s.i \div 2 =< h - h PROVE Ended(s)
    <3>1. PICK j \in Nat : j = s.i
      BY <1>1, <2>1
    <3>2. j \div 2 \in Nat /\ j \div 2 =< 0
      BY <1>0, <2>2, <3>1, ParentPlace
    <3>3. ~(j > 1)
      BY <3>2, ParentPlace
    <3> QED  BY <3>1, <3>3
  <2> HIDE DEF Kept, Ended
  <2> QED  BY <2>1, <2>2
<1>8. OrderedBut(s.t, s.i, n) => Ordered(s.t, n)
  BY <1>1, <1>7 DEF OrderedBut, Ordered
<1> QED  BY <1>2, <1>6, <1>7, <1>8
-----------------------------------------------------------------------------
(* The least of a place and its children within the first n.               *)
LEMMA LeastFacts ==
  ASSUME NEW t, Formed(t), NEW n \in 1..Len(t.heap), NEW j \in Places(t)
  PROVE  /\ Least(t, j, n) \in Places(t)
         /\ Least(t, j, n) # j =>
              /\ Least(t, j, n) \in (j + 1)..n /\ Least(t, j, n) \div 2 = j
              /\ Earlier(t, Least(t, j, n), j)
         /\ \A k \in 2..n : k \div 2 = j => ~Earlier(t, k, Least(t, j, n))
<1>1. /\ Places(t) = 1..Len(t.heap) /\ Len(t.heap) \in Nat /\ n \in Nat /\ j \in Nat \ {0}
      /\ \A k \in 1..Len(t.heap) : t.heap[k].expires \in Nat
  BY FormedFacts, TimerAssumption
<1> DEFINE m1 == IF 2 * j =< n /\ Earlier(t, 2 * j, j) THEN 2 * j ELSE j
           m == IF 2 * j + 1 =< n /\ Earlier(t, 2 * j + 1, m1) THEN 2 * j + 1 ELSE m1
<1>2. Least(t, j, n) = m
  BY DEF Least
<1>3. /\ m1 \in Places(t) /\ m1 \in {j, 2 * j} /\ (m1 # j => 2 * j =< n /\ Earlier(t, 2 * j, j))
      /\ 2 * j =< n => ~Earlier(t, 2 * j, m1)
      /\ ~Earlier(t, j, m1)
  <2>1. CASE 2 * j =< n /\ Earlier(t, 2 * j, j)
    <3>1. m1 = 2 * j /\ 2 * j \in Places(t) /\ t.heap[2 * j].expires \in Nat /\ t.heap[j].expires \in Nat
      BY <1>1, <2>1
    <3> QED  BY <2>1, <3>1 DEF Earlier
  <2>2. CASE ~(2 * j =< n /\ Earlier(t, 2 * j, j))
    <3>1. m1 = j /\ t.heap[j].expires \in Nat
      BY <1>1, <2>2
    <3> QED  BY <2>2, <3>1 DEF Earlier
  <2> QED  BY <2>1, <2>2
<1> HIDE DEF m1
<1>4. /\ m \in Places(t) /\ m \in {j, 2 * j, 2 * j + 1}
      /\ m # j => m =< n /\ Earlier(t, m, j)
      /\ 2 * j =< n => ~Earlier(t, 2 * j, m)
      /\ 2 * j + 1 =< n => ~Earlier(t, 2 * j + 1, m)
  <2>1. CASE 2 * j + 1 =< n /\ Earlier(t, 2 * j + 1, m1)
    <3>1. m = 2 * j + 1
      BY <2>1
    <3>2. /\ 2 * j + 1 \in Places(t) /\ 2 * j \in Places(t)
          /\ t.heap[2 * j + 1].expires \in Nat /\ t.heap[2 * j].expires \in Nat
          /\ t.heap[m1].expires \in Nat /\ t.heap[j].expires \in Nat
      BY <1>1, <1>3, <2>1
    <3>3. Earlier(t, 2 * j + 1, j) /\ ~Earlier(t, 2 * j, 2 * j + 1) /\ ~Earlier(t, 2 * j + 1, 2 * j + 1)
      <4>1. t.heap[2 * j + 1].expires < t.heap[m1].expires
        BY <2>1 DEF Earlier
      <4>2. ~(t.heap[2 * j].expires < t.heap[m1].expires) /\ ~(t.heap[j].expires < t.heap[m1].expires)
        BY <1>1, <1>3, <2>1 DEF Earlier
      <4> DEFINE x == t.heap[2 * j + 1].expires
                 y == t.heap[2 * j].expires
                 z == t.heap[j].expires
                 e == t.heap[m1].expires
      <4>3. x \in Nat /\ y \in Nat /\ z \in Nat /\ e \in Nat /\ x < e /\ ~(y < e) /\ ~(z < e)
        BY <3>2, <4>1, <4>2
      <4>4. x < z /\ ~(y < x) /\ ~(x < x)
        <5> HIDE DEF x, y, z, e
        <5> QED  BY <4>3
      <4> QED  BY <4>4 DEF Earlier
    <3> HIDE DEF m
    <3> QED  BY <2>1, <3>1, <3>2, <3>3
  <2>2. CASE ~(2 * j + 1 =< n /\ Earlier(t, 2 * j + 1, m1))
    <3>1. m = m1
      BY <2>2
    <3> HIDE DEF m
    <3> QED  BY <1>1, <1>3, <2>2, <3>1
  <2> QED  BY <2>1, <2>2
<1> HIDE DEF m
<1>5. ASSUME m # j PROVE m \in (j + 1)..n /\ m \div 2 = j
  BY <1>1, <1>4, <1>5, ParentPlace
<1>6. ASSUME NEW k \in 2..n, k \div 2 = j PROVE ~Earlier(t, k, m)
  <2>1. k = 2 * j \/ k = 2 * j + 1
    BY <1>1, <1>6, ParentPlace
  <2> QED  BY <1>4, <2>1
<1> QED  BY <1>2, <1>4, <1>5, <1>6

(* What is wrong with the first n places while sift_down, which began at   *)
(* i, has its node at j.                                                   *)
OrderedDown(t, i, j, n) ==
  /\ \A k \in 2..n : k \div 2 # j /\ (j = i => k # i) => ~Earlier(t, k, k \div 2)
  /\ j > 1 => \A k \in 2..n : k \div 2 = j => ~Earlier(t, k, j \div 2)

(* A turn of sift_down.                                                    *)
LEMMA DownTurnKeeps ==
  ASSUME NEW t, Formed(t), NEW n \in 1..Len(t.heap), NEW i \in 1..n, NEW j \in i..n,
         Least(t, j, n) # j
  PROVE  LET m == Least(t, j, n)
             u == SwapNode(t, m, j)
         IN  /\ SameNodes(t, u) /\ SameBeyond(t, u, n) /\ m \in (j + 1)..n
             /\ OrderedDown(t, i, j, n) => OrderedDown(u, i, m, n)
<1>1. /\ Places(t) = 1..Len(t.heap) /\ Len(t.heap) \in Nat /\ n \in Nat /\ i \in Nat /\ j \in Nat
      /\ \A k \in 1..Len(t.heap) : t.heap[k].expires \in Nat
  BY FormedFacts, TimerAssumption
<1>2. PICK m : m = Least(t, j, n)
  OBVIOUS
<1>3. /\ m \in (j + 1)..n /\ m \div 2 = j /\ Earlier(t, m, j)
      /\ \A k \in 2..n : k \div 2 = j => ~Earlier(t, k, m)
  <2>1. j \in Places(t)
    BY <1>1
  <2> QED  BY <1>2, <2>1, LeastFacts
<1>4. /\ m \in Nat /\ m \in Places(t) /\ j \in Places(t) /\ m # j /\ m # i
      /\ t.heap[m].expires \in Nat /\ t.heap[j].expires \in Nat
      /\ t.heap[m].expires < t.heap[j].expires
  <2>1. m \in Nat /\ m \in 1..Len(t.heap) /\ j \in 1..Len(t.heap) /\ m # j /\ m # i
    BY <1>1, <1>3
  <2>2. t.heap[m].expires < t.heap[j].expires
    BY <1>3 DEF Earlier
  <2> QED  BY <1>1, <2>1, <2>2
<1>5. PICK u : u = SwapNode(t, m, j)
  OBVIOUS
<1>6. /\ SameNodes(t, u) /\ u.heap[m] = t.heap[j] /\ u.heap[j] = t.heap[m]
      /\ \A k \in 1..Len(t.heap) : k # m /\ k # j => u.heap[k] = t.heap[k]
  <2>1. /\ SameNodes(t, u) /\ u.heap[m] = t.heap[j] /\ u.heap[j] = t.heap[m]
        /\ \A k \in Places(t) \ {m, j} : u.heap[k] = t.heap[k]
    BY <1>4, <1>5, SwapKeeps
  <2> QED  BY <1>1, <2>1
<1>7. SameBeyond(t, u, n)
  BY <1>1, <1>3, <1>6 DEF SameBeyond
<1>8. ASSUME OrderedDown(t, i, j, n) PROVE OrderedDown(u, i, m, n)
  <2>1. ASSUME NEW k \in 2..n, k \div 2 # m PROVE ~Earlier(u, k, k \div 2)
    <3>1. PICK q \in Nat : q = k \div 2 /\ q < k /\ q >= 1 /\ k \in 1..Len(t.heap) /\ q \in 1..Len(t.heap)
      <4>1. k \in Nat /\ k > 1 /\ k =< n /\ n =< Len(t.heap)
        BY <1>1
      <4>2. PICK q \in Nat : q = k \div 2 /\ q < k /\ q >= 1
        BY <4>1, ParentPlace
      <4> QED  BY <1>1, <4>1, <4>2
    <3>2. t.heap[k].expires \in Nat /\ t.heap[q].expires \in Nat
      BY <1>1, <3>1
    <3>3. q # m
      BY <2>1, <3>1
    <3>4. CASE k = m
      <4>1. q = j
        BY <1>3, <3>1, <3>4
      <4>2. u.heap[k] = t.heap[j] /\ u.heap[q] = t.heap[m]
        BY <1>6, <3>4, <4>1
      <4> QED  BY <1>4, <3>1, <4>2 DEF Earlier
    <3>5. CASE k # m /\ q = j
      <4>1. u.heap[k] = t.heap[k] /\ u.heap[q] = t.heap[m]
        BY <1>6, <3>1, <3>5
      <4>2. ~Earlier(t, k, m)
        BY <1>3, <3>1, <3>5
      <4> QED  BY <3>1, <4>1, <4>2 DEF Earlier
    <3>6. CASE k = j
      <4>1. u.heap[k] = t.heap[m] /\ u.heap[q] = t.heap[q]
        BY <1>6, <3>1, <3>3, <3>6
      <4>2. ~Earlier(t, m, q)
        <5>1. m \in 2..n /\ j > 1 /\ q = j \div 2
          BY <1>1, <1>3, <3>1, <3>6
        <5> QED  BY <1>3, <1>8, <5>1 DEF OrderedDown
      <4> QED  BY <3>1, <4>1, <4>2 DEF Earlier
    <3>7. CASE k # m /\ k # j /\ q # j
      <4>1. u.heap[k] = t.heap[k] /\ u.heap[q] = t.heap[q]
        BY <1>6, <3>1, <3>3, <3>7
      <4>2. ~Earlier(t, k, q)
        BY <1>8, <3>1, <3>7 DEF OrderedDown
      <4> QED  BY <3>1, <4>1, <4>2 DEF Earlier
    <3> QED  BY <3>4, <3>5, <3>6, <3>7
  <2>2. ASSUME NEW k \in 2..n, k \div 2 = m PROVE ~Earlier(u, k, m \div 2)
    <3>1. m < k /\ k \in 1..Len(t.heap)
      BY <1>1, <2>2, ParentPlace
    <3>2. ~Earlier(t, k, m)
      <4>1. k # i /\ m # j
        BY <1>1, <1>3, <3>1
      <4> QED  BY <1>8, <2>2, <4>1 DEF OrderedDown
    <3>3. u.heap[k] = t.heap[k] /\ u.heap[j] = t.heap[m]
      <4>1. k # m /\ k # j
        BY <1>1, <1>3, <1>4, <3>1
      <4> QED  BY <1>6, <3>1, <4>1
    <3> QED  BY <1>3, <3>2, <3>3 DEF Earlier
  <2> QED  BY <1>4, <2>1, <2>2 DEF OrderedDown
<1> QED  BY <1>2, <1>3, <1>5, <1>6, <1>7, <1>8

(* Where sift_down ends, only the node at i may be out of order, and only  *)
(* towards the top.                                                        *)
LEMMA DownEnd ==
  ASSUME NEW t, Formed(t), NEW n \in 1..Len(t.heap), NEW i \in 1..n, NEW j \in i..n,
         Least(t, j, n) = j, OrderedDown(t, i, j, n)
  PROVE  OrderedBut(t, i, n)
<1>1. /\ Places(t) = 1..Len(t.heap) /\ Len(t.heap) \in Nat /\ n \in Nat /\ i \in Nat /\ j \in Nat
      /\ \A k \in 1..Len(t.heap) : t.heap[k].expires \in Nat
  BY FormedFacts, TimerAssumption
<1>2. \A k \in 2..n : k \div 2 = j => ~Earlier(t, k, j)
  <2>1. j \in Places(t)
    BY <1>1
  <2> QED  BY <2>1, LeastFacts
<1>3. \A k \in 2..n : (j = i => k # i) => ~Earlier(t, k, k \div 2)
  BY <1>2 DEF OrderedDown
<1>4. CASE j = i
  BY <1>3, <1>4 DEF OrderedBut, OrderedDown
<1>5. CASE j # i
  <2>1. ASSUME i > 1, NEW k \in 2..n, k \div 2 = i PROVE ~Earlier(t, k, i \div 2)
    <3>1. ~Earlier(t, k, i) /\ ~Earlier(t, i, i \div 2)
      <4>1. i \in 2..n
        BY <1>1, <2>1
      <4> QED  BY <1>3, <1>5, <2>1, <4>1
    <3>2. i \div 2 \in 1..Len(t.heap) /\ k \in 1..Len(t.heap) /\ i \in 1..Len(t.heap)
      BY <1>1, <2>1, ParentPlace
    <3>3. i \in Places(t) /\ k \in Places(t) /\ i \div 2 \in Places(t)
      BY <1>1, <3>2
    <3> QED  BY <3>1, <3>3, EarlierOrder
  <2> QED  BY <1>3, <1>5, <2>1 DEF OrderedBut
<1> QED  BY <1>4, <1>5
-----------------------------------------------------------------------------
(* The timers in which n places can be put in order.                       *)
Roomy(n) == {s \in Turning : n =< Len(s.t.heap)}

(* sift_down's turns stay within the timer.                                *)
LEMMA DownTurnTyped ==
  ASSUME NEW n \in Nat \ {0}, NEW s \in Roomy(n)
  PROVE  DownTurn(s, n) \in Roomy(n)
<1>1. /\ Formed(s.t) /\ s.i \in Places(s.t) /\ Places(s.t) = 1..Len(s.t.heap)
      /\ n \in 1..Len(s.t.heap) /\ Len(s.t.heap) \in Nat
  BY FormedFacts DEF Turning, Roomy
<1>2. CASE Least(s.t, s.i, n) # s.i
  <2>1. PICK m : m = Least(s.t, s.i, n)
    OBVIOUS
  <2>2. PICK u : u = SwapNode(s.t, m, s.i)
    OBVIOUS
  <2>3. m \in Places(s.t) /\ m # s.i
    BY <1>1, <1>2, <2>1, LeastFacts
  <2>4. SameNodes(s.t, u)
    BY <1>1, <2>2, <2>3, SwapKeeps
  <2>5. Formed(u) /\ u \in Timer /\ Len(u.heap) = Len(s.t.heap)
    BY <2>4 DEF SameNodes, Formed
  <2>6. m \in Places(u) /\ m \in Nat
    BY <1>1, <2>3, <2>5, FormedFacts
  <2>7. DownTurn(s, n) = [t |-> u, i |-> m]
    BY <1>2, <2>1, <2>2 DEF DownTurn
  <2> QED  BY <1>1, <2>5, <2>6, <2>7 DEF Turning, Roomy
<1>3. CASE Least(s.t, s.i, n) = s.i
  BY <1>3 DEF DownTurn
<1> QED  BY <1>2, <1>3

(* sift_down is what its turns make of the timer.                          *)
LEMMA SiftDownTurns ==
  ASSUME NEW t, Formed(t), NEW n \in 1..Len(t.heap), NEW i \in Places(t)
  PROVE  \E f : /\ f[0] = [t |-> t, i |-> i]
                /\ \A k \in 1..(n \div 2) : f[k] = DownTurn(f[k - 1], n)
                /\ SiftDown(t, i, n) = f[n \div 2].t
<1> DEFINE h == n \div 2
           Loop1(f) == f = [k \in 0..h |-> IF k = 0 THEN [t |-> t, i |-> i] ELSE DownTurn(f[k - 1], n)]
           step == [m \in 1..h |-> [s \in Roomy(n) |-> DownTurn(s, n)]]
           base == [t |-> t, i |-> i]
<1>1. /\ i \in Nat \ {0} /\ t \in Timer /\ n \in Nat \ {0} /\ n =< Len(t.heap)
      /\ h \in Nat
  <2>1. i \in Nat \ {0} /\ t \in Timer /\ n \in Nat \ {0} /\ n =< Len(t.heap)
    BY FormedFacts DEF Formed
  <2> QED  BY <2>1, ParentPlace
<1> HIDE DEF h
<1>2. base \in Roomy(n)
  BY <1>1 DEF Turning, Roomy
<1>3. step \in [1..h -> [Roomy(n) -> Roomy(n)]]
  BY <1>1, DownTurnTyped
<1>4. PICK g \in [0..h -> Roomy(n)] : g[0] = base /\ \A m \in 1..h : g[m] = step[m][g[m - 1]]
  <2> DEFINE R == Roomy(n)
  <2> HIDE DEF step, base, R
  <2>1. \E g \in [0..h -> R] : Iterates(g, base, step, h)
    BY <1>1, <1>2, <1>3, RecursionExists DEF R
  <2> QED  BY <2>1 DEF Iterates, R
<1>5. \A m \in 1..h : g[m] = DownTurn(g[m - 1], n)
  <2> TAKE m \in 1..h
  <2>1. g[m - 1] \in Roomy(n)
    BY <1>1
  <2> QED  BY <1>4, <2>1
<1>6. Loop1(g)
  <2>1. g = [k \in 0..h |-> g[k]]
    OBVIOUS
  <2>2. \A k \in 0..h : g[k] = IF k = 0 THEN [t |-> t, i |-> i] ELSE DownTurn(g[k - 1], n)
    BY <1>1, <1>4, <1>5
  <2> QED  BY <2>1, <2>2
<1>7. PICK f : f = CHOOSE x : Loop1(x)
  OBVIOUS
<1>8. Loop1(f)
  <2> HIDE DEF Loop1
  <2> QED  BY <1>6, <1>7
<1>9. f[0] = [t |-> t, i |-> i] /\ \A k \in 1..h : f[k] = DownTurn(f[k - 1], n)
  <2>1. f = [k \in 0..h |-> IF k = 0 THEN [t |-> t, i |-> i] ELSE DownTurn(f[k - 1], n)]
    BY <1>8
  <2> HIDE DEF Loop1
  <2> DEFINE e(k) == IF k = 0 THEN [t |-> t, i |-> i] ELSE DownTurn(f[k - 1], n)
  <2>2. \A k \in 0..h : f[k] = e(k)
    <3>1. f = [k \in 0..h |-> e(k)]
      BY <2>1
    <3> HIDE DEF e
    <3> QED  BY <3>1
  <2> QED  BY <1>1, <2>2
<1>10. SiftDown(t, i, n) = f[h].t
  BY <1>7 DEF SiftDown, h
<1> QED  BY <1>9, <1>10 DEF h

(* sift_down moves nodes among the first n places only, and leaves at most *)
(* the node at i out of order.                                             *)
LEMMA SiftDownKeeps ==
  ASSUME NEW t, Formed(t), NEW n \in 1..Len(t.heap), NEW i \in 1..n
  PROVE  /\ SameNodes(t, SiftDown(t, i, n)) /\ SameBeyond(t, SiftDown(t, i, n), n)
         /\ OrderedDown(t, i, i, n) => OrderedBut(SiftDown(t, i, n), i, n)
<1>1. Places(t) = 1..Len(t.heap) /\ Len(t.heap) \in Nat /\ n \in Nat /\ i \in Nat
  BY FormedFacts
<1> DEFINE h == n \div 2
<1>0. h \in Nat /\ n =< 2 * h + 1
  BY <1>1, ParentPlace
<1>2. PICK f : /\ f[0] = [t |-> t, i |-> i]
               /\ \A k \in 1..h : f[k] = DownTurn(f[k - 1], n)
               /\ SiftDown(t, i, n) = f[h].t
  <2>1. i \in Places(t)
    BY <1>1
  <2>2. PICK d : d = SiftDown(t, i, n)
    OBVIOUS
  <2>3. \E f : /\ f[0] = [t |-> t, i |-> i]
               /\ \A k \in 1..(n \div 2) : f[k] = DownTurn(f[k - 1], n)
               /\ d = f[n \div 2].t
    BY <2>1, <2>2, SiftDownTurns
  <2> QED  BY <2>2, <2>3
<1> HIDE DEF h
<1> DEFINE Ended(s) == Least(s.t, s.i, n) = s.i
           Kept(s) == /\ SameNodes(t, s.t) /\ SameBeyond(t, s.t, n) /\ s.i \in i..n
                      /\ OrderedDown(t, i, i, n) => OrderedDown(s.t, i, s.i, n)
           S == {k \in 0..h : Kept(f[k]) /\ (Ended(f[k]) \/ f[k].i >= i + k)}
<1>3. 0 \in S
  <2>1. f[0].t = t /\ f[0].i = i
    BY <1>2
  <2>2. SameNodes(t, t) /\ SameBeyond(t, t, n)
    BY DEF SameNodes, SameBeyond
  <2> QED  BY <1>0, <1>1, <2>1, <2>2
<1>4. ASSUME NEW k \in 0..(h - 1), k \in S PROVE k + 1 \in S
  <2>1. PICK s : s = f[k]
    OBVIOUS
  <2>2. Kept(s) /\ (Ended(s) \/ s.i >= i + k) /\ k + 1 \in 0..h /\ f[k + 1] = DownTurn(s, n)
    <3>1. k + 1 \in 1..h /\ k + 1 \in 0..h /\ (k + 1) - 1 = k
      BY <1>0
    <3> QED  BY <1>2, <1>4, <2>1, <3>1
  <2>3. CASE Ended(s)
    <3>1. f[k + 1] = s
      BY <2>2, <2>3 DEF DownTurn
    <3> HIDE DEF Ended, Kept
    <3> QED  BY <2>2, <2>3, <3>1
  <2>4. CASE ~Ended(s)
    <3>1. PICK m : m = Least(s.t, s.i, n)
      OBVIOUS
    <3>2. PICK u : u = SwapNode(s.t, m, s.i)
      OBVIOUS
    <3>3. Formed(s.t) /\ Len(s.t.heap) = Len(t.heap) /\ s.i \in i..n /\ n \in 1..Len(s.t.heap)
      BY <2>2 DEF SameNodes
    <3>4. /\ SameNodes(s.t, u) /\ SameBeyond(s.t, u, n) /\ m \in (s.i + 1)..n
          /\ OrderedDown(s.t, i, s.i, n) => OrderedDown(u, i, m, n)
      BY <2>4, <3>1, <3>2, <3>3, DownTurnKeeps
    <3>5. PICK v : v = f[k + 1]
      OBVIOUS
    <3>6. v.t = u /\ v.i = m
      BY <2>2, <2>4, <3>1, <3>2, <3>5 DEF DownTurn
    <3>7. SameNodes(t, v.t) /\ SameBeyond(t, v.t, n)
      <4>1. Places(s.t) = Places(t)
        BY <3>3, FormedFacts
      <4> QED  BY <2>2, <3>4, <3>6, <4>1, SameNodesChain DEF SameBeyond
    <3>8. v.i \in i..n /\ v.i >= i + (k + 1)
      BY <1>0, <1>1, <2>2, <2>4, <3>3, <3>4, <3>6
    <3>9. OrderedDown(t, i, i, n) => OrderedDown(v.t, i, v.i, n)
      BY <2>2, <3>4, <3>6
    <3>10. Kept(v)
      BY <3>7, <3>8, <3>9
    <3> HIDE DEF Kept, Ended
    <3> QED  BY <2>2, <3>5, <3>8, <3>10
  <2> HIDE DEF S
  <2> QED  BY <2>3, <2>4
<1>5. h \in S
  <2> HIDE DEF S
  <2>1. h \in 0..h
    BY <1>0
  <2>2. \A k \in 0..h : k \in S
    BY <1>0, <1>3, <1>4, BoundedInduction
  <2> QED  BY <2>1, <2>2
<1>6. PICK s : s = f[h]
  OBVIOUS
<1>7. Kept(s) /\ Ended(s)
  <2>1. Kept(s) /\ (Ended(s) \/ s.i >= i + h) /\ s.i \in i..n
    BY <1>5, <1>6
  <2>2. ASSUME s.i >= i + h PROVE Ended(s)
    <3>1. Formed(s.t) /\ n \in 1..Len(s.t.heap) /\ s.i \in Places(s.t)
      <4>1. Formed(s.t) /\ Len(s.t.heap) = Len(t.heap)
        BY <2>1 DEF SameNodes
      <4> QED  BY <1>1, <2>1, <4>1, FormedFacts
    <3>2. PICK m : m = Least(s.t, s.i, n)
      OBVIOUS
    <3>3. m # s.i => m \in (s.i + 1)..n /\ m \div 2 = s.i
      BY <3>1, <3>2, LeastFacts
    <3>4. PICK j \in Nat : j = s.i /\ j >= i + h /\ i >= 1
      BY <1>1, <2>1, <2>2
    <3>5. ASSUME m \in (j + 1)..n, m \div 2 = j PROVE FALSE
      <4>1. m >= 2 * j
        BY <1>1, <3>5, ParentPlace
      <4> QED  BY <1>0, <1>1, <3>4, <3>5, <4>1
    <3> QED  BY <3>2, <3>3, <3>4, <3>5
  <2> HIDE DEF Kept, Ended
  <2> QED  BY <2>1, <2>2
<1>8. Formed(s.t) /\ n \in 1..Len(s.t.heap) /\ s.i \in i..n
  BY <1>7 DEF SameNodes
<1>9. OrderedDown(s.t, i, s.i, n) => OrderedBut(s.t, i, n)
  BY <1>7, <1>8, DownEnd
<1> QED  BY <1>2, <1>6, <1>7, <1>9

(* Both in a row put the first n places in order, when all but the node at *)
(* i were.                                                                 *)
LEMMA SettledKeeps ==
  ASSUME NEW t, Formed(t), NEW n \in 1..Len(t.heap), NEW i \in 1..n
  PROVE  /\ SameNodes(t, Settled(t, i, n)) /\ SameBeyond(t, Settled(t, i, n), n)
         /\ OrderedDown(t, i, i, n) => Ordered(Settled(t, i, n), n)
<1>1. PICK u : u = SiftDown(t, i, n)
  OBVIOUS
<1>2. /\ SameNodes(t, u) /\ SameBeyond(t, u, n)
      /\ OrderedDown(t, i, i, n) => OrderedBut(u, i, n)
  BY <1>1, SiftDownKeeps
<1>3. Formed(u) /\ n \in 1..Len(u.heap) /\ Places(u) = Places(t)
  BY <1>2, FormedFacts DEF SameNodes
<1>4. PICK v : v = SiftUp(u, i)
  OBVIOUS
<1>5. /\ SameNodes(u, v) /\ SameBeyond(u, v, n)
      /\ OrderedBut(u, i, n) => Ordered(v, n)
  BY <1>3, <1>4, SiftUpKeeps
<1>6. SameBeyond(t, v, n)
  BY <1>2, <1>3, <1>5 DEF SameBeyond
<1>7. v = Settled(t, i, n)
  BY <1>1, <1>4 DEF Settled
<1> QED  BY <1>2, <1>5, <1>6, <1>7, SameNodesChain
-----------------------------------------------------------------------------
(* The node at the first place is due first.                               *)
LEMMA FrontIsFirst ==
  ASSUME NEW t, Formed(t), Ordered(t, Len(t.heap)), NEW k \in Places(t)
  PROVE  t.heap[1].expires =< t.heap[k].expires
<1>1. /\ Places(t) = 1..Len(t.heap) /\ Len(t.heap) \in Nat
      /\ \A j \in 1..Len(t.heap) : t.heap[j].expires \in Nat
  BY FormedFacts, TimerAssumption
<1> DEFINE S == {j \in 1..Len(t.heap) : t.heap[j].expires < t.heap[1].expires}
<1>2. SUFFICES ASSUME S # {} PROVE FALSE
  <2>1. k \notin S => ~(t.heap[k].expires < t.heap[1].expires)
    BY <1>1
  <2>2. t.heap[1].expires \in Nat /\ t.heap[k].expires \in Nat
    BY <1>1
  <2> QED  BY <2>1, <2>2
<1>3. PICK j \in S : \A x \in S : j =< x
  <2>1. S \in SUBSET Nat
    OBVIOUS
  <2> HIDE DEF S
  <2> QED  BY <1>2, <2>1, MinIsMember
<1>4. /\ j \in 2..Len(t.heap) /\ t.heap[j].expires < t.heap[1].expires
      /\ t.heap[j].expires \in Nat /\ t.heap[1].expires \in Nat
  <2>1. 1 \in 1..Len(t.heap) /\ j \in 1..Len(t.heap)
    BY <1>1
  <2> QED  BY <1>1, <2>1
<1>5. j \div 2 \in 1..Len(t.heap) /\ j \div 2 < j
  BY <1>1, <1>4, ParentPlace
<1>6. ~(t.heap[j].expires < t.heap[j \div 2].expires)
  BY <1>4 DEF Ordered, Earlier
<1>7. t.heap[j \div 2].expires \in Nat
  BY <1>1, <1>5
<1>8. j \div 2 \in S
  BY <1>4, <1>5, <1>6, <1>7
<1> QED  BY <1>3, <1>5, <1>8

(* The last node is dropped.                                               *)
WithoutLast(t) ==
  LET n == Len(t.heap)
  IN  [heap |-> SubSeq(t.heap, 1, n - 1),
       ref  |-> [f \in DOMAIN t.ref \ {t.heap[n].fd} |-> t.ref[f]]]

(* The last node is gone, and the others are where they were.              *)
LEMMA WithoutLastKeeps ==
  ASSUME NEW t, Formed(t), Len(t.heap) > 0
  PROVE  LET n == Len(t.heap)
             u == WithoutLast(t)
         IN  /\ Formed(u) /\ Len(u.heap) = n - 1
             /\ DOMAIN u.ref = DOMAIN t.ref \ {t.heap[n].fd}
             /\ \A f \in DOMAIN u.ref : u.heap[u.ref[f]] = t.heap[t.ref[f]]
             /\ Ordered(t, n - 1) => Ordered(u, n - 1)
<1> DEFINE n == Len(t.heap)
           D == DOMAIN t.ref \ {t.heap[n].fd}
           h == SubSeq(t.heap, 1, n - 1)
           r == [f \in D |-> t.ref[f]]
<1>1. /\ n \in Nat /\ t.heap \in Seq(Node) /\ DOMAIN t.ref \subseteq Fd
      /\ \A k \in 1..n : t.heap[k] \in Node /\ t.heap[k].fd \in DOMAIN t.ref /\ t.ref[t.heap[k].fd] = k
      /\ \A f \in DOMAIN t.ref : t.ref[f] \in 1..n /\ t.heap[t.ref[f]].fd = f
  BY FormedFacts
<1>2. h \in Seq(Node) /\ Len(h) = n - 1 /\ \A k \in 1..(n - 1) : h[k] = t.heap[k]
  <2>1. n - 1 \in 0..n
    BY <1>1
  <2>2. h \in Seq(Node) /\ Len(h) = n - 1
    BY <1>1, <2>1, LeftProperties
  <2>3. \A k \in 1..(n - 1) : h[k] = t.heap[k]
    BY <1>1
  <2> QED  BY <2>2, <2>3
<1>3. r \in [D -> Nat] /\ D \in SUBSET Fd /\ DOMAIN r = D /\ \A f \in D : r[f] = t.ref[f]
  BY <1>1
<1>4. \A f \in D : t.ref[f] \in 1..(n - 1) /\ h[r[f]] = t.heap[t.ref[f]] /\ h[r[f]].fd = f
  <2> TAKE f \in D
  <2>1. t.ref[f] # n /\ t.ref[f] \in 1..n /\ t.heap[t.ref[f]].fd = f
    BY <1>1
  <2>2. t.ref[f] \in 1..(n - 1)
    BY <1>1, <2>1
  <2> HIDE DEF h, r, D, n
  <2> QED  BY <1>2, <1>3, <2>1, <2>2
<1>5. \A k \in 1..(n - 1) : h[k].fd \in D /\ r[h[k].fd] = k
  <2> TAKE k \in 1..(n - 1)
  <2>1. k \in 1..n /\ n \in 1..n /\ k # n
    BY <1>1
  <2>2. t.heap[k].fd \in DOMAIN t.ref /\ t.ref[t.heap[k].fd] = k /\ t.ref[t.heap[n].fd] = n
    BY <1>1, <2>1
  <2>3. t.heap[k].fd \in D
    BY <2>1, <2>2
  <2>4. h[k] = t.heap[k]
    BY <1>2
  <2> HIDE DEF h, r, D, n
  <2> QED  BY <1>3, <2>2, <2>3, <2>4
<1>6. PICK u : u = WithoutLast(t)
  OBVIOUS
<1>7. u = [heap |-> h, ref |-> r]
  BY <1>6 DEF WithoutLast
<1> HIDE DEF h, r, D, n
<1>8. u.heap = h /\ u.ref = r
  BY <1>7
<1>9. Formed(u)
  <2>1. \A f \in D : r[f] \in 1..Len(h)
    BY <1>2, <1>3, <1>4
  <2> QED  BY <1>2, <1>3, <1>4, <1>5, <1>7, <2>1, MakesFormed
<1>10. ASSUME Ordered(t, n - 1) PROVE Ordered(u, n - 1)
  <2>1. ASSUME NEW k \in 2..(n - 1) PROVE ~Earlier(u, k, k \div 2)
    <3>1. k \div 2 \in 1..(n - 1) /\ k \in 1..(n - 1)
      BY <1>1, ParentPlace
    <3> QED  BY <1>2, <1>8, <1>10, <3>1 DEF Ordered, Earlier
  <2> QED  BY <2>1 DEF Ordered
<1>11. \A f \in D : u.heap[u.ref[f]] = t.heap[t.ref[f]]
  BY <1>4, <1>8
<1> QED  BY <1>2, <1>3, <1>6, <1>8, <1>9, <1>10, <1>11 DEF n, D

(* del: the node at i is gone, the others are where ref_ says, and what    *)
(* was a heap is one.                                                      *)
LEMMA DelKeeps ==
  ASSUME NEW t, Formed(t), NEW i \in Places(t)
  PROVE  LET u == Del(t, i)
         IN  /\ Formed(u) /\ Len(u.heap) = Len(t.heap) - 1
             /\ DOMAIN u.ref = DOMAIN t.ref \ {t.heap[i].fd}
             /\ \A f \in DOMAIN u.ref : u.heap[u.ref[f]] = t.heap[t.ref[f]]
             /\ Ordered(t, Len(t.heap)) => Ordered(u, Len(u.heap))
<1> DEFINE n == Len(t.heap)
<1>1. /\ Places(t) = 1..n /\ n \in Nat /\ i \in 1..n
      /\ \A k \in 1..n : t.heap[k].expires \in Nat
  BY FormedFacts, TimerAssumption
<1>2. PICK v : v = IF i < n THEN Settled(SwapNode(t, i, n), i, n - 1) ELSE t
  OBVIOUS
<1>3. SameNodes(t, v) /\ v.heap[n] = t.heap[i] /\ (Ordered(t, n) => Ordered(v, n - 1))
  <2>1. CASE i < n
    <3>1. PICK s : s = SwapNode(t, i, n)
      OBVIOUS
    <3>2. /\ SameNodes(t, s) /\ s.heap[i] = t.heap[n] /\ s.heap[n] = t.heap[i]
          /\ \A k \in 1..n : k # i /\ k # n => s.heap[k] = t.heap[k]
      <4>1. i # n /\ n \in Places(t)
        BY <1>1, <2>1
      <4> HIDE DEF n
      <4> QED  BY <1>1, <3>1, <4>1, SwapKeeps
    <3>3. Formed(s) /\ Len(s.heap) = n /\ n - 1 \in 1..Len(s.heap) /\ i \in 1..(n - 1)
      BY <1>1, <2>1, <3>2 DEF SameNodes
    <3>4. v = Settled(s, i, n - 1)
      BY <1>2, <2>1, <3>1
    <3>5. /\ SameNodes(s, v) /\ SameBeyond(s, v, n - 1)
          /\ OrderedDown(s, i, i, n - 1) => Ordered(v, n - 1)
      BY <3>3, <3>4, SettledKeeps
    <3>6. v.heap[n] = t.heap[i]
      <4>1. n \in Places(s) /\ n > n - 1
        BY <1>1, <2>1, <3>3, FormedFacts
      <4> QED  BY <3>2, <3>5, <4>1 DEF SameBeyond
    <3>7. ASSUME Ordered(t, n) PROVE OrderedDown(s, i, i, n - 1)
      <4>1. ASSUME NEW k \in 2..(n - 1), k \div 2 # i, k # i PROVE ~Earlier(s, k, k \div 2)
        <5>1. PICK q \in Nat : q = k \div 2 /\ q < k /\ q >= 1
          BY <1>1, ParentPlace
        <5>2. k \in 1..n /\ q \in 1..n /\ k # n /\ q # n /\ k \in 2..n /\ q # i
          BY <1>1, <4>1, <5>1
        <5>3. s.heap[k] = t.heap[k] /\ s.heap[q] = t.heap[q]
          BY <3>2, <4>1, <5>2
        <5> QED  BY <3>7, <5>1, <5>2, <5>3 DEF Ordered, Earlier
      <4>2. ASSUME i > 1, NEW k \in 2..(n - 1), k \div 2 = i PROVE ~Earlier(s, k, i \div 2)
        <5>1. PICK q \in Nat : q = i \div 2 /\ q < i /\ q >= 1
          BY <1>1, <4>2, ParentPlace
        <5>2. i < k
          BY <1>1, <4>2, ParentPlace
        <5>3. /\ k \in 1..n /\ q \in 1..n /\ k # n /\ q # n /\ k \in 2..n /\ q # i /\ k # i
              /\ i \in 2..n
          BY <1>1, <4>2, <5>1, <5>2
        <5>4. s.heap[k] = t.heap[k] /\ s.heap[q] = t.heap[q]
          BY <3>2, <5>3
        <5>5. ~Earlier(t, k, i) /\ ~Earlier(t, i, q)
          BY <3>7, <4>2, <5>1, <5>3 DEF Ordered
        <5>6. ~Earlier(t, k, q)
          <6>1. t.heap[k].expires \in Nat /\ t.heap[i].expires \in Nat /\ t.heap[q].expires \in Nat
            BY <1>1, <5>3
          <6> QED  BY <5>5, <6>1 DEF Earlier
        <5> QED  BY <5>1, <5>4, <5>6 DEF Earlier
      <4> QED  BY <4>1, <4>2 DEF OrderedDown
    <3> QED  BY <3>2, <3>5, <3>6, <3>7, SameNodesChain
  <2>2. CASE i = n
    <3>1. v = t
      BY <1>1, <1>2, <2>2
    <3>2. Ordered(t, n) => Ordered(t, n - 1)
      BY <1>1 DEF Ordered
    <3> QED  BY <2>2, <3>1, <3>2 DEF SameNodes
  <2> QED  BY <1>1, <2>1, <2>2
<1>4. Formed(v) /\ Len(v.heap) = n
  BY <1>3 DEF SameNodes
<1>5. Del(t, i) = WithoutLast(v)
  <2>1. Del(t, i) = [heap |-> SubSeq(v.heap, 1, n - 1),
                     ref  |-> [f \in DOMAIN v.ref \ {v.heap[n].fd} |-> v.ref[f]]]
    BY <1>2 DEF Del
  <2> HIDE DEF n
  <2> QED  BY <1>4, <2>1 DEF WithoutLast
<1>6. PICK u : u = WithoutLast(v)
  OBVIOUS
<1>7. /\ Formed(u) /\ Len(u.heap) = n - 1
      /\ DOMAIN u.ref = DOMAIN v.ref \ {v.heap[n].fd}
      /\ \A f \in DOMAIN u.ref : u.heap[u.ref[f]] = v.heap[v.ref[f]]
      /\ Ordered(v, n - 1) => Ordered(u, n - 1)
  <2>1. Len(v.heap) > 0
    BY <1>1, <1>4
  <2> HIDE DEF n
  <2> QED  BY <1>4, <1>6, <2>1, WithoutLastKeeps
<1>8. DOMAIN u.ref = DOMAIN t.ref \ {t.heap[i].fd}
  BY <1>3, <1>7 DEF SameNodes
<1>9. \A f \in DOMAIN u.ref : u.heap[u.ref[f]] = t.heap[t.ref[f]]
  BY <1>3, <1>7, <1>8 DEF SameNodes
<1> QED  BY <1>3, <1>5, <1>6, <1>7, <1>8, <1>9
-----------------------------------------------------------------------------
(* remove: only the node of fd is gone.                                    *)
LEMMA RemovedKeeps ==
  ASSUME NEW t, Formed(t), Ordered(t, Len(t.heap)), NEW fd
  PROVE  LET u == Removed(t, fd)
         IN  /\ Formed(u) /\ Ordered(u, Len(u.heap))
             /\ DOMAIN u.ref = DOMAIN t.ref \ {fd}
             /\ \A f \in DOMAIN u.ref : u.heap[u.ref[f]] = t.heap[t.ref[f]]
<1>1. /\ Places(t) = 1..Len(t.heap) /\ t.heap \in Seq(Node) /\ Len(t.heap) \in Nat
      /\ \A f \in DOMAIN t.ref : t.ref[f] \in 1..Len(t.heap) /\ t.heap[t.ref[f]].fd = f
  BY FormedFacts
<1>2. CASE fd \in DOMAIN t.ref
  <2>1. t.heap # <<>> /\ t.ref[fd] \in Places(t) /\ t.heap[t.ref[fd]].fd = fd
    BY <1>1, <1>2
  <2>2. Removed(t, fd) = Del(t, t.ref[fd])
    BY <1>2, <2>1 DEF Removed
  <2>3. PICK u : u = Del(t, t.ref[fd])
    OBVIOUS
  <2>4. /\ Formed(u) /\ DOMAIN u.ref = DOMAIN t.ref \ {fd} /\ Ordered(u, Len(u.heap))
        /\ \A f \in DOMAIN u.ref : u.heap[u.ref[f]] = t.heap[t.ref[f]]
    BY <2>1, <2>3, DelKeeps
  <2> QED  BY <2>2, <2>3, <2>4
<1>3. CASE fd \notin DOMAIN t.ref
  <2>1. Removed(t, fd) = t
    BY <1>3 DEF Removed
  <2> QED  BY <1>3, <2>1
<1> QED  BY <1>2, <1>3

(* doWork: the callback has removed the node, and nothing else is deleted. *)
LEMMA DoWorkRemoves ==
  ASSUME NEW t, Formed(t), Ordered(t, Len(t.heap)), NEW fd
  PROVE  DoWork(t, fd) = Removed(t, fd)
<1>1. PICK u : u = Removed(t, fd)
  OBVIOUS
<1>2. DOMAIN u.ref = DOMAIN t.ref \ {fd}
  BY <1>1, RemovedKeeps
<1> QED  BY <1>1, <1>2 DEF DoWork

(* add: a node for a descriptor that had none.                             *)
LEMMA AddedKeeps ==
  ASSUME NEW t, Formed(t), Ordered(t, Len(t.heap)), NEW fd \in Fd, fd \notin DOMAIN t.ref,
         NEW e \in 0..MaxNow
  PROVE  LET u == Added(t, fd, e)
         IN  /\ Formed(u) /\ Ordered(u, Len(u.heap))
             /\ DOMAIN u.ref = DOMAIN t.ref \cup {fd}
             /\ \A f \in DOMAIN u.ref :
                  u.heap[u.ref[f]].expires = IF f = fd THEN e ELSE t.heap[t.ref[f]].expires
<1> DEFINE n == Len(t.heap) + 1
           D == DOMAIN t.ref \cup {fd}
           x == [fd |-> fd, expires |-> e]
           h == Append(t.heap, x)
           r == [f \in D |-> IF f = fd THEN n ELSE t.ref[f]]
<1>1. /\ Len(t.heap) \in Nat /\ t.heap \in Seq(Node) /\ DOMAIN t.ref \subseteq Fd
      /\ \A k \in 1..Len(t.heap) : /\ t.heap[k] \in Node /\ t.heap[k].fd \in DOMAIN t.ref
                                   /\ t.ref[t.heap[k].fd] = k /\ t.heap[k].expires \in Nat
      /\ \A f \in DOMAIN t.ref : t.ref[f] \in 1..Len(t.heap) /\ t.heap[t.ref[f]].fd = f
  BY FormedFacts, TimerAssumption
<1>2. x \in Node /\ x.fd = fd /\ x.expires = e
  BY DEF Node
<1> HIDE DEF x
<1>3. /\ h \in Seq(Node) /\ Len(h) = n /\ h[n] = x
      /\ \A k \in 1..(n - 1) : h[k] = t.heap[k]
  BY <1>1, <1>2, AppendProperties
<1>4. /\ r \in [D -> Nat] /\ D \in SUBSET Fd /\ DOMAIN r = D /\ r[fd] = n
      /\ \A f \in DOMAIN t.ref : r[f] = t.ref[f]
  <2>1. n \in Nat
    BY <1>1
  <2> HIDE DEF n
  <2> QED  BY <1>1, <2>1
<1>5. n \in Nat \ {0} /\ n - 1 = Len(t.heap)
  BY <1>1
<1> HIDE DEF h, r, n
<1>6. \A k \in 1..n : h[k].fd \in D /\ r[h[k].fd] = k
  <2> TAKE k \in 1..n
  <2>1. CASE k = n
    BY <1>2, <1>3, <1>4, <2>1
  <2>2. CASE k # n
    <3>1. k \in 1..(n - 1)
      BY <1>5, <2>2
    <3> QED  BY <1>1, <1>3, <1>4, <1>5, <3>1
  <2> QED  BY <2>1, <2>2
<1>7. \A f \in D : /\ r[f] \in 1..Len(h) /\ h[r[f]].fd = f
                   /\ h[r[f]].expires = IF f = fd THEN e ELSE t.heap[t.ref[f]].expires
  <2> TAKE f \in D
  <2>1. CASE f = fd
    BY <1>2, <1>3, <1>4, <1>5, <2>1
  <2>2. CASE f # fd
    <3>1. f \in DOMAIN t.ref /\ t.ref[f] \in 1..(n - 1) /\ r[f] = t.ref[f]
      BY <1>1, <1>4, <1>5, <2>2
    <3>2. r[f] \in 1..n
      BY <1>5, <3>1
    <3> QED  BY <1>1, <1>3, <2>2, <3>1, <3>2
  <2> QED  BY <2>1, <2>2
<1>8. PICK a : a = [heap |-> h, ref |-> r]
  OBVIOUS
<1>9. a.heap = h /\ a.ref = r /\ Formed(a)
  <2>1. \A k \in 1..Len(h) : h[k].fd \in D /\ r[h[k].fd] = k
    BY <1>3, <1>6
  <2> HIDE DEF D
  <2>2. Formed([heap |-> h, ref |-> r])
    BY <1>3, <1>4, <1>7, <2>1, MakesFormed
  <2> QED  BY <1>8, <2>2
<1>10. OrderedBut(a, n, n)
  <2>1. ASSUME NEW k \in 2..n, k # n PROVE ~Earlier(a, k, k \div 2)
    <3>1. k \div 2 \in 1..(n - 1) /\ k \in 1..(n - 1) /\ k \in 2..Len(t.heap)
      BY <1>5, <2>1, ParentPlace
    <3>2. ~Earlier(t, k, k \div 2)
      BY <3>1 DEF Ordered
    <3> QED  BY <1>3, <1>9, <3>1, <3>2 DEF Earlier
  <2>2. ASSUME NEW k \in 2..n PROVE k \div 2 # n
    BY <1>5, ParentPlace
  <2> QED  BY <2>1, <2>2 DEF OrderedBut
<1>11. Added(t, fd, e) = SiftUp(a, n)
  BY <1>8 DEF Added, h, r, n, x
<1>12. PICK u : u = SiftUp(a, n)
  OBVIOUS
<1>13. SameNodes(a, u) /\ Ordered(u, n)
  <2>1. n \in 1..Len(a.heap) /\ n \in 1..n
    BY <1>3, <1>5, <1>9
  <2> QED  BY <1>9, <1>10, <1>12, <2>1, SiftUpKeeps
<1>14. Formed(u) /\ Len(u.heap) = n /\ DOMAIN u.ref = D
  BY <1>3, <1>4, <1>9, <1>13 DEF SameNodes
<1>15. \A f \in D : u.heap[u.ref[f]].expires = IF f = fd THEN e ELSE t.heap[t.ref[f]].expires
  BY <1>4, <1>7, <1>9, <1>13 DEF SameNodes
<1> QED  BY <1>11, <1>12, <1>13, <1>14, <1>15

(* adjust: another deadline for a descriptor that has one.                 *)
LEMMA AdjustedKeeps ==
  ASSUME NEW t, Formed(t), Ordered(t, Len(t.heap)), NEW fd \in DOMAIN t.ref, NEW e \in 0..MaxNow
  PROVE  LET u == Adjusted(t, fd, e)
         IN  /\ Formed(u) /\ Ordered(u, Len(u.heap))
             /\ DOMAIN u.ref = DOMAIN t.ref
             /\ \A f \in DOMAIN u.ref :
                  u.heap[u.ref[f]].expires = IF f = fd THEN e ELSE t.heap[t.ref[f]].expires
<1> DEFINE n == Len(t.heap)
           p == t.ref[fd]
           x == [t.heap[p] EXCEPT !.expires = e]
           h == [t.heap EXCEPT ![p] = x]
<1>1. /\ n \in Nat /\ t.heap \in Seq(Node) /\ t \in Timer /\ DOMAIN t.ref \subseteq Fd
      /\ t.ref \in [DOMAIN t.ref -> Nat]
      /\ \A k \in 1..n : /\ t.heap[k] \in Node /\ t.heap[k].fd \in DOMAIN t.ref
                         /\ t.ref[t.heap[k].fd] = k /\ t.heap[k].expires \in Nat
      /\ \A f \in DOMAIN t.ref : t.ref[f] \in 1..n /\ t.heap[t.ref[f]].fd = f
  <2>1. t \in Timer
    BY DEF Formed
  <2> QED  BY <2>1, FormedFacts, TimerAssumption
<1>2. p \in 1..n /\ t.heap[p] \in Node /\ t.heap[p].fd = fd
  BY <1>1
<1> HIDE DEF p
<1>3. x \in Node /\ x.fd = fd /\ x.expires = e
  BY <1>2 DEF Node
<1>4. PICK a : a = [t EXCEPT !.heap[p].expires = e]
  OBVIOUS
<1>5. a = [heap |-> h, ref |-> t.ref]
  BY <1>1, <1>4 DEF Timer
<1> HIDE DEF x
<1>6. h \in Seq(Node) /\ Len(h) = n /\ h[p] = x /\ \A k \in 1..n : k # p => h[k] = t.heap[k]
  BY <1>1, <1>2, <1>3
<1> HIDE DEF h
<1>7. a.heap = h /\ a.ref = t.ref
  BY <1>5
<1>8. \A k \in 1..n : h[k].fd = t.heap[k].fd
  BY <1>2, <1>3, <1>6
<1>9. Formed(a)
  <2>1. \A k \in 1..Len(h) : h[k].fd \in DOMAIN t.ref /\ t.ref[h[k].fd] = k
    BY <1>1, <1>6, <1>8
  <2>2. \A f \in DOMAIN t.ref : t.ref[f] \in 1..Len(h) /\ h[t.ref[f]].fd = f
    BY <1>1, <1>6, <1>8
  <2> HIDE DEF n
  <2> QED  BY <1>1, <1>5, <1>6, <2>1, <2>2, MakesFormed
<1>10. OrderedDown(a, p, p, n)
  <2>1. ASSUME NEW k \in 2..n, k \div 2 # p, k # p PROVE ~Earlier(a, k, k \div 2)
    <3>1. k \div 2 \in 1..n /\ k \in 1..n
      BY <1>1, ParentPlace
    <3>2. ~Earlier(t, k, k \div 2)
      BY DEF Ordered
    <3> QED  BY <1>6, <1>7, <2>1, <3>1, <3>2 DEF Earlier
  <2>2. ASSUME p > 1, NEW k \in 2..n, k \div 2 = p PROVE ~Earlier(a, k, p \div 2)
    <3>1. PICK q \in Nat : q = p \div 2 /\ q < p /\ q >= 1
      BY <1>2, <2>2, ParentPlace
    <3>2. p < k
      BY <2>2, ParentPlace
    <3>3. q \in 1..n /\ k \in 1..n /\ q # p /\ k # p /\ p \in 2..n
      BY <1>1, <1>2, <2>2, <3>1, <3>2
    <3>4. ~Earlier(t, k, p) /\ ~Earlier(t, p, q)
      BY <2>2, <3>1, <3>3 DEF Ordered
    <3>5. ~Earlier(t, k, q)
      <4>1. t.heap[k].expires \in Nat /\ t.heap[p].expires \in Nat /\ t.heap[q].expires \in Nat
        BY <1>1, <1>2, <3>3
      <4> QED  BY <3>4, <4>1 DEF Earlier
    <3> QED  BY <1>6, <1>7, <3>1, <3>3, <3>5 DEF Earlier
  <2> QED  BY <2>1, <2>2 DEF OrderedDown
<1>11. Adjusted(t, fd, e) = Settled(a, p, n)
  BY <1>4 DEF Adjusted, p
<1>12. PICK u : u = Settled(a, p, n)
  OBVIOUS
<1>13. SameNodes(a, u) /\ Ordered(u, n)
  <2>1. n \in 1..Len(a.heap) /\ p \in 1..n
    BY <1>1, <1>2, <1>6, <1>7
  <2> HIDE DEF n
  <2> QED  BY <1>9, <1>10, <1>12, <2>1, SettledKeeps
<1>14. Formed(u) /\ Len(u.heap) = n /\ DOMAIN u.ref = DOMAIN t.ref
  BY <1>6, <1>7, <1>13 DEF SameNodes
<1>15. ASSUME NEW f \in DOMAIN t.ref
       PROVE  u.heap[u.ref[f]].expires = IF f = fd THEN e ELSE t.heap[t.ref[f]].expires
  <2>1. u.heap[u.ref[f]] = h[t.ref[f]]
    BY <1>7, <1>13 DEF SameNodes
  <2>2. CASE f = fd
    BY <1>3, <1>6, <2>1, <2>2 DEF p
  <2>3. CASE f # fd
    <3>1. t.ref[f] \in 1..n /\ t.ref[f] # p
      BY <1>1, <1>2, <2>3
    <3> QED  BY <1>6, <2>1, <2>3, <3>1
  <2> QED  BY <2>2, <2>3
<1> QED  BY <1>11, <1>12, <1>13, <1>14, <1>15
-----------------------------------------------------------------------------
(* The inductive invariant: the timer is a well-formed record of sequence  *)
(* and map, which TypeOK takes for granted, and a heap.                    *)
Sound == TypeOK /\ Formed(timer) /\ HeapOrdered

(* The invariant of the runs, in the form the lemmas use.                  *)
LEMMA OrderedIsHeapOrdered ==
  ASSUME Formed(timer)
  PROVE  HeapOrdered <=> Ordered(timer, Len(timer.heap))
<1>1. Places(timer) = 1..Len(timer.heap) /\ Len(timer.heap) \in Nat
  BY FormedFacts
<1> QED  BY <1>1 DEF HeapOrdered, Ordered

(* Rounding down to whole milliseconds.                                    *)
LEMMA RoundedDown ==
  ASSUME NEW a \in Nat, NEW b \in Nat \ {0}
  PROVE  a \div b \in Nat /\ (a \div b) * b \in 0..a
<1>1. a = b * (a \div b) + (a % b) /\ a \div b \in Int /\ a % b \in 0..(b - 1)
  OBVIOUS
<1>2. PICK q \in Int : q = a \div b
  BY <1>1
<1>3. PICK m \in Nat : m = a % b /\ m < b
  BY <1>1
<1>4. a = b * q + m
  BY <1>1, <1>2, <1>3
<1>5. q >= 0
  BY <1>3, <1>4
<1>6. b * q = q * b /\ q * b >= 0
  BY <1>5
<1> QED  BY <1>2, <1>3, <1>4, <1>5, <1>6

(* The time epoll_wait is given.                                           *)
LEMMA TickIsShort ==
  ASSUME Sound
  PROVE  /\ timer.heap = <<>> => NextTick = Forever
         /\ timer.heap # <<>> =>
              /\ NextTick # Forever /\ NextTick * TicksPerMs \in 0..MaxNow
              /\ NextTick * TicksPerMs > 0 => now + NextTick * TicksPerMs =< timer.heap[1].expires
<1>1. CASE timer.heap = <<>>
  BY <1>1 DEF NextTick
<1>2. CASE timer.heap # <<>>
  <2>1. now \in 0..MaxNow /\ timer.heap[1].expires \in 0..MaxNow /\ MaxNow \in Nat
        /\ TicksPerMs \in Nat \ {0}
    <3>1. /\ Len(timer.heap) \in Nat /\ timer.heap \in Seq(Node)
          /\ \A k \in 1..Len(timer.heap) : timer.heap[k].expires \in 0..MaxNow
      BY FormedFacts DEF Sound
    <3>2. 1 \in 1..Len(timer.heap)
      BY <1>2, <3>1
    <3> QED  BY <3>1, <3>2, TimerAssumption DEF Sound, TypeOK
  <2> DEFINE e == timer.heap[1].expires
  <2>2. NextTick = MsUntil(e)
    BY <1>2 DEF NextTick
  <2> HIDE DEF e
  <2>3. CASE e =< now
    <3>1. NextTick = 0
      BY <2>2, <2>3 DEF MsUntil
    <3> QED  BY <1>2, <2>1, <3>1 DEF Forever
  <2>4. CASE e > now
    <3>1. PICK a \in Nat : a = e - now /\ a =< MaxNow /\ now + a = e
      BY <2>1, <2>4 DEF e
    <3>2. NextTick = a \div TicksPerMs
      BY <2>1, <2>2, <2>4, <3>1 DEF MsUntil, e
    <3>3. NextTick \in Nat /\ NextTick * TicksPerMs \in 0..a
      BY <2>1, <3>1, <3>2, RoundedDown
    <3>4. PICK x \in 0..a : x = NextTick * TicksPerMs
      BY <3>3
    <3>5. x \in 0..MaxNow /\ now + x =< e
      BY <2>1, <3>1, <3>4
    <3> QED  BY <1>2, <3>3, <3>4, <3>5 DEF Forever, e
  <2> QED  BY <2>1, <2>3, <2>4 DEF e
<1> QED  BY <1>1, <1>2

(* What each step does to the deadlines.                                   *)
Deadline(t, f) == t.heap[t.ref[f]].expires

Drops(t, u, fd) ==
  /\ DOMAIN u.ref = DOMAIN t.ref \ {fd}
  /\ \A f \in DOMAIN u.ref : Deadline(u, f) = Deadline(t, f)

Sets(t, u, fd, e) ==
  /\ DOMAIN u.ref = DOMAIN t.ref \cup {fd}
  /\ \A f \in DOMAIN u.ref : Deadline(u, f) = IF f = fd THEN e ELSE Deadline(t, f)

HeapOf(t) == Formed(t) /\ Ordered(t, Len(t.heap))

(* remove: a deadline is dropped, and nothing else is disturbed.           *)
LEMMA RemovedDrops ==
  ASSUME NEW t, Formed(t), Ordered(t, Len(t.heap)), NEW fd
  PROVE  HeapOf(Removed(t, fd)) /\ Drops(t, Removed(t, fd), fd)
<1>1. PICK u : u = Removed(t, fd)
  OBVIOUS
<1>2. /\ Formed(u) /\ Ordered(u, Len(u.heap))
      /\ DOMAIN u.ref = DOMAIN t.ref \ {fd}
      /\ \A f \in DOMAIN u.ref : u.heap[u.ref[f]] = t.heap[t.ref[f]]
  BY <1>1, RemovedKeeps
<1>3. HeapOf(u)
  BY <1>2 DEF HeapOf
<1>4. Drops(t, u, fd)
  BY <1>2 DEF Drops, Deadline
<1> QED  BY <1>1, <1>3, <1>4

(* The earliest node is dropped, and its deadline has passed.              *)
LEMMA TickOneDrops ==
  ASSUME Sound, TickOne
  PROVE  \E fd \in DOMAIN timer.ref :
           /\ fired' = fd /\ HeapOf(timer') /\ Drops(timer, timer', fd)
           /\ Deadline(timer, fd) =< now
           /\ \A f \in DOMAIN timer.ref : Deadline(timer, fd) =< Deadline(timer, f)
<1>1. /\ Len(timer.heap) \in Nat /\ timer.heap \in Seq(Node) /\ Formed(timer)
      /\ Places(timer) = 1..Len(timer.heap)
      /\ \A k \in 1..Len(timer.heap) :
           timer.heap[k].fd \in DOMAIN timer.ref /\ timer.ref[timer.heap[k].fd] = k
      /\ \A f \in DOMAIN timer.ref : timer.ref[f] \in 1..Len(timer.heap)
  BY FormedFacts DEF Sound
<1>2. Ordered(timer, Len(timer.heap))
  BY <1>1, OrderedIsHeapOrdered DEF Sound
<1>3. 1 \in 1..Len(timer.heap)
  BY <1>1 DEF TickOne, FrontIsDue
<1>4. PICK fd \in DOMAIN timer.ref : fd = timer.heap[1].fd /\ timer.ref[fd] = 1
  BY <1>1, <1>3
<1>5. timer' = Removed(timer, fd) /\ fired' = fd /\ timer.heap[1].expires =< now
  BY <1>1, <1>2, <1>4, DoWorkRemoves DEF TickOne, FrontIsDue
<1>6. HeapOf(timer') /\ Drops(timer, timer', fd)
  BY <1>1, <1>2, <1>5, RemovedDrops
<1>7. \A f \in DOMAIN timer.ref : timer.heap[1].expires =< Deadline(timer, f)
  BY <1>1, <1>2, FrontIsFirst DEF Deadline
<1> QED  BY <1>4, <1>5, <1>6, <1>7 DEF Deadline

(* handleListen: a deadline for the descriptor accept returned.            *)
LEMMA AddTimerSets ==
  ASSUME Sound, AddTimer
  PROVE  \E fd \in Fd \ DOMAIN timer.ref :
           HeapOf(timer') /\ Sets(timer, timer', fd, now + Timeout) /\ now + Timeout \in 0..MaxNow
<1>1. Formed(timer) /\ Ordered(timer, Len(timer.heap))
  BY OrderedIsHeapOrdered DEF Sound
<1>2. PICK fd \in Fd \ DOMAIN timer.ref : fd = Min(FreeFds)
  <2>1. FreeFds \in SUBSET Nat /\ FreeFds # {}
    BY TimerAssumption DEF FreeFds, AddTimer
  <2> QED  BY <2>1, MinIsMember DEF FreeFds
<1>3. PICK e \in 0..MaxNow : e = now + Timeout
  BY TimerAssumption DEF AddTimer, Sound, TypeOK
<1>4. timer' = Added(timer, fd, e)
  BY <1>2, <1>3 DEF AddTimer, Handler
<1>5. HeapOf(timer') /\ Sets(timer, timer', fd, e)
  BY <1>1, <1>4, AddedKeeps DEF HeapOf, Sets, Deadline
<1> QED  BY <1>3, <1>5

(* handleWakeup: another deadline, for a descriptor that has one.          *)
LEMMA AdjustTimerSets ==
  ASSUME Sound, NEW fd \in Fd, AdjustTimer(fd)
  PROVE  /\ HeapOf(timer')
         /\ IF fd \in DOMAIN timer.ref THEN Sets(timer, timer', fd, now + Timeout)
                                       ELSE timer' = timer
<1>1. Formed(timer) /\ Ordered(timer, Len(timer.heap))
  BY OrderedIsHeapOrdered DEF Sound
<1>2. PICK e \in 0..MaxNow : e = now + Timeout
  BY TimerAssumption DEF AdjustTimer, Sound, TypeOK
<1>3. timer' = Adjusted(timer, fd, e)
  BY <1>2 DEF AdjustTimer, Handler
<1>4. CASE fd \in DOMAIN timer.ref
  <2>1. DOMAIN timer.ref \cup {fd} = DOMAIN timer.ref
    BY <1>4
  <2> QED  BY <1>1, <1>2, <1>3, <1>4, <2>1, AdjustedKeeps DEF HeapOf, Sets, Deadline
<1>5. CASE fd \notin DOMAIN timer.ref
  BY <1>1, <1>3, <1>5 DEF Adjusted, HeapOf
<1> QED  BY <1>4, <1>5

(* closeConn: its timer is dropped, if it has one.                         *)
LEMMA RemoveTimerDrops ==
  ASSUME Sound, NEW fd \in Fd, RemoveTimer(fd)
  PROVE  HeapOf(timer') /\ Drops(timer, timer', fd)
<1>1. Formed(timer) /\ Ordered(timer, Len(timer.heap))
  BY OrderedIsHeapOrdered DEF Sound
<1>2. timer' = Removed(timer, fd)
  BY DEF RemoveTimer, Handler
<1> QED  BY <1>1, <1>2, RemovedDrops

(* Every step leaves a heap, and the other variables their types.          *)
LEMMA SoundStep ==
  ASSUME Sound, [Next]_vars
  PROVE  Sound'
<1> DEFINE Others == /\ fired \in Fd \cup {NoFd}
                     /\ pc \in {"nextTick", "sleep", "asleep", "tick", "dispatch"}
                     /\ left \in {Forever} \cup 0..MaxNow /\ todo \in 0..MaxBatch
                     /\ now \in 0..MaxNow /\ setBack \in 0..MaxSetBack
<1>1. HeapOf(timer) /\ Others
  BY OrderedIsHeapOrdered DEF Sound, HeapOf, TypeOK
<1>2. SUFFICES HeapOf(timer)' /\ Others'
  <2>1. ASSUME HeapOf(timer)', Others' PROVE Sound'
    <3>1. Formed(timer') /\ Ordered(timer', Len(timer'.heap))
      BY <2>1 DEF HeapOf
    <3>2. /\ Places(timer') = 1..Len(timer'.heap) /\ Len(timer'.heap) \in Nat
          /\ timer'.heap \in Seq(Node)
      BY <3>1, FormedFacts
    <3>3. HeapOrdered'
      BY <3>1, <3>2 DEF HeapOrdered, Ordered
    <3>4. TypeOK'
      BY <2>1, <3>1, <3>2 DEF TypeOK, Formed
    <3> QED  BY <3>1, <3>3, <3>4 DEF Sound
  <2> QED  BY <2>1
<1>3. CASE UNCHANGED vars
  BY <1>1, <1>3 DEF vars
<1>4. CASE TickOne
  <2>1. PICK fd \in DOMAIN timer.ref : fired' = fd /\ HeapOf(timer')
    BY <1>4, TickOneDrops
  <2>2. fd \in Fd
    BY <1>1, FormedFacts DEF HeapOf
  <2> QED  BY <1>1, <1>4, <2>1, <2>2 DEF TickOne
<1>5. CASE TickDone
  BY <1>1, <1>5, TimerAssumption DEF TickDone
<1>6. CASE Sleep
  <2>1. left' \in {Forever} \cup 0..MaxNow
    BY <1>6, TickIsShort DEF Sleep
  <2> QED  BY <1>1, <1>6, <2>1 DEF Sleep
<1>7. CASE WakeByTimeout \/ WakeByEvent \/ EndBatch
  BY <1>1, <1>7, TimerAssumption DEF WakeByTimeout, WakeByEvent, EndBatch
<1>8. CASE AddTimer
  <2>1. HeapOf(timer')
    BY <1>8, AddTimerSets
  <2> QED  BY <1>1, <1>8, <2>1, TimerAssumption DEF AddTimer, Handler
<1>9. ASSUME NEW fd \in Fd, AdjustTimer(fd) PROVE HeapOf(timer)' /\ Others'
  <2>1. HeapOf(timer')
    BY <1>9, AdjustTimerSets
  <2> QED  BY <1>1, <1>9, <2>1, TimerAssumption DEF AdjustTimer, Handler
<1>10. ASSUME NEW fd \in Fd, RemoveTimer(fd) PROVE HeapOf(timer)' /\ Others'
  <2>1. HeapOf(timer')
    BY <1>10, RemoveTimerDrops
  <2> QED  BY <1>1, <1>10, <2>1, TimerAssumption DEF RemoveTimer, Handler
<1>11. CASE Elapse
  BY <1>1, <1>11, TimerAssumption DEF Elapse, Forever
<1>12. CASE SetBack
  BY <1>1, <1>12, TimerAssumption DEF SetBack
<1> QED
  BY <1>3, <1>4, <1>5, <1>6, <1>7, <1>8, <1>9, <1>10, <1>11, <1>12 DEF Next, Loop

(* The vector stays a heap, and the map its inverse, wherever del takes a  *)
(* node out and whatever adjust makes of a deadline.                       *)
THEOREM HeapIsSound == Spec => []Sound
<1>1. Init => Sound
  <2>1. ASSUME Init PROVE Sound
    <3>1. timer.heap = <<>> /\ timer.ref = <<>>
      BY <2>1 DEF Init
    <3>2. <<>> \in Seq(Node) /\ Len(<<>>) = 0 /\ DOMAIN <<>> = {}
      BY EmptySeq
    <3>3. <<>> \in [{} -> Nat]
      BY <3>2
    <3>4. Formed(timer)
      <4>1. timer = [heap |-> <<>>, ref |-> <<>>]
        BY <2>1 DEF Init
      <4> DEFINE h == <<>>
                 D == {}
      <4>2. h \in Seq(Node) /\ D \in SUBSET Fd /\ h \in [D -> Nat] /\ Len(h) = 0
        BY <3>2, <3>3
      <4>3. \A i \in 1..Len(h) : h[i].fd \in D /\ h[h[i].fd] = i
        BY <4>2
      <4>4. \A f \in D : h[f] \in 1..Len(h) /\ h[h[f]].fd = f
        OBVIOUS
      <4> HIDE DEF h, D
      <4>5. Formed([heap |-> h, ref |-> h])
        BY <4>2, <4>3, <4>4, MakesFormed
      <4> QED  BY <4>1, <4>5 DEF h
    <3>5. Places(timer) = {}
      BY <3>1, <3>2 DEF Places
    <3>6. HeapOrdered
      BY <3>5 DEF HeapOrdered
    <3>7. TypeOK
      BY <2>1, <3>1, <3>2, <3>5, TimerAssumption DEF Init, TypeOK
    <3> QED  BY <3>4, <3>6, <3>7 DEF Sound
  <2> QED  BY <2>1
<1>2. Sound /\ [Next]_vars => Sound'
  BY SoundStep
<1> QED  BY <1>1, <1>2, PTL DEF Spec
-----------------------------------------------------------------------------
(* The types the runs check, with ref_ the inverse of heap_.               *)
THEOREM TypeCorrect == Spec => []TypeOK
<1>1. Sound => TypeOK
  BY DEF Sound
<1> QED  BY <1>1, HeapIsSound, PTL

(* The vector is a heap after every add, adjust, del and doWork.           *)
THEOREM StaysHeap == Spec => []HeapOrdered
<1>1. Sound => HeapOrdered
  BY DEF Sound
<1> QED  BY <1>1, HeapIsSound, PTL

(* What getNextTick returns, while nothing but the clock moves on.         *)
LEMMA OversleepsStep ==
  ASSUME Sound, NeverOversleeps, [Next]_vars
  PROVE  NeverOversleeps'
<1>1. /\ \A k \in Places(timer) :
           timer.heap[1].expires =< timer.heap[k].expires /\ timer.heap # <<>>
           /\ timer.heap[k].expires \in Nat /\ timer.heap[1].expires \in Nat
      /\ now \in Nat /\ left \in {Forever} \cup Nat
  <2>1. Formed(timer) /\ Ordered(timer, Len(timer.heap))
    BY OrderedIsHeapOrdered DEF Sound
  <2>2. Places(timer) = 1..Len(timer.heap)
        /\ \A k \in 1..Len(timer.heap) : timer.heap[k].expires \in Nat
        /\ Len(timer.heap) \in Nat
    BY <2>1, FormedFacts, TimerAssumption
  <2>3. \A k \in Places(timer) : 1 \in 1..Len(timer.heap) /\ timer.heap # <<>>
    BY <2>2
  <2>4. now \in Nat /\ left \in {Forever} \cup Nat
    BY TimerAssumption DEF Sound, TypeOK
  <2> QED  BY <2>1, <2>2, <2>3, <2>4, FrontIsFirst
<1>2. CASE Sleep
  <2>1. ASSUME NEW k \in Places(timer)
        PROVE  left' # Forever /\ (left' > 0 => now + left' =< timer.heap[k].expires)
    <3>1. NextTick # Forever /\ NextTick * TicksPerMs \in 0..MaxNow
          /\ (NextTick * TicksPerMs > 0 => now + NextTick * TicksPerMs =< timer.heap[1].expires)
      BY <1>1, TickIsShort
    <3>2. PICK x \in Nat : x = NextTick * TicksPerMs
      BY <3>1, TimerAssumption
    <3>3. left' = x /\ (x > 0 => now + x =< timer.heap[1].expires)
      BY <1>2, <3>1, <3>2 DEF Sleep
    <3> QED  BY <1>1, <3>2, <3>3 DEF Forever
  <2> QED  BY <1>2, <2>1 DEF Sleep, NeverOversleeps, Places
<1>3. CASE Elapse
  <2>1. ASSUME pc = "asleep", NEW k \in Places(timer)
        PROVE  left' # Forever /\ (left' > 0 => now' + left' =< timer.heap[k].expires)
    BY <1>1, <1>3, <2>1 DEF Elapse, NeverOversleeps, Forever
  <2> QED  BY <1>3, <2>1 DEF Elapse, NeverOversleeps, Places
<1>4. CASE SetBack
  <2>1. PICK t \in 0..MaxNow : t < now /\ now' = t
    BY <1>4 DEF SetBack
  <2>2. ASSUME pc = "asleep", NEW k \in Places(timer)
        PROVE  left # Forever /\ (left > 0 => t + left =< timer.heap[k].expires)
    BY <1>1, <2>1, <2>2, TimerAssumption DEF NeverOversleeps, Forever
  <2> QED  BY <1>4, <2>1, <2>2 DEF SetBack, NeverOversleeps, Places
<1>5. CASE UNCHANGED vars
  BY <1>5 DEF vars, NeverOversleeps, Places
<1>6. CASE TickOne \/ TickDone \/ WakeByTimeout \/ WakeByEvent \/ EndBatch
  BY <1>6 DEF TickOne, TickDone, WakeByTimeout, WakeByEvent, EndBatch, NeverOversleeps
<1>7. CASE AddTimer \/ \E fd \in Fd : AdjustTimer(fd) \/ RemoveTimer(fd)
  BY <1>7 DEF AddTimer, AdjustTimer, RemoveTimer, Handler, NeverOversleeps
<1> QED
  BY <1>2, <1>3, <1>4, <1>5, <1>6, <1>7 DEF Next, Loop

(* epoll_wait is never told to sleep beyond the earliest deadline.         *)
THEOREM SleepsInTime == Spec => []NeverOversleeps
<1>1. Init => NeverOversleeps
  BY DEF Init, NeverOversleeps
<1>2. Sound /\ NeverOversleeps /\ [Next]_vars => NeverOversleeps'
  BY OversleepsStep
<1> QED  BY <1>1, <1>2, HeapIsSound, PTL DEF Spec
-----------------------------------------------------------------------------
(* The deadlines, as the set of timers has them.                           *)
Deadlines(t) == [f \in DOMAIN t.ref |-> t.heap[t.ref[f]].expires]

Without(d, fd) == [f \in DOMAIN d \ {fd} |-> d[f]]
With(d, fd, e) == [f \in DOMAIN d \cup {fd} |-> IF f = fd THEN e ELSE d[f]]

(* A node that is gone is a deadline less.                                 *)
LEMMA DropsRestricts ==
  ASSUME NEW t, NEW u, NEW fd, Drops(t, u, fd)
  PROVE  Deadlines(u) = Without(Deadlines(t), fd)
BY DEF Drops, Deadlines, Deadline, Without

(* A node with a new deadline, for a new descriptor or an old one.         *)
LEMMA SetsOne ==
  ASSUME NEW t, NEW u, NEW fd, NEW e, Sets(t, u, fd, e)
  PROVE  Deadlines(u) = With(Deadlines(t), fd, e)
<1>1. DOMAIN Deadlines(t) = DOMAIN t.ref /\ DOMAIN Deadlines(u) = DOMAIN t.ref \cup {fd}
  BY DEF Deadlines, Sets
<1>2. \A f \in DOMAIN Deadlines(u) : Deadlines(u)[f] = IF f = fd THEN e ELSE Deadlines(t)[f]
  BY DEF Sets, Deadlines, Deadline
<1> QED  BY <1>1, <1>2 DEF Deadlines, With

(* For an old one only its deadline is another.                            *)
LEMMA WithOld ==
  ASSUME NEW D, NEW d, DOMAIN d = D, d = [f \in D |-> d[f]], NEW fd \in D, NEW e
  PROVE  With(d, fd, e) = [d EXCEPT ![fd] = e]
<1>1. D \cup {fd} = D
  OBVIOUS
<1> QED  BY <1>1 DEF With

(* The heap does what a set of deadlines would: tick runs the callback of  *)
(* the earliest that has passed, the handlers start, restart and cancel.   *)
THEOREM Refines == Spec => ImplementsTimerSet
<1>1. Init => Timers!Init
  <2>1. ASSUME Init PROVE Timers!Init
    <3>1. timer.ref = <<>> /\ fired = NoFd /\ now = 0
      BY <2>1 DEF Init
    <3>2. DOMAIN timer.ref = {}
      BY <3>1
    <3>3. [f \in DOMAIN timer.ref |-> timer.heap[timer.ref[f]].expires] = <<>>
      BY <3>2
    <3> QED  BY <3>1, <3>3 DEF Timers!Init
  <2> QED  BY <2>1
<1>2. Sound /\ [Next]_vars => [Timers!Next]_<<Deadlines(timer), fired, now>>
  <2> SUFFICES ASSUME Sound, [Next]_vars
               PROVE  [Timers!Next]_<<Deadlines(timer), fired, now>>
    OBVIOUS
  <2>1. /\ DOMAIN Deadlines(timer) = DOMAIN timer.ref
        /\ \A f \in DOMAIN timer.ref : Deadlines(timer)[f] = Deadline(timer, f) /\ f \in Fd
    BY FormedFacts DEF Deadlines, Deadline, Sound
  <2>2. CASE TickOne
    <3>1. PICK fd \in DOMAIN timer.ref :
            /\ fired' = fd /\ Drops(timer, timer', fd)
            /\ Deadline(timer, fd) =< now
            /\ \A f \in DOMAIN timer.ref : Deadline(timer, fd) =< Deadline(timer, f)
      BY <2>2, TickOneDrops
    <3>2. Deadlines(timer') = Without(Deadlines(timer), fd)
      BY <3>1, DropsRestricts
    <3>3. now' = now
      BY <2>2 DEF TickOne
    <3>4. Timers!Fire(fd)
      BY <2>1, <3>1, <3>2, <3>3 DEF Timers!Fire, Timers!Restrict, Without, Deadlines
    <3> QED  BY <2>1, <3>4 DEF Timers!Next
  <2>3. CASE AddTimer
    <3>1. PICK fd \in Fd \ DOMAIN timer.ref : Sets(timer, timer', fd, now + Timeout)
      BY <2>3, AddTimerSets
    <3>2. Deadlines(timer') = With(Deadlines(timer), fd, now + Timeout)
      BY <3>1, SetsOne
    <3>3. fired' = NoFd /\ now' = now
      BY <2>3 DEF AddTimer, Handler
    <3>4. Timers!Start(fd)
      BY <2>1, <3>1, <3>2, <3>3 DEF Timers!Start, With, Deadlines
    <3> QED  BY <3>4 DEF Timers!Next
  <2>4. ASSUME NEW fd \in Fd, AdjustTimer(fd) PROVE Timers!Next
    <3>1. fired' = NoFd /\ now' = now
      BY <2>4 DEF AdjustTimer, Handler
    <3>2. CASE fd \in DOMAIN timer.ref
      <4>1. Sets(timer, timer', fd, now + Timeout)
        BY <2>4, <3>2, AdjustTimerSets
      <4>2. Deadlines(timer') = With(Deadlines(timer), fd, now + Timeout)
        BY <3>2, <4>1, SetsOne
      <4>3. Deadlines(timer') = [Deadlines(timer) EXCEPT ![fd] = now + Timeout]
        BY <2>1, <3>2, <4>2, WithOld DEF Deadlines
      <4>4. Timers!Restart(fd)
        BY <2>1, <3>1, <3>2, <4>3 DEF Timers!Restart, Deadlines
      <4> QED  BY <4>4 DEF Timers!Next
    <3>3. CASE fd \notin DOMAIN timer.ref
      <4>1. timer' = timer
        BY <2>4, <3>3, AdjustTimerSets
      <4>2. Drops(timer, timer', fd)
        BY <3>3, <4>1 DEF Drops
      <4>3. Deadlines(timer') = Without(Deadlines(timer), fd)
        BY <4>2, DropsRestricts
      <4>4. Timers!Cancel(fd)
        BY <3>1, <4>3 DEF Timers!Cancel, Timers!Restrict, Without, Deadlines
      <4> QED  BY <4>4 DEF Timers!Next
    <3> QED  BY <3>2, <3>3
  <2>5. ASSUME NEW fd \in Fd, RemoveTimer(fd) PROVE Timers!Next
    <3>1. fired' = NoFd /\ now' = now
      BY <2>5 DEF RemoveTimer, Handler
    <3>2. Drops(timer, timer', fd)
      BY <2>5, RemoveTimerDrops
    <3>3. Deadlines(timer') = Without(Deadlines(timer), fd)
      BY <3>2, DropsRestricts
    <3>4. Timers!Cancel(fd)
      BY <3>1, <3>3 DEF Timers!Cancel, Timers!Restrict, Without, Deadlines
    <3> QED  BY <3>4 DEF Timers!Next
  <2>6. CASE Elapse \/ SetBack
    <3>1. timer' = timer /\ fired' = fired /\ now' # now
      BY <2>6, TimerAssumption DEF Elapse, SetBack, Sound, TypeOK
    <3>2. Timers!ClockMoves
      BY <3>1 DEF Timers!ClockMoves
    <3> QED  BY <3>2 DEF Timers!Next
  <2>7. CASE TickDone \/ Sleep \/ WakeByTimeout \/ WakeByEvent \/ EndBatch \/ UNCHANGED vars
    <3>1. timer' = timer /\ fired' = fired /\ now' = now
      BY <2>7 DEF TickDone, Sleep, WakeByTimeout, WakeByEvent, EndBatch, vars
    <3> QED  BY <3>1 DEF Deadlines
  <2> QED
    BY <2>2, <2>3, <2>4, <2>5, <2>6, <2>7 DEF Next, Loop
<1> QED  BY <1>1, <1>2, HeapIsSound, PTL DEF Spec, ImplementsTimerSet, Timers!Spec, Deadlines
=============================================================================
