------------------------------ MODULE Connection ------------------------------
(***************************************************************************)
(* An HttpConnection object as the reactor and the workers see it: the     *)
(* descriptor it owns, how much input it has buffered, how much of that    *)
(* its parser has been shown, what is left to send.  This module holds the *)
(* operations of the object; every one of them runs under the object's     *)
(* mtx_, which the module that owns the variables keeps.                   *)
(*                                                                         *)
(* Input is counted in segments, output in units.  What a segment says is  *)
(* left to the choice that Process makes among the results that a parse    *)
(* can have; a request may be complete after any number of segments.       *)
(***************************************************************************)
EXTENDS Integers

CONSTANTS
  Fd,        \* descriptor numbers client sockets can get
  NoFd,      \* fd_ = -1
  BufSegs,   \* segments that fill read_buf_ (READ_BUFFER_SIZE)
  MaxResp    \* units of the longest response, header and file together

ASSUME ConnectionAssumption ==
  /\ NoFd \notin Fd
  /\ BufSegs \in Nat \ {0}
  /\ MaxResp \in Nat \ {0}

(* The members the reactor's behaviour depends on.  seen is what the last  *)
(* process() handed to the parser.                                         *)
ConnObject ==
  [fd : Fd \cup {NoFd}, got : Nat, seen : Nat, toSend : Nat, haveSent : Nat,
   keepAlive : BOOLEAN]

(* The constructor, and init(fd, addr) on an object that had no socket.    *)
Unused == [fd |-> NoFd, got |-> 0, seen |-> 0, toSend |-> 0, haveSent |-> 0,
           keepAlive |-> FALSE]

Opened(fd) == [Unused EXCEPT !.fd = fd]

(* closeConn() and the destructor: the object gives up its descriptor.     *)
Released(c) == [c EXCEPT !.fd = NoFd]

(* A reset() that forgets the input index.                                 *)
RewoundKeepingInput(c) == [Opened(c.fd) EXCEPT !.got = c.got]

(* reset(): everything but the descriptor goes back to its initial value,  *)
(* whatever the read buffer still holds.                                   *)
Rewound(c) == Opened(c.fd)

-----------------------------------------------------------------------------
(* read(): the loop takes everything the socket has, and fails as soon as  *)
(* the buffer is full, even if nothing was left to read.                   *)
Filled(c, n) == c.got + n >= BufSegs

AfterRead(c, n) ==
  [c EXCEPT !.got = IF Filled(c, n) THEN BufSegs ELSE c.got + n]

ReadResult(c, n, peerState) ==
  CASE Filled(c, n) \/ peerState = "rst" -> "ERROR"
    [] ~Filled(c, n) /\ peerState = "fin" -> "PEER_CLOSE"
    [] OTHER -> "DONE"

-----------------------------------------------------------------------------
(* process(): the members it clears before it parses.                      *)
Cleared(c) == [c EXCEPT !.toSend = 0, !.haveSent = 0, !.seen = c.got]

(* The parse stops short: nothing to send, back to reading.                *)
Incomplete(c) == {[conn |-> Cleared(c), ready |-> FALSE]}

(* The parse fails: the fixed 400 response, and no keep-alive.             *)
BadRequest(c) ==
  IF c.got > 0
  THEN {[conn |-> [Cleared(c) EXCEPT !.keepAlive = FALSE, !.toSend = 1],
         ready |-> TRUE]}
  ELSE {}

(* A process() that ignores what makeResponse() returns.                   *)
UnansweredReady(c) ==
  IF c.got > 0
  THEN {[conn |-> [Cleared(c) EXCEPT !.keepAlive = k], ready |-> TRUE] : k \in BOOLEAN}
  ELSE {}

(* The request is complete but makeResponse() or prepareWrite() returns    *)
(* false (no such file, a directory, not readable, nothing to map): no     *)
(* response is prepared, and the connection goes back to reading.          *)
Unanswered(c) ==
  IF c.got > 0
  THEN {[conn |-> [Cleared(c) EXCEPT !.keepAlive = k], ready |-> FALSE] : k \in BOOLEAN}
  ELSE {}

(* The request is complete and its response is laid out for writev.        *)
Answered(c) ==
  IF c.got > 0
  THEN UNION {{[conn |-> [Cleared(c) EXCEPT !.keepAlive = k, !.toSend = n], ready |-> TRUE] :
                 k \in BOOLEAN} : n \in 1..MaxResp}
  ELSE {}

Process(c) == Incomplete(c) \cup BadRequest(c) \cup Unanswered(c) \cup Answered(c)

-----------------------------------------------------------------------------
(* write(): with nothing to send it reports DONE at once.  Otherwise it    *)
(* loops until all is sent, the socket takes no more, or it fails.  room   *)
(* is what is left of the socket's send buffer.                            *)
Sent(c, n) == [c EXCEPT !.toSend = c.toSend - n, !.haveSent = c.haveSent + n]

(* A write() without the loop: it returns after one writev.                *)
WriteOnce(c, room, peerState) ==
  IF c.toSend = 0 THEN {[conn |-> c, res |-> "DONE", room |-> room]}
  ELSE IF peerState = "rst" THEN {[conn |-> c, res |-> "ERROR", room |-> room]}
  ELSE IF ~room THEN {[conn |-> c, res |-> "AGAIN", room |-> FALSE]}
  ELSE {[conn |-> Sent(c, n), res |-> IF n = c.toSend THEN "DONE" ELSE "AGAIN", room |-> r] :
          n \in 1..c.toSend, r \in BOOLEAN}

(* A write() that counts a byte too many.                                  *)
WriteOverrun(c, room, peerState) ==
  IF c.toSend = 0 THEN {[conn |-> c, res |-> "DONE", room |-> room]}
  ELSE {[conn |-> Sent(c, c.toSend + 1), res |-> "DONE", room |-> room]}

Write(c, room, peerState) ==
  IF c.toSend = 0 THEN {[conn |-> c, res |-> "DONE", room |-> room]}
  ELSE IF peerState = "rst" THEN {[conn |-> c, res |-> "ERROR", room |-> room]}
  ELSE IF ~room THEN {[conn |-> c, res |-> "AGAIN", room |-> FALSE]}
  ELSE {[conn |-> Sent(c, c.toSend), res |-> "DONE", room |-> r] : r \in BOOLEAN}
       \cup {[conn |-> Sent(c, n), res |-> "AGAIN", room |-> FALSE] : n \in 1..(c.toSend - 1)}
=============================================================================
