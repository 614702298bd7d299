------------------------------ MODULE Heartbeat ------------------------------
(***************************************************************************)
(* is_guest_dead with tcp_util.c, call by call: ask libxc for the domain,  *)
(* connect to the guest's echo server, send a number and compare the echo. *)
(* Each call may fail on its own and has its own way of giving up.         *)
(***************************************************************************)
EXTENDS Integers

CONSTANTS
  Base,        \* descriptors the process holds outside is_guest_dead
  MaxFds,      \* the limit of descriptors of a process
  MaxRetries   \* bound: how often the way back to re_destroy asks again

ASSUME HeartbeatAssumption ==
  /\ {Base, MaxFds, MaxRetries} \subseteq Nat
  /\ Base <= MaxFds

VARIABLES
  reliable, \* socket, getaddrinfo, dup and fdopen work, the network is prompt
  pc,       \* where the process is in is_guest_dead
  open,     \* how many descriptors it holds
  retries,  \* how often it asked again after a verdict other than 0
  life,     \* the guest
  reply,    \* what came back on the current connection
  seen,     \* the lives of the guest since the call began
  rc        \* the latest verdict

vars == <<reliable, pc, open, retries, life, reply, seen, rc>>

Calling == pc \notin {"idle", "killed"}

(* wrong: other digits than the ones sent, or too few. *)
Replies == {"none", "digits", "wrong"}

TypeOK ==
  /\ reliable \in BOOLEAN
  /\ pc \in {"idle", "getinfo", "socket", "resolve", "connect", "dup", "in", "out",
             "send", "read", "close", "killed"}
  /\ open \in 0..MaxFds
  /\ retries \in 0..MaxRetries
  /\ life \in {"up", "sick", "crashed", "gone"}
  /\ reply \in Replies
  /\ seen \subseteq {"up", "sick", "crashed", "gone"}
  /\ rc \in {0, 1, 2}

Init ==
  /\ reliable \in BOOLEAN
  /\ pc = "idle" /\ open = Base /\ retries = 0
  /\ life \in {"up", "sick", "crashed", "gone"}
  /\ reply = "none" /\ seen = {} /\ rc = 0

GuestCheck == INSTANCE GuestCheck WITH asked <- Calling

(* The injection loop asks again after a 0 only; re_destroy after any. *)
Call ==
  /\ pc = "idle"
  /\ \/ rc = 0 /\ UNCHANGED retries
     \/ rc # 0 /\ retries < MaxRetries /\ retries' = retries + 1
  /\ pc' = "getinfo" /\ reply' = "none" /\ seen' = {life}
  /\ UNCHANGED <<reliable, open, life, rc>>

(* A step of the call from one place to the next; fds descriptors more. *)
Step(from, to, fds) ==
  /\ pc = from
  /\ pc' = to
  /\ open' = open + fds
  /\ UNCHANGED <<reliable, retries, life, seen, reply, rc>>

(* return v, after closing -fds descriptors. *)
Return(from, v, fds) ==
  /\ pc = from
  /\ pc' = "idle" /\ rc' = v
  /\ open' = open + fds
  /\ UNCHANGED <<reliable, retries, life, seen, reply>>

(* Without the domain, libxc may describe the next one instead. *)
GetInfo ==
  \/ life \in {"crashed", "gone"} /\ Return("getinfo", 1, 0)
  \/ life # "crashed" /\ Step("getinfo", "socket", 0)

Socket ==
  \/ open < MaxFds /\ Step("socket", "resolve", 1)
  \/ (open = MaxFds \/ ~reliable) /\ Return("socket", 2, 0)

(* An unknown host: tcp_connect returns without closing its socket. *)
Resolve ==
  \/ Step("resolve", "connect", 0)
  \/ ~reliable /\ Return("resolve", 2, 0)

(* The kernel of a sick guest may still accept; nothing else does. *)
Connect ==
  \/ life \in {"up", "sick"} /\ Step("connect", "dup", 0)
  \/ (life # "up" \/ ~reliable) /\ Return("connect", 2, -1)

(* tcp_open_stream gives back what it took itself, and nobody the socket. *)
Dup ==
  \/ open < MaxFds /\ Step("dup", "in", 1)
  \/ (open = MaxFds \/ ~reliable) /\ Return("dup", 2, 0)

OpenIn ==
  \/ Step("in", "out", 0)
  \/ ~reliable /\ Return("in", 2, -1)

OpenOut ==
  \/ Step("out", "send", 0)
  \/ ~reliable /\ Return("out", 2, -1)

(* Writing to a connection that was reset kills the process. *)
Send ==
  \/ Step("send", "read", 0)
  \/ /\ life # "up" \/ ~reliable
     /\ pc = "send"
     /\ pc' = "killed" /\ open' = 0
     /\ UNCHANGED <<reliable, retries, life, seen, reply, rc>>

(* The guest's answer, as far as fgets will read it; it may never come.     *)
Answer ==
  /\ pc = "read" /\ reply = "none"
  /\ \/ life = "up" /\ reply' = "digits"
     \/ life = "sick" /\ reply' = "wrong"
  /\ UNCHANGED <<reliable, pc, open, retries, life, seen, rc>>

(* The slip of a socket without a timeout. *)
ReadWithoutTimeout ==
  /\ reply # "none" \/ life \notin {"up", "sick"}
  /\ Step("read", "close", 0)

(* fgets: a line, the first send_num bytes of one, the end of the stream,   *)
(* or nothing for 3.5 s.                                                    *)
Read ==
  /\ reply # "none" \/ life # "up" \/ ~reliable
  /\ Step("read", "close", 0)

(* Slips: in is not closed, is closed twice, or rbuf is not looked at. *)
CloseOut == Return("close", IF reply = "digits" THEN 0 ELSE 2, -1)
CloseInTwice == Return("close", IF reply = "digits" THEN 0 ELSE 2, -3)
CloseUnread == Return("close", 0, -2)

(* memcmp over the digits, and both streams are closed. *)
Close == Return("close", IF reply = "digits" THEN 0 ELSE 2, -2)

CallStep ==
  \/ GetInfo \/ Socket \/ Resolve \/ Connect \/ Dup \/ OpenIn \/ OpenOut
  \/ Send \/ Read \/ Close

GuestWorsens ==
  /\ \E pair \in GuestCheck!Worse : life = pair[1] /\ life' = pair[2]
  /\ seen' = IF Calling THEN seen \cup {life'} ELSE seen
  /\ UNCHANGED <<reliable, pc, open, retries, reply, rc>>

Next == Call \/ CallStep \/ Answer \/ GuestWorsens

Spec == Init /\ [][Next]_vars

-----------------------------------------------------------------------------

(* A call leaks at most one descriptor, and only with verdict 2: the        *)
(* millions of calls that find the guest alive are as good as one           *)
(* (experiment_base.c:101-135, tcp_util.c:43-64,92-114).                    *)
LeakBound == pc = "idle" => open <= Base + retries + (IF rc = 2 THEN 1 ELSE 0)

(* The process never lacks a descriptor, so that no guest is taken for dead *)
(* because of the test itself: the callers do not ask again after a leak,   *)
(* but on the way back to re_destroy (experiment_once.c:111-115,127-148).   *)
NeverOutOfFds == pc = "socket" => open + 2 <= MaxFds

(* Every call ends or the process does: connect, send and receive are       *)
(* bounded in time (tcp_util.c:152-160).                                    *)
Returns == Calling ~> ~Calling

(* is_guest_dead keeps the promise of GuestCheck, though the guest may get  *)
(* worse between any two of its steps (experiment_base.c:88-136).           *)
KeepsPromise == GuestCheck!Spec

FairSpec == Spec /\ WF_vars(CallStep) /\ WF_vars(life = "up" /\ Answer)
=============================================================================
