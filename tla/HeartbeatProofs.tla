--------------------------- MODULE HeartbeatProofs ---------------------------
(***************************************************************************)
(* For every limit and every number of retries: is_guest_dead does not run *)
(* out of descriptors, and it keeps the promise of GuestCheck.             *)
(***************************************************************************)
EXTENDS Heartbeat, TLAPS

(* The descriptors the call under way holds. *)
Own ==
  IF pc \in {"resolve", "connect", "dup"} THEN 1
  ELSE IF pc \in {"in", "out", "send", "read", "close"} THEN 2
  ELSE 0

(* What the latest call may have left behind. *)
Fresh == IF pc = "idle" /\ rc = 2 THEN 1 ELSE 0

Descriptors ==
  /\ open <= Base + retries + Own + Fresh
  /\ pc # "killed" => Base + Own <= open

(* The life of the guest and its reply are known from what was seen. *)
SeenFits ==
  /\ Calling => life \in seen
  /\ Calling /\ reply = "digits" => "up" \in seen
  /\ Calling /\ reply = "wrong" => "sick" \in seen
  /\ reliable /\ pc = "close" /\ reply # "digits" => seen # {"up"}

IInv == TypeOK /\ Descriptors /\ SeenFits

LEMMA InitIInv == Init => IInv
<1> SUFFICES ASSUME Init PROVE IInv
  OBVIOUS
<1>1. TypeOK
  BY HeartbeatAssumption DEF Init, TypeOK, Replies
<1>2. Descriptors
  BY HeartbeatAssumption DEF Init, Descriptors, Own, Fresh
<1>3. SeenFits
  BY DEF Init, SeenFits, Calling
<1>4. QED
  BY <1>1, <1>2, <1>3 DEF IInv

(* The disjuncts of CallStep that go on, and those that return. *)
LEMMA StepIInv ==
  ASSUME IInv, NEW from, NEW to, NEW fds \in {0, 1}, Step(from, to, fds),
         open + fds <= MaxFds,
         <<from, to, fds>> \in {<<"getinfo", "socket", 0>>, <<"socket", "resolve", 1>>,
                               <<"resolve", "connect", 0>>, <<"connect", "dup", 0>>,
                               <<"dup", "in", 1>>, <<"in", "out", 0>>, <<"out", "send", 0>>,
                               <<"send", "read", 0>>, <<"read", "close", 0>>},
         from = "read" => reply # "none" \/ life # "up" \/ ~reliable
  PROVE  IInv'
<1>1. TypeOK'
  BY DEF IInv, TypeOK, Step
<1>2. Descriptors'
  BY HeartbeatAssumption DEF IInv, TypeOK, Descriptors, Own, Fresh, Step
<1>3. SeenFits'
  BY DEF IInv, TypeOK, SeenFits, Calling, Replies, Step
<1>4. QED
  BY <1>1, <1>2, <1>3 DEF IInv

LEMMA ReturnIInv ==
  ASSUME IInv, NEW from, NEW v \in {1, 2}, NEW fds \in {-1, 0}, Return(from, v, fds),
         <<from, v, fds>> \in {<<"getinfo", 1, 0>>, <<"socket", 2, 0>>, <<"resolve", 2, 0>>,
                              <<"connect", 2, -1>>, <<"dup", 2, 0>>, <<"in", 2, -1>>,
                              <<"out", 2, -1>>}
  PROVE  IInv'
<1>1. TypeOK'
  BY HeartbeatAssumption DEF IInv, TypeOK, Descriptors, Own, Return
<1>2. Descriptors'
  BY HeartbeatAssumption DEF IInv, TypeOK, Descriptors, Own, Fresh, Return
<1>3. SeenFits'
  BY DEF IInv, SeenFits, Calling, Return
<1>4. QED
  BY <1>1, <1>2, <1>3 DEF IInv

LEMMA NextIInv == IInv /\ [Next]_vars => IInv'
<1> SUFFICES ASSUME IInv, [Next]_vars PROVE IInv'
  OBVIOUS
<1>0. TypeOK /\ open \in 0..MaxFds
  BY DEF IInv, TypeOK
<1>1. CASE Call
  <2>1. TypeOK'
    BY <1>0, <1>1, HeartbeatAssumption DEF Call, TypeOK, Replies
  <2>2. Descriptors'
    BY <1>0, <1>1, HeartbeatAssumption DEF Call, IInv, TypeOK, Descriptors, Own, Fresh
  <2>3. SeenFits'
    BY <1>1 DEF Call, SeenFits, Calling
  <2>4. QED
    BY <2>1, <2>2, <2>3 DEF IInv
<1>2. CASE GetInfo \/ Socket \/ Resolve
  BY <1>0, <1>2, StepIInv, ReturnIInv, HeartbeatAssumption DEF GetInfo, Socket, Resolve
<1>3. CASE Connect \/ Dup
  BY <1>0, <1>3, StepIInv, ReturnIInv, HeartbeatAssumption DEF Connect, Dup
<1>4. CASE OpenIn \/ OpenOut \/ Read
  BY <1>0, <1>4, StepIInv, ReturnIInv, HeartbeatAssumption DEF OpenIn, OpenOut, Read
<1>5. CASE Send
  <2>1. CASE Step("send", "read", 0)
    BY <1>0, <2>1, StepIInv, HeartbeatAssumption
  <2>2. CASE pc' = "killed" /\ open' = 0 /\ UNCHANGED <<reliable, retries, life, seen, reply, rc>>
    BY <1>0, <2>2, HeartbeatAssumption
       DEF IInv, TypeOK, Descriptors, Own, Fresh, SeenFits, Calling
  <2>3. QED
    BY <1>5, <2>1, <2>2 DEF Send
<1>6. CASE Close
  <2>1. TypeOK'
    BY <1>0, <1>6, HeartbeatAssumption DEF Close, Return, IInv, TypeOK, Descriptors, Own
  <2>2. Descriptors'
    BY <1>0, <1>6, HeartbeatAssumption
       DEF Close, Return, IInv, TypeOK, Descriptors, Own, Fresh
  <2>3. SeenFits'
    BY <1>6 DEF Close, Return, SeenFits, Calling
  <2>4. QED
    BY <2>1, <2>2, <2>3 DEF IInv
<1>7. CASE Answer
  BY <1>7 DEF Answer, IInv, TypeOK, Replies, Descriptors, Own, Fresh, SeenFits, Calling
<1>8. CASE GuestWorsens
  <2>1. TypeOK'
    <3>1. life' \in {"sick", "crashed", "gone"}
      BY <1>8 DEF GuestWorsens, GuestCheck!Worse
    <3>2. seen' \subseteq {"up", "sick", "crashed", "gone"}
      BY <1>0, <1>8, <3>1 DEF GuestWorsens, TypeOK
    <3>3. QED
      BY <1>0, <1>8, <3>1, <3>2 DEF GuestWorsens, TypeOK
  <2>2. Descriptors'
    BY <1>8 DEF GuestWorsens, IInv, Descriptors, Own, Fresh
  <2>3. SeenFits'
    BY <1>8 DEF GuestWorsens, GuestCheck!Worse, IInv, TypeOK, SeenFits, Calling
  <2>4. QED
    BY <2>1, <2>2, <2>3 DEF IInv
<1>9. CASE UNCHANGED vars
  BY <1>9 DEF vars, IInv, TypeOK, Descriptors, Own, Fresh, SeenFits, Calling
<1>10. QED
  BY <1>1, <1>2, <1>3, <1>4, <1>5, <1>6, <1>7, <1>8, <1>9 DEF Next, CallStep

THEOREM Invariant == Spec => []IInv
<1>1. QED
  BY InitIInv, NextIInv, PTL DEF Spec

(* The variables of a call keep their types, whatever the calls return.     *)
THEOREM TypeCorrect == Spec => []TypeOK
<1>1. IInv => TypeOK
  BY DEF IInv
<1>2. QED
  BY <1>1, Invariant, PTL

(* A call leaks at most one descriptor, and only with the verdict 2.        *)
THEOREM LeakBoundHolds == Spec => []LeakBound
<1>1. IInv => LeakBound
  BY HeartbeatAssumption DEF IInv, TypeOK, Descriptors, Own, Fresh, LeakBound
<1>2. QED
  BY <1>1, Invariant, PTL

(* Two descriptors above the callers' own and one for each retry are enough *)
(* for every call.                                                          *)
THEOREM NeverOutOfFdsHolds ==
  ASSUME Base + MaxRetries + 2 <= MaxFds
  PROVE  Spec => []NeverOutOfFds
<1>1. IInv => NeverOutOfFds
  BY HeartbeatAssumption DEF IInv, TypeOK, Descriptors, Own, Fresh, NeverOutOfFds
<1>2. QED
  BY <1>1, Invariant, PTL

-----------------------------------------------------------------------------
(* is_guest_dead implements GuestCheck: a step that goes on is a stuttering *)
(* step, a return tells a verdict that what was seen justifies.             *)

LEMMA ReturnTells ==
  ASSUME NEW from, NEW v \in {0, 1, 2}, NEW fds, Return(from, v, fds),
         from \notin {"idle", "killed"}, GuestCheck!Justified(v)
  PROVE  GuestCheck!Next
BY DEF Return, GuestCheck!Next, GuestCheck!Tell, Calling

LEMMA StepStutters ==
  ASSUME NEW from, NEW to, NEW fds, Step(from, to, fds),
         from \notin {"idle", "killed"}, to \notin {"idle", "killed"}
  PROVE  UNCHANGED GuestCheck!vars
BY DEF Step, GuestCheck!vars, Calling

LEMMA CallStepImplements ==
  ASSUME Base + MaxRetries + 2 <= MaxFds, IInv, CallStep
  PROVE  GuestCheck!Next \/ UNCHANGED GuestCheck!vars
<1>0. open \in Nat /\ MaxFds \in Nat
  BY HeartbeatAssumption DEF IInv, TypeOK
<1>1. /\ pc \in {"socket", "dup"} => open < MaxFds
      /\ Calling => life \in seen
  BY HeartbeatAssumption DEF IInv, TypeOK, Descriptors, Own, Fresh, SeenFits
<1>2. CASE GetInfo
  <2>1. ASSUME life \in {"crashed", "gone"}, Return("getinfo", 1, 0)
        PROVE  GuestCheck!Justified(1)
    BY <1>1, <2>1 DEF Return, Calling, GuestCheck!Justified
  <2>2. QED
    BY <1>2, <2>1, ReturnTells, StepStutters DEF GetInfo
<1>3. CASE Socket \/ Resolve \/ Dup \/ OpenIn \/ OpenOut
  <2>1. ~reliable => GuestCheck!Justified(2)
    BY DEF GuestCheck!Justified
  <2>2. CASE Socket
    <3>1. \/ Step("socket", "resolve", 1)
          \/ ~reliable /\ Return("socket", 2, 0)
      <4>1. ASSUME Return("socket", 2, 0) PROVE open # MaxFds
        BY <1>0, <1>1, <4>1 DEF Return
      <4>2. QED
        BY <2>2, <4>1 DEF Socket
    <3>2. QED
      BY <2>1, <3>1, ReturnTells, StepStutters
  <2>3. CASE Dup
    <3>1. \/ Step("dup", "in", 1)
          \/ ~reliable /\ Return("dup", 2, 0)
      <4>1. ASSUME Return("dup", 2, 0) PROVE open # MaxFds
        BY <1>0, <1>1, <4>1 DEF Return
      <4>2. QED
        BY <2>3, <4>1 DEF Dup
    <3>2. QED
      BY <2>1, <3>1, ReturnTells, StepStutters
  <2>4. CASE Resolve
    BY <2>1, <2>4, ReturnTells, StepStutters DEF Resolve
  <2>5. CASE OpenIn \/ OpenOut
    BY <2>1, <2>5, ReturnTells, StepStutters DEF OpenIn, OpenOut
  <2>6. QED
    BY <1>3, <2>2, <2>3, <2>4, <2>5
<1>4. CASE Connect
  <2>1. ASSUME life # "up" \/ ~reliable, Return("connect", 2, -1)
        PROVE  GuestCheck!Justified(2)
    BY <1>1, <2>1 DEF Return, Calling, GuestCheck!Justified
  <2>2. QED
    BY <1>4, <2>1, ReturnTells, StepStutters DEF Connect
<1>5. CASE Send
  <2>1. CASE Step("send", "read", 0)
    BY <2>1, StepStutters
  <2>2. CASE pc = "send" /\ pc' = "killed" /\ UNCHANGED <<reliable, life, seen, rc>>
    BY <2>2 DEF GuestCheck!Next, GuestCheck!Silence, Calling
  <2>3. QED
    BY <1>5, <2>1, <2>2 DEF Send
<1>6. CASE Read
  BY <1>6, StepStutters DEF Read
<1>7. CASE Close
  <2>1. CASE reply = "digits"
    <3>1. pc = "close" /\ Return("close", 0, -2)
      BY <1>7, <2>1 DEF Close, Return
    <3>2. GuestCheck!Justified(0)
      BY <2>1, <3>1 DEF IInv, SeenFits, Calling, GuestCheck!Justified
    <3>3. QED
      BY <3>1, <3>2, ReturnTells
  <2>2. CASE reply # "digits"
    <3>1. pc = "close" /\ Return("close", 2, -2)
      BY <1>7, <2>2 DEF Close, Return
    <3>2. GuestCheck!Justified(2)
      BY <2>2, <3>1 DEF IInv, SeenFits, GuestCheck!Justified
    <3>3. QED
      BY <3>1, <3>2, ReturnTells
  <2>3. QED
    BY <2>1, <2>2
<1>8. QED
  BY <1>2, <1>3, <1>4, <1>5, <1>6, <1>7 DEF CallStep

(* With descriptors enough, every behaviour of is_guest_dead is one that    *)
(* GuestCheck allows.                                                       *)
THEOREM Implementation ==
  ASSUME Base + MaxRetries + 2 <= MaxFds
  PROVE  Spec => KeepsPromise
<1>1. Init => GuestCheck!Init
  BY DEF Init, GuestCheck!Init, Calling
<1>2. IInv /\ [Next]_vars => [GuestCheck!Next]_(GuestCheck!vars)
  <2> SUFFICES ASSUME IInv, [Next]_vars
               PROVE  GuestCheck!Next \/ UNCHANGED GuestCheck!vars
    OBVIOUS
  <2>1. CASE Call
    BY <2>1 DEF Call, Calling, GuestCheck!Next, GuestCheck!Ask
  <2>2. CASE CallStep
    BY <2>2, CallStepImplements
  <2>3. CASE Answer
    BY <2>3 DEF Answer, Calling, GuestCheck!vars
  <2>4. CASE GuestWorsens
    BY <2>4 DEF GuestWorsens, Calling, GuestCheck!Next, GuestCheck!GuestWorsens
  <2>5. CASE UNCHANGED vars
    BY <2>5 DEF vars, Calling, GuestCheck!vars
  <2>6. QED
    BY <2>1, <2>2, <2>3, <2>4, <2>5 DEF Next
<1>3. QED
  BY <1>1, <1>2, Invariant, PTL DEF Spec, KeepsPromise, GuestCheck!Spec

=============================================================================
