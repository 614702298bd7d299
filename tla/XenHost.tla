------------------------------- MODULE XenHost -------------------------------
(***************************************************************************)
(* The Xen host as the fault injectors of inject/ see it: the domains, the *)
(* xm commands, the libxc calls and the guests' own failures.  None of it  *)
(* is in the repository; each operator is what the calling code relies on. *)
(* Domain ids are handed out in ascending order and never reused.          *)
(***************************************************************************)
EXTENDS Integers, FiniteSets

CONSTANTS
  Guests,   \* the guest names (centos0, winxp, ...)
  NoGuest,  \* owner of an id that was never allocated
  MaxDom,   \* bound: the largest domain id the host may allocate
  Prompt    \* TRUE: an answering guest always answers within the timeout

ASSUME HostAssumption ==
  /\ NoGuest \notin Guests
  /\ MaxDom \in Nat
  /\ Prompt \in BOOLEAN

VARIABLES
  dom,      \* the domains, by id; an id keeps its record after its death
  nextId    \* the id the next xm restore allocates

hostVars == <<dom, nextId>>

DomIds == 1..MaxDom

Life == {"up", "hung", "crashed", "dying", "gone"}

(* flips: bit flips the memory received.  left: the life xm destroy took    *)
(* from the domain (only properties look at it).                            *)
Domain ==
  [owner : Guests \cup {NoGuest}, life : Life, paused : BOOLEAN, flips : Nat, left : Life]

NoDomain ==
  [owner |-> NoGuest, life |-> "gone", paused |-> FALSE, flips |-> 0, left |-> "gone"]

HostTypeOK ==
  /\ dom \in [DomIds -> Domain]
  /\ nextId \in 1..(MaxDom + 1)

HostInit ==
  /\ dom = [d \in DomIds |-> NoDomain]
  /\ nextId = 1

Present(d) == d \in DomIds /\ dom[d].life # "gone"

(* What xm list shows and xm destroy finds: a dying domain has lost its name. *)
Listed(d) == d \in DomIds /\ dom[d].life \in {"up", "hung", "crashed"}

Named(g) == {d \in DomIds : Listed(d) /\ dom[d].owner = g}

(* xc_domain_getinfo(handle, d, 1, &info) fills info with the first domain  *)
(* whose id is at least d, if there is one; the callers never look at       *)
(* info.domid.                                                              *)
InfoOf(d) ==
  {e \in DomIds : d <= e /\ Present(e) /\ \A f \in DomIds : d <= f /\ f < e => ~Present(f)}

(* info.running may be 1 (the guest is on a CPU at that moment). *)
MayRun(d) == dom[d].life \in {"up", "hung"} /\ ~dom[d].paused

(* The echo server of guest g answers at g's address. *)
Answers(g) == \E d \in Named(g) : dom[d].life = "up" /\ ~dom[d].paused

(* xm restore <g>.snapshot; the exit status of xm is never looked at. *)
XmRestore(g) ==
  \/ /\ Named(g) = {}
     /\ nextId <= MaxDom
     /\ dom' = [dom EXCEPT ![nextId] = [NoDomain EXCEPT !.owner = g, !.life = "up"]]
     /\ nextId' = nextId + 1
  \/ UNCHANGED hostVars

XmDestroyed(g) ==
  /\ \E d \in Named(g) :
       dom' = [dom EXCEPT ![d].life = "dying", ![d].paused = FALSE,
                          ![d].left = dom[d].life]
  /\ UNCHANGED nextId

(* xm destroy <g>: it works, or it fails and says so on stderr only. *)
XmDestroy(g) == XmDestroyed(g) \/ UNCHANGED hostVars

(* xc_domain_pause and xc_domain_unpause, whose results are not looked at. *)
SetPaused(d, b) ==
  /\ dom' = IF Listed(d) THEN [dom EXCEPT ![d].paused = b] ELSE dom
  /\ UNCHANGED nextId

(* One bit of the domain's memory is flipped through a mapped page. *)
Flip(d) ==
  /\ dom' = [dom EXCEPT ![d].flips = @ + 1]
  /\ UNCHANGED nextId

(* The guest stops answering (kernel panic, dead network), or Xen marks the *)
(* domain crashed.  A paused guest executes nothing.                        *)
GuestHangs(d) ==
  /\ dom[d].life = "up" /\ ~dom[d].paused
  /\ dom' = [dom EXCEPT ![d].life = "hung"]
  /\ UNCHANGED nextId

GuestCrashes(d) ==
  /\ dom[d].life \in {"up", "hung"} /\ ~dom[d].paused
  /\ dom' = [dom EXCEPT ![d].life = "crashed"]
  /\ UNCHANGED nextId

(* xend removes a crashed domain; the hypervisor finishes a dying one. *)
Reap(d) ==
  /\ dom[d].life \in {"crashed", "dying"}
  /\ dom' = [dom EXCEPT ![d].life = "gone", ![d].paused = FALSE]
  /\ UNCHANGED nextId

(* What is_guest_dead may return for domain d: 1 from the domain's state, 2 *)
(* when the heart beat failed.  beat: the guest it is sent to answers.      *)
IsGuestDead(d, beat) ==
  IF InfoOf(d) = {} \/ \E e \in InfoOf(d) : dom[e].life \in {"crashed", "dying"} THEN {1}
  ELSE IF ~beat THEN {2}
  ELSE IF Prompt THEN {0} ELSE {0, 2}

HostStep == \E d \in DomIds : GuestHangs(d) \/ GuestCrashes(d) \/ Reap(d)
=============================================================================
