--------------------------- MODULE RandomWithPause ---------------------------
(***************************************************************************)
(* random_with_pause.out, started again and again by experiment.sh: for    *)
(* every slice of bits pause the guest, flip that many bits, let it go on, *)
(* look whether it lives, and destroy and restore it.                      *)
(***************************************************************************)
EXTENDS XenHost

CONSTANTS
  GUEST_NAME,       \* the one guest of the program
  Slices,           \* how many values current_bits takes
  BITS_SLICE,
  EX_COUNT,
  Runs,             \* experiment.sh: the number of processes
  FirstDom,         \* experiment.sh: the id of the guest's domain at the start
  MaxForkFails      \* bound: how often fork() may fail, over all processes

ASSUME PauseAssumption ==
  /\ GUEST_NAME \in Guests
  /\ {Slices, BITS_SLICE, EX_COUNT, Runs, MaxForkFails} \subseteq Nat
  /\ EX_COUNT > 0
  /\ FirstDom \in DomIds

VARIABLES
  proc,       \* the local variables of the process
  count,      \* experiment.sh: how many processes it has started
  forkFails

pauseVars == <<proc, count, forkFails>>
vars == <<hostVars, pauseVars>>

(* attack: attack_count.  cleaned: xa_destroy has run since the last init. *)
Off ==
  [pc |-> "off", dom_id |-> 0, slice |-> 1, ex_count |-> 0, init |-> FALSE,
   injected |-> 0, attack |-> 0, cleaned |-> FALSE]

Process ==
  [pc : {"off", "init", "pause", "inject", "unpause", "check", "destroy", "restore"},
   dom_id : Nat, slice : 1..(Slices + 1), ex_count : -1..EX_COUNT, init : BOOLEAN,
   injected : Nat, attack : Nat, cleaned : BOOLEAN]

TypeOK ==
  /\ HostTypeOK
  /\ proc \in Process
  /\ count \in 0..Runs
  /\ forkFails \in 0..MaxForkFails

(* Whoever starts experiment.sh has booted the guest. *)
Init ==
  /\ dom = [d \in DomIds |->
              IF d = FirstDom THEN [NoDomain EXCEPT !.owner = GUEST_NAME, !.life = "up"]
                              ELSE NoDomain]
  /\ nextId = FirstDom + 1
  /\ proc = Off
  /\ count = 0
  /\ forkFails = 0

At(label) == proc.pc = label
Goto(label) == proc' = [proc EXCEPT !.pc = label]

current_bits == BITS_SLICE * proc.slice

(* dom_id was incremented in the call of init. *)
Target == proc.dom_id - 1

(* The slip of a slice that goes on with the domain of the one before. *)
NextSliceSameDomain ==
  IF proc.slice < Slices
  THEN [proc EXCEPT !.pc = "init", !.slice = @ + 1, !.ex_count = 0, !.init = FALSE,
                    !.cleaned = FALSE, !.dom_id = @ - 1]
  ELSE Off

(* The next value of current_bits, or the end of the process. *)
NextSlice ==
  IF proc.slice < Slices
  THEN [proc EXCEPT !.pc = "init", !.slice = @ + 1, !.ex_count = 0, !.init = FALSE,
                    !.cleaned = FALSE]
  ELSE Off

(* The slip of counting from 0 to the number of processes. *)
StartOneMore ==
  /\ At("off") /\ count <= Runs
  /\ proc' = [Off EXCEPT !.pc = "init", !.dom_id = FirstDom + count]
  /\ count' = count + 1
  /\ UNCHANGED <<hostVars, forkFails>>

Start ==
  /\ At("off") /\ count < Runs
  /\ proc' = [Off EXCEPT !.pc = "init", !.dom_id = FirstDom + count]
  /\ count' = count + 1
  /\ UNCHANGED <<hostVars, forkFails>>

XaInit ==
  /\ At("init")
  /\ Listed(proc.dom_id)
  /\ proc' = [proc EXCEPT !.pc = "pause", !.init = TRUE, !.dom_id = @ + 1,
                          !.injected = 0, !.attack = 0]
  /\ UNCHANGED <<hostVars, count, forkFails>>

XaInitFails ==
  /\ At("init")
  /\ ~Listed(proc.dom_id)
  /\ proc' = [proc EXCEPT !.pc = "check", !.dom_id = @ + 1, !.ex_count = @ - 1]
  /\ UNCHANGED <<hostVars, count, forkFails>>

(* The slip of experiment_once.c: dom_id is one ahead. *)
PauseNext ==
  /\ At("pause")
  /\ SetPaused(proc.dom_id, TRUE)
  /\ Goto("inject")
  /\ UNCHANGED <<count, forkFails>>

PauseDomain ==
  /\ At("pause")
  /\ SetPaused(Target, TRUE)
  /\ Goto("inject")
  /\ UNCHANGED <<count, forkFails>>

(* A draw in the VGA hole uses up one of the bits without a flip. *)
InjectBit ==
  /\ At("inject")
  /\ proc.injected < current_bits
  /\ \/ /\ Listed(Target)
        /\ Flip(Target)
        /\ proc' = [proc EXCEPT !.injected = @ + 1, !.attack = @ + 1]
     \/ /\ proc' = [proc EXCEPT !.injected = @ + 1]
        /\ UNCHANGED hostVars
  /\ UNCHANGED <<count, forkFails>>

(* All bits are drawn, or a page cannot be mapped, which may be any. *)
StopInjecting ==
  /\ At("inject")
  /\ Goto("unpause")
  /\ UNCHANGED <<hostVars, count, forkFails>>

(* The slip of a process that forgets to unpause. *)
LeavePaused ==
  /\ At("unpause")
  /\ Goto("check")
  /\ UNCHANGED <<hostVars, count, forkFails>>

UnpauseDomain ==
  /\ At("unpause")
  /\ SetPaused(Target, FALSE)
  /\ Goto("check")
  /\ UNCHANGED <<count, forkFails>>

Verdicts == IsGuestDead(Target, Answers(GUEST_NAME))

(* Label create_guest_again.  A dead guest ends the slice: the break comes  *)
(* before the line of the log, which is never written, and before destroy   *)
(* and restore.                                                             *)
CheckGuest ==
  /\ At("check")
  /\ \E rc \in Verdicts :
       proc' = IF rc # 0 THEN NextSlice
                         ELSE [proc EXCEPT !.pc = "destroy", !.cleaned = TRUE]
  /\ UNCHANGED <<hostVars, count, forkFails>>

(* SIGPIPE of a heart beat, or the second xa_destroy of a retry. *)
Dies ==
  /\ At("check")
  /\ InfoOf(Target) # {}
  /\ Named(GUEST_NAME) # {} \/ (proc.cleaned /\ 0 \in Verdicts)
  /\ proc' = Off
  /\ UNCHANGED <<hostVars, count, forkFails>>

ForkFails ==
  /\ proc.pc \in {"destroy", "restore"}
  /\ forkFails < MaxForkFails
  /\ forkFails' = forkFails + 1
  /\ Goto("check")
  /\ UNCHANGED <<hostVars, count>>

(* The slip of a destroy that is tried until the guest is gone. *)
DestroyUntilGone ==
  /\ At("destroy")
  /\ XmDestroy(GUEST_NAME)
  /\ Goto(IF dom' = dom THEN "check" ELSE "restore")
  /\ UNCHANGED <<count, forkFails>>

DestroyDomain ==
  /\ At("destroy")
  /\ XmDestroy(GUEST_NAME)
  /\ Goto("restore")
  /\ UNCHANGED <<count, forkFails>>

(* ex_count grows here and in the head of the loop. *)
RestoreDomain ==
  /\ At("restore")
  /\ XmRestore(GUEST_NAME)
  /\ proc' = IF proc.ex_count + 2 < EX_COUNT
             THEN [proc EXCEPT !.pc = "init", !.ex_count = @ + 2, !.init = FALSE,
                               !.cleaned = FALSE]
             ELSE NextSlice
  /\ UNCHANGED <<count, forkFails>>

ProcessStep ==
  \/ XaInit \/ XaInitFails \/ PauseDomain \/ InjectBit \/ StopInjecting
  \/ UnpauseDomain \/ CheckGuest \/ Dies \/ ForkFails \/ DestroyDomain \/ RestoreDomain

(* experiment.sh has started all its processes. *)
Ended == At("off") /\ count = Runs

Next ==
  \/ Start
  \/ ProcessStep
  \/ HostStep /\ UNCHANGED pauseVars
  \/ Ended /\ UNCHANGED vars

Spec == Init /\ [][Next]_vars

(* Nothing stops the shell or its process for good. *)
FairSpec == Spec /\ WF_vars(Start) /\ WF_vars(ProcessStep)

-----------------------------------------------------------------------------
(* All bits of a slice hit a guest that does not run: the pause is for the  *)
(* domain that is injected into (random_with_pause.c:83-114).               *)
InjectsIntoPausedGuest == At("inject") /\ Listed(Target) => dom[Target].paused

(* No guest is left paused, wherever the process ends or jumps to           *)
(* (random_with_pause.c:116-138).                                           *)
OnlyTargetPaused ==
  \A d \in DomIds :
    dom[d].paused => d = Target /\ proc.pc \in {"inject", "unpause"}

(* A slice starts from an intact snapshot, never from the guest a slice     *)
(* before has damaged, though a dead guest is left where it is and destroy  *)
(* or restore may fail unnoticed.  Of the first process only: the second    *)
(* starts at the next id, where a slice of the first may have ended.        *)
SliceStartsFresh ==
  count = 1 /\ At("pause") => dom[Target].flips = 0

(* Whatever happens to the guest, the campaign comes to its end.            *)
CampaignEnds == <>Ended
=============================================================================
