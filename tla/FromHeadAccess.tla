--------------------------- MODULE FromHeadAccess ---------------------------
(***************************************************************************)
(* from_head_access.out: invert the guest's memory page by page from the   *)
(* start until the guest crashes, and go on with the next domain id.  The  *)
(* program restores nothing: it counts on xend restarting a crashed guest  *)
(* while it sleeps, and looks at the guest without a heart beat.           *)
(***************************************************************************)
EXTENDS XenHost, Sequences

CONSTANTS
  GUEST,      \* the guest that xend restarts
  Pages,      \* the pages of the guest's memory
  EX_COUNT

ASSUME HeadAssumption == GUEST \in Guests /\ Pages \in Nat /\ EX_COUNT \in Nat

VARIABLES
  proc,       \* the local variables of main
  log         \* ./experiment.log; the file holds the counts only

headVars == <<proc, log>>
vars == <<hostVars, headVars>>

(* page: addr divided by the page size.  fp: file_open returned a file. *)
Process ==
  [pc : {"init", "inject", "check", "sleep", "exited"}, dom_id : Nat, fp : BOOLEAN,
   page : 0..Pages, attack : Nat, ex_count : 0..EX_COUNT]

TypeOK ==
  /\ HostTypeOK
  /\ proc \in Process
  /\ log \in Seq([dom : Nat, count : Nat])

(* file_open fails without a consequence: nobody looks at fp. *)
Init ==
  /\ \E first \in DomIds, fp \in BOOLEAN :
       /\ dom = [d \in DomIds |->
                   IF d = first THEN [NoDomain EXCEPT !.owner = GUEST, !.life = "up"]
                                ELSE NoDomain]
       /\ nextId = first + 1
       /\ proc = [pc |-> "init", dom_id |-> first, fp |-> fp, page |-> 0, attack |-> 0,
                  ex_count |-> 0]
  /\ log = <<>>

At(label) == proc.pc = label

(* dom_id was incremented in the call of init. *)
Target == proc.dom_id - 1

XaInit ==
  /\ At("init") /\ proc.ex_count < EX_COUNT
  /\ Listed(proc.dom_id)
  /\ proc' = [proc EXCEPT !.pc = "inject", !.dom_id = @ + 1, !.page = 0, !.attack = 0]
  /\ UNCHANGED <<hostVars, log>>

InitFails ==
  /\ At("init") /\ proc.ex_count < EX_COUNT
  /\ ~Listed(proc.dom_id)
  /\ proc' = [proc EXCEPT !.pc = "exited"]
  /\ UNCHANGED <<hostVars, log>>

LastExperimentDone ==
  /\ At("init") /\ proc.ex_count = EX_COUNT
  /\ proc' = [proc EXCEPT !.pc = "exited"]
  /\ UNCHANGED <<hostVars, log>>

(* The slip of a last page too many. *)
InjectPastEnd ==
  /\ At("inject") /\ proc.page <= Pages
  /\ (Listed(Target) /\ Flip(Target)) \/ UNCHANGED hostVars
  /\ proc' = [proc EXCEPT !.pc = "check", !.page = @ + 1, !.attack = @ + 1]
  /\ UNCHANGED log

(* Nobody looks whether the page could be mapped: the count grows anyway. *)
InjectPage ==
  /\ At("inject") /\ proc.page < Pages
  /\ (Listed(Target) /\ Flip(Target)) \/ UNCHANGED hostVars
  /\ proc' = [proc EXCEPT !.pc = "check", !.page = @ + 1, !.attack = @ + 1]
  /\ UNCHANGED log

(* The last page is done and the guest lives. *)
EndOfMemory ==
  /\ At("inject") /\ proc.page = Pages
  /\ proc' = [proc EXCEPT !.pc = "init", !.ex_count = @ + 1]
  /\ UNCHANGED <<hostVars, log>>

(* The slip of asking for dom_id, which is one ahead. *)
GuestDeadNext ==
  InfoOf(proc.dom_id) = {} \/ \E e \in InfoOf(proc.dom_id) : dom[e].life \in {"crashed", "dying"}

(* is_guest_dead: the domain's state is all it asks for. *)
GuestDead ==
  InfoOf(Target) = {} \/ \E e \in InfoOf(Target) : dom[e].life \in {"crashed", "dying"}

GuestLives ==
  /\ At("check") /\ ~GuestDead
  /\ proc' = [proc EXCEPT !.pc = "inject"]
  /\ UNCHANGED <<hostVars, log>>

LogDeath ==
  /\ At("check") /\ GuestDead /\ proc.fp
  /\ log' = Append(log, [dom |-> Target, count |-> proc.attack])
  /\ proc' = [proc EXCEPT !.pc = "sleep"]
  /\ UNCHANGED hostVars

(* fprintf to a file that could not be opened ends the process. *)
DiesWithoutLog ==
  /\ At("check") /\ GuestDead /\ ~proc.fp
  /\ proc' = [proc EXCEPT !.pc = "exited"]
  /\ UNCHANGED <<hostVars, log>>

(* The slip of a program that tries the same domain again. *)
SameDomainAgain ==
  /\ At("sleep")
  /\ proc' = [proc EXCEPT !.pc = "init", !.ex_count = @ + 1, !.dom_id = @ - 1]
  /\ UNCHANGED <<hostVars, log>>

(* The slip of a program that waits for the restart. *)
WhenRestarted ==
  /\ At("sleep")
  /\ Listed(proc.dom_id)
  /\ proc' = [proc EXCEPT !.pc = "init", !.ex_count = @ + 1]
  /\ UNCHANGED <<hostVars, log>>

(* sleep(SLEEP_SECONDS) is over, whether or not xend has restarted the guest. *)
NextExperiment ==
  /\ At("sleep")
  /\ proc' = [proc EXCEPT !.pc = "init", !.ex_count = @ + 1]
  /\ UNCHANGED <<hostVars, log>>

ProcessStep ==
  \/ XaInit \/ InitFails \/ InjectPage \/ EndOfMemory \/ LastExperimentDone
  \/ GuestLives \/ LogDeath \/ DiesWithoutLog \/ NextExperiment

(* on_crash of the guest's configuration. *)
XendRestarts == XmRestore(GUEST)

Next ==
  \/ ProcessStep
  \/ (HostStep \/ XendRestarts) /\ UNCHANGED headVars

Spec == Init /\ [][Next]_vars

(* The process is never stopped for good. *)
FairSpec == Spec /\ WF_vars(ProcessStep)

-----------------------------------------------------------------------------
(* A line stands for a guest that is dead: xc_domain_getinfo may answer     *)
(* with another domain's state once the guest has gone, and with the        *)
(* restarted guest's, but never with a death while the guest runs.          *)
(* from_head_access.c:53-58 and 129-138.                                    *)
NoLivingGuestLogged ==
  \A i \in 1..Len(log) :
    log[i].dom \in DomIds => dom[log[i].dom].life \in {"crashed", "dying", "gone"}

(* A line counts all the pages its domain has lost, though the injection    *)
(* may fail unnoticed and the program may look at a restarted guest in      *)
(* place of the one it has killed; and no domain is counted twice.          *)
(* from_head_access.c:45-58.                                                *)
LinesCoverDamage ==
  \A i \in 1..Len(log) :
    /\ log[i].dom \in DomIds => dom[log[i].dom].flips \in 0..log[i].count
    /\ \A j \in 1..(i - 1) : log[j].dom < log[i].dom

(* The program ends, whether the guest dies, hangs or lives through the     *)
(* loss of its whole memory, and whether xend restarts it or not            *)
(* (from_head_access.c:36-62).                                              *)
ProgramEnds == <>At("exited")
=============================================================================
