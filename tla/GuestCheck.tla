----------------------------- MODULE GuestCheck -----------------------------
(***************************************************************************)
(* What the experiments expect of is_guest_dead: asked once, it tells one  *)
(* verdict, and the verdict fits the guest as it was at some moment between *)
(* question and answer.                                                    *)
(***************************************************************************)
VARIABLES
  reliable,  \* neither the network nor the process ever lacks anything
  life,    \* the guest: it answers, answers wrongly or not at all, is lost, is gone
  asked,   \* a call of is_guest_dead is under way
  seen,    \* the lives of the guest since the call began
  rc       \* the latest verdict

vars == <<reliable, life, asked, seen, rc>>

(* A guest only gets worse while it is asked; restoring it comes later. *)
Worse == {<<"up", "sick">>, <<"up", "crashed">>, <<"sick", "crashed">>, <<"crashed", "gone">>}

Justified(v) ==
  \/ v = 0 /\ "up" \in seen
  \/ v = 1 /\ seen \cap {"crashed", "gone"} # {}
  \/ v = 2 /\ (seen # {"up"} \/ ~reliable)

Init ==
  /\ reliable \in BOOLEAN
  /\ life \in {"up", "sick", "crashed", "gone"}
  /\ asked = FALSE /\ seen = {} /\ rc = 0

Ask ==
  /\ ~asked
  /\ asked' = TRUE /\ seen' = {life}
  /\ UNCHANGED <<reliable, life, rc>>

GuestWorsens ==
  /\ \E pair \in Worse : life = pair[1] /\ life' = pair[2]
  /\ seen' = IF asked THEN seen \cup {life'} ELSE seen
  /\ UNCHANGED <<reliable, asked, rc>>

Tell ==
  /\ asked
  /\ asked' = FALSE
  /\ \E v \in {0, 1, 2} : Justified(v) /\ rc' = v
  /\ UNCHANGED <<reliable, life, seen>>

(* The process dies and tells nothing. *)
Silence ==
  /\ asked
  /\ asked' = FALSE
  /\ UNCHANGED <<reliable, life, seen, rc>>

Next == Ask \/ GuestWorsens \/ Tell \/ Silence

Spec == Init /\ [][Next]_vars
=============================================================================
