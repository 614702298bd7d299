---------------------------- MODULE RequestTally ----------------------------
(***************************************************************************)
(* What request.log promises: it tells how many requests brought a page,   *)
(* failed, and brought a damaged page.  Each request is counted once, and  *)
(* every line brings all columns up to date at one moment.                 *)
(***************************************************************************)
EXTENDS Naturals, FiniteSets

CONSTANT Requests

VARIABLES
  counted,   \* the requests counted so far, by column
  told       \* the sums of the columns of the log

vars == <<counted, told>>

Columns == {"div", "err", "bad"}

Init ==
  /\ counted = [c \in Columns |-> {}]
  /\ told = [c \in Columns |-> 0]

CountIn(c, r) ==
  /\ counted' = [counted EXCEPT ![c] = @ \cup {r}]
  /\ UNCHANGED told

(* A request failed, or it brought a page. *)
CountError(r) == r \notin counted["div"] \cup counted["bad"] /\ CountIn("err", r)

CountPage(r) == r \notin counted["err"] /\ CountIn("div", r)

(* A damaged page is found out before it is counted as a page. *)
CountBad(r) == r \notin counted["div"] \cup counted["err"] /\ CountIn("bad", r)

WriteLine ==
  /\ told' = [c \in Columns |-> Cardinality(counted[c])]
  /\ UNCHANGED counted

Next == WriteLine \/ \E r \in Requests : CountError(r) \/ CountPage(r) \/ CountBad(r)

Spec == Init /\ [][Next]_vars
=============================================================================
