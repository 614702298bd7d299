----------------------------- MODULE MCCampaign -----------------------------
(* Instances of Campaign for TLC: which algorithm each driver is given and  *)
(* which guest names contain which.                                         *)
EXTENDS Campaign, TLC

CONSTANTS g1, g2

Sym == Permutations(Guests)

AllSimple == [g \in Guests |-> "simple"]
AllPause == [g \in Guests |-> "with_pause"]

(* centos0 and winxp: no name contains the other. *)
Exact == {<<g, g>> : g \in Guests}

(* centos and centos2: grep centos finds both. *)
Prefix == Exact \cup {<<g1, g2>>}
=============================================================================
