--------------------------- MODULE InjectionLedger ---------------------------
(***************************************************************************)
(* What a campaign promises: a ledger in which every entry closes the book *)
(* on one domain.  A guest is restored into domain after domain; only its  *)
(* latest one is ever hit, and never again once it is in the ledger; an    *)
(* entry tells all the hits of its domain.                                 *)
(***************************************************************************)
EXTENDS Naturals

CONSTANTS Guests, DomIds, NoGuest

VARIABLES
  owner,    \* the guest of each domain
  damage,   \* the bits each domain was hit with
  ledger    \* the entries; one that is written twice is one entry

vars == <<owner, damage, ledger>>

Entry(d) == [guest |-> owner[d], dom |-> d, count |-> damage[d]]

Closed(d) == \E e \in ledger : e.dom = d

Latest(d) ==
  owner[d] # NoGuest /\ \A e \in DomIds : owner[e] = owner[d] => e <= d

Init ==
  /\ owner = [d \in DomIds |-> NoGuest]
  /\ damage = [d \in DomIds |-> 0]
  /\ ledger = {}

Restore ==
  \E g \in Guests, d \in DomIds :
    /\ \A e \in DomIds : owner[e] # NoGuest <=> e < d
    /\ owner' = [owner EXCEPT ![d] = g]
    /\ UNCHANGED <<damage, ledger>>

Hit ==
  /\ UNCHANGED owner
  /\ \E d \in DomIds :
       /\ damage' = [damage EXCEPT ![d] = @ + 1]
       /\ Latest(d) /\ ~Closed(d)
  /\ UNCHANGED ledger

Enter ==
  /\ UNCHANGED <<owner, damage>>
  /\ ledger' \ ledger # {}
  /\ \E d \in DomIds : Latest(d) /\ ledger' = ledger \cup {Entry(d)}

Next == Restore \/ Hit \/ Enter

Spec == Init /\ [][Next]_vars
=============================================================================
