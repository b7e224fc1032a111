---------------------------- MODULE ConsumeOnce ----------------------------
(***************************************************************************)
(* What the cross-process gate promises: a parked interrupt has at most    *)
(* one owner, for good, and only its owner is ever served.                 *)
(***************************************************************************)
CONSTANTS
  Key,       \* what can be claimed
  Holder,    \* who can claim: a saver instance of one process incarnation
  NoHolder   \* nobody

VARIABLES
  owner,     \* [Key -> Holder or NoHolder]
  served     \* the (holder, key) pairs that were served

vars == << owner, served >>

Init ==
  /\ owner = [k \in Key |-> NoHolder]
  /\ served = {}

\* One transaction may take several keys; none of them has an owner.
Claim(h, ks) ==
  /\ ks # {}
  /\ \A k \in ks : owner[k] = NoHolder
  /\ owner' = [k \in Key |-> IF k \in ks THEN h ELSE owner[k]]
  /\ UNCHANGED served

Serve(h, k) ==
  /\ owner[k] = h
  /\ served' = served \cup {<< h, k >>}
  /\ UNCHANGED owner

Next ==
  \E h \in Holder :
    \/ \E ks \in SUBSET Key : Claim(h, ks)
    \/ \E k \in Key : Serve(h, k)

Spec == Init /\ [][Next]_vars
=============================================================================
