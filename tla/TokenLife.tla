------------------------------ MODULE TokenLife ------------------------------
(***************************************************************************)
(* What the token registry promises about a device's bearer: it is issued  *)
(* once, it may be revoked, and it never comes back; there is no rotation. *)
(***************************************************************************)
CONSTANT Ids

VARIABLES
  holder,   \* holder[d]: the bearer issued to d, or the one that is none
  status    \* status[d]: "unknown", "active" or "revoked"

lifeVars == <<holder, status>>

LifeInit == status = [d \in Ids |-> "unknown"]

Issue(d) ==
  /\ status[d] = "unknown"
  /\ status' = [status EXCEPT ![d] = "active"]
  /\ \A e \in Ids \ {d} : holder'[e] = holder[e]

Revoke(d) ==
  /\ status[d] = "active"
  /\ status' = [status EXCEPT ![d] = "revoked"]
  /\ UNCHANGED holder

LifeNext == \E d \in Ids : Issue(d) \/ Revoke(d)

LifeSpec == LifeInit /\ [][LifeNext]_lifeVars
=============================================================================
