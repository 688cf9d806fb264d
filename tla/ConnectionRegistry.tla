-------------------------- MODULE ConnectionRegistry --------------------------
(***************************************************************************)
(* What the manager promises about GitHub connections, as if each had one  *)
(* record that is written at once: a setup is offered and leads to one     *)
(* connection or to none, an owner has one connection, an installation may *)
(* be found and taken back any number of times, and what was disconnected  *)
(* is over.  Rows, secret files, one-time states, requests under way and   *)
(* crashes between two writes have no counterpart here.                    *)
(***************************************************************************)
CONSTANTS Id, Onboarded, Legacy, Env, OwnerOf

VARIABLES
  stage,     \* of a connection: none, registered (no installation yet), installed
  offered,   \* setups that may still lead to a connection
  retired    \* connections that were disconnected

vars == <<stage, offered, retired>>

Connected == {i \in Id : stage[i] # "none"}
OwnerFree(i) == \A j \in Connected : OwnerOf[j] # OwnerOf[i]

Init ==
  /\ stage = [i \in Id |-> "none"]
  /\ offered = {} /\ retired = {}

Offer(i) ==
  /\ i \in Onboarded \ (offered \cup retired \cup Connected)
  /\ offered' = offered \cup {i}
  /\ UNCHANGED <<stage, retired>>

\* Setups expire, fail, or are lost with the process that served them.
Withdraw ==
  /\ offered' \in SUBSET offered
  /\ UNCHANGED <<stage, retired>>

\* A setup is used up by the connection it leads to.
Connect(i) ==
  /\ i \in offered \ retired /\ OwnerFree(i)
  /\ stage' = [stage EXCEPT ![i] = "registered"]
  /\ offered' = offered \ {i}
  /\ UNCHANGED retired

\* The connection of an older release or of the environment, which need no setup.
Adopt(i) ==
  /\ i \in (Env \cup {Legacy}) \ retired /\ OwnerFree(i)
  /\ stage' = [stage EXCEPT ![i] = "installed"]
  /\ UNCHANGED <<offered, retired>>

Install(i) ==
  /\ stage[i] = "registered"
  /\ stage' = [stage EXCEPT ![i] = "installed"]
  /\ UNCHANGED <<offered, retired>>

TakeBack(i) ==
  /\ stage[i] = "installed"
  /\ stage' = [stage EXCEPT ![i] = "registered"]
  /\ UNCHANGED <<offered, retired>>

\* The process may go down with it, and with it the setups under way.
Disconnect(i) ==
  /\ i \in Connected \ Env
  /\ stage' = [stage EXCEPT ![i] = "none"]
  /\ retired' = retired \cup {i}
  /\ offered' \in SUBSET offered

Next ==
  \/ Withdraw
  \/ \E i \in Id : \/ Offer(i) \/ Connect(i) \/ Adopt(i)
                   \/ Install(i) \/ TakeBack(i) \/ Disconnect(i)

Spec == Init /\ [][Next]_vars
==============================================================================
