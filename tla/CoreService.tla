---------------------------- MODULE CoreService ---------------------------
(***************************************************************************)
(* What the agent promises about the core, whatever it does with files,    *)
(* control calls and processes: the core runs what the agent wants, never  *)
(* a mixture of its own.  A core that runs takes a configuration that is   *)
(* in the file it would be started with again; users may be handed to it   *)
(* beside the file, and then a core that is started has them all the same. *)
(***************************************************************************)
CONSTANTS
  Routes,   \* routing configurations
  Users     \* user lists

VARIABLES
  wanted,   \* the agent's plan
  known,    \* the users the agent has from the panel
  stored,   \* what a restarted core would read
  served    \* what the core runs

vars == <<wanted, known, stored, served>>

AllUsers == Users \cup {"none"}
Configs == [routes : Routes, users : AllUsers]
None == [routes |-> "none", users |-> "none"]

Init ==
  /\ wanted \in Configs
  /\ known = "none"
  /\ stored = None
  /\ served = None

\* The plan has no users, those it had, or those the agent knows.
Want ==
  /\ known' \in AllUsers
  /\ wanted' \in [routes : Routes, users : {"none", wanted.users, known}]
  /\ UNCHANGED <<stored, served>>

Store ==
  /\ stored' = wanted
  /\ UNCHANGED <<wanted, known, served>>

\* The core is started from the file, with the users the agent knows.
Launch ==
  /\ served = None
  /\ stored = wanted /\ wanted.users = known
  /\ served' = wanted
  /\ UNCHANGED <<wanted, known, stored>>

\* A core that runs takes all of the plan, or its routes alone.
Serve ==
  /\ served # None
  /\ stored = wanted
  /\ served' \in {wanted, [served EXCEPT !.routes = wanted.routes]}
  /\ UNCHANGED <<wanted, known, stored>>

\* A core that runs takes the users.
HandOver ==
  /\ served # None
  /\ served' = [served EXCEPT !.users = known]
  /\ UNCHANGED <<wanted, known, stored>>

Stop ==
  /\ served' = None
  /\ UNCHANGED <<wanted, known, stored>>

Next ==
  \/ Want
  \/ Store
  \/ Launch \/ Serve \/ HandOver
  \/ Stop

Spec == Init /\ [][Next]_vars
===========================================================================
