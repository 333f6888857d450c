------------------------------- MODULE Planner ------------------------------
(***************************************************************************)
(* Some parts of the agent are planners: functions without a state of      *)
(* their own.  A step asks one of them with an input, the next step        *)
(* forgets it; the invariants of CorePlanning, ProxyPlanning and           *)
(* PortPlanning say what the answer must be.                               *)
(***************************************************************************)
VARIABLES
  topic,     \* the planner that is asked
  question   \* what it is given

planner == <<topic, question>>

NothingAsked == topic = "start" /\ question = <<>>

Ask(what, inputs) == topic = "start" /\ topic' = what /\ question' \in inputs

\* The next planning starts from nothing.
Forget == topic # "start" /\ topic' = "start" /\ question' = <<>>

=============================================================================
