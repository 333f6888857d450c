------------------------------ MODULE PortForward ------------------------------
(***************************************************************************)
(* Keeping the packet filter in step with the plan.                        *)
(*                                                                         *)
(* Every tick of the runtime loop compares the managed rules of each tool  *)
(* (iptables, ip6tables) with the plan, first for Hysteria2 and then for   *)
(* Mieru, and replaces them when they differ: all managed rules are deleted *)
(* one by one and the planned ones added one by one, each by a command of  *)
(* its own that may fail and that other programs' commands may come        *)
(* between.  When the service stops the Hysteria2 rules are removed.       *)
(***************************************************************************)
EXTENDS PortForwardPlan

CONSTANTS
    Tools,       \* the packet filters that are installed, in the order of the code
    NodeLists,   \* the node lists the panel may send
    Faults,      \* which kinds of fault may happen
    MaxFaults,   \* bound: faults in one behaviour
    MaxPlans,    \* bound: node lists in one behaviour
    MaxStops     \* bound: times the service stops

\* read: a listing fails; command: a command fails; other: another program takes
\* one of our rules away; core: the core's files or its process fail; crash: the
\* agent dies.
FaultKinds == {"read", "command", "other", "core", "crash"}

ASSUME ConstantsAssumption ==
    /\ Faults \subseteq FaultKinds
    /\ {MaxFaults, MaxPlans, MaxStops} \subseteq Nat
    /\ Tools \in Seq(STRING) /\ Tools # <<>> /\ IsInjective(Tools)

ASSUME NodeListsAssumption == NodeLists \subseteq Seq(Nodes)

\* A rule of a packet filter: where it is, whose it is, what it matches and does.
Rules == [chain : {"PREROUTING", "INPUT"}, tag : Families \cup {"foreign", "jump"},
          protocol : {"tcp", "udp"}, match : Seq(Nat \X Nat), to : Nat]

\* A rule of somebody else's, and the jump of an old release into its own chain.
Foreign == [chain |-> "PREROUTING", tag |-> "foreign", protocol |-> "udp",
            match |-> << <<1, 1>> >>, to |-> 1]
Jump == [Foreign EXCEPT !.tag = "jump"]

VARIABLES
    plan,     \* plan[f]: the rules that report_plan.node_infos calls for
    table,    \* table[t]: the rules of tool t, in order
    chain,    \* chain[t]: the old release's chain V2NODE-HY2 is there
    job,      \* the repair or cleanup under way
    faults, plans, stops,   \* how many so far
    calm,     \* observer: no fault since the last tick or cleanup began
    misread   \* observer: a listing failed while the commands were being made

vars == <<plan, table, chain, job, faults, plans, stops, calm, misread>>

Idle == [state |-> "idle"]
Stopped == [state |-> "stopped"]
At(mode, family, tool, state, todo) ==
    [mode |-> mode, family |-> family, tool |-> tool, state |-> state, todo |-> todo]

-----------------------------------------------------------------------------
(* What is there and what should be.                                       *)

\* Mutant of Managed: every redirect is taken for one of ours.
ManagedAnyone(r, family) == r.chain = "PREROUTING" \/ r.tag = family

\* is_port_forward_rule_spec, is_firewall_allow_rule_spec.
Managed(r, family) == r.tag = family \/ (family = "hy2" /\ r.tag = "jump")

\* list_port_forward_specs_from_output, list_firewall_allow_specs_from_output.
ManagedRules(family) == {r \in Rules : Managed(r, family)}
ChainRules(c) == {r \in Rules : r.chain = c}

Listed(t, family) == Among(table[t], ManagedRules(family))
OfChain(rules, c) == Among(rules, ChainRules(c))

\* The plan of each list (build_hysteria_port_forward_plan, build_mieru_...).
PlanOf(l) == [f \in Families |-> BuildRules(l, f) \o AllowRules(l, f)]
Plans == {PlanOf(l) : l \in NodeLists}

Expected(family) == plan[family]

\* Mutant of NeedsRepair: rules nobody planned are no reason for a repair.
NeedsRepairMissing(t, family) ==
    ~(ToSet(Expected(family)) \subseteq ToSet(Listed(t, family)))

\* The tool's rules differ from the plan as sets, or the old chain is there
\* (inspect_managed_specs_with_comment; only Hysteria2 looks for the chain).
NeedsRepair(t, family) ==
    \/ ToSet(Listed(t, family)) # ToSet(Expected(family))
    \/ family = "hy2" /\ chain[t]

Delete(r) == [op |-> "delete", rule |-> r]
Add(r) == [op |-> "add", rule |-> r]
Flush == [op |-> "flush", rule |-> Jump]
DropChain == [op |-> "drop", rule |-> Jump]

Deletes(rules) == [i \in DOMAIN rules |-> Delete(rules[i])]
Adds(rules) == [i \in DOMAIN rules |-> Add(rules[i])]

\* Mutant of Commands: the new rules are added before the old ones are deleted.
CommandsAddFirst(nat, input, chained, wanted) ==
    Adds(wanted) \o Deletes(nat) \o Deletes(input)
    \o (IF chained THEN <<Flush, DropChain>> ELSE <<>>)

\* reconcile_port_forward_commands*, cleanup_port_forward_commands*.
Commands(nat, input, chained, wanted) ==
    Deletes(nat) \o Deletes(input)
    \o (IF chained THEN <<Flush, DropChain>> ELSE <<>>) \o Adds(wanted)

-----------------------------------------------------------------------------
Fault(k) == k \in Faults /\ faults < MaxFaults /\ faults' = faults + 1 /\ calm' = FALSE
NoFault == UNCHANGED <<faults, calm>>

Init ==
    /\ plan \in Plans
    /\ \/ table = [t \in ToSet(Tools) |-> <<Foreign>>] /\ chain = [t \in ToSet(Tools) |-> FALSE]
       \/ table = [t \in ToSet(Tools) |-> <<Jump, Foreign>>] /\ chain = [t \in ToSet(Tools) |-> TRUE]
    /\ job = Idle
    /\ faults = 0 /\ plans = 0 /\ stops = 0
    /\ calm = FALSE /\ misread = FALSE

\* The panel's next node list, when a plan is applied (load_node_runtime_plan).
Reload ==
    /\ job = Idle /\ plans < MaxPlans
    /\ plan' \in Plans \ {plan}
    /\ plans' = plans + 1
    /\ calm' = FALSE
    /\ UNCHANGED <<table, chain, job, faults, stops, misread>>

\* The work that comes after the core's, which may fail and end the agent before.
Begin(mode) ==
    \/ job' = At(mode, "hy2", 1, "inspect", <<>>) /\ calm' = TRUE /\ UNCHANGED faults
    \/ job' = Stopped /\ Fault("core")

\* apply_runtime_plan: the core, repair_hysteria_port_forward, then
\* repair_mieru_port_forward.
Tick ==
    /\ job = Idle
    /\ Begin("repair")
    /\ UNCHANGED <<plan, table, chain, plans, stops, misread>>

\* stop_core_for_plan and cleanup_hy2_port_forward_on_shutdown, when the runtime
\* loop has ended.
Stop ==
    /\ job = Idle /\ stops < MaxStops
    /\ stops' = stops + 1
    /\ Begin("cleanup")
    /\ UNCHANGED <<plan, table, chain, plans, misread>>

\* Restart=always in the unit; a service that was stopped is taken to be wanted
\* again.
Start ==
    /\ job = Stopped
    /\ job' = Idle
    /\ calm' = FALSE
    /\ UNCHANGED <<plan, table, chain, faults, plans, stops, misread>>

\* Mutant of Following: the cleanup looks at the first tool only.
FollowingOneTool ==
    IF job.mode = "cleanup" THEN Stopped
    ELSE IF job.tool < Len(Tools) THEN At(job.mode, job.family, job.tool + 1, "inspect", <<>>)
    ELSE IF job.family = "hy2" THEN At("repair", "mieru", 1, "inspect", <<>>)
    ELSE Idle

\* Where the work goes on after a tool: the next tool, the next family, the end.
Following ==
    IF job.tool < Len(Tools) THEN At(job.mode, job.family, job.tool + 1, "inspect", <<>>)
    ELSE IF job.mode = "cleanup" THEN Stopped
    ELSE IF job.family = "hy2" THEN At("repair", "mieru", 1, "inspect", <<>>)
    ELSE Idle

Working(s) == job.state = s
Tool == Tools[job.tool]

\* The rules the tool is to have of the family: the planned ones, or none.
Wanted == IF job.mode = "cleanup" THEN <<>> ELSE Expected(job.family)

\* inspect_port_forward_tool*; a cleanup goes on whatever it finds.
Inspect ==
    /\ Working("inspect")
    /\ \/ /\ NoFault
          /\ job' = IF job.mode = "cleanup" \/ NeedsRepair(Tool, job.family)
                      THEN [job EXCEPT !.state = "prepare"] ELSE Following
       \/ /\ Fault("read")
          /\ job' = IF job.mode = "cleanup" THEN [job EXCEPT !.state = "prepare"] ELSE Following
    /\ UNCHANGED <<plan, table, chain, plans, stops, misread>>

\* execute_reconcile_port_forward_tool, execute_cleanup_port_forward_tool,
\* execute_mieru_port_forward_tool: everything is listed again, a listing that
\* fails counts as an empty one.
Prepare ==
    /\ Working("prepare")
    /\ \E lost \in SUBSET {"PREROUTING", "INPUT", "chain"} :
         LET Read(c) == IF c \in lost THEN <<>> ELSE OfChain(Listed(Tool, job.family), c)
         IN  /\ IF lost = {} THEN NoFault /\ UNCHANGED misread
                ELSE Fault("read") /\ misread' = TRUE
             /\ job' = [job EXCEPT
                  !.state = "run",
                  !.todo = Commands(Read("PREROUTING"), Read("INPUT"),
                             job.family = "hy2" /\ chain[Tool] /\ "chain" \notin lost,
                             Wanted)]
    /\ UNCHANGED <<plan, table, chain, plans, stops>>

\* What the tool does: -D needs the rule, -X needs the chain to be unused, -A
\* appends to the nat table and -I puts a rule in front.
Applies(c) ==
    CASE c.op = "delete" -> Contains(table[Tool], c.rule)
      [] c.op = "drop" -> ~Contains(table[Tool], Jump)
      [] OTHER -> TRUE

Applied(c) ==
    CASE c.op = "delete" -> RemoveFirst(table[Tool], c.rule)
      [] c.op = "add" /\ c.rule.chain = "PREROUTING" -> Append(table[Tool], c.rule)
      [] c.op = "add" /\ c.rule.chain = "INPUT" -> <<c.rule>> \o table[Tool]
      [] OTHER -> table[Tool]

\* execute_port_forward_commands: the first command that fails ends the tool's
\* repair, with what the commands before it have done.
RunCommand ==
    /\ Working("run") /\ job.todo # <<>>
    /\ LET c == Head(job.todo)
       IN  \/ /\ Applies(c) /\ NoFault
              /\ table' = [table EXCEPT ![Tool] = Applied(c)]
              /\ chain' = [chain EXCEPT ![Tool] = @ /\ c.op # "drop"]
              /\ job' = [job EXCEPT !.todo = Tail(@)]
           \/ /\ ~Applies(c) /\ NoFault
              /\ job' = Following
              /\ UNCHANGED <<table, chain>>
           \/ /\ Fault("command")
              /\ job' = Following
              /\ UNCHANGED <<table, chain>>
    /\ UNCHANGED <<plan, plans, stops, misread>>

\* The commands have run; the tool is inspected again, for the status only.
Done ==
    /\ Working("run") /\ job.todo = <<>>
    /\ job' = Following
    /\ UNCHANGED <<plan, table, chain, faults, plans, stops, calm, misread>>

\* Another program takes one of the managed rules away.
OtherProgram ==
    /\ Fault("other")
    /\ \E t \in ToSet(Tools) : \E i \in DOMAIN table[t] :
         /\ table[t][i] # Foreign
         /\ table' = [table EXCEPT ![t] = RemoveAt(@, i)]
    /\ UNCHANGED <<plan, chain, job, plans, stops, misread>>

\* The agent dies between two commands; the rules stay.
Crash ==
    /\ job \notin {Idle, Stopped}
    /\ Fault("crash")
    /\ job' = Stopped
    /\ UNCHANGED <<plan, table, chain, plans, stops, misread>>

Work == Inspect \/ Prepare \/ RunCommand \/ Done
Next == Reload \/ Tick \/ Stop \/ Start \/ Work \/ OtherProgram \/ Crash

Spec == Init /\ [][Next]_vars

\* The agent ticks and works on, and the service manager starts it again.
FairSpec == Spec /\ WF_vars(Work) /\ WF_vars(Tick) /\ WF_vars(Start)

-----------------------------------------------------------------------------
(* Properties.                                                             *)

\* A repair that no fault disturbed leaves exactly the planned rules of both
\* families, though the second family's repair runs after the first one's and in
\* the same chains; a cleanup no fault disturbed leaves no Hysteria2 rule.  Neither
\* leaves a chain of an old release (repair_hysteria_port_forward, repair_mieru_port_forward,
\* cleanup_hysteria_port_forward).
RepairedIsPlan ==
    \A t \in ToSet(Tools) :
      /\ calm /\ job = Idle =>
           /\ \A f \in Families : ToSet(Listed(t, f)) = ToSet(Expected(f))
           /\ ~chain[t]
      /\ calm /\ job = Stopped => Listed(t, "hy2") = <<>> /\ ~chain[t]

\* No rule is there twice, whatever fails, is cut short or is taken away, unless
\* a listing failed when the commands were made: for the agent that is the one way
\* to add rules without deleting them, and the comparison of sets never sees the
\* copies.  A `rules repair` by hand beside the agent is not modelled
\* (unwrap_or_default in execute_*, BTreeMap keys in inspect_managed_specs).
NoCopies ==
    ~misread => \A t \in ToSet(Tools) : IsInjective(table[t])

Owner(r) == IF r.tag = "jump" THEN "hy2" ELSE r.tag

\* A command of one family's repair leaves every rule of the other family and of
\* other programs where it is (is_*_rule_spec_with_comment).
OthersUntouched ==
    [][RunCommand => \A t \in ToSet(Tools) :
         LET others == {r \in Rules : Owner(r) # job.family}
         IN  Among(table'[t], others) = Among(table[t], others)]_vars

\* When faults, stops and new lists have come to an end, the rules are the
\* planned ones in the end, whatever was left behind (the repair of every tick).
EventuallyPlanned ==
    <>[](\A t \in ToSet(Tools), f \in Families : ToSet(Listed(t, f)) = ToSet(Expected(f)))

-----------------------------------------------------------------------------
(* Inductive invariants, for the proofs.                                   *)

CommandSet == [op : {"delete", "add", "flush", "drop"}, rule : Rules]

WorkJobs == [mode : {"repair", "cleanup"}, family : Families, tool : 1..Len(Tools),
             state : {"inspect", "prepare", "run"}, todo : Seq(CommandSet)]
Jobs == WorkJobs \cup {Idle, Stopped}

TypeOK ==
    /\ plan \in Plans
    /\ table \in [ToSet(Tools) -> Seq(Rules)]
    /\ chain \in [ToSet(Tools) -> BOOLEAN]
    /\ job \in Jobs
    /\ faults \in 0..MaxFaults /\ plans \in 0..MaxPlans /\ stops \in 0..MaxStops
    /\ calm \in BOOLEAN /\ misread \in BOOLEAN

\* The commands still to run delete the family's rules only, and add them only.
CommandsOwn ==
    job.state = "run" => \A i \in DOMAIN job.todo :
      LET c == job.todo[i]
      IN  /\ c.op = "delete" => Managed(c.rule, job.family)
          /\ c.op = "add" => c.rule.tag = job.family

\* The deletions come before the additions, no rule is to be added twice, and one
\* that is to be added and still there is to be deleted before.
AddsAreFresh(todo, tab) ==
    /\ \A i, j \in DOMAIN todo : i < j /\ todo[i].op = "add" => todo[j].op = "add"
    /\ \A i, j \in DOMAIN todo :
         todo[i].op = "add" /\ todo[j].op = "add" /\ todo[i].rule = todo[j].rule => i = j
    /\ \A i \in DOMAIN todo :
         todo[i].op = "add" /\ todo[i].rule \in ToSet(tab) =>
           \E j \in DOMAIN todo : todo[j].op = "delete" /\ todo[j].rule = todo[i].rule

FreshAdds == job.state = "run" /\ ~misread => AddsAreFresh(job.todo, table[Tool])

CopiesInv == TypeOK /\ CommandsOwn /\ FreshAdds /\ NoCopies

\* The tool has the wanted rules of the family and, for Hysteria2, no old chain.
Settled(t, family, wanted) ==
    ToSet(Listed(t, family)) = ToSet(wanted) /\ (family = "hy2" => ~chain[t])

\* How far an undisturbed repair of one tool is, with the rules s in the tool, the
\* wanted rules W of the family f, and b when there is an old chain: rules are left
\* to delete, the old chain is left to drop, or rules are left to add.
DeletingIn(todo, s, b, f, W) ==
    todo = Commands(Among(s, ManagedRules(f) \cap ChainRules("PREROUTING")),
                    Among(s, ManagedRules(f) \cap ChainRules("INPUT")), b, W)
DroppingIn(todo, s, f, W) ==
    f = "hy2" /\ Among(s, ManagedRules(f)) = <<>> /\ todo = <<DropChain>> \o Adds(W)
AddingIn(todo, s, b, f, W) ==
    ~b /\ \E k \in 0..Len(W) : /\ todo = Adds(SubSeq(W, k + 1, Len(W)))
                               /\ ToSet(Among(s, ManagedRules(f))) = ToSet(SubSeq(W, 1, k))
PhaseIn(todo, s, b, f, W) ==
    DeletingIn(todo, s, b, f, W) \/ DroppingIn(todo, s, f, W) \/ AddingIn(todo, s, b, f, W)

\* What an undisturbed repair or cleanup has achieved when it is at a tool.
CalmProgress ==
    /\ job.mode = "cleanup" => job.family = "hy2"
    /\ job.family = "mieru" => \A t \in ToSet(Tools) : Settled(t, "hy2", Expected("hy2"))
    /\ \A j \in 1..(job.tool - 1) : Settled(Tools[j], job.family, Wanted)
    /\ job.state = "run" =>
         PhaseIn(job.todo, table[Tool], job.family = "hy2" /\ chain[Tool], job.family, Wanted)

CalmInv == calm /\ job \notin {Idle, Stopped} => CalmProgress
RepairInv == TypeOK /\ CommandsOwn /\ CalmInv /\ RepairedIsPlan

==============================================================================
