---------------------------- MODULE PortForwardPlan ----------------------------
(***************************************************************************)
(* Which ports are forwarded to which node.                                *)
(*                                                                         *)
(* A Hysteria2 or Mieru node listens on one port and may ask for more, as a *)
(* list of ports and ranges.  The planner turns the lists of all nodes, in *)
(* their order, into redirect rules: a port some node listens on is never  *)
(* redirected, and a port two nodes ask for goes to the first of them.     *)
(* The two kinds of node are planned apart from each other.                *)
(***************************************************************************)
EXTENDS Integers, Sequences, FiniteSets, SequencesExt, OrderedFilter

CONSTANTS
    MaxPort,        \* the greatest port; u16::MAX in the code
    MaxMultiport    \* single ports in one rule; 15 in the code

ASSUME PortsAssumption == MaxPort \in Nat /\ MaxMultiport \in Nat

Families == {"hy2", "mieru"}

\* A node: its kind, its server_port, its "port" and "ports" settings (sequences
\* of <<first, last>>, a single port p being <<p, p>>; <<>> is the empty string)
\* and its transport.
Node(kind, target, port, ports, transport) ==
    [kind |-> kind, target |-> target, port |-> port, ports |-> ports, transport |-> transport]

Nodes == [kind : STRING, target : 0..MaxPort, port : Seq(Nat \X Nat), ports : Seq(Nat \X Nat),
          transport : STRING]

\* The setting that counts: Hysteria2 prefers "port", Mieru "ports".
External(n) ==
    CASE n.kind = "hy2" -> IF n.port # <<>> THEN n.port ELSE n.ports
      [] n.kind = "mieru" -> IF n.ports # <<>> THEN n.ports ELSE n.port
      [] OTHER -> <<>>

\* mieru_port_forward_protocol; a transport it does not know is an error.
ForwardProtocol(n) ==
    IF n.kind = "hy2" THEN "udp"
    ELSE IF n.transport \in {"", "tcp"} THEN "tcp"
    ELSE IF n.transport = "udp" THEN "udp"
    ELSE "error"

\* parse_port_range, parse_port_number.
TokenOk(t) == 1 <= t[1] /\ t[1] <= t[2] /\ t[2] <= MaxPort
ParseOk(spec) == \A i \in DOMAIN spec : TokenOk(spec[i])

Overlaps(r, s) == r[1] <= s[2] /\ s[1] <= r[2]

\* Mutant of Remainder: the part above the blocked ports is lost.
RemainderBelow(r, b) ==
    IF ~Overlaps(r, b) THEN <<r>>
    ELSE IF r[1] < b[1] THEN << <<r[1], b[1] - 1>> >> ELSE <<>>

\* What of the range r is outside of the range b.
Remainder(r, b) ==
    IF ~Overlaps(r, b) THEN <<r>>
    ELSE (IF r[1] < b[1] THEN << <<r[1], b[1] - 1>> >> ELSE <<>>)
         \o (IF b[2] < r[2] THEN << <<b[2] + 1, r[2]>> >> ELSE <<>>)

\* subtract_range: range by range.
SubtractRange(ranges, b) ==
    LET upTo[i \in 0..Len(ranges)] ==
          IF i = 0 THEN <<>> ELSE upTo[i - 1] \o Remainder(ranges[i], b)
    IN  upTo[Len(ranges)]

SubtractAll(ranges, blocked) ==
    LET upTo[i \in 0..Len(blocked)] ==
          IF i = 0 THEN ranges ELSE SubtractRange(upTo[i - 1], blocked[i])
    IN  upTo[Len(blocked)]

\* The ports of a family's nodes, per protocol (collect_..._target_ports).
TargetPorts(infos, family, protocol) ==
    {infos[i].target : i \in {k \in DOMAIN infos :
        /\ infos[k].kind = family
        /\ infos[k].target > 0
        /\ ForwardProtocol(infos[k]) = protocol}}

\* Some ports in ascending order, and as ranges.
Ascending(ports) == Among([p \in 1..MaxPort |-> p], ports)
SinglePorts(ports) == LET up == Ascending(ports) IN [i \in DOMAIN up |-> <<up[i], up[i]>>]

\* The ranges a node asks for, without its own port (add_single, add_range).
Asked(n) == SubtractRange(External(n), <<n.target, n.target>>)

\* The ranges a node asks for less what belongs to others: the ports of other
\* nodes, the ranges already given to other targets.
NodeRanges(infos, n, allocated) ==
    LET protocol == ForwardProtocol(n)
        others == TargetPorts(infos, n.kind, protocol) \ {n.target}
        taken == Among(allocated, {a \in ToSet(allocated) : a.to # n.target /\ a.protocol = protocol})
    IN  SubtractAll(SubtractAll(Asked(n), SinglePorts(others)),
                    [i \in DOMAIN taken |-> taken[i].range])

-----------------------------------------------------------------------------
(* Matchers: a range is one, single ports in a row share multiport ones.   *)

\* flush_singles: a single port comes to the ones just before it while there is
\* room.
AddMatcher(matchers, r) ==
    LET last == matchers[Len(matchers)]
    IN  IF /\ r[1] = r[2]
           /\ matchers # <<>> /\ last[1][1] = last[1][2] /\ Len(last) < MaxMultiport
          THEN [matchers EXCEPT ![Len(matchers)] = Append(@, r)]
          ELSE Append(matchers, <<r>>)

Matchers(ranges) ==
    LET upTo[i \in 0..Len(ranges)] ==
          IF i = 0 THEN <<>> ELSE AddMatcher(upTo[i - 1], ranges[i])
    IN  upTo[Len(ranges)]

-----------------------------------------------------------------------------
(* The rules of one family.                                                *)

NatRule(family, n, matcher) ==
    [chain |-> "PREROUTING", tag |-> family, protocol |-> ForwardProtocol(n),
     match |-> matcher, to |-> n.target]

\* The rules that are not there yet are put behind those that are.
AppendNew(seq, x) == IF Contains(seq, x) THEN seq ELSE Append(seq, x)
AddNew(seq, more) ==
    LET upTo[i \in 0..Len(more)] == IF i = 0 THEN seq ELSE AppendNew(upTo[i - 1], more[i])
    IN  upTo[Len(more)]

\* A node the planner has to complain about before it looks at other nodes.
Invalid(n) ==
    \/ n.target = 0
    \/ External(n) # <<>> /\ (ForwardProtocol(n) = "error" \/ ~ParseOk(External(n)))

\* build_hysteria_port_forward_rules, build_mieru_port_forward_rules: the rules,
\* and how many nodes are reported as errors, node by node.
AddNode(infos, family, done, n) ==
    LET ranges == NodeRanges(infos, n, done.allocated)
        matchers == Matchers(ranges)
    IN  IF n.kind # family THEN done
        ELSE IF Invalid(n) THEN [done EXCEPT !.errors = @ + 1]
        ELSE [allocated |-> done.allocated \o
                [i \in DOMAIN ranges |-> [to |-> n.target, range |-> ranges[i],
                                          protocol |-> ForwardProtocol(n)]],
              rules |-> AddNew(done.rules,
                [i \in DOMAIN matchers |-> NatRule(family, n, matchers[i])]),
              errors |-> done.errors + (IF Asked(n) # <<>> /\ ranges = <<>> THEN 1 ELSE 0)]

BuildPlan(infos, family) ==
    LET upTo[i \in 0..Len(infos)] ==
          IF i = 0 THEN [allocated |-> <<>>, rules |-> <<>>, errors |-> 0]
          ELSE AddNode(infos, family, upTo[i - 1], infos[i])
    IN  upTo[Len(infos)]

BuildRules(infos, family) == BuildPlan(infos, family).rules

AllowRule(family, protocol, port) ==
    [chain |-> "INPUT", tag |-> family, protocol |-> protocol,
     match |-> << <<port, port>> >>, to |-> port]

\* Hysteria2 opens every node's port, Mieru those it redirects to.
AllowRules(infos, family) ==
    IF family = "hy2"
      THEN LET ports == Ascending(TargetPorts(infos, "hy2", "udp"))
           IN  [i \in DOMAIN ports |-> AllowRule("hy2", "udp", ports[i])]
      ELSE LET rules == BuildRules(infos, "mieru")
           IN  AddNew(<<>>,
                 [i \in DOMAIN rules |-> AllowRule("mieru", rules[i].protocol, rules[i].to)])

-----------------------------------------------------------------------------
(* Properties, for a list of nodes.                                        *)

PortsOf(matcher) == UNION {matcher[i][1]..matcher[i][2] : i \in DOMAIN matcher}

\* Where the rules send each port.
Forwards(infos, family, protocol) ==
    LET rules == BuildRules(infos, family)
    IN  UNION {PortsOf(rules[i].match) \X {rules[i].to} :
                 i \in {k \in DOMAIN rules : rules[k].protocol = protocol}}

Asks(n, family, protocol, p) ==
    /\ n.kind = family /\ ~Invalid(n)
    /\ ForwardProtocol(n) = protocol
    /\ p \in PortsOf(External(n))

\* ROADMAP.md "rule planner with conflict checks": the rules of a family send a
\* port to the first node that asks for it, unless some node listens on it, and
\* no other port anywhere (build_*_port_forward_rules and the trimming they do).
FirstAskerGetsPort(infos) ==
    \A f \in Families, pr \in {"tcp", "udp"} :
      Forwards(infos, f, pr) =
        {pt \in (1..MaxPort) \X (1..MaxPort) :
           /\ pt[1] \notin TargetPorts(infos, f, pr)
           /\ \E i \in DOMAIN infos :
                /\ infos[i].target = pt[2]
                /\ Asks(infos[i], f, pr, pt[1])
                /\ \A k \in 1..(i - 1) : ~Asks(infos[k], f, pr, pt[1])}

==============================================================================
