----------------------------- MODULE MCPortForward -----------------------------
(* Node lists for TLC: ranges that overlap each other and each other's ports, *)
(* both families, a list with a malformed setting and an empty one.           *)
EXTENDS PortForward

MCTools == <<"iptables", "ip6tables">>

MCNodeLists ==
    { <<>>,
      << Node("hy2", 4, << <<3, 6>> >>, <<>>, ""), Node("hy2", 5, << <<5, 7>> >>, <<>>, "") >>,
      << Node("hy2", 4, << <<0, 6>> >>, <<>>, ""), Node("mieru", 3, <<>>, << <<1, 3>> >>, "tcp") >> }

==============================================================================
