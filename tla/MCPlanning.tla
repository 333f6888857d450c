----------------------------- MODULE MCPlanning ----------------------------
(***************************************************************************)
(* Small inputs for the planners of CorePlanning, ProxyPlanning and        *)
(* PortPlanning.  Every step asks one of them.                             *)
(***************************************************************************)
EXTENDS CorePlanning, ProxyPlanning, PortPlanning, TLC

\* The texts that are numbers; chunks and limits are 1 KiB, 32 KiB, 10 MiB and
\* the setting, in the code.
MCNumber == ("0" :> 0) @@ ("1" :> 1) @@ ("01" :> 1) @@ ("2" :> 2) @@ ("3" :> 3)

Lists(S, n) == UNION {[1..k -> S] : k \in 0..n}

---------------------------------------------------------------------------
(* Port forwards: ranges that overlap each other and each other's ports *)

PortSettings == {<<>>, << <<1, 5>> >>, << <<2, 2>>, <<3, 6>> >>,
                 << <<1, 1>>, <<3, 3>>, <<5, 5>> >>, << <<0, 4>> >>}

PortNodes ==
  {Node("hy2", t, p, <<>>, "") : t \in {2, 4}, p \in PortSettings}
  \cup {Node("mieru", t, <<>>, << <<2, 5>> >>, tr) : t \in {0, 3}, tr \in {"tcp", "quic"}}

MCPortInputs == Lists(PortNodes, 2)

---------------------------------------------------------------------------
(* The subscription proxy: sites, websites under nested prefixes *)

Segments == {"", "a", "p", "sub"}
Paths == {<<s>> : s \in Segments \cup {"health"}}
         \cup {<<s, t>> : s \in {"p", "sub"}, t \in Segments}
         \cup {<<"sub", "x", "t">>, <<"sub", "y", "t">>, <<"sub", "x", "%zz">>,
               <<"sub", "x", "%20">>, <<"sub", "x", "", "%zz">>, <<"sub", "x", "t", "%20">>,
               <<"p", "a", "">>, <<"p", "p", "a">>, <<"p", "%zz">>,
               <<".well-known", "pki-validation", "f">>}
MCRequests == [method : {"GET", "POST", "TRACE"}, path : Paths]

Upstreams == {Url("o1", <<>>), Url("o2", <<"b">>)}
Websites == {WebProfile(s, u, p) :
               s \in {"x", "y"}, u \in Upstreams, p \in {<<>>, <<"p">>, <<"p", "a">>}}
Sites == {SiteProfile("x", Url("o1", <<>>), "s"),
          SiteProfile("x", Url("o2", <<>>), "s"),
          SiteProfile("y", BadUrl, "s"), SiteProfile("y", NoUrl, "s")}

MCProxyInputs ==
  [enabled : {TRUE}, single : {SiteProfile("", NoUrl, "")} \cup Sites,
   profiles : Lists(Sites, 1), websites : {<<>>} \cup [1..2 -> Websites]]

---------------------------------------------------------------------------
(* Requests as bytes: heads and bodies around their limits, on slow sockets *)

Header(name, form, value) == [key |-> <<name, form>>, value |-> value]

LengthLines == {<<>>, <<Header("content-length", "low", <<"x">>)>>}
  \cup {<<Header("content-length", "Std", <<n>>)>> : n \in {"0", "1", "2", "3"}}
  \cup {<<Header("content-length", "Std", <<"1">>), Header("content-length", "low", <<n>>)>> :
          n \in {"01", "2"}}
TransferLines == {<<>>, <<Header("transfer-encoding", "low", <<"gzip", "chunked">>)>>}
OtherLines == {<<Header("host", "Std", <<"h">>), Header("connection", "Std", <<"close">>)>>,
               <<Header("x-forwarded-for", "low", <<"c1">>), Header("x-forwarded-for", "low", <<"c2">>)>>,
               <<Header("x-forwarded-for", "Std", <<"c1">>), Header("x-forwarded-for", "low", <<"c2">>)>>}

RawRequest(method, lines, peer, head, total, malformed) ==
  [method |-> method, lines |-> lines, peer |-> peer, head |-> head, total |-> total,
   malformed |-> malformed]

MCRawInputs ==
  {RawRequest(m, l \o o, "", h, t, FALSE) :
     m \in {"GET", "HEAD", "POST"}, l \in LengthLines, o \in TransferLines, h \in 2..5, t \in 0..7}
  \cup {RawRequest("POST", l \o o, p, 2, 4, FALSE) :
           l \in LengthLines, o \in OtherLines, p \in {"", "c3"}}
  \cup {RawRequest("GET", <<>>, "", 2, t, TRUE) : t \in 2..4}

MCAnswers ==
  {[reached |-> r, status |-> 201, announced |-> a, size |-> s,
    headers |-> Headers(<<Header("content-length", "low", <<"2">>),
                        Header("etag", "low", <<"e">>)>>)] :
     r \in BOOLEAN, a \in {<<>>, <<3>>, <<4>>}, s \in {0, 3, 4, 6}}

---------------------------------------------------------------------------
(* Core routes *)

Stream(network, security) ==
  [network |-> network, security |-> security, keys |-> {}, badIgnored |-> FALSE,
   options |-> {}, malformed |-> FALSE, mode |-> "stream-one", quicSecurity |-> "none",
   quicHeader |-> "none"]

Streams == {NoStream} \cup {Stream(n, s) : n \in {"tcp", "xhttp", "quic", "kcp"},
                                           s \in {"none", "tls"}}

Out(tag, protocol, stream, form) ==
  [tag |-> tag, protocol |-> protocol, stream |-> stream, form |-> form, address |-> TRUE,
   port |-> TRUE, user |-> TRUE, method |-> ""]

Outs == {NoValue, Out("block", "blackhole", NoStream, "none"),
         Out("direct", "freedom", NoStream, "none"),
         Out("a", "socks", NoStream, "servers"),
         Out("a", "shadowsocks", NoStream, "flat"),
         Out("b", "vmess", NoStream, "redirect")}
        \cup {Out("b", "vless", s, "vnext") : s \in Streams}

RuleLists == {<<>>, <<<<"address">>>>, <<<<"ip", "address">>>>, <<<<"geoip", "cn">>>>,
              <<<<"ports">>>>, <<<<"network", "udp">>, <<"word">>>>,
              <<<<"source_ip", "ip", "address">>>>}

Actions == {"block", "block_ip", "block_port", "route", "route_ip", "default_out", "protocol",
            "dns", "other"}

OneRoute == [action : Actions, rules : RuleLists, out : Outs]
ManyRoutes == [action : {"route", "route_ip", "default_out", "block"},
               rules : {<<>>, <<<<"geoip", "cn">>>>},
               out : {out \in Outs : out.tag # "b"}]

MCRouteInputs == [1..1 -> OneRoute] \cup [1..2 -> ManyRoutes]

---------------------------------------------------------------------------
(* Inbounds *)

NetworkKeys(keys) == [object |-> TRUE, keys |-> keys, malformed |-> FALSE, multi |-> FALSE]

PanelNode(protocol, network, tls, certMode, flow, users) ==
  [protocol |-> protocol, network |-> network, tls |-> tls, certMode |-> certMode,
   flow |-> flow, users |-> users, port |-> 1, transport |-> "", encryption |-> "",
   cipher |-> IF protocol = "shadowsocks" THEN "aes-128-gcm" ELSE "",
   padding |-> FALSE, bandwidth |-> FALSE, obfs |-> "", obfsPassword |-> 0,
   congestion |-> "", zeroRtt |-> FALSE, ports |-> FALSE, sni |-> TRUE, rejectSni |-> FALSE,
   settings |-> IF network = "ws" THEN NetworkKeys({"path"}) ELSE NoSettings,
   reality |-> IF tls = 2 THEN {"dest", "private_key", "short_id"} ELSE {}]

PlainNodes ==
  {PanelNode(p, n, t, c, f, u) :
     p \in Protocols, n \in {"", "tcp", "ws", "http_upgrade", "gun", "quic", "udp"},
     t \in 0..3, c \in {"", "none", "file"}, f \in {"", "xtls-rprx-vision"},
     u \in {{}, {"uuid", ""}}}

\* One field that belongs to another protocol, or is out of its range.
OddNodes ==
  LET some == {PanelNode(p, "", t, "file", "", {"uuid"}) : p \in Protocols, t \in 0..2}
  IN  {[node EXCEPT !.cipher = c] : node \in some, c \in {"", "aes-128-gcm", "rc4"}}
      \cup {[node EXCEPT !.padding = TRUE] : node \in some}
      \cup {[node EXCEPT !.bandwidth = TRUE] : node \in some}
      \cup {[node EXCEPT !.zeroRtt = TRUE] : node \in some}
      \cup {[node EXCEPT !.ports = TRUE] : node \in some}
      \cup {[node EXCEPT !.users = {"word"}] : node \in some}
      \cup {[node EXCEPT !.port = 0] : node \in some}
      \cup {[node EXCEPT !.transport = t] : node \in some, t \in {"udp", "quic"}}
      \cup {[node EXCEPT !.encryption = "other"] : node \in some}
      \cup {[node EXCEPT !.congestion = c] : node \in some, c \in {"bbr", "vegas"}}
      \cup {[node EXCEPT !.obfs = o, !.obfsPassword = w] :
              node \in some, o \in {"", "salamander"}, w \in {0, 3, 4}}
      \cup {[node EXCEPT !.sni = FALSE, !.rejectSni = r] : node \in some, r \in BOOLEAN}
      \cup {[node EXCEPT !.reality = {"dest"}] : node \in some}
      \cup {[node EXCEPT !.settings = NetworkKeys({k})] : node \in some, k \in {"path", "x"}}

OrdinaryNodes ==
  {OrdinaryNode(p, n, t, f, c) :
     p \in Protocols, n \in OrdinaryNetworks, t \in 0..2, f \in {"", "xtls-rprx-vision"},
     c \in {"", "aes-128-gcm"}}

MCNodeInputs == OrdinaryNodes \cup PlainNodes \cup OddNodes

ASSUME OrdinaryAssumption == OrdinaryNodesIn(MCNodeInputs)

\* The companion needs no users and listens on the port of every other node.
MCCompanions == {[tag |-> "companion", node |-> PanelNode("trojan", "tcp", 1, "file", "", {"uuid"}),
                  listen |-> "h2", routes |-> <<>>]}
MCPlaces == [listen : {"h1", "h2"}, routes : {<<>>}]
            \cup {[listen |-> "h1", routes |-> <<[action |-> "other", rules |-> <<<<"word">>>>,
                                               out |-> NoValue]>>]}
MCSwitches == {{}, {<<"trojan", "grpc", "tls">>, <<"vless", "tcp", "reality">>, <<"mieru", "udp", "none">>}}

---------------------------------------------------------------------------
(* Listeners of three nodes *)

MCHosts == {"h1", "h2"}

Listener(i, protocol, listen, port, network) ==
  [tag |-> i, protocol |-> protocol, listen |-> listen, port |-> port, network |-> network]

ListenersOf(i) ==
  {Listener(i, p, l, port, "tcp") :
     p \in {"vless", "hysteria"}, l \in {"0.0.0.0", "h1", "h2"}, port \in {1, 2}}
  \cup {Listener(i, "shadowsocks", l, port, network) :
          l \in {"0.0.0.0", "h1"}, port \in {1, 2}, network \in {"tcp,udp", ""}}
  \cup {Listener(i, "naive", l, 1, "quic") : l \in {"0.0.0.0", "h1"}}

MCListenerInputs == {<<a, b, c>> : a \in ListenersOf(1), b \in ListenersOf(2), c \in ListenersOf(3)}

---------------------------------------------------------------------------
(* Files with a node, and with machine profiles *)

Given(settings) == [s \in Settings |-> IF s \in settings THEN "given" ELSE ""]
GivenToo(settings) == [s \in Settings |-> IF s \in settings THEN "other" ELSE ""]

MachineProxy(settings, fallback, sites) ==
  [enabled |-> TRUE, settings |-> settings, fallback |-> fallback, sites |-> sites,
   websites |-> <<>>]

FileProxies == {NoProxy, MachineProxy(Given({"listen"}), FALSE, <<[key |-> "s", up |-> "file"]>>)}

AnswerProxy(enabled, settings, single, sites, websites) ==
  [enabled |-> enabled, settings |-> settings, fallback |-> settings["cert"] = "given",
   single |-> single, sites |-> sites, websites |-> websites]

AnswerProxies ==
  {AnswerProxy(FALSE, Given({}), NoRow, <<>>, <<>>),
   AnswerProxy(TRUE, Given({"listen", "cert"}), NoRow, <<[key |-> "s", up |-> ""]>>, <<>>),
   AnswerProxy(TRUE, GivenToo({"cert", "domain"}), NoRow,
               <<[key |-> "s", up |-> "u"], [key |-> "t", up |-> "bad"]>>,
               <<[key |-> "", up |-> "u"]>>),
   AnswerProxy(TRUE, GivenToo({"zerossl"}), NoRow, <<>>, <<>>),
   AnswerProxy(TRUE, GivenToo({"listen"}), [key |-> "r", up |-> ""], <<>>,
               <<[key |-> "", up |-> "u"]>>)}

PanelAnswers == {[ok |-> FALSE]} \cup [ok : {TRUE}, nodes : {<<0>>, <<1, 2>>, <<2, 2>>},
                                      proxy : AnswerProxies]

Profile(url, machine) ==
  [name |-> "", url |-> url, token |-> "", machine |-> machine, dir |-> ""]

ConfigFiles ==
  [panel : {[url |-> "p", token |-> "t", node |-> 1, machine |-> 0]},
   nodes : {<<>>, <<[url |-> "", token |-> "", node |-> 1, machine |-> 0, dir |-> ""]>>},
   profiles : {<<Profile("", 1), Profile("", 2), Profile("q", 1)>>,
               <<Profile("q", 1), Profile("", 1), Profile("", 1)>>},
   proxy : FileProxies, machineEnabled : {FALSE}, continueOnError : {"unset"}, dir : {"d"}]

MCMachineInputs == [config : ConfigFiles, answers : [1..3 -> PanelAnswers], broken : {{2}}]

---------------------------------------------------------------------------
(* A running machine, and what it should run *)

NodeOf(node, token) == NodeConfig("p", token, node, 0, <<"d">>)
Wanted == {NodeOf(1, "t"), NodeOf(1, "u"), NodeOf(2, "t"), NodeOf(0, "t")}

Infos == {[routes |-> FALSE, version |-> 1], [routes |-> FALSE, version |-> 2],
          [routes |-> TRUE, version |-> 1]}
Loads == {[kind |-> "error"], [kind |-> "empty"]} \cup {[kind |-> "info", info |-> i] : i \in Infos}

Runtimes == {[config |-> NodeOf(n, "t"), info |-> i] : n \in 1..2, i \in Infos}
Managers == {[runtimes |-> r, failures |-> <<>>, realtime |-> "on", continueOnError |-> TRUE] :
               r \in Lists(Runtimes, 2)}

\* The panel describes a node whatever its config says besides the id.
MCReconcileInputs ==
  {[manager |-> m, desired |-> d, go |-> go,
    load |-> [c \in {w \in Wanted : w.node > 0} |-> l[c.node]]] :
     m \in Managers, d \in Lists(Wanted, 2), go \in BOOLEAN, l \in [1..2 -> Loads]}

---------------------------------------------------------------------------
(* The planners are asked *)

Next == CoreAsk \/ ProxyAsk \/ AskPorts \/ Forget

Spec == NothingAsked /\ [][Next]_planner

===========================================================================
