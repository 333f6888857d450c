---------------------------- MODULE CoreInbound ---------------------------
(***************************************************************************)
(* One node of the panel on its way into the core configuration: the       *)
(* inbound plan built from it, the checks of the renderer, the table of    *)
(* what the native core is trusted with, and the rendered inbound          *)
(* (src/src/core.rs, src/src/native_capability.rs, src/src/panel/types.rs).*)
(*                                                                         *)
(* Of a node only what the checks tell apart is kept.  Its fields:         *)
(*   protocol, network, flow, cipher, congestion, encryption: trimmed text;*)
(*   transport: of a mieru node; tls: the panel's number; certMode, port;  *)
(*   padding, bandwidth, zeroRtt, ports, sni, rejectSni: whether it is set;*)
(*   obfs: "" when unset; obfsPassword: its length; reality: the settings  *)
(*   given;                                                                *)
(*   settings: NoSettings or the keys and the shape of the JSON object;    *)
(*   users: the kinds of identity its users have, "" an empty one.         *)
(***************************************************************************)
EXTENDS Naturals, FiniteSets

NoSettings == [object |-> TRUE, keys |-> {}, malformed |-> FALSE, multi |-> FALSE]
NoInbound == [ok |-> FALSE]

Protocols == {"vmess", "vless", "trojan", "shadowsocks", "hysteria2", "tuic", "anytls",
              "socks", "http", "naive", "mieru"}

\* The nodes a panel can send, as far as they are told apart here: the texts are
\* any texts, also those no code knows.
PanelNodes ==
  [protocol : STRING, network : STRING, tls : Nat, certMode : STRING, flow : STRING,
   users : SUBSET STRING, port : Nat, transport : STRING, encryption : STRING, cipher : STRING,
   padding : BOOLEAN, bandwidth : BOOLEAN, obfs : STRING, obfsPassword : Nat,
   congestion : STRING, zeroRtt : BOOLEAN, ports : BOOLEAN, sni : BOOLEAN, rejectSni : BOOLEAN,
   settings : [object : BOOLEAN, keys : SUBSET STRING, malformed : BOOLEAN, multi : BOOLEAN],
   reality : SUBSET STRING]

---------------------------------------------------------------------------
(* From the node to the plan of its inbound *)

\* Security::from_tls_value and security_name.
SecurityOf(tls) ==
  CASE tls = 0 -> "none" [] tls = 1 -> "tls" [] tls = 2 -> "reality" [] OTHER -> "other"

\* A mutant: any certificate mode means TLS is taken off elsewhere.
CertModeIgnored(node) == node.protocol \in {"vmess", "vless", "trojan"}

\* TLS is taken off before the node when the panel gives it no certificate.
CertModeDisablesTls(node) ==
  /\ node.protocol \in {"vmess", "vless", "trojan"}
  /\ node.certMode \in {"", "none"}

InboundSecurity(node) ==
  IF SecurityOf(node.tls) = "tls" /\ CertModeDisablesTls(node) THEN "none"
  ELSE SecurityOf(node.tls)

MieruTransportOk(node) == node.transport \in {"", "tcp", "udp"}

\* core_network_name: a protocol's own default for an empty network.
NetworkOf(node) ==
  IF node.network # "" THEN node.network
  ELSE CASE node.protocol = "trojan" -> "tcp"
         [] node.protocol = "hysteria2" -> "hysteria"
         [] node.protocol = "tuic" -> "tuic"
         [] node.protocol = "mieru" -> IF node.transport = "" THEN "tcp" ELSE node.transport
         [] OTHER -> ""

\* resolve_vless_decryption knows one method.
DecryptionOk(node) ==
  node.protocol = "vless" => node.encryption \in {"", "mlkem768x25519plus"}

\* hysteria2 is hysteria inside the plan and hysteria2 again in the file.
PlanProtocol(protocol) == IF protocol = "hysteria2" THEN "hysteria" ELSE protocol
FileProtocol(protocol) == IF protocol = "hysteria" THEN "hysteria2" ELSE protocol

\* Certificate paths never stay empty: build_cert_info fills in a default.
BuildInbound(node) ==
  IF \/ node.port = 0
     \/ node.protocol = "mieru" /\ node.network = "" /\ ~MieruTransportOk(node)
     \/ ~DecryptionOk(node)
    THEN NoInbound
    ELSE [ok |-> TRUE, protocol |-> PlanProtocol(node.protocol), network |-> NetworkOf(node),
          security |-> InboundSecurity(node), flow |-> node.flow, cipher |-> node.cipher,
          padding |-> node.padding, bandwidth |-> node.bandwidth, obfs |-> node.obfs,
          obfsPassword |-> node.obfsPassword, congestion |-> node.congestion,
          zeroRtt |-> node.zeroRtt, ports |-> node.ports, settings |-> node.settings,
          sni |-> node.sni, rejectSni |-> node.rejectSni, reality |-> node.reality,
          users |-> node.users \ {""}, certFiles |-> TRUE]

\* The aliases a network has.
TransportNetwork(in) ==
  CASE in.network = "" -> IF in.protocol = "shadowsocks" THEN "tcp,udp" ELSE "tcp"
    [] in.network = "websocket" -> "ws"
    [] in.network \in {"http_upgrade", "http-upgrade"} -> "httpupgrade"
    [] in.network = "gun" -> "grpc"
    [] OTHER -> in.network

---------------------------------------------------------------------------
(* What the renderer refuses *)

ScopedFieldsOk(in) ==
  /\ in.protocol # "shadowsocks" => in.cipher = ""
  /\ in.protocol # "anytls" => ~in.padding
  /\ in.protocol # "hysteria" => ~in.bandwidth /\ in.obfs = "" /\ in.obfsPassword = 0
  /\ in.protocol \notin {"tuic", "hysteria"} => in.congestion = ""
  /\ in.protocol # "tuic" => ~in.zeroRtt

\* Vision: VLESS over plain TCP with TLS or Reality.
FlowOk(in, network) ==
  in.flow # "" =>
    /\ in.protocol = "vless"
    /\ in.flow = "xtls-rprx-vision"
    /\ network = "tcp"
    /\ in.security \in {"tls", "reality"}

\* A name is needed to refuse the others.
CertificateOk(in) == in.certFiles /\ (in.rejectSni => in.sni)

TlsOk(in) ==
  /\ \/ TransportNetwork(in) \in {"tcp", "ws", "httpupgrade", "grpc"}
     \/ in.protocol = "naive" /\ TransportNetwork(in) = "quic"
  /\ CertificateOk(in)

RealityOk(in) ==
  /\ in.protocol = "vless"
  /\ TransportNetwork(in) = "tcp"
  /\ in.sni
  /\ {"dest", "private_key", "short_id"} \subseteq in.reality
  /\ "mldsa65_seed" \notin in.reality

PlainTcpOk(in) ==
  LET network == IF in.network = "" THEN "tcp" ELSE in.network
  IN  /\ network \in (IF in.protocol = "shadowsocks" THEN {"tcp", "tcp,udp"} ELSE {"tcp"})
      /\ in.security = "none" \/ (in.protocol = "anytls" /\ in.security = "tls")
      /\ in.protocol # "mieru" => ~in.ports
      /\ FlowOk(in, network)
      /\ in.settings = NoSettings

NaiveOk(in) ==
  /\ in.network \in {"", "tcp", "quic"}
  /\ in.security = "tls" /\ TlsOk(in)
  /\ ~in.ports /\ in.flow = "" /\ in.settings = NoSettings

HttpSettingsOk(settings) ==
  /\ settings.object
  /\ settings.keys \subseteq {"path", "Host", "host", "headers", "ipaddress", "ipAddress",
                              "ip_address"}
  /\ ~settings.malformed

\* multiMode is known and refused.
GrpcSettingsOk(settings) ==
  /\ settings.object
  /\ settings.keys \subseteq {"serviceName", "service_name", "multiMode", "multi_mode"}
  /\ ~settings.malformed
  /\ ~settings.multi

StreamInboundOk(in) ==
  LET network == TransportNetwork(in)
  IN  /\ network \in {"tcp", "ws", "httpupgrade", "grpc"}
      /\ in.security \in {"none", "tls", "reality"}
      /\ in.security = "reality" => RealityOk(in)
      /\ in.security = "tls" => TlsOk(in)
      /\ FlowOk(in, network)
      /\ network = "tcp" => in.settings = NoSettings
      /\ network = "grpc" => GrpcSettingsOk(in.settings)
      /\ network \in {"ws", "httpupgrade"} => HttpSettingsOk(in.settings)

CongestionOk(in) == in.congestion \in {"", "cubic", "bbr", "new_reno", "newreno", "reno"}

TuicOk(in) ==
  /\ TransportNetwork(in) = "tuic"
  /\ in.security = "tls" /\ CertificateOk(in)
  /\ in.flow = "" /\ in.settings = NoSettings
  /\ CongestionOk(in) /\ ~in.zeroRtt
  /\ in.users \subseteq {"uuid"}

Hysteria2Ok(in) ==
  /\ TransportNetwork(in) \in {"hysteria", "hysteria2"}
  /\ in.security = "tls" /\ CertificateOk(in)
  /\ in.flow = "" /\ in.settings = NoSettings
  /\ CongestionOk(in)
  /\ in.obfs # "" \/ in.obfsPassword # 0 => in.obfs = "salamander" /\ in.obfsPassword >= 4

KnownCiphers == {"aes-128-gcm", "aes-256-gcm", "chacha20-ietf-poly1305"}

\* validate_keli_core_rs_inbound, up to the capability table.
FieldsOk(in) ==
  /\ ScopedFieldsOk(in)
  /\ CASE in.protocol \in {"socks", "http", "mieru"} -> PlainTcpOk(in)
       [] in.protocol = "shadowsocks" -> PlainTcpOk(in) /\ in.cipher \in KnownCiphers
       [] in.protocol = "anytls" -> PlainTcpOk(in) /\ (in.security = "tls" => TlsOk(in))
       [] in.protocol = "naive" -> NaiveOk(in)
       [] in.protocol \in {"vless", "trojan", "vmess"} -> StreamInboundOk(in)
       [] in.protocol = "tuic" -> TuicOk(in)
       [] in.protocol = "hysteria" -> Hysteria2Ok(in)
       [] OTHER -> FALSE

---------------------------------------------------------------------------
(* The capability table *)

Row(protocol, transports, securities, udp, flow, status, decision) ==
  [key : {<<protocol, t, s, udp, flow>> : t \in transports, s \in securities},
   status : {status}, decision : {decision}]

Soak == "usable_needs_soak"
Canary == "canary_only"
Warn == "render_native_with_warning"

PlainRows ==
  Row("socks", {"tcp"}, {"none"}, "udp_associate", "none", Soak, Warn) \cup
  Row("http", {"tcp"}, {"none"}, "none", "none", Soak, Warn) \cup
  Row("shadowsocks", {"tcp"}, {"none"}, "native_udp", "none", Soak, Warn)

VlessTcpRows ==
  Row("vless", {"tcp"}, {"none", "tls"}, "udp_over_stream", "none", Soak, Warn) \cup
  Row("vless", {"tcp"}, {"tls", "reality"}, "udp_over_stream", "xtls-rprx-vision", Canary, Warn)

VlessStreamRows ==
  Row("vless", {"ws", "httpupgrade", "grpc"}, {"none", "tls"}, "udp_over_stream", "none",
      Canary, Warn)

VmessTcpRows ==
  Row("vmess", {"tcp"}, {"tls"}, "udp_over_stream", "none", Canary, Warn) \cup
  Row("vmess", {"tcp"}, {"none"}, "udp_over_stream", "none", Soak, Warn)

VmessStreamRows ==
  Row("vmess", {"ws", "httpupgrade", "grpc"}, {"none", "tls"}, "udp_over_stream", "none",
      Canary, Warn)

TrojanRows ==
  Row("trojan", {"tcp"}, {"none"}, "udp_over_stream", "none", Soak, Warn) \cup
  Row("trojan", {"tcp"}, {"tls"}, "udp_over_stream", "none", Canary, Warn) \cup
  Row("trojan", {"ws"}, {"none", "tls"}, "udp_over_stream", "none", Soak, Warn)

TrojanCanaryRows ==
  Row("trojan", {"grpc", "httpupgrade"}, {"none", "tls"}, "udp_over_stream", "none",
      Canary, "reject")

TlsRows ==
  Row("anytls", {"tcp"}, {"none", "tls"}, "udp_over_stream", "none", Canary, Warn) \cup
  Row("hysteria2", {"quic"}, {"tls"}, "native_udp", "none", Soak, Warn) \cup
  Row("tuic", {"quic"}, {"tls"}, "native_udp", "none", Soak, Warn) \cup
  Row("naive", {"h2", "quic"}, {"tls"}, "none", "none", Canary, Warn)

MieruRows ==
  Row("mieru", {"tcp"}, {"none"}, "udp_over_stream", "none", Canary, Warn) \cup
  Row("mieru", {"udp"}, {"none"}, "native_udp", "none", "unsupported", "reject")

\* The inbound rows.  Those of the direct and dns outbounds and of the router
\* are for reading only: no lookup asks for them.
CapabilityMatrix ==
  PlainRows \cup VlessTcpRows \cup VlessStreamRows \cup VmessTcpRows \cup VmessStreamRows
  \cup TrojanRows \cup TrojanCanaryRows \cup TlsRows \cup MieruRows

\* A mutant: naive over TCP is looked up as TCP, not as the HTTP/2 it is.
CapabilityTransportPlain(in) ==
  LET network == TransportNetwork(in)
  IN  CASE network \in {"tcp", "tcp,udp"} -> "tcp"
        [] network \in {"h2", "http"} -> "h2"
        [] network \in {"quic", "hysteria", "hysteria2", "tuic"} -> "quic"
        [] OTHER -> network

\* The transport an inbound is looked up under.
CapabilityTransport(in) ==
  LET network == TransportNetwork(in)
  IN  IF in.protocol = "naive" /\ network = "tcp" THEN "h2"
      ELSE CASE network \in {"tcp", "tcp,udp"} -> "tcp"
             [] network \in {"h2", "http"} -> "h2"
             [] network \in {"quic", "hysteria", "hysteria2", "tuic"} -> "quic"
             [] OTHER -> network

CapabilityUdpMode(in) ==
  CASE in.protocol = "socks" -> "udp_associate"
    [] in.protocol \in {"http", "naive"} -> "none"
    [] in.protocol \in {"shadowsocks", "hysteria", "tuic"} -> "native_udp"
    [] in.protocol = "mieru" /\ TransportNetwork(in) = "udp" -> "native_udp"
    [] OTHER -> "udp_over_stream"

CapabilityKey(in) ==
  <<FileProtocol(in.protocol), CapabilityTransport(in), in.security, CapabilityUdpMode(in),
    IF in.flow = "" THEN "none" ELSE in.flow>>

Unsupported(key) == [key |-> key, status |-> "unsupported", decision |-> "reject"]

Capability(in) ==
  LET rows == {row \in CapabilityMatrix : row.key = CapabilityKey(in)}
  IN  IF rows = {} THEN Unsupported(CapabilityKey(in)) ELSE CHOOSE row \in rows : TRUE

\* KELI_NATIVE_CANARY_ALLOW opens a refused canary row, and no other.  `allow'
\* holds the <<protocol, transport, security>> combinations it names.
CanaryAllowed(row, allow) ==
  /\ row.status = Canary
  /\ row.decision = "reject"
  /\ <<row.key[1], row.key[2], row.key[3]>> \in allow

CapabilityOk(in, allow) ==
  LET row == Capability(in)
  IN  row.decision \in {"render_native", Warn} \/ CanaryAllowed(row, allow)

InboundOk(in, allow) == FieldsOk(in) /\ CapabilityOk(in, allow)

---------------------------------------------------------------------------
(* What is rendered *)

\* Certificate files go with TLS, the Reality keys with Reality.
RenderTls(in) ==
  CASE in.security = "tls" -> [kind |-> "tls", files |-> in.certFiles, keys |-> {}]
    [] in.security = "reality" ->
         [kind |-> "reality", files |-> FALSE, keys |-> in.reality \ {"mldsa65_seed"}]
    [] OTHER -> [kind |-> "none", files |-> FALSE, keys |-> {}]

\* Settings reach the file for the network they belong to.  A gRPC service has
\* a default name.
RenderTransport(in) ==
  LET network == TransportNetwork(in)
      keys == in.settings.keys
      option(name, set) == IF set THEN {name} ELSE {}
  IN  [network |-> network,
       options |->
         (IF network \in {"ws", "httpupgrade"}
            THEN option("path", "path" \in keys)
                 \cup option("host", keys \cap {"Host", "host", "headers"} # {})
            ELSE {})
         \cup option("service_name", network = "grpc")
         \cup (IF in.protocol = "hysteria"
                 THEN option("bandwidth", in.bandwidth) \cup option("obfs", in.obfs # "")
                      \cup option("obfs_password", in.obfsPassword # 0)
                 ELSE {})
         \cup option("congestion_control",
                     in.protocol \in {"tuic", "hysteria"} /\ in.congestion # "")]

RenderInbound(in, withUsers) ==
  [protocol |-> FileProtocol(in.protocol), flow |-> in.flow,
   cipher |-> IF in.protocol = "shadowsocks" THEN in.cipher ELSE "null",
   padding |-> in.padding, users |-> IF withUsers THEN in.users ELSE {},
   transport |-> RenderTransport(in), tls |-> RenderTls(in)]

\* These inbounds are not opened before they have a user.
RequiresUsers(protocol) == protocol \in {"vmess", "shadowsocks", "anytls", "mieru", "naive"}

\* What becomes of a node: left out until it has users, the end of the whole
\* plan, or an inbound of the file.
Outcome(node, allow) ==
  LET in == BuildInbound(node)
  IN  IF RequiresUsers(node.protocol) /\ node.users \ {""} = {} THEN [kind |-> "waits"]
      ELSE IF ~in.ok THEN [kind |-> "refused"]
      ELSE IF ~InboundOk(in, allow) THEN [kind |-> "refused"]
      ELSE [kind |-> "rendered", inbound |-> RenderInbound(in, TRUE)]

---------------------------------------------------------------------------
(* kelinode gray-preflight: the table, node by node *)

WithoutUsers(node) == [node EXCEPT !.users = {}]

\* A mutant: the table is asked about the nodes the plan has an inbound for.
PreflightBlockedLate(node, allow) ==
  LET in == BuildInbound(node)
  IN  ~RequiresUsers(node.protocol) /\ (~in.ok \/ ~CapabilityOk(in, allow))

\* push_native_capability_preflight_findings: the errors.
PreflightBlocked(node, allow) ==
  LET in == BuildInbound(node) IN ~in.ok \/ ~CapabilityOk(in, allow)

---------------------------------------------------------------------------
(* Properties *)

\* No node the panel wants encrypted is opened in plain: what is rendered for
\* a node with tls set has TLS or Reality, unless the panel says that there is
\* no certificate on a protocol that may sit behind a TLS terminator
\* (core.rs:3353).
NoPlaintext(node, allow) ==
  LET out == Outcome(node, allow)
  IN  out.kind = "rendered" /\ out.inbound.tls.kind = "none" =>
        \/ node.tls = 0
        \/ node.protocol \in {"vmess", "vless", "trojan"} /\ node.certMode \in {"", "none"}

\* The table and the field checks are kept by hand in two files.  Every row
\* the table would render is reached by some node of `nodes' (no dead row), and
\* no two rows answer to one key with different decisions.
EveryRowReached(nodes) ==
  /\ \A row \in CapabilityMatrix :
       row.decision # "reject" =>
         \E node \in nodes :
           Outcome(node, {}).kind = "rendered" /\ CapabilityKey(BuildInbound(node)) = row.key
  /\ \A a, b \in CapabilityMatrix : a.key = b.key => a = b
===========================================================================
