---------------------------- MODULE CoreRoutes ----------------------------
(***************************************************************************)
(* The routing part of the core configuration (src/src/core.rs): what the  *)
(* panel's routes and custom outbounds become in the file the core reads.  *)
(*                                                                         *)
(* A rule is the sequence of its colon-separated parts: <<"ip","address">> *)
(* for "ip:10.0.0.1", <<"word">> for a bare word, <<"geoip","">> for an    *)
(* empty value.  "address" stands for any IP address or CIDR block, "ports"*)
(* for any list of ports and ranges.  A route is a record with its action, *)
(* its trimmed rules, and `out', what its action_value says: NoValue when  *)
(* it is absent or is not JSON with a tag, else the outbound it describes; *)
(* the value of a dns route is an address, kept as a tag.                  *)
(***************************************************************************)
EXTENDS Naturals, Sequences, SequencesExt

NoValue == [tag |-> "none"]
NoStream == [network |-> "none"]

\* An outbound every configuration starts with.
Direct == [tag |-> "direct", protocol |-> "freedom"]

---------------------------------------------------------------------------
(* Rules *)

\* A bare address, geoip:x, and ip:geoip:x, whatever x is.
IsIpRule(rule) ==
  \/ rule = <<"address">>
  \/ rule[1] = "geoip" /\ Len(rule) > 1
  \/ Len(rule) > 2 /\ rule[1] = "ip" /\ rule[2] = "geoip"

IsPortRule(rule) == rule = <<"ports">>

\* source_ip:x, where x may carry an ip: prefix of its own.
IsSourceIpRule(rule) ==
  LET value == Tail(rule)
  IN  IsIpRule(IF value[1] = "ip" /\ Len(value) > 1 THEN Tail(value) ELSE value)

ValuePrefixes == {"domain", "full", "keyword", "geoip", "geosite", "regexp", "protocol"}

\* What a rule of a "route" or "dns" action must look like.  A rule without a
\* known prefix is taken as it is.
RouteTargetOk(rule) ==
  Len(rule) > 1 =>
    /\ rule[1] = "ip" => IsIpRule(Tail(rule))
    /\ rule[1] = "port" => IsPortRule(Tail(rule))
    /\ rule[1] = "network" => rule[2] \in {"tcp", "udp"}
    /\ rule[1] \in ValuePrefixes => rule[2] # ""
    /\ rule[1] # "source_ip"

\* A "block" action takes the same rules, and addresses of the client.
BlockTargetOk(rule) ==
  IF Len(rule) > 1 /\ rule[1] = "source_ip" THEN IsSourceIpRule(rule)
  ELSE RouteTargetOk(rule)

\* block_ip and route_ip: the bare rule gets its prefix.
IpTarget(rule) ==
  IF rule[1] = "geoip" \/ (rule[1] = "ip" /\ Len(rule) > 1) THEN rule ELSE <<"ip">> \o rule

PortTarget(rule) == <<"port">> \o rule
ProtocolTarget(rule) == <<"protocol">> \o rule
Same(rule) == rule

---------------------------------------------------------------------------
(* Custom outbounds *)

IsBlackhole(route) == route.out # NoValue /\ route.out.protocol = "blackhole"

Networks == {"tcp", "ws", "httpupgrade", "grpc", "h2", "http", "xhttp", "splithttp", "quic"}

\* The settings object that belongs to a network.
SettingsKey(network) ==
  CASE network = "ws" -> "wsSettings"
    [] network = "httpupgrade" -> "httpupgradeSettings"
    [] network = "grpc" -> "grpcSettings"
    [] network \in {"h2", "http"} -> "httpSettings"
    [] network = "xhttp" -> "xhttpSettings"
    [] network = "splithttp" -> "splithttpSettings"
    [] network = "quic" -> "quicSettings"
    [] OTHER -> "none"

\* sockopt and mux are ignored, but an ignored value must still be an object.
IgnoredOk(stream) == ~stream.badIgnored

\* xhttp is understood as one h2 stream: mode stream-one, over TLS only, with
\* no option it does not know.
XhttpOk(stream) ==
  /\ stream.options \subseteq {"path", "host", "mode", "headers", "noGRPCHeader",
                               "noGrpcHeader", "method", "uplinkHTTPMethod"}
  /\ ~stream.malformed
  /\ stream.mode = "stream-one"
  /\ stream.security = "tls"

\* A QUIC key needs a cipher, and only the plain header is known.
QuicOk(stream) ==
  /\ ~stream.malformed
  /\ stream.options \subseteq {"security", "key", "header"}
  /\ stream.quicSecurity \in {"none", "aes-128-gcm", "aes128-gcm", "chacha20-poly1305",
                              "chacha20-ietf-poly1305"}
  /\ stream.quicSecurity = "none" => "key" \notin stream.options
  /\ stream.quicHeader = "none"

\* keli_core_rs_route_outbound_stream: what it refuses...
StreamOk(stream) ==
  stream # NoStream =>
    /\ stream.network \in Networks
    /\ stream.security \in {"none", "tls"}
    /\ stream.keys \subseteq {"sockopt", "mux", SettingsKey(stream.network)}
                             \cup (IF stream.security = "tls" THEN {"tlsSettings"} ELSE {})
    /\ IgnoredOk(stream)
    /\ stream.network \in {"xhttp", "splithttp"} => XhttpOk(stream)
    /\ stream.network = "quic" => QuicOk(stream)

\* ... and what it renders: whether there is TLS, and the transport.
StreamTls(stream) == stream # NoStream /\ stream.security = "tls"

StreamTransport(stream) ==
  CASE stream = NoStream \/ stream.network = "tcp" -> "none"
    [] stream.network \in {"xhttp", "splithttp"} -> "h2"
    [] OTHER -> stream.network

\* The endpoint: flat fields win, then a redirect, then the first server, then
\* the first vnext entry.  A redirect names no user.
Endpoint(out) ==
  LET nobody == [address |-> FALSE, port |-> FALSE, user |-> FALSE, method |-> ""]
      server == [address |-> out.address, port |-> out.port, user |-> out.user,
                 method |-> out.method]
  IN  CASE out.form \in {"flat", "servers", "vnext"} -> server
        [] out.form = "redirect" -> [nobody EXCEPT !.address = out.address, !.port = out.port]
        [] OTHER -> nobody

\* The checks of the two protocols that need an identity at the far end.
VlessOk(out) ==
  LET end == Endpoint(out)
  IN  /\ end.address /\ end.port /\ end.user
      /\ end.method # "" =>
           /\ end.method = "xtls-rprx-vision"
           /\ StreamTls(out.stream) /\ StreamTransport(out.stream) = "none"

VmessOk(out) == LET end == Endpoint(out) IN end.address /\ end.port /\ end.user

OutboundOk(out) ==
  /\ out.protocol \in {"freedom", "socks", "socks5", "http", "shadowsocks",
                       "trojan", "vless", "vmess"}
  /\ out.protocol \in {"trojan", "vmess", "vless"} => StreamOk(out.stream)
  /\ out.protocol = "vless" => VlessOk(out)
  /\ out.protocol = "vmess" => VmessOk(out)

RenderedOutbound(out) ==
  LET streamed == out.protocol \in {"trojan", "vmess", "vless"}
  IN  [tag |-> out.tag, protocol |-> out.protocol, end |-> Endpoint(out),
       tls |-> streamed /\ StreamTls(out.stream),
       transport |-> IF streamed THEN StreamTransport(out.stream) ELSE "none"]

---------------------------------------------------------------------------
(* Routes *)

\* A route without rules says nothing, unless it is the default.
Skipped(route) == route.rules = <<>> /\ route.action # "default_out"

Carries(route) == route.action \in {"route", "route_ip", "default_out"}

TargetsOk(route) ==
  \A i \in 1..Len(route.rules) :
    LET rule == route.rules[i]
    IN  CASE route.action = "block" -> BlockTargetOk(rule)
          [] route.action \in {"block_ip", "route_ip"} -> IsIpRule(rule)
          [] route.action = "block_port" -> IsPortRule(rule)
          [] route.action \in {"route", "dns"} -> RouteTargetOk(rule)
          [] OTHER -> TRUE

Targets(route) ==
  LET Prefixed(rule) == CASE route.action \in {"block_ip", "route_ip"} -> IpTarget(rule)
                          [] route.action = "block_port" -> PortTarget(rule)
                          [] route.action = "protocol" -> ProtocolTarget(rule)
                          [] OTHER -> Same(rule)
  IN  IF route.action = "default_out" THEN <<<<"*">>>>
      ELSE [i \in 1..Len(route.rules) |-> Prefixed(route.rules[i])]

\* The part of the file the route becomes: nothing, a block, or the outbound
\* it names.  An outbound value that cannot be read drops the route.
Entries(route) ==
  LET entry(action) == <<[targets |-> Targets(route), action |-> action]>>
  IN  IF Skipped(route) \/ route.action = "dns" THEN <<>>
      ELSE IF ~Carries(route) \/ IsBlackhole(route) THEN entry("block")
      ELSE IF route.out = NoValue THEN <<>>
      ELSE entry(route.out.tag)

\* The error that fails the whole configuration.  The rules of a route whose
\* outbound is dropped are never looked at.
Refused(route) ==
  /\ ~Skipped(route)
  /\ \/ route.action \notin {"block", "block_ip", "block_port", "route", "route_ip",
                             "default_out", "protocol", "dns"}
     \/ Carries(route) /\ route.out # NoValue /\ ~IsBlackhole(route) /\ ~OutboundOk(route.out)
     \/ Entries(route) # <<>> /\ ~TargetsOk(route)
     \/ route.action = "dns" /\ route.out # NoValue /\ ~TargetsOk(route)

RenderRoutes(routes) == FlattenSeq([i \in 1..Len(routes) |-> Entries(routes[i])])

\* push_keli_core_rs_outbound_once: the first of a tag stays.
PushOnce(outbounds, out) ==
  IF \E i \in 1..Len(outbounds) : outbounds[i].tag = out.tag THEN outbounds
  ELSE Append(outbounds, out)

\* A mutant: address routes do not bring their outbound along.
CollectNamesOnly(outbounds, route) ==
  IF Skipped(route) \/ route.action \notin {"route", "default_out"} \/ IsBlackhole(route)
     \/ route.out = NoValue
  THEN outbounds ELSE PushOnce(outbounds, RenderedOutbound(route.out))

Collect(outbounds, route) ==
  IF Skipped(route) \/ ~Carries(route) \/ IsBlackhole(route) \/ route.out = NoValue
  THEN outbounds ELSE PushOnce(outbounds, RenderedOutbound(route.out))

CollectOutbounds(routes) ==
  LET upTo[n \in 0..Len(routes)] ==
        IF n = 0 THEN <<Direct>> ELSE Collect(upTo[n - 1], routes[n])
  IN  upTo[Len(routes)]

\* DNS servers: the configured ones or the two defaults, then one per dns
\* route, limited to the domains of its rules.
RenderDns(servers, routes) ==
  LET Asked(route) == route.action = "dns" /\ route.out # NoValue
      asked == SelectSeq(routes, Asked)
  IN  (IF servers = <<>> THEN <<"1.1.1.1", "8.8.8.8">> ELSE servers)
      \o [i \in 1..Len(asked) |-> [address |-> asked[i].out.tag, domains |-> asked[i].rules]]

\* The part of the configuration this module is about, or why there is none.
RenderConfig(routes) ==
  IF \E i \in 1..Len(routes) : Refused(routes[i]) THEN [ok |-> FALSE]
  ELSE [ok |-> TRUE, routes |-> RenderRoutes(routes), outbounds |-> CollectOutbounds(routes)]

---------------------------------------------------------------------------
(* Properties *)

\* Every outbound a rendered route sends traffic to is in the outbound list
\* of the same file, once: the two are put together by separate loops with
\* their own conditions (core.rs:501 and core.rs:522).
ReferencesResolve(routes) ==
  LET config == RenderConfig(routes)
  IN  config.ok =>
        \A i \in 1..Len(config.routes) :
          LET named == config.routes[i].action
              Has(k) == config.outbounds[k].tag = named
          IN  named # "block" => \E k \in 1..Len(config.outbounds) :
                Has(k) /\ \A j \in 1..Len(config.outbounds) : Has(j) => j = k
===========================================================================
