----------------------------- MODULE ProxyPlanning --------------------------
(***************************************************************************)
(* The planners of the subscription proxy: where its requests go, and how  *)
(* one is read, passed on and answered, asked with any inputs.             *)
(***************************************************************************)
EXTENDS Planner, SubscriptionRoutes, HttpExchange

CONSTANTS
  ProxyInputs,   \* settings of the proxy
  Requests,      \* requests, as they are routed
  RawInputs,     \* requests, as they come over the socket
  Answers        \* answers of an upstream

ASSUME ProxyInputsAssumption ==
  /\ \A c \in ProxyInputs :
       /\ c.profiles \in Seq(ToSet(c.profiles)) /\ c.websites \in Seq(ToSet(c.websites))
       /\ \A w \in ToSet(c.websites) : w.prefix \in Seq(STRING)
  /\ \A request \in Requests : request.path \in Seq(STRING) /\ request.path # <<>>
  /\ \A r \in RawInputs : r.head \in Nat \ {0} /\ r.total \in Nat
  /\ \A up \in Answers : up.size \in Nat

AskProxy == Ask("proxy", ProxyInputs)
AskHttp == Ask("http", RawInputs)

ProxyAsk == AskProxy \/ AskHttp

\* Other steps ask other planners, or forget.
ProxySpec == NothingAsked /\ [][ProxyAsk \/ topic' \notin {"proxy", "http"}]_planner

---------------------------------------------------------------------------
(* Properties *)

\* Subscriptions go to the panel of their site, never to a website.
SubscriptionGoesToOwner ==
  topic = "proxy" => LET n == Normalize(question) IN n.ok => RoutesToOwner(n, Requests)

\* A browser that follows a website's redirect reaches the page it names.
RedirectReturns ==
  topic = "proxy" =>
    LET n == Normalize(question)
    IN  n.ok => RedirectComesBack(n, {r \in Requests : r.method = "GET"})

\* However the bytes of a request arrive, it is passed on and answered exactly.
ExchangeIsExact ==
  topic = "http" => ExchangeExact(question, {"site", "website", "none"}, Answers)

===========================================================================
