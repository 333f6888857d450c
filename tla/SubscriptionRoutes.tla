--------------------------- MODULE SubscriptionRoutes --------------------------
(***************************************************************************)
(* The subscription proxy's routing, as functions of its configuration.    *)
(*                                                                         *)
(* /sub/<site>/<token> goes to the panel of that site, any other path to a *)
(* website whose prefix it has.  A website's redirects and cookies are     *)
(* rewritten so that the browser comes back through the proxy.             *)
(*                                                                         *)
(* A path is the sequence of its segments: "/" is <<"">>, "/a/" is         *)
(* <<"a", "">>; the prefix "/" is <<>>.  A URL is an origin and a path.    *)
(***************************************************************************)
EXTENDS Integers, Sequences, FiniteSets, SequencesExt

Root == <<"">>

SiteProfile(site, up, sub) == [site |-> site, up |-> up, sub |-> sub]
WebProfile(site, up, prefix) == [site |-> site, up |-> up, prefix |-> prefix]
Url(origin, path) == [origin |-> origin, path |-> path]

NoUrl == Url("", <<>>)     \* an empty setting
BadUrl == Url("bad", <<>>) \* neither http:// nor https://

-----------------------------------------------------------------------------
(* normalize_subscription_proxy_config.                                    *)

Useful(p) == p.site # "" /\ p.up # NoUrl

\* Profiles without a site or an upstream are skipped; the first of its key,
\* the fields that tell profiles apart, counts.
Keep(kept, p, fields) ==
    IF ~Useful(p) \/ \E i \in DOMAIN kept : \A f \in fields : kept[i][f] = p[f]
      THEN kept ELSE Append(kept, p)

\* A bad upstream is an error, whatever came before it.
Dedupe(profiles, fields) ==
    LET upTo[k \in 0..Len(profiles)] ==
          IF k = 0 THEN <<>> ELSE Keep(upTo[k - 1], profiles[k], fields)
    IN  IF \E i \in DOMAIN profiles : Useful(profiles[i]) /\ profiles[i].up = BadUrl
          THEN [ok |-> FALSE, out |-> <<>>]
          ELSE [ok |-> TRUE, out |-> upTo[Len(profiles)]]

\* The single profile of an old configuration comes last.
Normalize(c) ==
    LET sites == Dedupe(IF c.single.site # "" \/ c.single.up # NoUrl
                          THEN Append(c.profiles, c.single) ELSE c.profiles,
                        {"site"})
        webs == Dedupe(c.websites, {"site", "prefix"})
        some == sites.out # <<>> \/ webs.out # <<>>
    IN  [ok |-> sites.ok /\ webs.ok /\ (c.enabled => some),
         enabled |-> some, profiles |-> sites.out, websites |-> webs.out]

-----------------------------------------------------------------------------
(* Requests.                                                               *)

Error(code) == [kind |-> "error", code |-> code]
Health == [kind |-> "health"]
Upstream(url, profile, rewrite, body, follow) ==
    [kind |-> "upstream", url |-> url, profile |-> profile, rewrite |-> rewrite,
     body |-> body, follow |-> follow]

\* website_proxy_path_matches: whole segments.
Matches(prefix, path) == IsPrefix(prefix, path)

UpstreamPath(prefix, path) ==
    LET rest == SubSeq(path, Len(prefix) + 1, Len(path)) IN IF rest = <<>> THEN Root ELSE rest

\* The longest prefix that matches, the last of equal ones (max_by_key).
WebsiteMatch(websites, path) ==
    LET m == {i \in DOMAIN websites : Matches(websites[i].prefix, path)}
        Beats(i, k) == \/ Len(websites[i].prefix) > Len(websites[k].prefix)
                       \/ Len(websites[i].prefix) = Len(websites[k].prefix) /\ i >= k
    IN  IF m = {} THEN <<>> ELSE <<websites[CHOOSE i \in m : \A k \in m : Beats(i, k)]>>

\* build_website_upstream_url: the upstream's own path, then the request's.
Join(base, path) ==
    Url(base.origin, IF path = Root /\ base.path # <<>> THEN Append(base.path, "")
                     ELSE base.path \o path)

\* The profiles of a site; the first of them counts (find).
OfSite(n, site) == {i \in DOMAIN n.profiles : n.profiles[i].site = site}

\* The token is all that follows the site, further slashes too.
Token(path) == SubSeq(path, 3, Len(path))

\* percent_decode_path_segment, by the segments the token is written in: "%zz"
\* stands for those with an escape that is none, "%20" for those that decode to
\* blanks; all others decode to something.
Decodes(token) == \A i \in DOMAIN token : token[i] # "%zz"
BlankToken(token) == token \in {<<"">>, <<"%20">>}

\* build_subscription_upstream_url: the token is one segment, escaped again.
SiteUrl(site, token) == [origin |-> site.up.origin, path |-> Append(site.up.path, site.sub),
                         token |-> token]

\* Mutant of SiteRoute: an unknown site is looked for among the websites.
SiteRouteFalls(n, request) ==
    LET found == OfSite(n, request.path[2])
        site == n.profiles[Min(found)]
        web == WebsiteMatch(n.websites, request.path)
    IN  IF found # {}
          THEN Upstream(SiteUrl(site, Token(request.path)), site, FALSE, FALSE, TRUE)
        ELSE IF web = <<>> THEN Error(404)
        ELSE Upstream(Join(web[1].up, request.path), web[1], TRUE, FALSE, FALSE)

\* /sub/<site>/<token>: method, form, site and token are checked in this order.
SiteRoute(n, request) ==
    LET found == OfSite(n, request.path[2])
        site == n.profiles[Min(found)]
        token == Token(request.path)
    IN  IF request.method \notin {"GET", "HEAD"} THEN Error(405)
        ELSE IF Len(request.path) < 3 \/ request.path[2] = "" \/ token = <<"">> THEN Error(404)
        ELSE IF found = {} THEN Error(404)
        ELSE IF ~Decodes(token) THEN Error(502)
        ELSE IF BlankToken(token) THEN Error(404)
        ELSE Upstream(SiteUrl(site, token), site, FALSE, FALSE, TRUE)

WebsiteRoute(n, request) ==
    LET web == WebsiteMatch(n.websites, request.path)
    IN  IF request.method = "TRACE" THEN Error(405)
        ELSE IF web = <<>> THEN Error(404)
        ELSE Upstream(Join(web[1].up, UpstreamPath(web[1].prefix, request.path)), web[1],
                      TRUE, request.method # "HEAD", FALSE)

\* plan_subscription_proxy_request.
PlanRequest(n, request) ==
    IF request.path = <<"health">>
      THEN IF request.method \in {"GET", "HEAD"} THEN Health ELSE Error(405)
    ELSE IF Len(request.path) >= 2 /\ request.path[1] = "sub" THEN SiteRoute(n, request)
    ELSE WebsiteRoute(n, request)

\* handle_subscription_proxy_request: the upstream's status, or 502 when there is
\* none (0): it cannot be reached or its answer is too large.
Answer(n, request, upstream) ==
    LET route == PlanRequest(n, request)
    IN  CASE route.kind = "error" -> route.code
          [] route.kind = "health" -> 200
          [] route.kind = "upstream" /\ upstream = 0 -> 502
          [] OTHER -> upstream

\* The challenge server: plan_subscription_proxy_http_request and
\* handle_subscription_proxy_http_request, with the files of the challenge directory.
ChallengeAnswer(request, files) ==
    LET path == request.path
        named == Len(path) = 3 /\ SubSeq(path, 1, 2) = <<".well-known", "pki-validation">>
    IN  IF request.method \notin {"GET", "HEAD"} THEN 405
        ELSE IF path = <<"health">> \/ (named /\ path[3] \in files) THEN 200
        ELSE 404

-----------------------------------------------------------------------------
(* Redirects: rewrite_website_location, prefixed_proxy_path.               *)

\* Mutant of Rewrite: only addresses with the upstream's origin are rewritten.
RewriteOriginOnly(w, loc) ==
    IF loc.origin = w.up.origin /\ IsPrefix(w.up.path, loc.path)
      THEN LET rest == UpstreamPath(w.up.path, loc.path)
           IN  Url("", IF rest = Root THEN w.prefix ELSE w.prefix \o rest)
      ELSE loc

\* prefixed_proxy_path: "/" becomes the prefix itself.
Prefixed(prefix, path) == IF path = Root /\ prefix # <<>> THEN prefix ELSE prefix \o path

\* An address under the upstream's own, or without an origin, comes under the
\* prefix.
Rewrite(w, loc) ==
    IF loc.origin = w.up.origin /\ IsPrefix(w.up.path, loc.path)
      THEN Url("", Prefixed(w.prefix, UpstreamPath(w.up.path, loc.path)))
    ELSE IF loc.origin = "" THEN Url("", Prefixed(w.prefix, loc.path))
    ELSE loc

\* rewrite_website_set_cookie: no domain, and the prefix for a path, given or not.
\* A cookie has a domain or none, "", and a path or none, <<"*">>.
RewriteCookie(w, cookie) ==
    [domain |-> "", path |-> IF w.prefix = <<>> THEN cookie.path ELSE w.prefix]

-----------------------------------------------------------------------------
(* Properties, for a normalized configuration and requests.                *)

\* A path of the proxy's own is never passed to a website, and a subscription
\* only to the panel of the site it names: an unknown site is 404, whatever
\* website has the prefix "/" (plan_subscription_proxy_request).  A page the
\* proxy does not have is told from an upstream that does not answer: 502 is
\* answered where the upstream would be asked, and without one only to a
\* subscription whose token has an escape that cannot be decoded
\* (handle_subscription_proxy_request, percent_decode_path_segment).
\* Nothing of an upstream's is served by the challenge server, which has no TLS.
RoutesToOwner(n, requests) ==
    \A request \in requests :
      LET route == PlanRequest(n, request)
      IN  /\ Answer(n, request, 0) = 502 <=> Answer(n, request, 201) \in {201, 502}
          /\ Answer(n, request, 201) = 502 =>
               request.path[1] = "sub" /\ ~Decodes(Token(request.path))
          /\ route.kind = "upstream" /\ request.path[1] # ".well-known" =>
               ChallengeAnswer(request, {"f"}) \in {404, 405}
          /\ route.kind = "upstream" =>
               IF request.path[1] = "sub" /\ Len(request.path) > 1
                 THEN /\ \E i \in DOMAIN n.profiles : route.profile = n.profiles[i]
                      /\ route.profile.site = request.path[2]
                 ELSE /\ request.path # <<"health">>
                      /\ \E i \in DOMAIN n.websites : route.profile = n.websites[i]

\* Where a browser gets that follows a website's redirect to a page of its own:
\* to that page of that website, when the upstream has no path of its own and no
\* other prefix and no path of the proxy's own lies under the rewritten address
\* (rewrite_website_location, website_proxy_match, build_website_upstream_url).
\* It brings along the cookies that the page would have got without the proxy
\* (rewrite_website_set_cookie).
RedirectComesBack(n, requests) ==
    LET Own(path) == path = <<"health">> \/ (Len(path) >= 2 /\ path[1] = "sub")
    IN  \A request \in requests, target \in {r.path : r \in requests} :
          LET route == PlanRequest(n, request)
              w == route.profile
              full == Prefixed(w.prefix, target)
              cookies == [domain : {"", w.up.origin},
                          path : {SubSeq(target, 1, k) : k \in 0..Len(target)}]
              back == Rewrite(w, Url("", target))
              other == {i \in DOMAIN n.websites :
                          Len(n.websites[i].prefix) > Len(w.prefix)
                            /\ Matches(n.websites[i].prefix, full)}
          IN  route.kind = "upstream" /\ route.rewrite =>
                (w.up.path = <<>> /\ ~Own(full) /\ other = {} =>
                  /\ Rewrite(w, Url(w.up.origin, target)) = back
                  /\ \A cookie \in cookies :
                       LET kept == RewriteCookie(w, cookie)
                       IN  kept.domain = "" /\ IsPrefix(kept.path, back.path)
                  /\ LET again == PlanRequest(n, [method |-> "GET", path |-> back.path])
                     IN  again.kind = "upstream" /\ again.url = Url(w.up.origin, target))

==============================================================================
