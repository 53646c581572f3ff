----------------------------- MODULE HttpGateway -----------------------------
(* The HTTP routes of a tunnel (sdk/http.go) and the payment gate before them         *)
(* (cmd/portal-tunnel/gateway/gateway.go): how the configured routes are composed,     *)
(* which policy and which route a request gets, which path the upstream sees, where    *)
(* its redirects lead, and how a payment is claimed.  A path is the sequence of its     *)
(* segments; in a raw path 0 is an empty segment or "." and -1 is "..".                 *)
EXTENDS Integers, SequencesExt

CONSTANTS
  Configs,       \* lists of configured routes
  RawPaths,      \* request paths
  Locations,     \* paths an upstream redirects to
  Payments,      \* [id, amount] of the payments a client can present
  Network,       \* "sui", "casper" or "nano"
  PayTo,         \* a pay-to account is configured
  Reserved       \* the path of the gateway's own x402 endpoint

VARIABLES
  gateway,       \* "new", "refused" or "serving"
  policies, routes,  \* sorted lists of the gateway and of the router
  servesX402,
  claimed,       \* payments each facilitator has claimed
  opened,        \* history: how many requests each payment has opened, at most MaxOpened
  last           \* the request at hand, as it was answered or as the upstream saw it

vars == <<gateway, policies, routes, servesX402, claimed, opened, last>>

MaxOpened == 2   \* where the history stops counting

Methods == {"GET", "POST"}
None == [at |-> "none"]

(* path.Clean on an absolute path.                                                      *)
NormalizeURLPath(raw) ==
  FoldSeq(LAMBDA s, acc : CASE s = 0 -> acc [] s = -1 -> (IF acc = <<>> THEN acc ELSE Front(acc)) [] OTHER -> Append(acc, s),
          <<>>, raw)

(* The routes under one prefix: the prefix itself and what follows it with a slash.     *)
Under(prefix, path) == Len(prefix) <= Len(path) /\ SubSeq(path, 1, Len(prefix)) = prefix

Init ==
  /\ gateway = "new" /\ policies = <<>> /\ routes = <<>> /\ servesX402 = FALSE
  /\ claimed = {} /\ opened = [p \in Payments |-> 0] /\ last = None

-----------------------------------------------------------------------------
(* ComposeHTTPRoutes                                                                   *)

(* The facilitator of a route: one for every Nano route of the gateway; Sui and Casper  *)
(* payments are settled on the chain, which takes a transaction once.                   *)
(* Mutant: every Nano route gets a facilitator of its own.                              *)
OwnFacilitator(prefix) == IF Network = "nano" THEN prefix ELSE <<>>
Facilitator(prefix) == <<>>

(* A blank method is refused, for an empty list pays every method.                      *)
ValidMethods(methods) == "" \notin methods

Composed(c) ==
  [prefix |-> NormalizeURLPath(c.prefix), amount |-> c.amount, methods |-> c.methods,
   upstreamPath |-> NormalizeURLPath(c.upstreamPath), facilitator |-> Facilitator(NormalizeURLPath(c.prefix))]

Acceptable(config) ==
  /\ config # <<>>
  /\ \A i \in DOMAIN config : IF config[i].amount = 0 THEN config[i].methods = {}
                              ELSE PayTo /\ ValidMethods(config[i].methods)
  /\ \A i, j \in DOMAIN config :
       i # j => NormalizeURLPath(config[i].prefix) # NormalizeURLPath(config[j].prefix)

(* The longest prefix comes first, in the gateway and in the router.                     *)
(* Mutant: the gateway's list is sorted the other way.                                   *)
ShortestFirst(a, b) == Len(a.prefix) < Len(b.prefix)
PolicyOrder(a, b) == Len(a.prefix) > Len(b.prefix)
RouteOrder(a, b) == Len(a.prefix) > Len(b.prefix)

ComposeHTTPRoutes ==
  /\ gateway = "new"
  /\ \E config \in Configs :
       IF ~Acceptable(config) THEN gateway' = "refused" /\ UNCHANGED <<policies, routes, servesX402>>
       ELSE LET built == [i \in DOMAIN config |-> Composed(config[i])]
            IN /\ gateway' = "serving"
               /\ policies' = SortSeq(built, PolicyOrder) /\ routes' = SortSeq(built, RouteOrder)
               /\ servesX402' = \E i \in DOMAIN built : built[i].amount > 0
  /\ UNCHANGED <<claimed, opened, last>>

-----------------------------------------------------------------------------
(* A request                                                                            *)

First(list, path) == CHOOSE i \in DOMAIN list : /\ Under(list[i].prefix, path)
                                                /\ \A j \in 1 .. i - 1 : ~Under(list[j].prefix, path)
Matches(list, path) == \E i \in DOMAIN list : Under(list[i].prefix, path)

(* The path a policy is looked up by.  Mutant: the path as it was sent.                  *)
PathAsSent(raw) == raw
PolicyPath(raw) == NormalizeURLPath(raw)

paidMethod(policy, method) == policy.amount > 0 /\ (policy.methods = {} \/ method \in policy.methods)

(* rewriteProxyRequest: the prefix is cut, the upstream's own path is put before.         *)
UpstreamPath(route, path) == route.upstreamPath \o SubSeq(path, Len(route.prefix) + 1, Len(path))

(* rewriteProxyResponse: the public path of a path the upstream names in a redirect or     *)
(* a cookie.  Mutant: the upstream's own path is not cut.                                  *)
PrefixOnly(route, raw) == IF route.prefix # <<>> /\ Under(route.prefix, raw) THEN raw ELSE route.prefix \o raw
PublicPath(route, raw) ==
  CASE route.prefix # <<>> /\ Under(route.prefix, raw) -> raw
    [] OTHER -> route.prefix \o (IF Under(route.upstreamPath, raw)
                                 THEN SubSeq(raw, Len(route.upstreamPath) + 1, Len(raw)) ELSE raw)

Served(route, path, method, payment) ==
  [at |-> "upstream", path |-> path, method |-> method, route |-> route.prefix, payment |-> payment,
   upstream |-> UpstreamPath(route, path)]

Serve(path, method, payment) ==
  last' = IF Matches(routes, path) THEN Served(routes[First(routes, path)], path, method, payment)
          ELSE [at |-> "notfound"]

(* A facilitator claims a payment once.  Mutant: it does not look.                              *)
ClaimsAgain(claim) == TRUE
Claims(claim) == claim \notin claimed

(* The gate: a payment that fits the policy's contract is claimed before the route serves;     *)
(* any other request gets the challenge.                                                        *)
ServeHTTP(raw, method, payment) ==
  LET path == NormalizeURLPath(raw)
      known == Matches(policies, PolicyPath(raw))
      policy == policies[First(policies, PolicyPath(raw))]
      claim == [by |-> policy.facilitator, payment |-> payment]
  IN /\ gateway = "serving" /\ last = None
     /\ \/ /\ servesX402 /\ path = Reserved
           /\ last' = [at |-> "x402"] /\ UNCHANGED <<claimed, opened>>
        \/ /\ ~(servesX402 /\ path = Reserved) /\ known /\ paidMethod(policy, method)
           /\ IF payment.amount = policy.amount /\ Claims(claim)
              THEN /\ claimed' = claimed \cup {claim}
                   /\ opened' = [opened EXCEPT ![payment] = IF @ < MaxOpened THEN @ + 1 ELSE @]
                   /\ Serve(path, method, payment)
              ELSE last' = [at |-> "challenge"] /\ UNCHANGED <<claimed, opened>>
        \/ /\ ~(servesX402 /\ path = Reserved) /\ ~(known /\ paidMethod(policy, method))
           /\ Serve(path, method, [id |-> 0, amount |-> 0]) /\ UNCHANGED <<claimed, opened>>
     /\ UNCHANGED <<gateway, policies, routes, servesX402>>

(* servePrepare answers for a path and a method with the contract of its policy.                 *)
ServePrepare(raw, method) ==
  LET path == PolicyPath(raw)
  IN /\ gateway = "serving" /\ servesX402 /\ last = None
     /\ last' = IF ~Matches(policies, path) \/ ~paidMethod(policies[First(policies, path)], method)
                THEN [at |-> "notfound"]
                ELSE [at |-> "prepared", path |-> NormalizeURLPath(raw), method |-> method,
                      amount |-> policies[First(policies, path)].amount]
     /\ UNCHANGED <<gateway, policies, routes, servesX402, claimed, opened>>

Respond == last # None /\ last' = None /\ UNCHANGED <<gateway, policies, routes, servesX402, claimed, opened>>

Next ==
  \/ Respond
  \/ ComposeHTTPRoutes
  \/ \E raw \in RawPaths, method \in Methods, payment \in Payments : ServeHTTP(raw, method, payment)
  \/ \E raw \in RawPaths, method \in Methods : ServePrepare(raw, method)

Spec == Init /\ [][Next]_vars

-----------------------------------------------------------------------------
TypeOK ==
  /\ gateway \in {"new", "refused", "serving"}
  /\ \A i \in DOMAIN routes : routes[i].amount \in Nat /\ routes[i].methods \subseteq Methods
  /\ last.at \in {"none", "notfound", "challenge", "x402", "upstream", "prepared"}

(* The route with the longest prefix of the path, without the order of the lists.                 *)
Reference(path) ==
  CHOOSE r \in {routes[i] : i \in DOMAIN routes} :
    /\ Under(r.prefix, path)
    /\ \A i \in DOMAIN routes : Under(routes[i].prefix, path) => Len(routes[i].prefix) <= Len(r.prefix)

(* What reaches an upstream is on the route with the longest prefix; when that route asks for a   *)
(* payment for the method, a payment of its amount was claimed.  The prepare endpoint announces    *)
(* the amount that the route then asks for.                                                        *)
PaidRoutesPaid ==
  /\ last.at = "upstream" =>
       LET r == Reference(last.path)
       IN /\ last.route = r.prefix
          /\ paidMethod(r, last.method) => /\ last.payment.amount = r.amount
                                           /\ \E c \in claimed : c.payment = last.payment
  /\ last.at = "prepared" => LET r == Reference(last.path) IN paidMethod(r, last.method) /\ last.amount = r.amount

(* A payment opens one request, presented again to the same route or to any other one that it      *)
(* would fit: the routes of a gateway share what claims it.                                         *)
PaymentOpensOne == \A p \in Payments : opened[p] <= 1

(* A redirect of an upstream to one of its own paths is followed back to that path on the same       *)
(* route, unless the path reads like a public path already.                                          *)
RedirectsReturn ==
  \A i \in DOMAIN routes, u \in Locations :
    LET r == routes[i]
    IN Under(r.upstreamPath, u) /\ ~(r.prefix # <<>> /\ Under(r.prefix, u)) => UpstreamPath(r, PublicPath(r, u)) = u

GatewaySound == PaidRoutesPaid /\ PaymentOpensOne /\ RedirectsReturn
=============================================================================
