------------------------------- MODULE Faucet -------------------------------
(***************************************************************************)
(* The token faucet (routes/faucet.ts) behind the rate limiter and the     *)
(* body validation of middleware/.  The cooldown of an address is looked   *)
(* at when a request comes and set when its transactions were sent, each   *)
(* of which is awaited: requests interleave in between.                    *)
(***************************************************************************)
EXTENDS Naturals, FiniteSets, FiniteSetsExt

CONSTANTS Addresses,     \* addresses in lower case, as sanitizeAddress gives them
          Clients,       \* x-forwarded-for, x-real-ip, or "unknown"
          Requests,      \* bound: requests in flight at once
          Cooldown,      \* COOLDOWN_MINUTES
          Window,        \* Window[route]: the limiter's window
          Limit,         \* Limit[route]: requests in a window
          LastMinute,    \* bound: last minute
          MaxGrants      \* bound: grants

ASSUME CooldownAssumption == Cooldown \in Nat

VARIABLES minute,        \* Date.now(), from 1
          faucetCooldowns, \* minute of the last cooldown set, 0 for none
          rateLimits,    \* rateLimits[client]: count and resetTime
          request,       \* request[r]: address, tokens still to send, sent, when it came
          grants         \* tokens sent: to whom, when, and when the request came

faucetVars == <<minute, faucetCooldowns, rateLimits, request, grants>>

Tokens == {"CORE", "coreBTC", "BASKET"}
NoRequest == [address |-> "none", route |-> "none", token |-> "none", since |-> 0]
NoWindow == [count |-> 0, resetTime |-> 0]

FaucetInit ==
  /\ minute = 1
  /\ faucetCooldowns = [a \in Addresses |-> 0]
  /\ rateLimits = [c \in Clients |-> NoWindow]
  /\ request = [r \in Requests |-> NoRequest]
  /\ grants = {}

isOnCooldown(a) == faucetCooldowns[a] # 0 /\ minute - faucetCooldowns[a] < Cooldown

\* rateLimit: one map for all routes, so a client's requests to one route are
\* counted in the window that another route may have opened.
Fresh(c) == rateLimits[c].resetTime < minute
Admitted(c, route) == Fresh(c) \/ rateLimits[c].count < Limit[route]
rateLimit(c, route) ==
  [rateLimits EXCEPT ![c] =
     IF Fresh(c) THEN [count |-> 1, resetTime |-> minute + Window[route]]
     ELSE [@ EXCEPT !.count = @ + 1]]

\* The balances route shows whether a request would be refused now.
balances(a, c) ==
  /\ Admitted(c, "balances")
  /\ rateLimits' = rateLimit(c, "balances")
  /\ UNCHANGED <<minute, faucetCooldowns, request, grants>>

Accepted(r, a, route, token) ==
  /\ request[r] = NoRequest
  /\ request' = [request EXCEPT ![r] =
                   [address |-> a, route |-> route, token |-> token, since |-> minute]]

\* Past the limiter and the schema, in which the token is optional: a missing
\* one is refused by the handler, and so is an address on cooldown.
requestToken(r, a, c, token) ==
  /\ Admitted(c, "request")
  /\ rateLimits' = rateLimit(c, "request")
  /\ IF token \in Tokens /\ ~isOnCooldown(a)
     THEN Accepted(r, a, "request", token)
     ELSE UNCHANGED request
  /\ UNCHANGED <<minute, faucetCooldowns, grants>>

\* The route without limiter or schema: the three tokens one after another.
requestAll(r, a) ==
  /\ ~isOnCooldown(a)
  /\ Accepted(r, a, "request-all", "CORE")
  /\ UNCHANGED <<minute, faucetCooldowns, rateLimits, grants>>

Next3(token) == IF token = "CORE" THEN "coreBTC"
                ELSE IF token = "coreBTC" THEN "BASKET" ELSE "none"

\* A cooldown only for the token that was got last.
SetsCooldownIfSent(q, ok) == ok

\* A single request sets the cooldown only if it got its token, the request for
\* all in any case, after the third answer.
SetsCooldown(q, ok) == ok \/ q.route = "request-all"

\* writeContract answers.
Sent(r, ok) ==
  LET q    == request[r]
      over == q.route = "request" \/ Next3(q.token) = "none"
      set  == over /\ SetsCooldown(q, ok)
  IN /\ q # NoRequest
     /\ ok => Cardinality(grants) < MaxGrants
     /\ grants' = IF ok THEN grants \cup {[to |-> q.address, since |-> q.since, at |-> minute]}
                  ELSE grants
     /\ faucetCooldowns' = IF set THEN [faucetCooldowns EXCEPT ![q.address] = minute]
                           ELSE faucetCooldowns
     /\ request' = [request EXCEPT ![r] = IF over THEN NoRequest
                                          ELSE [q EXCEPT !.token = Next3(q.token)]]
     /\ UNCHANGED <<minute, rateLimits>>

MinutePasses ==
  /\ minute < LastMinute /\ minute' = minute + 1
  /\ UNCHANGED <<faucetCooldowns, rateLimits, request, grants>>

FaucetNext ==
  \/ MinutePasses
  \/ \E a \in Addresses, c \in Clients : balances(a, c)
  \/ \E r \in Requests, a \in Addresses :
       \/ \E c \in Clients, token \in Tokens \cup {"none"} : requestToken(r, a, c, token)
       \/ requestAll(r, a)
       \/ \E ok \in BOOLEAN : Sent(r, ok)

FaucetSpec == FaucetInit /\ [][FaucetNext]_faucetVars

-----------------------------------------------------------------------------
\* A request that gets past the cooldown finds every grant to its address a
\* cooldown old, save those of a request for all that is still under way: it
\* sets the cooldown after its third token only (lines 282, 327, 368, 420).
Unfinished(g) ==
  \E r \in Requests : /\ request[r].route = "request-all"
                      /\ request[r].address = g.to /\ request[r].since = g.since
GrantsSpaced ==
  [][\A r \in Requests :
       request[r] = NoRequest /\ request'[r] # NoRequest =>
         \A g \in grants : g.to = request'[r].address =>
           minute - g.at >= Cooldown \/ Unfinished(g)]_faucetVars
=============================================================================
