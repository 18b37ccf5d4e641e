-------------------------- MODULE SessionRefresh --------------------------
(***************************************************************************)
(* The cookie session of one browser with the explorer API, and its silent *)
(* renewal (backend/internal/api/auth_handlers.go, internal/auth/sso.go).  *)
(*                                                                         *)
(* The browser keeps two cookies, an access token and a refresh token,     *)
(* that every request of every tab carries.  The API's middleware renews   *)
(* an access token that is about to expire by calling the privacy proxy's  *)
(* /refresh, which rotates the refresh token: the presented one dies and a *)
(* new pair is minted.  Concurrent renewals of one refresh token share one *)
(* call (singleflight); its first caller, the leader, lends the call its   *)
(* request context.  Responses reach the browser in any order.             *)
(*                                                                         *)
(* Token pairs are numbered in the order the proxy mints them; pair k is   *)
(* an access token k, which the API checks for expiry (with a leeway where *)
(* it verifies the signature too), and a refresh token k, whose state only *)
(* the proxy knows.                                                        *)
(***************************************************************************)
EXTENDS Integers, FiniteSets

CONSTANTS
  Requests,   \* request slots of the browser: what it may have in flight
  MaxPairs,   \* bound: pairs the proxy mints
  MaxTime,    \* bound: the clock
  TTL,        \* AccessTokenTTL of the proxy
  Threshold,  \* refreshThreshold
  Verified,   \* is there a verifier of tokens (SSO_JWKS_URL)?
  Leeway,     \* how long past its expiry the verifier takes a token
  Kinds,      \* the requests the browser makes
  Aborts,     \* may the browser drop a request (navigation, closed tab)?
  Faults,     \* may calls to the proxy fail (network, 5xx, timeout)?
  Refreshless \* may the code exchange answer without a refresh token?

ASSUME SessionAssumption ==
  /\ MaxPairs \in Nat \ {0} /\ MaxTime \in Nat
  /\ TTL \in Nat /\ Threshold \in Nat
  /\ Verified \in BOOLEAN /\ Leeway \in Nat
  /\ Kinds \subseteq {"api", "status", "logout", "callback"}
  /\ Aborts \in BOOLEAN /\ Faults \in BOOLEAN /\ Refreshless \in BOOLEAN

VARIABLES
  now,      \* the clock
  exp,      \* exp[k]: when access token k expires
  token,    \* token[k]: the proxy's state of refresh token k
  login,    \* login[k]: the pair minted at the login that k descends from
  minted,   \* pairs minted so far
  bannedAt, \* when the proxy banned the user, or Never
  late,     \* refresh tokens of calls given up on that the proxy may yet serve
  jar,      \* the browser's cookies
  pc,       \* pc[r]: where the API is with request r
  req,      \* req[r]: the request, and what its handling has found so far
  out,      \* out[r]: the Set-Cookie headers of its response so far
  call      \* call[l]: the /refresh call that leader l makes

proxyVars == <<exp, token, login, minted, late>>
vars == <<now, proxyVars, bannedAt, jar, pc, req, out, call>>

Pairs == 1 .. MaxPairs
None == 0          \* no cookie; as a Set-Cookie, a deletion (MaxAge -1)
Keep == -1         \* no Set-Cookie for this cookie
Never == -1

Revoked == 0       \* the answer ErrRefreshRevoked
Failed == -1       \* any other error of RefreshTokens

TokenStates == {"unminted", "live", "rotated", "rotatedLate", "revoked"}
Cookies == [acc : Pairs \cup {None}, ref : Pairs \cup {None}]
SetCookies == [acc : Pairs \cup {None, Keep}, ref : Pairs \cup {None, Keep}]
Request == [kind : Kinds \cup {"none"}, acc : Pairs \cup {None},
            ref : Pairs \cup {None}, ans : Pairs \cup {Revoked, Failed},
            leader : Requests, fresh : BOOLEAN, gone : BOOLEAN,
            authed : BOOLEAN]
PC == {"idle", "sent", "wait", "resumed", "handler", "done"}

NoCookies == [acc |-> None, ref |-> None]
NoSetCookie == [acc |-> Keep, ref |-> Keep]
Pair(k) == [acc |-> k, ref |-> k]
NoRequest(r) == [kind |-> "none", acc |-> None, ref |-> None, ans |-> Failed,
                 leader |-> r, fresh |-> FALSE, gone |-> FALSE, authed |-> FALSE]
NoCall == [st |-> "none", key |-> None, ans |-> Failed, fresh |-> FALSE]
Call == {NoCall} \cup [st : {"calling", "answered"}, key : Pairs,
                       ans : Pairs \cup {Revoked, Failed}, fresh : BOOLEAN]

TypeOK ==
  /\ now \in 0 .. MaxTime
  /\ exp \in [Pairs -> 0 .. MaxTime + TTL]
  /\ token \in [Pairs -> TokenStates]
  /\ login \in [Pairs -> Pairs \cup {None}]
  /\ minted \in 0 .. MaxPairs
  /\ bannedAt \in (0 .. MaxTime) \cup {Never}
  /\ late \in SUBSET Pairs
  /\ jar \in Cookies
  /\ pc \in [Requests -> PC]
  /\ req \in [Requests -> Request]
  /\ out \in [Requests -> SetCookies]
  /\ call \in [Requests -> Call]

\* The user has just logged in and holds pair 1.
Init ==
  /\ now = 0 /\ minted = 1 /\ bannedAt = Never /\ late = {}
  /\ exp = [k \in Pairs |-> IF k = 1 THEN TTL ELSE 0]
  /\ token = [k \in Pairs |-> IF k = 1 THEN "live" ELSE "unminted"]
  /\ login = [k \in Pairs |-> IF k = 1 THEN 1 ELSE None]
  /\ jar = Pair(1)
  /\ pc = [r \in Requests |-> "idle"]
  /\ req = [r \in Requests |-> NoRequest(r)]
  /\ out = [r \in Requests |-> NoSetCookie]
  /\ call = [r \in Requests |-> NoCall]

---------------------------------------------------------------------------
(* Claims and cookies *)

IsExpired(k) == now > exp[k]                       \* JWTClaims.IsExpired
TimeToExpiry(k) == exp[k] - now
Unexpired(k) == k # None /\ ~IsExpired(k)

\* VerifyToken of a token with a good signature (jwt.WithLeeway).
VerifyToken(k) == k # None /\ now < exp[k] + Leeway

\* Mutant: the expiry of the token is not looked at.
AuthenticatesForever(k) == k # None

\* GetAuthDID, when the keys of the verifier are at hand.
Authenticates(k) == IF Verified THEN VerifyToken(k) ELSE Unexpired(k)

Clear == NoCookies                                 \* clearAuthCookies

Goto(r, from, to) == pc[r] = from /\ pc' = [pc EXCEPT ![r] = to]

---------------------------------------------------------------------------
(* The privacy proxy *)

\* Mint pair minted + 1 for the session that logged in with pair s (0: itself).
Mint(s) ==
  LET k == minted + 1 IN
  /\ k \in Pairs
  /\ minted' = k
  /\ exp' = [exp EXCEPT ![k] = now + TTL]
  /\ login' = [login EXCEPT ![k] = IF s = None THEN k ELSE s]

Live(k) == k # None /\ token[k] = "live"
Rotates(k) == Live(k) /\ bannedAt = Never

\* /refresh of token k succeeds: k dies as `how`, its successor is live.
Rotate(k, how) ==
  /\ Rotates(k)
  /\ Mint(login[k])
  /\ token' = [token EXCEPT ![k] = how, ![minted + 1] = "live"]

\* The proxy serves the call of leader l.
ProxyRefresh(l) ==
  LET k == call[l].key IN
  /\ call[l].st = "calling"
  /\ \/ /\ Rotate(k, "rotated")
        /\ call' = [call EXCEPT ![l].st = "answered", ![l].ans = minted + 1]
     \/ /\ ~Rotates(k)
        /\ call' = [call EXCEPT ![l].st = "answered", ![l].ans = Revoked]
        /\ UNCHANGED <<exp, token, login, minted>>
  /\ UNCHANGED <<now, bannedAt, late, jar, pc, req, out>>

\* The proxy serves a call whose caller has given up; its answer goes nowhere.
LateRefresh(k) ==
  /\ k \in late
  /\ late' = late \ {k}
  /\ \/ Rotate(k, "rotatedLate")
     \/ ~Rotates(k) /\ UNCHANGED <<exp, token, login, minted>>
  /\ UNCHANGED <<now, bannedAt, jar, pc, req, out, call>>

\* An operator bans the user: no refresh succeeds from now on.
Ban ==
  /\ bannedAt = Never
  /\ bannedAt' = now
  /\ UNCHANGED <<now, proxyVars, jar, pc, req, out, call>>

---------------------------------------------------------------------------
(* The browser *)

\* A request leaves with the cookies of this moment.
Send(r, k) ==
  /\ Goto(r, "idle", "sent")
  /\ req' = [req EXCEPT ![r] =
       [NoRequest(r) EXCEPT !.kind = k, !.acc = jar.acc, !.ref = jar.ref,
          !.fresh = Live(jar.ref)]]
  /\ UNCHANGED <<now, proxyVars, bannedAt, jar, out, call>>

\* Its response arrives and the Set-Cookie headers are applied, unless the
\* browser has dropped the request.
Deliver(r) ==
  /\ Goto(r, "done", "idle")
  /\ jar' = IF req[r].gone THEN jar
            ELSE [acc |-> IF out[r].acc = Keep THEN jar.acc ELSE out[r].acc,
                  ref |-> IF out[r].ref = Keep THEN jar.ref ELSE out[r].ref]
  /\ req' = [req EXCEPT ![r] = NoRequest(r)]
  /\ out' = [out EXCEPT ![r] = NoSetCookie]
  /\ UNCHANGED <<now, proxyVars, bannedAt, call>>

\* The browser drops the request: the API sees its context cancelled.
Abort(r) ==
  /\ Aborts /\ pc[r] # "idle" /\ ~req[r].gone
  /\ req' = [req EXCEPT ![r].gone = TRUE]
  /\ UNCHANGED <<now, proxyVars, bannedAt, jar, pc, out, call>>

\* The access cookie outlives its token (CookieMaxAge > AccessTokenTTL), the
\* refresh cookie outlives both (RefreshCookieMaxAge).
AccessCookieLapses ==
  /\ jar.acc # None /\ IsExpired(jar.acc)
  /\ jar' = [jar EXCEPT !.acc = None]
  /\ UNCHANGED <<now, proxyVars, bannedAt, pc, req, out, call>>

---------------------------------------------------------------------------
(* refreshAuthMiddleware *)

NeedsRefresh(r) ==
  /\ Unexpired(req[r].acc)
  /\ TimeToExpiry(req[r].acc) <= Threshold
  /\ req[r].ref # None

PassThrough(r) ==
  /\ Goto(r, "sent", "handler")
  /\ \/ req[r].acc = None
     \/ Unexpired(req[r].acc) /\ ~NeedsRefresh(r)
  /\ UNCHANGED <<now, proxyVars, bannedAt, jar, req, out, call>>

ClearExpired(r) ==
  /\ Goto(r, "sent", "handler")
  /\ req[r].acc # None /\ IsExpired(req[r].acc)
  /\ out' = [out EXCEPT ![r] = Clear]
  /\ UNCHANGED <<now, proxyVars, bannedAt, jar, req, call>>

\* Mutant: no singleflight, every request makes a call of its own.
InFlightUnshared(l, r) == l = r /\ call[l].st # "none"

\* refreshGroup.Do: is l's call the one r would join?
InFlight(l, r) == call[l].st # "none" /\ call[l].key = req[r].ref

LeadRefresh(r) ==
  /\ Goto(r, "sent", "wait")
  /\ NeedsRefresh(r)
  /\ \A l \in Requests : ~InFlight(l, r)
  /\ call' = [call EXCEPT ![r] =
       [st |-> "calling", key |-> req[r].ref, ans |-> Failed,
        fresh |-> Live(req[r].ref)]]
  /\ req' = [req EXCEPT ![r].leader = r]
  /\ UNCHANGED <<now, proxyVars, bannedAt, jar, out>>

JoinRefresh(r) ==
  /\ Goto(r, "sent", "wait")
  /\ NeedsRefresh(r)
  /\ \E l \in Requests :
       /\ InFlight(l, r)
       /\ req' = [req EXCEPT ![r].leader = l]
  /\ UNCHANGED <<now, proxyVars, bannedAt, jar, out, call>>

Waiters(l) == {r \in Requests : pc[r] = "wait" /\ req[r].leader = l}

\* Mutant: the end of a call wakes its leader only.
EndCallAlone(l, a) ==
  /\ pc' = [pc EXCEPT ![l] = "resumed"]
  /\ req' = [req EXCEPT ![l].ans = a]
  /\ call' = [call EXCEPT ![l] = NoCall]
  /\ UNCHANGED <<now, exp, token, login, minted, bannedAt, jar, out>>

\* The leader's call ends with answer a: everyone waiting on it gets a.
EndCall(l, a) ==
  /\ pc' = [r \in Requests |-> IF r \in Waiters(l) THEN "resumed" ELSE pc[r]]
  /\ req' = [r \in Requests |->
       IF r \in Waiters(l) THEN [req[r] EXCEPT !.ans = a, !.leader = r] ELSE req[r]]
  /\ call' = [call EXCEPT ![l] = NoCall]
  /\ UNCHANGED <<now, exp, token, login, minted, bannedAt, jar, out>>

CallReturns(l) ==
  /\ call[l].st = "answered"
  /\ EndCall(l, call[l].ans)
  /\ UNCHANGED late

\* RefreshTokens fails: the network, the proxy, the 30 s client timeout, or the
\* leader's own context.  A call that was sent may still be served (late).
CallFails(l) ==
  /\ call[l].st # "none"
  /\ Faults \/ req[l].gone \/ (call[l].st = "calling" /\ minted = MaxPairs)
  /\ EndCall(l, Failed)
  /\ \/ UNCHANGED late
     \/ call[l].st = "calling" /\ late' = late \cup {call[l].key}

\* Mutant: "revoked" ends the session though the access token is still valid.
ResumeClears(r) ==
  /\ Goto(r, "resumed", "handler")
  /\ out' = [out EXCEPT ![r] =
       CASE req[r].ans \in Pairs -> Pair(req[r].ans)
         [] req[r].ans = Revoked -> Clear
         [] OTHER -> NoSetCookie]
  /\ req' = [req EXCEPT ![r].ans = Failed, ![r].fresh = FALSE]
  /\ UNCHANGED <<now, proxyVars, bannedAt, jar, call>>

\* The middleware goes on with the outcome of the refresh.
Resume(r) ==
  /\ Goto(r, "resumed", "handler")
  /\ out' = [out EXCEPT ![r] =
       CASE req[r].ans \in Pairs -> Pair(req[r].ans)
         [] req[r].ans = Revoked /\ IsExpired(req[r].acc) -> Clear
         [] OTHER -> NoSetCookie]
  /\ req' = [req EXCEPT ![r].ans = Failed, ![r].fresh = FALSE]
  /\ UNCHANGED <<now, proxyVars, bannedAt, jar, call>>

---------------------------------------------------------------------------
(* The handlers behind it; they still see the cookies the request came with *)

\* Any route that asks who the caller is.  A verifier without the keys of the
\* proxy (known = FALSE) refuses every token.
HandleAPI(r) ==
  /\ req[r].kind = "api" /\ Goto(r, "handler", "done")
  /\ \E known \in {TRUE, ~Verified} :
       req' = [req EXCEPT ![r].authed = known /\ Authenticates(req[r].acc)]
  /\ UNCHANGED <<now, proxyVars, bannedAt, jar, out, call>>

HandleAuthStatus(r) ==
  /\ req[r].kind = "status" /\ Goto(r, "handler", "done")
  /\ req' = [req EXCEPT ![r].authed = Unexpired(req[r].acc)]
  /\ out' = IF req[r].acc # None /\ IsExpired(req[r].acc)
            THEN [out EXCEPT ![r] = Clear] ELSE out
  /\ UNCHANGED <<now, proxyVars, bannedAt, jar, call>>

\* RevokeToken may fail; the cookies are cleared all the same.
HandleAuthLogout(r) ==
  /\ req[r].kind = "logout" /\ Goto(r, "handler", "done")
  /\ \/ /\ Live(req[r].ref) /\ ~req[r].gone
        /\ token' = [token EXCEPT ![req[r].ref] = "revoked"]
     \/ /\ Faults \/ req[r].gone \/ ~Live(req[r].ref)
        /\ UNCHANGED token
  /\ out' = [out EXCEPT ![r] = Clear]
  /\ UNCHANGED <<now, exp, login, minted, late, bannedAt, jar, req, call>>

\* The code exchange mints the first pair of a new session, or fails.
HandleAuthCallback(r) ==
  /\ req[r].kind = "callback" /\ Goto(r, "handler", "done")
  /\ \/ \E hasRefresh \in {TRUE, ~Refreshless} :
          /\ bannedAt = Never /\ ~req[r].gone
          /\ Mint(None)
          /\ token' = [token EXCEPT
               ![minted + 1] = IF hasRefresh THEN "live" ELSE "unminted"]
          /\ out' = [out EXCEPT ![r].acc = minted + 1,
                       ![r].ref = IF hasRefresh THEN minted + 1 ELSE @]
     \/ /\ Faults \/ req[r].gone \/ bannedAt # Never \/ minted = MaxPairs
        /\ UNCHANGED <<exp, token, login, minted, out>>
  /\ UNCHANGED <<now, late, bannedAt, jar, req, call>>

---------------------------------------------------------------------------
Tick ==
  /\ now < MaxTime
  /\ now' = now + 1
  /\ UNCHANGED <<proxyVars, bannedAt, jar, pc, req, out, call>>

Middleware(r) ==
  PassThrough(r) \/ ClearExpired(r) \/ LeadRefresh(r) \/ JoinRefresh(r) \/ Resume(r)

Handler(r) ==
  HandleAPI(r) \/ HandleAuthStatus(r) \/ HandleAuthLogout(r) \/ HandleAuthCallback(r)

Refreshing(r) == ProxyRefresh(r) \/ CallReturns(r) \/ CallFails(r)

Next ==
  \/ Tick \/ Ban \/ AccessCookieLapses
  \/ \E k \in Pairs : LateRefresh(k)
  \/ \E r \in Requests :
       \/ \E k \in Kinds : Send(r, k)
       \/ Middleware(r) \/ Refreshing(r) \/ Handler(r) \/ Deliver(r) \/ Abort(r)

Spec == Init /\ [][Next]_vars

\* The API serves what it has received and the http client's timeout ends a
\* call the proxy does not answer; users, the network and the clock owe nothing.
Fairness == \A r \in Requests :
  WF_vars(Middleware(r)) /\ WF_vars(Handler(r)) /\ WF_vars(Refreshing(r))

FairSpec == Spec /\ Fairness

---------------------------------------------------------------------------
(* Properties *)

\* Single flight (auth_handlers.go:306-316): at no time do two /refresh calls
\* present the same refresh token.
OneCallPerToken ==
  \A l, m \in Requests :
    call[l].st # "none" /\ call[m].st # "none" /\ call[l].key = call[m].key => l = m

\* A burst never revokes itself: when a call that began with a live token is
\* told "revoked", no sibling of the burst rotated that token; it was revoked
\* at the proxy, or by a call given up on earlier.
BurstNotSelfRevoked ==
  \A l \in Requests :
    call[l].st = "answered" /\ call[l].ans = Revoked /\ call[l].fresh
      => token[call[l].key] # "rotated"

\* A waiting request always has a call under way that will release it, and that
\* call is for the token the request itself carries.
WaitersHaveCall ==
  \A r \in Requests :
    pc[r] = "wait" => /\ call[req[r].leader].st # "none"
                      /\ call[req[r].leader].key = req[r].ref

ClearJustified(r) ==
  out[r] = Clear /\ req[r].kind # "logout" =>
    req[r].acc # None /\ IsExpired(req[r].acc)

\* REQ-5.3: losing a rotation race does not log the user out.  Unless it is a
\* logout, a response deletes the cookies only if the access token that its own
\* request carried has expired.
ClearedOnlyWhenExpired == \A r \in Requests : ClearJustified(r)

\* The two cookies are never of different pairs, in the browser or on their way
\* to it, as long as the proxy answers the code exchange with a refresh token.
CookiesPaired ==
  ~Refreshless =>
    /\ jar.acc \in {None, jar.ref}
    /\ \A r \in Requests : out[r].acc = out[r].ref

\* How long after a ban the API may still take a request for the user's.
InBanWindow ==
  now <= bannedAt + TTL \/ (Verified /\ now < bannedAt + TTL + Leeway)

\* REQ-5.3: however the renewals, the ban and the responses interleave, the API
\* takes no request for a banned user's later than AccessTokenTTL after the ban,
\* or the verifier's leeway later than that where there is a verifier.
BanWindow ==
  [][\A r \in Requests :
       ~req[r].authed /\ req'[r].authed /\ bannedAt # Never => InBanWindow]_vars

\* No request stays blocked on a refresh, whatever happens to its leader.
RefreshReleasesWaiters ==
  \A r \in Requests : pc[r] = "wait" ~> pc[r] # "wait"

---------------------------------------------------------------------------
(* The inductive invariant behind these properties *)

\* The leader of a call waits on it itself.
LeadersWait ==
  \A l \in Requests :
    call[l].st # "none" => pc[l] = "wait" /\ req[l].leader = l

\* The token of a call that began live is rotated only by that call's success.
FreshUnlessRotated ==
  \A l \in Requests :
    call[l].st # "none" /\ call[l].fresh /\ token[call[l].key] = "rotated"
      => call[l].st = "answered" /\ call[l].ans # Revoked

SingleFlightInv ==
  OneCallPerToken /\ WaitersHaveCall /\ LeadersWait /\ FreshUnlessRotated

\* No Set-Cookie is decided before the middleware is done, and no cookie is of
\* a pair the proxy has not minted.
CookieOK(r) ==
  /\ ClearJustified(r)
  /\ pc[r] \in {"idle", "sent", "wait", "resumed"} => out[r] = NoSetCookie
  /\ pc[r] \in {"wait", "resumed"} => req[r].acc # None
  /\ req[r].acc <= minted /\ req[r].ans <= minted
  /\ out[r].acc <= minted /\ call[r].ans <= minted

CookieInv == jar.acc <= minted /\ \A r \in Requests : CookieOK(r)

\* No access token lives longer than TTL, nor longer than TTL from a ban.
ExpiryInv ==
  /\ bannedAt <= now
  /\ \A k \in Pairs :
       exp[k] <= (IF bannedAt = Never THEN now ELSE bannedAt) + TTL

\* What every step preserves; it implies each state property above.
IInv == TypeOK /\ SingleFlightInv /\ CookieInv /\ CookiesPaired /\ ExpiryInv

---------------------------------------------------------------------------
(* What the repository says and the code does not do *)

\* auth_handlers.go:311-312: every waiter of the collapsed call receives the
\* freshly minted pair.
WaitersReceivePair ==
  \A r \in Requests :
    pc[r] = "resumed" /\ req[r].ans = Failed /\ ~req[r].gone
      => token[req[r].ref] # "rotated"

\* sso.go:248-250: an explicit logout revokes the session's refresh token, so
\* none of the session is live once the logout has been answered.
LogoutRevokesSession ==
  \A r \in Requests :
    pc[r] = "done" /\ req[r].kind = "logout" /\ req[r].ref # None /\ ~req[r].gone =>
      \A k \in Pairs : login[k] = login[req[r].ref] => token[k] # "live"

\* auth_handlers.go:262-264, requirements.md:53-56: the window is at most
\* AccessTokenTTL, with a verifier or without.
BanWindowIsTTL ==
  [][\A r \in Requests :
       ~req[r].authed /\ req'[r].authed /\ bannedAt # Never
         => now <= bannedAt + TTL]_vars
===========================================================================
