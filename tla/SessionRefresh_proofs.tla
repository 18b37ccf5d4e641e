----------------------- MODULE SessionRefresh_proofs -----------------------
(***************************************************************************)
(* Theorems of SessionRefresh, for every set of requests and every bound.  *)
(***************************************************************************)
EXTENDS SessionRefresh, TLAPS

\* Every step is one of these; the proofs below have one case for each.
LEMMA NextCases ==
  ASSUME [Next]_vars
  PROVE  \/ Tick \/ Ban \/ AccessCookieLapses
         \/ \E k \in Pairs : LateRefresh(k)
         \/ \E r \in Requests :
              \/ \E k \in Kinds : Send(r, k)
              \/ PassThrough(r) \/ ClearExpired(r) \/ LeadRefresh(r)
              \/ JoinRefresh(r) \/ Resume(r) \/ ProxyRefresh(r)
              \/ CallReturns(r) \/ CallFails(r) \/ HandleAPI(r)
              \/ HandleAuthStatus(r) \/ HandleAuthLogout(r)
              \/ HandleAuthCallback(r) \/ Deliver(r) \/ Abort(r)
         \/ UNCHANGED vars
  BY DEF Next, Middleware, Refreshing, Handler

\* What an update of one field of a record leaves well-typed.
LEMMA RequestTypes ==
  ASSUME NEW q \in Request
  PROVE  /\ \A b \in BOOLEAN : /\ [q EXCEPT !.gone = b] \in Request
                             /\ [q EXCEPT !.authed = b] \in Request
                             /\ [q EXCEPT !.fresh = b] \in Request
         /\ \A l \in Requests : [q EXCEPT !.leader = l] \in Request
         /\ \A a \in Pairs \cup {Revoked, Failed} : [q EXCEPT !.ans = a] \in Request
  BY DEF Request

\* A request is well-typed when it is made.
LEMMA NewRequestTypes ==
  ASSUME NEW r \in Requests
  PROVE  /\ NoRequest(r) \in Request
         /\ \A k \in Kinds, a, f \in Pairs \cup {None}, b \in BOOLEAN :
              [NoRequest(r) EXCEPT !.kind = k, !.acc = a, !.ref = f, !.fresh = b] \in Request
  BY DEF NoRequest, Request, None, Failed

\* What a call is made of, and that an answered call is a call.
LEMMA CallTypes ==
  /\ NoCall \in Call
  /\ \A c \in Call :
       /\ c.ans \in Pairs \cup {Revoked, Failed}
       /\ c.st # "none" => c.key \in Pairs
       /\ c.st # "none" => \A a \in Pairs \cup {Revoked, Failed} :
            [c EXCEPT !.st = "answered", !.ans = a] \in Call
  /\ \A k \in Pairs, b \in BOOLEAN :
       [st |-> "calling", key |-> k, ans |-> Failed, fresh |-> b] \in Call
  <1> DEFINE Active == [st : {"calling", "answered"}, key : Pairs,
                        ans : Pairs \cup {Revoked, Failed}, fresh : BOOLEAN]
  <1>1. Call = {NoCall} \cup Active
    BY DEF Call
  <1>2. NoCall.st = "none" /\ NoCall.ans = Failed
    BY DEF NoCall
  <1>3. \A c \in Active : \A a \in Pairs \cup {Revoked, Failed} :
          [c EXCEPT !.st = "answered", !.ans = a] \in Active
    OBVIOUS
  <1>4. \A c \in Active : /\ c.ans \in Pairs \cup {Revoked, Failed}
                         /\ c.key \in Pairs
    OBVIOUS
  <1>5. \A k \in Pairs, b \in BOOLEAN :
          [st |-> "calling", key |-> k, ans |-> Failed, fresh |-> b] \in Active
    OBVIOUS
  <1> HIDE DEF Active
  <1>6. QED
    BY <1>1, <1>2, <1>3, <1>4, <1>5

\* A minted pair is within the bound and leaves the proxy well-typed.
LEMMA MintTypes ==
  ASSUME TypeOK, NEW s \in Pairs \cup {None}, Mint(s)
  PROVE  /\ minted + 1 \in Pairs
         /\ minted' \in 0 .. MaxPairs
         /\ exp' \in [Pairs -> 0 .. MaxTime + TTL]
         /\ login' \in [Pairs -> Pairs \cup {None}]
  BY SessionAssumption DEF TypeOK, Mint, Pairs, None

\* Every step keeps the types.
LEMMA TypeStep == TypeOK /\ [Next]_vars => TypeOK'
  <1> SUFFICES ASSUME TypeOK, [Next]_vars PROVE TypeOK'
      OBVIOUS
  <1> USE SessionAssumption DEF TypeOK, Pairs, None, Keep, Never, Revoked, Failed, TokenStates,
            Cookies, SetCookies, PC, NoCookies, NoSetCookie, Pair, Clear,
            Goto, proxyVars
  <1>1. CASE Tick
      BY <1>1 DEF Tick
  <1>2. CASE Ban
      BY <1>2 DEF Ban
  <1>3. CASE AccessCookieLapses
      BY <1>3 DEF AccessCookieLapses
  <1>4. ASSUME NEW k \in Pairs, LateRefresh(k) PROVE TypeOK'
    <2>1. CASE Rotate(k, "rotatedLate")
      BY <1>4, <2>1, MintTypes DEF LateRefresh, Rotate
    <2>2. CASE UNCHANGED <<exp, token, login, minted>>
      BY <1>4, <2>2 DEF LateRefresh
    <2>3. QED
      BY <1>4, <2>1, <2>2 DEF LateRefresh
  <1>5. ASSUME NEW r \in Requests, NEW k \in Kinds, Send(r, k) PROVE TypeOK'
      BY <1>5, NewRequestTypes, Zenon DEF Send, Live
  <1>6. ASSUME NEW r \in Requests, PassThrough(r) PROVE TypeOK'
      BY <1>6 DEF PassThrough
  <1>7. ASSUME NEW r \in Requests, ClearExpired(r) PROVE TypeOK'
      BY <1>7 DEF ClearExpired
  <1>8. ASSUME NEW r \in Requests, LeadRefresh(r) PROVE TypeOK'
    <2>1. req[r].ref \in Pairs
      BY <1>8 DEF LeadRefresh, NeedsRefresh, Request
    <2>2. call' \in [Requests -> Call]
      BY <1>8, <2>1, CallTypes, Zenon DEF LeadRefresh, Live
    <2>3. req' \in [Requests -> Request]
      BY <1>8, RequestTypes, Zenon DEF LeadRefresh
    <2>4. QED
      BY <1>8, <2>2, <2>3 DEF LeadRefresh
  <1>9. ASSUME NEW r \in Requests, JoinRefresh(r) PROVE TypeOK'
    <2>1. PICK l \in Requests : req' = [req EXCEPT ![r].leader = l]
      BY <1>9 DEF JoinRefresh
    <2>2. req' \in [Requests -> Request]
      BY <2>1, RequestTypes
    <2>3. QED
      BY <1>9, <2>2 DEF JoinRefresh
  <1>10. ASSUME NEW r \in Requests, Resume(r) PROVE TypeOK'
    <2>1. req' \in [Requests -> Request]
      BY <1>10, RequestTypes DEF Resume
    <2>2. QED
      BY <1>10, <2>1 DEF Resume
  <1>11. ASSUME NEW r \in Requests, ProxyRefresh(r) PROVE TypeOK'
    <2>1. call[r] \in Call /\ call[r].st = "calling" /\ call[r].key \in Pairs
      BY <1>11, CallTypes DEF ProxyRefresh
    <2>2. CASE /\ Rotate(call[r].key, "rotated")
               /\ call' = [call EXCEPT ![r].st = "answered", ![r].ans = minted + 1]
      <3>1. /\ call[r].key \in Pairs
            /\ login[call[r].key] \in Pairs \cup {None}
            /\ Mint(login[call[r].key])
        BY <2>1, <2>2 DEF Rotate, Rotates, Live
      <3>2. minted + 1 \in Pairs
        BY <3>1, MintTypes
      <3>3. call' \in [Requests -> Call]
        BY <2>1, <2>2, <3>2, CallTypes
      <3>4. token' \in [Pairs -> TokenStates]
        BY <2>2 DEF Rotate
      <3>5. QED
        BY <1>11, <3>1, <3>3, <3>4, MintTypes DEF ProxyRefresh
    <2>3. CASE /\ call' = [call EXCEPT ![r].st = "answered", ![r].ans = Revoked]
               /\ UNCHANGED <<exp, token, login, minted>>
      <3>1. call' \in [Requests -> Call]
        BY <2>1, <2>3, CallTypes
      <3>2. QED
        BY <1>11, <2>3, <3>1 DEF ProxyRefresh
    <2>4. QED
      BY <1>11, <2>2, <2>3 DEF ProxyRefresh
  <1>12. ASSUME NEW l \in Requests, NEW a \in Pairs \cup {Revoked, Failed},
                EndCall(l, a), late' \in SUBSET Pairs
         PROVE  TypeOK'
    <2>1. req' \in [Requests -> Request]
      BY <1>12, RequestTypes DEF EndCall
    <2>2. call' \in [Requests -> Call]
      BY <1>12, CallTypes DEF EndCall
    <2>3. QED
      BY <1>12, <2>1, <2>2 DEF EndCall
  <1>13. ASSUME NEW r \in Requests, CallReturns(r) PROVE TypeOK'
    <2>1. call[r].ans \in Pairs \cup {Revoked, Failed}
      BY CallTypes
    <2>2. QED
      BY <1>12, <1>13, <2>1 DEF CallReturns
  <1>14. ASSUME NEW r \in Requests, CallFails(r) PROVE TypeOK'
    <2>1. call[r].st = "calling" => call[r].key \in Pairs
      BY CallTypes
    <2>2. QED
      BY <1>12, <1>14, <2>1 DEF CallFails
  <1>15. ASSUME NEW r \in Requests, HandleAPI(r) \/ HandleAuthStatus(r) PROVE TypeOK'
    <2>1. PICK b \in BOOLEAN : req' = [req EXCEPT ![r].authed = b]
      <3>1. /\ Unexpired(req[r].acc) \in BOOLEAN
            /\ \A known \in BOOLEAN :
                 (known /\ Authenticates(req[r].acc)) \in BOOLEAN
        BY DEF Unexpired
      <3>2. CASE HandleAPI(r)
        <4>1. PICK known \in {TRUE, ~Verified} :
                req' = [req EXCEPT ![r].authed = known /\ Authenticates(req[r].acc)]
          BY <3>2 DEF HandleAPI
        <4>2. known \in BOOLEAN
          BY SessionAssumption
        <4>3. QED
          BY <3>1, <4>1, <4>2, Zenon
      <3>3. CASE HandleAuthStatus(r)
        BY <3>1, <3>3, Zenon DEF HandleAuthStatus
      <3>4. QED
        BY <1>15, <3>2, <3>3
    <2>2. req' \in [Requests -> Request]
      BY <2>1, RequestTypes
    <2>3. out' \in [Requests -> SetCookies]
      <3>1. out' = out \/ out' = [out EXCEPT ![r] = Clear]
        <4>1. CASE HandleAPI(r)
          BY <4>1 DEF HandleAPI
        <4>2. CASE HandleAuthStatus(r)
          BY <4>2 DEF HandleAuthStatus
        <4>3. QED
          BY <1>15, <4>1, <4>2
      <3>2. out \in [Requests -> SetCookies] /\ Clear \in SetCookies
        OBVIOUS
      <3>3. [out EXCEPT ![r] = Clear] \in [Requests -> SetCookies]
        BY <3>2
      <3>4. QED
        BY <3>1, <3>2, <3>3, Zenon
    <2>4. pc' \in [Requests -> PC]
      BY <1>15 DEF HandleAPI, HandleAuthStatus
    <2>5. UNCHANGED <<now, proxyVars, bannedAt, jar, call>>
      BY <1>15 DEF HandleAPI, HandleAuthStatus
    <2>6. QED
      BY <2>2, <2>3, <2>4, <2>5
  <1>16. ASSUME NEW r \in Requests, HandleAuthLogout(r) PROVE TypeOK'
      BY <1>16 DEF HandleAuthLogout, Live
  <1>17. ASSUME NEW r \in Requests, HandleAuthCallback(r) PROVE TypeOK'
    <2>1. CASE UNCHANGED <<exp, token, login, minted, out>>
      BY <1>17, <2>1 DEF HandleAuthCallback
    <2>2. ASSUME NEW hasRefresh \in BOOLEAN, Mint(None),
                 token' = [token EXCEPT
                   ![minted + 1] = IF hasRefresh THEN "live" ELSE "unminted"],
                 out' = [out EXCEPT ![r].acc = minted + 1,
                           ![r].ref = IF hasRefresh THEN minted + 1 ELSE @]
          PROVE  TypeOK'
      <3>1. minted + 1 \in Pairs
        BY <2>2, MintTypes
      <3>2. out' \in [Requests -> SetCookies]
        BY <2>2, <3>1
      <3>3. token' \in [Pairs -> TokenStates]
        BY <2>2
      <3>4. QED
        BY <1>17, <2>2, <3>2, <3>3, MintTypes DEF HandleAuthCallback
    <2>3. QED
      BY <1>17, <2>1, <2>2 DEF HandleAuthCallback
  <1>18. ASSUME NEW r \in Requests, Deliver(r) PROVE TypeOK'
    <2>1. req' \in [Requests -> Request]
      BY <1>18, NewRequestTypes DEF Deliver
    <2>2. QED
      BY <1>18, <2>1 DEF Deliver
  <1>19. ASSUME NEW r \in Requests, Abort(r) PROVE TypeOK'
    <2>1. req' \in [Requests -> Request]
      BY <1>19, RequestTypes DEF Abort
    <2>2. QED
      BY <1>19, <2>1 DEF Abort
  <1>20. CASE UNCHANGED vars
      BY <1>20 DEF vars
  <1>21. QED
      BY NextCases, <1>1, <1>2, <1>3, <1>4, <1>5, <1>6, <1>7, <1>8, <1>9, <1>10,
         <1>11, <1>13, <1>14, <1>15, <1>16, <1>17, <1>18, <1>19, <1>20

\* The session starts well-typed.
LEMMA InitTypeOK == Init => TypeOK
  <1>1. ASSUME Init PROVE TypeOK
    <2>1. req \in [Requests -> Request] /\ call \in [Requests -> Call]
      BY <1>1, NewRequestTypes, CallTypes, Zenon DEF Init
    <2>2. /\ out \in [Requests -> SetCookies] /\ jar \in Cookies
          /\ pc \in [Requests -> PC]
      BY <1>1, SessionAssumption
         DEF Init, Pairs, None, Keep, Cookies, SetCookies, PC, NoSetCookie, Pair
    <2>3. /\ exp \in [Pairs -> 0 .. MaxTime + TTL]
          /\ token \in [Pairs -> TokenStates]
          /\ login \in [Pairs -> Pairs \cup {None}]
          /\ now \in 0 .. MaxTime /\ minted \in 0 .. MaxPairs
          /\ bannedAt \in (0 .. MaxTime) \cup {Never} /\ late \in SUBSET Pairs
      BY <1>1, SessionAssumption DEF Init, Pairs, None, Never, TokenStates
    <2>4. QED
      BY <2>1, <2>2, <2>3 DEF TypeOK
  <1>2. QED
    BY <1>1

\* The type invariant, for any number of requests and any bounds.
THEOREM TypeCorrect == Spec => []TypeOK
  BY InitTypeOK, TypeStep, PTL DEF Spec

---------------------------------------------------------------------------
(* Single flight *)

\* The end of a call releases everyone who waits on it, and nobody else.
LEMMA EndCallSingleFlight ==
  ASSUME TypeOK, SingleFlightInv, NEW l \in Requests,
         NEW a \in Pairs \cup {Revoked, Failed}, EndCall(l, a)
  PROVE  SingleFlightInv'
  <1>1. /\ \A m \in Requests : call'[m] = IF m = l THEN NoCall ELSE call[m]
        /\ \A r \in Requests :
             \/ pc[r] = "wait" /\ req[r].leader = l /\ pc'[r] = "resumed"
             \/ /\ ~(pc[r] = "wait" /\ req[r].leader = l)
                /\ pc'[r] = pc[r] /\ req'[r] = req[r]
        /\ token' = token
    BY DEF EndCall, Waiters, TypeOK
  <1>2. NoCall.st = "none"
    BY DEF NoCall
  <1>3. \A r \in Requests : req[r].leader \in Requests
    BY DEF TypeOK, Request
  <1>4. OneCallPerToken'
    BY <1>1, <1>2 DEF SingleFlightInv, OneCallPerToken
  <1>5. WaitersHaveCall'
    BY <1>1, <1>3 DEF SingleFlightInv, WaitersHaveCall
  <1>6. LeadersWait'
    BY <1>1, <1>2 DEF SingleFlightInv, LeadersWait
  <1>7. FreshUnlessRotated'
    BY <1>1, <1>2 DEF SingleFlightInv, FreshUnlessRotated
  <1>8. QED
    BY <1>4, <1>5, <1>6, <1>7 DEF SingleFlightInv

\* A step that touches no call, and no request that waits, before or after.
LEMMA OtherSingleFlight ==
  ASSUME TypeOK, SingleFlightInv, NEW r \in Requests, call' = call,
         pc[r] # "wait", pc'[r] # "wait",
         \A s \in Requests \ {r} : pc'[s] = pc[s] /\ req'[s] = req[s],
         \A k \in Pairs : token'[k] = "rotated" => token[k] = "rotated"
  PROVE  SingleFlightInv'
  <1>1. \A l \in Requests : call[l].st # "none" => call[l].key \in Pairs
    BY CallTypes DEF TypeOK
  <1>2. QED
    BY <1>1 DEF SingleFlightInv, OneCallPerToken, WaitersHaveCall,
         LeadersWait, FreshUnlessRotated

\* Every step keeps calls and waiting requests consistent.
LEMMA SingleFlightStep ==
  ASSUME TypeOK, SingleFlightInv, [Next]_vars
  PROVE  SingleFlightInv'
  <1>0. /\ \A l \in Requests : call[l].st # "none" => call[l].key \in Pairs
        /\ \A r \in Requests : req[r].leader \in Requests
    BY CallTypes DEF TypeOK, Request
  <1>1. CASE Tick \/ Ban \/ AccessCookieLapses \/ UNCHANGED vars
    BY <1>1 DEF Tick, Ban, AccessCookieLapses, vars, proxyVars, SingleFlightInv,
         OneCallPerToken, WaitersHaveCall, LeadersWait, FreshUnlessRotated
  <1>2. ASSUME NEW k \in Pairs, LateRefresh(k) PROVE SingleFlightInv'
    <2>1. \A j \in Pairs : token'[j] = "rotated" => token[j] = "rotated"
      BY <1>2 DEF LateRefresh, Rotate, TypeOK
    <2>2. QED
      BY <1>0, <1>2, <2>1 DEF LateRefresh, SingleFlightInv, OneCallPerToken,
           WaitersHaveCall, LeadersWait, FreshUnlessRotated
  <1>3. ASSUME NEW r \in Requests, NEW k \in Kinds, Send(r, k) PROVE SingleFlightInv'
    BY <1>3, OtherSingleFlight DEF Send, Goto, proxyVars, TypeOK
  <1>4. ASSUME NEW r \in Requests, PassThrough(r) \/ ClearExpired(r) PROVE SingleFlightInv'
    BY <1>4, OtherSingleFlight DEF PassThrough, ClearExpired, Goto, proxyVars, TypeOK
  <1>5. ASSUME NEW r \in Requests, LeadRefresh(r) PROVE SingleFlightInv'
    <2>1. /\ pc[r] = "sent" /\ pc' = [pc EXCEPT ![r] = "wait"]
          /\ req' = [req EXCEPT ![r].leader = r]
          /\ token' = token
          /\ \A l \in Requests : call[l].st # "none" => call[l].key # req[r].ref
      BY <1>5 DEF LeadRefresh, Goto, proxyVars, InFlight
    <2>2. /\ \A m \in Requests \ {r} : call'[m] = call[m]
          /\ call'[r].st = "calling" /\ call'[r].key = req[r].ref
          /\ call'[r].fresh => token[req[r].ref] = "live"
      BY <1>5 DEF LeadRefresh, Live, TypeOK
    <2>3. /\ pc'[r] = "wait" /\ req'[r].leader = r /\ req'[r].ref = req[r].ref
          /\ \A s \in Requests \ {r} : pc'[s] = pc[s] /\ req'[s] = req[s]
      BY <2>1 DEF TypeOK, Request
    <2>4. OneCallPerToken'
      BY <2>1, <2>2 DEF SingleFlightInv, OneCallPerToken
    <2>5. WaitersHaveCall' /\ LeadersWait'
      BY <1>0, <2>1, <2>2, <2>3 DEF SingleFlightInv, WaitersHaveCall, LeadersWait
    <2>6. FreshUnlessRotated'
      BY <2>1, <2>2 DEF SingleFlightInv, FreshUnlessRotated
    <2>7. QED
      BY <2>4, <2>5, <2>6 DEF SingleFlightInv
  <1>6. ASSUME NEW r \in Requests, JoinRefresh(r) PROVE SingleFlightInv'
    <2>1. PICK l \in Requests : InFlight(l, r) /\ req' = [req EXCEPT ![r].leader = l]
      BY <1>6 DEF JoinRefresh
    <2>2. /\ pc[r] = "sent" /\ pc' = [pc EXCEPT ![r] = "wait"]
          /\ token' = token /\ call' = call
      BY <1>6 DEF JoinRefresh, Goto, proxyVars
    <2>3. /\ pc'[r] = "wait" /\ req'[r].leader = l /\ req'[r].ref = req[r].ref
          /\ \A s \in Requests \ {r} : pc'[s] = pc[s] /\ req'[s] = req[s]
      BY <2>1, <2>2 DEF TypeOK, Request
    <2>4. QED
      BY <2>1, <2>2, <2>3 DEF InFlight, SingleFlightInv, OneCallPerToken,
           WaitersHaveCall, LeadersWait, FreshUnlessRotated
  <1>7. ASSUME NEW r \in Requests, Resume(r) PROVE SingleFlightInv'
    BY <1>7, OtherSingleFlight DEF Resume, Goto, proxyVars, TypeOK
  <1>8. ASSUME NEW r \in Requests, ProxyRefresh(r) PROVE SingleFlightInv'
    <2>1. /\ call[r].st = "calling" /\ call[r].key \in Pairs
          /\ pc' = pc /\ req' = req
      BY <1>0, <1>8 DEF ProxyRefresh
    <2>2. /\ \A m \in Requests \ {r} : call'[m] = call[m]
          /\ call'[r].st = "answered" /\ call'[r].key = call[r].key
          /\ call'[r].fresh = call[r].fresh
      <3>1. PICK a \in Pairs \cup {Revoked} :
              call' = [call EXCEPT ![r].st = "answered", ![r].ans = a]
        BY <1>8 DEF ProxyRefresh, Rotate, Mint
      <3>2. QED
        BY <2>1, <3>1 DEF TypeOK, Call, NoCall
    <2>3. OneCallPerToken' /\ WaitersHaveCall' /\ LeadersWait'
      BY <1>0, <2>1, <2>2
         DEF SingleFlightInv, OneCallPerToken, WaitersHaveCall, LeadersWait
    <2>4. \/ /\ \A j \in Pairs \ {call[r].key} : token'[j] = "rotated" => token[j] = "rotated"
             /\ call'[r].ans # Revoked
          \/ token' = token /\ call'[r].ans = Revoked
      <3>1. CASE /\ Rotate(call[r].key, "rotated")
                 /\ call' = [call EXCEPT ![r].st = "answered", ![r].ans = minted + 1]
        <4>1. call'[r].ans = minted + 1 /\ minted + 1 # Revoked
          BY <2>1, <3>1 DEF Rotate, Mint, Pairs, Revoked, TypeOK, Call, NoCall
        <4>2. QED
          BY <3>1, <4>1 DEF Rotate, TypeOK
      <3>2. CASE call' = [call EXCEPT ![r].st = "answered", ![r].ans = Revoked]
                 /\ UNCHANGED <<exp, token, login, minted>>
        BY <2>1, <3>2 DEF TypeOK, Call, NoCall
      <3>3. QED
        BY <1>8, <3>1, <3>2 DEF ProxyRefresh
    <2>5. FreshUnlessRotated'
      BY <1>0, <2>1, <2>2, <2>4 DEF SingleFlightInv, OneCallPerToken, FreshUnlessRotated
    <2>6. QED
      BY <2>3, <2>5 DEF SingleFlightInv
  <1>9. ASSUME NEW r \in Requests, CallReturns(r) PROVE SingleFlightInv'
    BY <1>9, CallTypes, EndCallSingleFlight DEF CallReturns, TypeOK
  <1>10. ASSUME NEW r \in Requests, CallFails(r) PROVE SingleFlightInv'
    BY <1>10, EndCallSingleFlight DEF CallFails
  <1>11. ASSUME NEW r \in Requests, HandleAPI(r) \/ HandleAuthStatus(r)
         PROVE  SingleFlightInv'
    <2>1. /\ Goto(r, "handler", "done") /\ call' = call /\ token' = token
          /\ \A s \in Requests \ {r} : req'[s] = req[s]
      BY <1>11 DEF HandleAPI, HandleAuthStatus, proxyVars, TypeOK
    <2>2. QED
      BY <2>1, OtherSingleFlight DEF Goto, TypeOK
  <1>12. ASSUME NEW r \in Requests, HandleAuthLogout(r) PROVE SingleFlightInv'
    <2>1. /\ Goto(r, "handler", "done") /\ call' = call /\ req' = req
          /\ \A j \in Pairs : token'[j] = "rotated" => token[j] = "rotated"
      BY <1>12 DEF HandleAuthLogout, TypeOK
    <2>2. QED
      BY <2>1, OtherSingleFlight DEF Goto, TypeOK
  <1>13. ASSUME NEW r \in Requests, HandleAuthCallback(r) PROVE SingleFlightInv'
    <2>1. /\ Goto(r, "handler", "done") /\ call' = call /\ req' = req
          /\ \A j \in Pairs : token'[j] = "rotated" => token[j] = "rotated"
      BY <1>13 DEF HandleAuthCallback, TypeOK
    <2>2. QED
      BY <2>1, OtherSingleFlight DEF Goto, TypeOK
  <1>14. ASSUME NEW r \in Requests, Deliver(r) PROVE SingleFlightInv'
    BY <1>14, OtherSingleFlight DEF Deliver, Goto, proxyVars, TypeOK
  <1>15. ASSUME NEW r \in Requests, Abort(r) PROVE SingleFlightInv'
    <2>1. /\ pc' = pc /\ call' = call /\ token' = token
          /\ \A s \in Requests : /\ req'[s].leader = req[s].leader
                                 /\ req'[s].ref = req[s].ref
      BY <1>15 DEF Abort, proxyVars, TypeOK, Request
    <2>2. QED
      BY <2>1 DEF SingleFlightInv, OneCallPerToken, WaitersHaveCall,
           LeadersWait, FreshUnlessRotated
  <1>16. QED
    BY NextCases, <1>1, <1>2, <1>3, <1>4, <1>5, <1>6, <1>7, <1>8, <1>9, <1>10,
       <1>11, <1>12, <1>13, <1>14, <1>15

---------------------------------------------------------------------------
(* Cookies *)

\* The clock and the proxy only move forward; a minted token keeps its expiry.
LEMMA Forward ==
  ASSUME TypeOK, [Next]_vars
  PROVE  /\ now \in Nat /\ now' \in Nat /\ now <= now'
         /\ minted \in Nat /\ minted' \in Nat /\ minted <= minted'
         /\ \A k \in Pairs : k <= minted => exp'[k] = exp[k]
  <1> USE SessionAssumption
  <1>1. now \in Nat /\ minted \in Nat
    BY DEF TypeOK
  <1>2. ASSUME NEW s \in Pairs \cup {None}, Mint(s)
        PROVE  /\ minted' = minted + 1
               /\ \A k \in Pairs : k <= minted => exp'[k] = exp[k]
    BY <1>2 DEF Mint, TypeOK, Pairs
  <1>3. CASE Tick
    BY <1>1, <1>3 DEF Tick, proxyVars
  <1>4. ASSUME NEW k \in Pairs, LateRefresh(k)
        PROVE  now' = now /\ (UNCHANGED <<exp, minted>> \/ Mint(login[k]))
    BY <1>4 DEF LateRefresh, Rotate
  <1>5. ASSUME NEW r \in Requests, ProxyRefresh(r)
        PROVE  /\ now' = now /\ call[r].key \in Pairs
               /\ UNCHANGED <<exp, minted>> \/ Mint(login[call[r].key])
    BY <1>5, CallTypes DEF ProxyRefresh, Rotate, TypeOK
  <1>6. ASSUME NEW r \in Requests, HandleAuthCallback(r)
        PROVE  now' = now /\ (UNCHANGED <<exp, minted>> \/ Mint(None))
    BY <1>6 DEF HandleAuthCallback
  <1>7. CASE UNCHANGED <<now, exp, minted>>
    BY <1>1, <1>7
  <1>8. ASSUME NEW r \in Requests,
               \/ \E k \in Kinds : Send(r, k)
               \/ PassThrough(r) \/ ClearExpired(r) \/ LeadRefresh(r)
               \/ JoinRefresh(r) \/ Resume(r) \/ CallReturns(r) \/ CallFails(r)
               \/ HandleAPI(r) \/ HandleAuthStatus(r) \/ HandleAuthLogout(r)
               \/ Deliver(r) \/ Abort(r)
        PROVE  UNCHANGED <<now, exp, minted>>
    BY <1>8 DEF Send, PassThrough, ClearExpired, LeadRefresh, JoinRefresh, Resume,
         CallReturns, CallFails, EndCall, HandleAPI, HandleAuthStatus,
         HandleAuthLogout, Deliver, Abort, proxyVars
  <1>9. CASE Ban \/ AccessCookieLapses \/ UNCHANGED vars
    BY <1>7, <1>9 DEF Ban, AccessCookieLapses, vars, proxyVars
  <1>10. \A k \in Pairs : login[k] \in Pairs \cup {None}
    BY DEF TypeOK
  <1>11. ASSUME NEW s \in Pairs \cup {None}, Mint(s), now' = now
         PROVE  /\ now \in Nat /\ now' \in Nat /\ now <= now'
                /\ minted \in Nat /\ minted' \in Nat /\ minted <= minted'
                /\ \A k \in Pairs : k <= minted => exp'[k] = exp[k]
    BY <1>1, <1>2, <1>11
  <1>12. QED
    BY NextCases, <1>3, <1>4, <1>5, <1>6, <1>7, <1>8, <1>9, <1>10, <1>11

\* A request that a step leaves alone keeps what CookieOK says of it.
LEMMA CookieFrame ==
  ASSUME TypeOK, [Next]_vars, NEW r \in Requests, CookieOK(r),
         pc'[r] = pc[r] \/ pc'[r] \in {"handler", "done"},
         req'[r].kind = req[r].kind, req'[r].acc = req[r].acc,
         req'[r].ans <= minted', out'[r] = out[r], call'[r].ans <= minted'
  PROVE  CookieOK(r)'
  <1>1. /\ req[r].acc \in Pairs \cup {None}
        /\ out[r].acc \in Pairs \cup {None, Keep}
        /\ \A k \in Pairs : exp[k] \in Int
    BY SessionAssumption DEF TypeOK, Request, SetCookies
  <1>2. /\ now \in Nat /\ now' \in Nat /\ now <= now'
        /\ minted \in Nat /\ minted' \in Nat /\ minted <= minted'
        /\ \A k \in Pairs : k <= minted => exp'[k] = exp[k]
    BY Forward
  <1>3. req'[r].acc <= minted' /\ out'[r].acc <= minted'
    BY <1>1, <1>2 DEF CookieOK, Pairs, None, Keep
  <1>4. ClearJustified(r)'
    <2>1. SUFFICES ASSUME out[r] = Clear, req[r].kind # "logout"
                   PROVE  req[r].acc # None /\ now' > exp'[req[r].acc]
      BY DEF ClearJustified, Clear, NoCookies, IsExpired
    <2>2. /\ req[r].acc \in Pairs /\ req[r].acc <= minted
          /\ now > exp[req[r].acc]
      BY <1>1, <2>1 DEF CookieOK, ClearJustified, IsExpired
    <2>3. QED
      BY <1>1, <1>2, <2>2 DEF Pairs, None
  <1>5. QED
    BY <1>3, <1>4 DEF CookieOK, NoSetCookie

\* Every step keeps the Set-Cookie headers justified.
LEMMA CookieStep ==
  ASSUME TypeOK, TypeOK', CookieInv, [Next]_vars
  PROVE  CookieInv'
  <1>1. /\ now \in Nat /\ now' \in Nat /\ now <= now'
        /\ minted \in Nat /\ minted' \in Nat /\ minted <= minted'
        /\ \A k \in Pairs : k <= minted => exp'[k] = exp[k]
    BY Forward
  <1>2. \A r \in Requests :
          /\ req[r].acc \in Int /\ req[r].ans \in Int
          /\ out[r].acc \in Int /\ call[r].ans \in Int
    <2>1. ASSUME NEW r \in Requests
          PROVE  /\ req[r].acc \in Int /\ req[r].ans \in Int /\ out[r].acc \in Int
      BY SessionAssumption
         DEF TypeOK, Request, SetCookies, Pairs, None, Keep, Revoked, Failed
    <2>2. ASSUME NEW r \in Requests PROVE call[r].ans \in Int
      <3>1. call[r].ans \in Pairs \cup {Revoked, Failed}
        BY CallTypes DEF TypeOK
      <3>2. QED
        BY <3>1, SessionAssumption DEF Pairs, Revoked, Failed
    <2>3. QED
      BY <2>1, <2>2
  <1>3. jar.acc \in Int
    BY SessionAssumption DEF TypeOK, Cookies, Pairs, None
  <1> DEFINE Same(s) == /\ pc'[s] = pc[s] \/ pc'[s] \in {"handler", "done"}
                        /\ req'[s].kind = req[s].kind /\ req'[s].acc = req[s].acc
                        /\ req'[s].ans = req[s].ans
                        /\ out'[s] = out[s] /\ call'[s].ans = call[s].ans
  <1>4. ASSUME NEW s \in Requests, Same(s) PROVE CookieOK(s)'
    BY <1>1, <1>2, <1>4, CookieFrame DEF CookieInv, CookieOK
  <1>5. ASSUME jar' = jar, \A s \in Requests : Same(s) PROVE CookieInv'
    BY <1>1, <1>3, <1>4, <1>5 DEF CookieInv
  <1>6. ASSUME NEW r \in Requests, jar'.acc = jar.acc, CookieOK(r)',
               \A s \in Requests \ {r} : Same(s)
        PROVE  CookieInv'
    BY <1>1, <1>3, <1>4, <1>6 DEF CookieInv
  <1> HIDE DEF Same
  <1>7. CASE Tick \/ Ban \/ AccessCookieLapses \/ UNCHANGED vars
    <2>1. /\ pc' = pc /\ req' = req /\ out' = out /\ call' = call /\ minted' = minted
          /\ jar'.acc = jar.acc \/ jar'.acc = None
      BY <1>7 DEF Tick, Ban, AccessCookieLapses, vars, proxyVars, TypeOK, Cookies
    <2>2. \A s \in Requests : CookieOK(s)'
      BY <1>4, <2>1 DEF Same
    <2>3. QED
      BY <1>1, <1>3, <2>1, <2>2 DEF CookieInv, None
  <1>8. ASSUME NEW k \in Pairs, LateRefresh(k) PROVE CookieInv'
    BY <1>5, <1>8 DEF LateRefresh, Same
  <1>9. ASSUME NEW r \in Requests, NEW k \in Kinds, Send(r, k) PROVE CookieInv'
    <2>1. /\ out[r] = NoSetCookie /\ out' = out /\ call' = call /\ jar' = jar
          /\ minted' = minted /\ req'[r].acc = jar.acc /\ req'[r].ans = Failed
          /\ pc'[r] = "sent"
          /\ \A s \in Requests \ {r} : pc'[s] = pc[s] /\ req'[s] = req[s]
      BY <1>9 DEF Send, Goto, proxyVars, TypeOK, CookieInv, CookieOK, NoRequest
    <2>2. CookieOK(r)'
      BY <1>1, <2>1 DEF CookieInv, CookieOK, ClearJustified, NoSetCookie, Clear,
           NoCookies, Keep, None, Failed
    <2>3. QED
      BY <1>6, <2>1, <2>2 DEF Same
  <1>10. ASSUME NEW r \in Requests, PassThrough(r) PROVE CookieInv'
    BY <1>5, <1>10 DEF PassThrough, Goto, TypeOK, Same
  <1>11. ASSUME NEW r \in Requests, out' = [out EXCEPT ![r] = Clear],
                pc'[r] \in {"handler", "done"}, req' = req, call' = call, jar' = jar,
                \A s \in Requests \ {r} : pc'[s] = pc[s],
                req[r].kind = "logout" \/ (req[r].acc # None /\ IsExpired(req[r].acc))
         PROVE  CookieInv'
    <2>1. out'[r] = Clear /\ \A s \in Requests \ {r} : out'[s] = out[s]
      BY <1>11 DEF TypeOK
    <2>2. req[r].acc # None => exp'[req[r].acc] = exp[req[r].acc]
      BY <1>1 DEF CookieInv, CookieOK, TypeOK, Request
    <2>3. req[r].acc # None => exp[req[r].acc] \in Int
      BY SessionAssumption DEF TypeOK, Request
    <2>4. CookieOK(r)'
      BY <1>1, <1>2, <1>11, <2>1, <2>2, <2>3
         DEF CookieInv, CookieOK, ClearJustified, IsExpired, Clear, NoCookies, None
    <2>5. QED
      BY <1>6, <1>11, <2>1, <2>4 DEF Same
  <1>12. ASSUME NEW r \in Requests, ClearExpired(r) PROVE CookieInv'
    BY <1>11, <1>12 DEF ClearExpired, Goto, TypeOK
  <1>13. ASSUME NEW r \in Requests, LeadRefresh(r) \/ JoinRefresh(r) PROVE CookieInv'
    <2>1. PICK l \in Requests : req' = [req EXCEPT ![r].leader = l]
      BY <1>13 DEF LeadRefresh, JoinRefresh
    <2>2. /\ pc[r] = "sent" /\ pc' = [pc EXCEPT ![r] = "wait"]
          /\ out' = out /\ jar' = jar /\ minted' = minted
      BY <1>13 DEF LeadRefresh, JoinRefresh, Goto, proxyVars
    <2>3. /\ \A s \in Requests \ {r} : call'[s] = call[s]
          /\ call'[r].ans \in {call[r].ans, Failed}
      BY <1>13 DEF LeadRefresh, JoinRefresh, TypeOK
    <2>4. /\ req'[r].kind = req[r].kind /\ req'[r].acc = req[r].acc
          /\ req'[r].ans = req[r].ans
          /\ \A s \in Requests \ {r} : req'[s] = req[s] /\ pc'[s] = pc[s]
      BY <2>1, <2>2 DEF TypeOK, Request
    <2>5. out[r] = NoSetCookie /\ req[r].acc # None
      BY <1>13, <2>2 DEF CookieInv, CookieOK, LeadRefresh, JoinRefresh,
           NeedsRefresh, Unexpired
    <2>6. CookieOK(r)'
      BY <1>1, <2>2, <2>3, <2>4, <2>5 DEF CookieInv, CookieOK, ClearJustified,
           NoSetCookie, Clear, NoCookies, Keep, None, Failed
    <2>7. QED
      BY <1>6, <2>2, <2>3, <2>4, <2>6 DEF Same
  <1>14. ASSUME NEW r \in Requests, Resume(r) PROVE CookieInv'
    <2>1. /\ pc' = [pc EXCEPT ![r] = "handler"] /\ jar' = jar /\ call' = call
          /\ minted' = minted /\ now' = now /\ exp' = exp
          /\ req'[r].kind = req[r].kind /\ req'[r].acc = req[r].acc
          /\ req'[r].ans = Failed
          /\ \A s \in Requests \ {r} : /\ req'[s] = req[s] /\ pc'[s] = pc[s]
                                       /\ out'[s] = out[s]
      BY <1>14 DEF Resume, Goto, proxyVars, TypeOK, Request
    <2>2. \/ req[r].ans \in Pairs /\ out'[r] = Pair(req[r].ans)
          \/ /\ out'[r] = Clear
             /\ req[r].ans = Revoked /\ IsExpired(req[r].acc)
          \/ out'[r] = NoSetCookie
      BY <1>14 DEF Resume, TypeOK
    <2>3. out'[r] = Clear => IsExpired(req[r].acc)
      BY <2>2 DEF Clear, NoCookies, NoSetCookie, Pair, Pairs, None, Keep
    <2>4. out'[r].acc <= minted
      BY <1>1, <1>2, <2>2 DEF Clear, NoCookies, NoSetCookie, Pair, None, Keep,
           CookieInv, CookieOK
    <2>5. req[r].acc # None
      BY <1>14 DEF Resume, Goto, CookieInv, CookieOK
    <2>6. CookieOK(r)'
      BY <1>1, <2>1, <2>3, <2>4, <2>5 DEF CookieInv, CookieOK, ClearJustified,
           IsExpired, Clear, NoCookies, None, Failed, TypeOK
    <2>7. QED
      BY <1>6, <2>1, <2>6 DEF Same
  <1>15. ASSUME NEW r \in Requests, ProxyRefresh(r) PROVE CookieInv'
    <2>1. /\ pc' = pc /\ req' = req /\ out' = out /\ jar' = jar
          /\ \A s \in Requests \ {r} : call'[s] = call[s]
      BY <1>15 DEF ProxyRefresh, TypeOK
    <2>2. call'[r].ans <= minted'
      <3>1. (call'[r].ans = minted + 1 /\ minted' = minted + 1) \/ call'[r].ans = Revoked
        BY <1>15 DEF ProxyRefresh, Rotate, Mint, TypeOK, Call, NoCall
      <3>2. QED
        BY <1>1, <3>1 DEF Revoked
    <2>3. CookieOK(r)'
      BY <1>1, <1>2, <2>1, <2>2, CookieFrame DEF CookieInv, CookieOK
    <2>4. QED
      BY <1>6, <2>1, <2>3 DEF Same
  <1>16. ASSUME NEW l \in Requests, NEW a \in Pairs \cup {Revoked, Failed},
                EndCall(l, a), a <= minted
         PROVE  CookieInv'
    <2>1. /\ out' = out /\ jar' = jar /\ minted' = minted
          /\ \A s \in Requests : call'[s].ans \in {call[s].ans, Failed}
      BY <1>16 DEF EndCall, TypeOK, NoCall
    <2>2. ASSUME NEW s \in Requests PROVE CookieOK(s)'
      <3>1. /\ req'[s].kind = req[s].kind /\ req'[s].acc = req[s].acc
            /\ req'[s].ans \in {req[s].ans, a}
            /\ pc'[s] = pc[s] \/ (pc[s] = "wait" /\ pc'[s] = "resumed")
        <4>1. CASE s \in Waiters(l)
          <5>1. /\ req'[s] = [req[s] EXCEPT !.ans = a, !.leader = s]
                /\ pc[s] = "wait" /\ pc'[s] = "resumed"
            BY <1>16, <4>1 DEF EndCall, Waiters
          <5>2. QED
            BY <5>1 DEF TypeOK, Request
        <4>2. CASE s \notin Waiters(l)
          BY <1>16, <4>2 DEF EndCall, TypeOK
        <4>3. QED
          BY <4>1, <4>2
      <3>2. req'[s].ans <= minted' /\ call'[s].ans <= minted'
        BY <1>1, <1>16, <2>1, <3>1 DEF CookieInv, CookieOK, Failed
      <3>3. CASE pc'[s] = pc[s]
        BY <2>1, <3>1, <3>2, <3>3, CookieFrame DEF CookieInv
      <3>4. CASE pc[s] = "wait"
        BY <2>1, <3>1, <3>2, <3>4 DEF CookieInv, CookieOK, ClearJustified,
             NoSetCookie, Clear, NoCookies, Keep, None
      <3>5. QED
        BY <3>1, <3>3, <3>4
    <2>3. QED
      BY <2>1, <2>2 DEF CookieInv
  <1>17. ASSUME NEW r \in Requests, CallReturns(r) PROVE CookieInv'
    BY <1>16, <1>17, CallTypes DEF CallReturns, TypeOK, CookieInv, CookieOK
  <1>18. ASSUME NEW r \in Requests, CallFails(r) PROVE CookieInv'
    BY <1>1, <1>16, <1>18 DEF CallFails, Failed
  <1>19. ASSUME NEW r \in Requests, HandleAPI(r) PROVE CookieInv'
    BY <1>5, <1>19 DEF HandleAPI, Goto, TypeOK, Request, Same
  <1>20. ASSUME NEW r \in Requests, HandleAuthStatus(r) PROVE CookieInv'
    <2>1. /\ Goto(r, "handler", "done") /\ jar' = jar /\ call' = call
          /\ now' = now /\ exp' = exp /\ minted' = minted
          /\ req'[r].kind = req[r].kind /\ req'[r].acc = req[r].acc
          /\ req'[r].ans = req[r].ans
          /\ \A s \in Requests \ {r} : req'[s] = req[s] /\ out'[s] = out[s]
      BY <1>20 DEF HandleAuthStatus, proxyVars, TypeOK, Request
    <2>2. pc'[r] = "done" /\ \A s \in Requests \ {r} : pc'[s] = pc[s]
      BY <2>1 DEF Goto, TypeOK
    <2>3. CASE req[r].acc # None /\ IsExpired(req[r].acc)
      <3>1. out'[r] = Clear
        BY <1>20, <2>3 DEF HandleAuthStatus, TypeOK
      <3>2. CookieOK(r)'
        BY <1>1, <1>2, <2>1, <2>2, <2>3, <3>1 DEF CookieInv, CookieOK,
             ClearJustified, IsExpired, Clear, NoCookies, None
      <3>3. QED
        BY <1>6, <2>1, <2>2, <3>2 DEF Same
    <2>4. CASE ~(req[r].acc # None /\ IsExpired(req[r].acc))
      <3>1. out' = out
        BY <1>20, <2>4 DEF HandleAuthStatus
      <3>2. QED
        BY <1>5, <2>1, <2>2, <3>1 DEF Same
    <2>5. QED
      BY <2>3, <2>4
  <1>21. ASSUME NEW r \in Requests, HandleAuthLogout(r) PROVE CookieInv'
    BY <1>11, <1>21 DEF HandleAuthLogout, Goto, TypeOK
  <1>22. ASSUME NEW r \in Requests, HandleAuthCallback(r) PROVE CookieInv'
    <2>1. /\ req' = req /\ call' = call /\ jar' = jar
          /\ pc'[r] = "done" /\ \A s \in Requests \ {r} : pc'[s] = pc[s]
      BY <1>22 DEF HandleAuthCallback, Goto, TypeOK
    <2>2. CASE out' = out
      BY <1>5, <2>1, <2>2 DEF Same
    <2>3. CASE out' # out
      <3>1. PICK h \in BOOLEAN :
              /\ Mint(None)
              /\ out' = [out EXCEPT ![r].acc = minted + 1,
                           ![r].ref = IF h THEN minted + 1 ELSE @]
        BY <1>22, <2>3 DEF HandleAuthCallback
      <3>2. minted' = minted + 1
        BY <3>1 DEF Mint
      <3>3. /\ out'[r].acc = minted + 1
            /\ \A s \in Requests \ {r} : out'[s] = out[s]
        BY <3>1 DEF TypeOK, SetCookies
      <3>4. CookieOK(r)'
        BY <1>1, <1>2, <2>1, <3>2, <3>3 DEF CookieInv, CookieOK, ClearJustified,
             Clear, NoCookies, None
      <3>5. QED
        BY <1>6, <2>1, <3>3, <3>4 DEF Same
    <2>4. QED
      BY <2>2, <2>3
  <1>23. ASSUME NEW r \in Requests, Deliver(r) PROVE CookieInv'
    <2>1. /\ out'[r] = NoSetCookie /\ req'[r] = NoRequest(r) /\ call' = call
          /\ pc'[r] = "idle"
          /\ minted' = minted
          /\ \A s \in Requests \ {r} : /\ req'[s] = req[s] /\ out'[s] = out[s]
                                       /\ pc'[s] = pc[s]
      BY <1>23 DEF Deliver, Goto, proxyVars, TypeOK
    <2>2. jar'.acc \in {jar.acc, out[r].acc}
      BY <1>23 DEF Deliver
    <2>3. CookieOK(r)'
      BY <1>1, <1>2, <2>1 DEF CookieInv, CookieOK, ClearJustified, NoSetCookie,
           NoRequest, Clear, NoCookies, Keep, None, Failed
    <2>4. \A s \in Requests : CookieOK(s)'
      BY <1>4, <2>1, <2>3 DEF Same
    <2>5. QED
      BY <1>1, <1>2, <1>3, <2>1, <2>2, <2>4 DEF CookieInv, CookieOK
  <1>24. ASSUME NEW r \in Requests, Abort(r) PROVE CookieInv'
    BY <1>5, <1>24 DEF Abort, TypeOK, Request, Same
  <1>25. QED
    BY NextCases, <1>7, <1>8, <1>9, <1>10, <1>12, <1>13, <1>14, <1>15, <1>17,
       <1>18, <1>19, <1>20, <1>21, <1>22, <1>23, <1>24

\* Every step keeps the two cookies of one pair.
LEMMA PairedStep ==
  ASSUME TypeOK, CookiesPaired, [Next]_vars
  PROVE  CookiesPaired'
  <1> SUFFICES ASSUME ~Refreshless
               PROVE  /\ jar'.acc \in {None, jar'.ref}
                      /\ \A r \in Requests : out'[r].acc = out'[r].ref
    BY DEF CookiesPaired
  <1>1. jar.acc \in {None, jar.ref} /\ \A r \in Requests : out[r].acc = out[r].ref
    BY DEF CookiesPaired
  <1>2. ASSUME jar' = jar, out' = out
        PROVE  /\ jar'.acc \in {None, jar'.ref}
               /\ \A r \in Requests : out'[r].acc = out'[r].ref
    BY <1>1, <1>2
  <1>3. ASSUME NEW r \in Requests, NEW c, c.acc = c.ref, jar' = jar,
               out' = [out EXCEPT ![r] = c]
        PROVE  /\ jar'.acc \in {None, jar'.ref}
               /\ \A s \in Requests : out'[s].acc = out'[s].ref
    BY <1>1, <1>3 DEF TypeOK
  <1>4. /\ NoSetCookie.acc = NoSetCookie.ref /\ Clear.acc = Clear.ref
        /\ \A k \in Pairs : Pair(k).acc = Pair(k).ref
    BY DEF NoSetCookie, Clear, NoCookies, Pair
  <1>5. ASSUME NEW r \in Requests, ClearExpired(r) \/ HandleAuthLogout(r)
        PROVE  jar' = jar /\ out' = [out EXCEPT ![r] = Clear]
    BY <1>5 DEF ClearExpired, HandleAuthLogout
  <1>6. ASSUME NEW r \in Requests, Resume(r)
        PROVE  jar' = jar /\ \E c : c.acc = c.ref /\ out' = [out EXCEPT ![r] = c]
    <2>1. PICK c : out' = [out EXCEPT ![r] = c] /\ c \in {Pair(req[r].ans), Clear, NoSetCookie}
      <3>1. CASE req[r].ans \in Pairs
        <4>1. ~(req[r].ans = Revoked)
          BY <3>1, SessionAssumption DEF Pairs, Revoked
        <4>2. QED
          BY <1>6, <3>1, <4>1 DEF Resume
      <3>2. CASE req[r].ans \notin Pairs /\ req[r].ans = Revoked /\ IsExpired(req[r].acc)
        BY <1>6, <3>2 DEF Resume
      <3>3. CASE req[r].ans \notin Pairs /\ ~(req[r].ans = Revoked /\ IsExpired(req[r].acc))
        BY <1>6, <3>3 DEF Resume
      <3>4. QED
        BY <3>1, <3>2, <3>3
    <2>2. c.acc = c.ref
      BY <2>1 DEF NoSetCookie, Clear, NoCookies, Pair
    <2>3. jar' = jar
      BY <1>6 DEF Resume
    <2>4. QED
      BY <2>1, <2>2, <2>3
  <1>7. ASSUME NEW r \in Requests, HandleAuthStatus(r)
        PROVE  jar' = jar /\ (out' = out \/ out' = [out EXCEPT ![r] = Clear])
    BY <1>7 DEF HandleAuthStatus
  <1>8. ASSUME NEW r \in Requests, HandleAuthCallback(r)
        PROVE  /\ jar'.acc \in {None, jar'.ref}
               /\ \A s \in Requests : out'[s].acc = out'[s].ref
    <2>1. jar' = jar
      BY <1>8 DEF HandleAuthCallback
    <2>2. \/ out' = out
          \/ out' = [out EXCEPT ![r].acc = minted + 1, ![r].ref = minted + 1]
      BY <1>8 DEF HandleAuthCallback
    <2>3. CASE out' = [out EXCEPT ![r].acc = minted + 1, ![r].ref = minted + 1]
      <3>1. out'[r].acc = minted + 1 /\ out'[r].ref = minted + 1
        BY <2>3 DEF TypeOK, SetCookies
      <3>2. \A s \in Requests \ {r} : out'[s] = out[s]
        BY <2>3 DEF TypeOK
      <3>3. QED
        BY <1>1, <2>1, <3>1, <3>2
    <2>4. QED
      BY <1>2, <2>1, <2>2, <2>3
  <1>9. ASSUME NEW r \in Requests, Deliver(r)
        PROVE  /\ jar'.acc \in {None, jar'.ref}
               /\ \A s \in Requests : out'[s].acc = out'[s].ref
    <2>1. \A s \in Requests : out'[s].acc = out'[s].ref
      BY <1>1, <1>4, <1>9 DEF Deliver, TypeOK
    <2>2. \/ jar'.acc = jar.acc /\ jar'.ref = jar.ref
          \/ jar'.acc = out[r].acc /\ jar'.ref = out[r].ref
      <3>1. CASE req[r].gone
        BY <1>9, <3>1 DEF Deliver
      <3>2. CASE ~req[r].gone /\ out[r].acc = Keep
        BY <1>1, <1>9, <3>2 DEF Deliver
      <3>3. CASE ~req[r].gone /\ out[r].acc # Keep
        BY <1>1, <1>9, <3>3 DEF Deliver
      <3>4. QED
        BY <3>1, <3>2, <3>3
    <2>3. QED
      BY <1>1, <2>1, <2>2
  <1>10. ASSUME AccessCookieLapses
         PROVE  jar'.acc = None /\ out' = out
    BY <1>10 DEF AccessCookieLapses, TypeOK, Cookies
  <1>11. ASSUME NEW r \in Requests,
                \/ \E k \in Kinds : Send(r, k)
                \/ PassThrough(r) \/ LeadRefresh(r) \/ JoinRefresh(r)
                \/ ProxyRefresh(r) \/ CallReturns(r) \/ CallFails(r)
                \/ HandleAPI(r) \/ Abort(r)
         PROVE  jar' = jar /\ out' = out
    BY <1>11 DEF Send, PassThrough, LeadRefresh, JoinRefresh, ProxyRefresh,
         CallReturns, CallFails, EndCall, HandleAPI, Abort
  <1>12. ASSUME Tick \/ Ban \/ (\E k \in Pairs : LateRefresh(k)) \/ UNCHANGED vars
         PROVE  jar' = jar /\ out' = out
    BY <1>12 DEF Tick, Ban, LateRefresh, vars
  <1>13. \A k \in Int : Pair(k).acc = Pair(k).ref
    BY DEF Pair
  <1>14. minted + 1 \in Int
    BY DEF TypeOK
  <1>15. QED
    BY NextCases, <1>1, <1>2, <1>3, <1>4, <1>5, <1>6, <1>7, <1>8, <1>9, <1>10,
       <1>11, <1>12, <1>13, <1>14

---------------------------------------------------------------------------
(* The ban window *)

\* Every step keeps the lifetimes of access tokens bounded.
LEMMA ExpiryStep ==
  ASSUME TypeOK, ExpiryInv, [Next]_vars
  PROVE  ExpiryInv'
  <1> USE SessionAssumption
  <1>1. /\ now \in Nat /\ TTL \in Nat /\ bannedAt \in Nat \cup {Never}
        /\ \A k \in Pairs : exp[k] \in Nat
    BY DEF TypeOK
  <1>2. CASE Tick
    BY <1>1, <1>2 DEF Tick, proxyVars, ExpiryInv, Never
  <1>3. CASE Ban
    BY <1>1, <1>3 DEF Ban, proxyVars, ExpiryInv, Never
  <1>4. ASSUME NEW s, Mint(s), bannedAt = Never, now' = now, bannedAt' = bannedAt
        PROVE  ExpiryInv'
    BY <1>1, <1>4 DEF Mint, ExpiryInv, Never, TypeOK
  <1>5. ASSUME UNCHANGED <<now, exp, bannedAt>> PROVE ExpiryInv'
    BY <1>5 DEF ExpiryInv
  <1>6. ASSUME NEW k \in Pairs, LateRefresh(k) PROVE ExpiryInv'
    BY <1>4, <1>5, <1>6 DEF LateRefresh, Rotate, Rotates
  <1>7. ASSUME NEW r \in Requests, ProxyRefresh(r) PROVE ExpiryInv'
    BY <1>4, <1>5, <1>7 DEF ProxyRefresh, Rotate, Rotates
  <1>8. ASSUME NEW r \in Requests, HandleAuthCallback(r) PROVE ExpiryInv'
    BY <1>4, <1>5, <1>8 DEF HandleAuthCallback
  <1>9. ASSUME NEW r \in Requests,
               \/ \E k \in Kinds : Send(r, k)
               \/ PassThrough(r) \/ ClearExpired(r) \/ LeadRefresh(r)
               \/ JoinRefresh(r) \/ Resume(r) \/ CallReturns(r) \/ CallFails(r)
               \/ HandleAPI(r) \/ HandleAuthStatus(r) \/ HandleAuthLogout(r)
               \/ Deliver(r) \/ Abort(r)
        PROVE  UNCHANGED <<now, exp, bannedAt>>
    BY <1>9 DEF Send, PassThrough, ClearExpired, LeadRefresh, JoinRefresh, Resume,
         CallReturns, CallFails, EndCall, HandleAPI, HandleAuthStatus,
         HandleAuthLogout, Deliver, Abort, proxyVars
  <1>10. CASE AccessCookieLapses \/ UNCHANGED vars
    BY <1>5, <1>10 DEF AccessCookieLapses, vars, proxyVars
  <1>11. QED
    BY NextCases, <1>2, <1>3, <1>5, <1>6, <1>7, <1>8, <1>9, <1>10

---------------------------------------------------------------------------
(* Theorems *)

\* The session starts in the inductive invariant.
LEMMA InitIInv == Init => IInv
  <1> SUFFICES ASSUME Init, TypeOK PROVE SingleFlightInv /\ CookieInv /\ CookiesPaired /\ ExpiryInv
    BY InitTypeOK DEF IInv
  <1>1. /\ \A l \in Requests : call[l] = NoCall /\ pc[l] = "idle"
        /\ \A r \in Requests : req[r] = NoRequest(r) /\ out[r] = NoSetCookie
        /\ jar = Pair(1) /\ minted = 1 /\ now = 0 /\ bannedAt = Never
        /\ \A k \in Pairs : exp[k] \in {0, TTL}
    BY DEF Init
  <1>2. SingleFlightInv
    BY <1>1 DEF SingleFlightInv, OneCallPerToken, WaitersHaveCall, LeadersWait,
         FreshUnlessRotated, NoCall
  <1>3. CookieInv
    <2>1. /\ NoCall.ans = -1 /\ NoSetCookie.acc = -1 /\ Pair(1).acc = 1
          /\ NoSetCookie # Clear
      BY DEF NoCall, NoSetCookie, Clear, NoCookies, Pair, None, Keep, Failed
    <2>2. \A r \in Requests : NoRequest(r).acc = 0 /\ NoRequest(r).ans = -1
      BY DEF NoRequest, None, Failed
    <2>3. \A r \in Requests : CookieOK(r)
      BY <1>1, <2>1, <2>2 DEF CookieOK, ClearJustified
    <2>4. QED
      BY <1>1, <2>1, <2>3 DEF CookieInv
  <1>4. CookiesPaired
    BY <1>1 DEF CookiesPaired, NoSetCookie, Pair
  <1>5. ExpiryInv
    BY <1>1, SessionAssumption DEF ExpiryInv, Never
  <1>6. QED
    BY <1>2, <1>3, <1>4, <1>5

\* The inductive invariant holds in every reachable state.
THEOREM Invariance == Spec => []IInv
  <1>1. IInv /\ [Next]_vars => IInv'
    BY TypeStep, SingleFlightStep, CookieStep, PairedStep, ExpiryStep DEF IInv
  <1>2. QED
    BY InitIInv, <1>1, PTL DEF Spec

\* auth_handlers.go:306-316: two calls never present one refresh token, whoever
\* waits has such a call, and a burst is never told "revoked" by its own doing.
THEOREM SingleFlight == Spec => [](OneCallPerToken /\ WaitersHaveCall /\ BurstNotSelfRevoked)
  <1>1. IInv => OneCallPerToken /\ WaitersHaveCall /\ BurstNotSelfRevoked
    BY DEF IInv, SingleFlightInv, FreshUnlessRotated, BurstNotSelfRevoked
  <1>2. QED
    BY Invariance, <1>1, PTL

\* auth_handlers.go:318-334: a response that is not a logout's deletes the
\* cookies only when the access token its request came with has expired.
THEOREM NoSpuriousLogout == Spec => []ClearedOnlyWhenExpired
  <1>1. IInv => ClearedOnlyWhenExpired
    BY DEF IInv, CookieInv, CookieOK, ClearedOnlyWhenExpired
  <1>2. QED
    BY Invariance, <1>1, PTL

\* auth_handlers.go:341-358: access and refresh cookie stay of one pair.
THEOREM PairsStayTogether == Spec => []CookiesPaired
  <1>1. IInv => CookiesPaired
    BY DEF IInv
  <1>2. QED
    BY Invariance, <1>1, PTL

\* REQ-5.3: nobody is authenticated later after a ban than AccessTokenTTL and,
\* where there is a verifier, its leeway.
THEOREM BanIsEnforced == Spec => BanWindow
  <1>1. IInv /\ [Next]_vars =>
          [\A r \in Requests :
             ~req[r].authed /\ req'[r].authed /\ bannedAt # Never
               => InBanWindow]_vars
    <2> SUFFICES ASSUME IInv, [Next]_vars, NEW r \in Requests, ~req[r].authed,
                        req'[r].authed, bannedAt # Never
                 PROVE  InBanWindow
      OBVIOUS
    <2>1. ASSUME NEW s \in Requests,
                 \/ \E k \in Kinds : Send(s, k)
                 \/ PassThrough(s) \/ ClearExpired(s) \/ LeadRefresh(s)
                 \/ JoinRefresh(s) \/ Resume(s) \/ ProxyRefresh(s)
                 \/ CallReturns(s) \/ CallFails(s) \/ HandleAuthLogout(s)
                 \/ HandleAuthCallback(s) \/ Deliver(s) \/ Abort(s)
          PROVE  FALSE
      <3>1. /\ req \in [Requests -> Request] /\ ~req[r].authed /\ req'[r].authed
            /\ ~NoRequest(r).authed /\ r \in Requests
        BY DEF IInv, TypeOK, NoRequest
      <3>2. \A k \in Kinds : ~Send(s, k)
        BY <3>1 DEF Send, NoRequest
      <3>3. /\ \A l \in Requests : req' # [req EXCEPT ![s].leader = l]
            /\ req' # [req EXCEPT ![s].ans = Failed, ![s].fresh = FALSE]
            /\ req' # [req EXCEPT ![s].gone = TRUE]
        <4>1. ASSUME NEW f, f.authed = req[s].authed, req' = [req EXCEPT ![s] = f]
              PROVE  FALSE
          BY <3>1, <4>1
        <4>2. req[s] \in Request
          BY <3>1
        <4>3. ASSUME NEW l PROVE req' # [req EXCEPT ![s].leader = l]
          BY <4>1, <4>2 DEF Request
        <4>4. req' # [req EXCEPT ![s].ans = Failed, ![s].fresh = FALSE]
          BY <3>1 DEF Request
        <4>5. req' # [req EXCEPT ![s].gone = TRUE]
          BY <4>1, <4>2 DEF Request
        <4>6. QED
          BY <4>3, <4>4, <4>5
      <3>4. ~(CallReturns(s) \/ CallFails(s))
        <4>1. SUFFICES ASSUME NEW a, EndCall(s, a) PROVE FALSE
          BY DEF CallReturns, CallFails
        <4>2. CASE r \in Waiters(s)
          <5>1. req'[r] = [req[r] EXCEPT !.ans = a, !.leader = r]
            BY <4>1, <4>2 DEF EndCall
          <5>2. req'[r].authed = req[r].authed
            BY <3>1, <5>1 DEF Request
          <5>3. QED
            BY <3>1, <5>2
        <4>3. CASE r \notin Waiters(s)
          BY <3>1, <4>1, <4>3 DEF EndCall
        <4>4. QED
          BY <4>2, <4>3
      <3>5. ~Deliver(s)
        BY <3>1 DEF Deliver
      <3>6. ~(PassThrough(s) \/ ClearExpired(s) \/ ProxyRefresh(s)
              \/ HandleAuthLogout(s) \/ HandleAuthCallback(s))
        BY <3>1 DEF PassThrough, ClearExpired, ProxyRefresh, HandleAuthLogout,
             HandleAuthCallback
      <3>7. QED
        BY <2>1, <3>2, <3>3, <3>4, <3>5, <3>6
           DEF JoinRefresh, LeadRefresh, Resume, Abort
    <2>2. ASSUME Tick \/ Ban \/ AccessCookieLapses \/ UNCHANGED vars
                 \/ \E k \in Pairs : LateRefresh(k)
          PROVE  FALSE
      BY <2>2 DEF Tick, Ban, AccessCookieLapses, vars, LateRefresh
    <2>3. ASSUME NEW s \in Requests, HandleAPI(s) \/ HandleAuthStatus(s)
          PROVE  InBanWindow
      <3>1. s = r /\ (Authenticates(req[r].acc) \/ Unexpired(req[r].acc))
        <4>1. PICK b \in BOOLEAN :
                /\ req' = [req EXCEPT ![s].authed = b]
                /\ b => Authenticates(req[s].acc) \/ Unexpired(req[s].acc)
          <5>1. CASE HandleAPI(s)
            <6>1. PICK known \in {TRUE, ~Verified} :
                    req' = [req EXCEPT ![s].authed = known /\ Authenticates(req[s].acc)]
              BY <5>1 DEF HandleAPI
            <6>2. (known /\ Authenticates(req[s].acc)) \in BOOLEAN
              OBVIOUS
            <6>3. QED
              BY <6>1, <6>2, Zenon
          <5>2. CASE HandleAuthStatus(s)
            <6>1. Unexpired(req[s].acc) \in BOOLEAN
              BY DEF Unexpired
            <6>2. QED
              BY <5>2, <6>1, Zenon DEF HandleAuthStatus
          <5>3. QED
            BY <2>3, <5>1, <5>2
        <4>2. req \in [Requests -> Request] /\ req[s] \in Request
          BY DEF IInv, TypeOK
        <4>3. s = r
          BY <4>1, <4>2
        <4>4. req'[s].authed = b
          BY <4>1, <4>2 DEF Request
        <4>5. QED
          BY <4>1, <4>3, <4>4
      <3>2. /\ req[r].acc \in Pairs
            /\ now <= exp[req[r].acc] \/ (Verified /\ now < exp[req[r].acc] + Leeway)
        <4>1. req[r].acc \in Pairs
          BY <3>1 DEF Authenticates, VerifyToken, Unexpired, IInv, TypeOK, Request
        <4>2. now \in Int /\ exp[req[r].acc] \in Int
          BY <4>1, SessionAssumption DEF IInv, TypeOK
        <4>3. QED
          BY <3>1, <4>1, <4>2 DEF Authenticates, VerifyToken, Unexpired, IsExpired
      <3>3. exp[req[r].acc] <= bannedAt + TTL
        BY <3>2 DEF IInv, ExpiryInv
      <3>4. /\ now \in Int /\ exp[req[r].acc] \in Int /\ bannedAt \in Int
            /\ TTL \in Int /\ Leeway \in Int
        BY <3>2, SessionAssumption DEF IInv, TypeOK, Never
      <3>5. QED
        BY <3>2, <3>3, <3>4 DEF InBanWindow
    <2>4. QED
      BY NextCases, <2>1, <2>2, <2>3
  <1>2. QED
    BY Invariance, <1>1, PTL DEF Spec, BanWindow
============================================================================
