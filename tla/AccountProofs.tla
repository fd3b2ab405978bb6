---------------------------- MODULE AccountProofs ----------------------------
(***************************************************************************)
(* Proofs about the sessions of an account and the lock of its console,    *)
(* for any tabs, browsers and number of tokens; about its password, for    *)
(* any passwords, links and number of requests under way; about the        *)
(* payment switches that the console sets, for any servers and open forms; *)
(* and about the staff accounts, for any people and permissions.           *)
(***************************************************************************)
EXTENDS Sessions, Passwords, GatewaySettings, Staff, FiniteSetTheorems, TLAPS

TokenStates == {"none", "live", "expired", "rotated", "revoked"}
CallKinds == {"none", "login", "refresh", "restore", "logout"}
CallSteps == {"idle", "wait", "sent", "rotate", "answer", "reject", "leave", "revoke", "left"}
SessionCalls == [kind : CallKinds, step : CallSteps, token : Nat]

(* A token belongs to a session that began with it or before it.  Of a     *)
(* session two tokens are never usable, none once it has ended, and one    *)
(* as long as it has not.                                                  *)
ServerInv ==
    /\ issued \in Nat /\ issued <= MaxTokens
    /\ token \in [Tokens -> TokenStates]
    /\ login \in [Tokens -> Nat]
    /\ ended \subseteq 1..issued
    /\ \A i \in Tokens : i > issued => token[i] = "none"
    /\ \A i \in 1..issued : login[i] \in 1..issued
    /\ \A i, j \in 1..issued : Usable(i) /\ Usable(j) /\ login[i] = login[j] => i = j
    /\ \A i \in 1..issued : Usable(i) => login[i] \notin ended
    /\ \A i \in 1..issued :
          login[i] \notin ended => \E j \in 1..issued : Usable(j) /\ login[j] = login[i]

(* Browsers and calls know issued tokens only, and a call that rotates or  *)
(* revokes one has one.                                                    *)
ClientInv ==
    /\ cookie \in [Browsers -> Nat] /\ \A b \in Browsers : cookie[b] <= issued
    /\ call \in [Tabs -> SessionCalls]
    /\ \A t \in Tabs : call[t].token <= issued
    /\ \A t \in Tabs : At(t, "rotate") \/ At(t, "revoke") => call[t].token # 0

SessionsInv == ServerInv /\ ClientInv

----------------------------------------------------------------------------
(* The server.                                                             *)

LEMMA ServerStays == ServerInv /\ UNCHANGED serverVars => ServerInv'
  BY DEF ServerInv, serverVars, Usable

LEMMA RevokeAllKeeps ==
    ASSUME ServerInv, RevokeAll
    PROVE  ServerInv'
  <1>1. /\ token' \in [Tokens -> TokenStates]
        /\ \A i \in Tokens : token'[i] = IF Usable(i) THEN "revoked" ELSE token[i]
        /\ UNCHANGED <<login, issued>>
    BY DEF RevokeAll, ServerInv, TokenStates
  <1>2. ended' = ended \cup {login[i] : i \in {j \in Tokens : Usable(j)}}
    BY DEF RevokeAll, Ends
  <1>3. 1..issued \subseteq Tokens
    BY SessionsAssumption DEF ServerInv, Tokens
  <1>4. \A i \in Tokens : ~Usable(i)'
    BY <1>1 DEF Usable
  <1>5. \A i \in Tokens : Usable(i) => i \in 1..issued
    BY DEF ServerInv, Usable, Tokens
  <1>6. ended' \subseteq 1..issued
    <2>1. \A i \in Tokens : Usable(i) => login[i] \in 1..issued
      BY <1>5 DEF ServerInv
    <2>2. {login[i] : i \in {j \in Tokens : Usable(j)}} \subseteq 1..issued
      BY <2>1
    <2> QED BY <1>2, <2>2 DEF ServerInv
  <1>7. \A i \in 1..issued : login[i] \in ended'
    BY <1>2, <1>3 DEF ServerInv
  <1>8. \A i \in Tokens : i > issued => token'[i] = "none"
    BY <1>1, <1>5 DEF ServerInv, Tokens
  <1> QED BY <1>1, <1>3, <1>4, <1>6, <1>7, <1>8 DEF ServerInv

(* One token is revoked, if it is still usable.                            *)
LEMMA RevokeOneKeeps ==
    ASSUME ServerInv, NEW i \in 1..issued,
           token' = [token EXCEPT ![i] = IF Usable(i) THEN "revoked" ELSE @],
           Ends({i}), UNCHANGED <<login, issued>>
    PROVE  ServerInv'
  <1>1. i \in Tokens /\ 1..issued \subseteq Tokens
    BY SessionsAssumption DEF ServerInv, Tokens
  <1>2. ended' = ended \cup {login[j] : j \in {k \in {i} : Usable(k)}}
    BY DEF Ends
  <1>3. CASE ~Usable(i)
    <2>1. token' = token
      BY <1>1, <1>3 DEF ServerInv
    <2>2. ended' = ended
      BY <1>2, <1>3
    <2> QED BY <2>1, <2>2, ServerStays DEF serverVars
  <1>4. CASE Usable(i)
    <2>1. /\ token' \in [Tokens -> TokenStates] /\ token'[i] = "revoked"
          /\ \A j \in Tokens \ {i} : token'[j] = token[j]
      BY <1>1, <1>4 DEF ServerInv, TokenStates
    <2>2. ended' = ended \cup {login[i]}
      BY <1>2, <1>4
    <2>3. ~Usable(i)' /\ \A j \in Tokens \ {i} : Usable(j)' <=> Usable(j)
      BY <2>1 DEF Usable
    <2>4. \A j \in 1..issued : Usable(j)' => login[j] \notin ended'
      BY <1>1, <1>4, <2>2, <2>3 DEF ServerInv
    <2>5. \A j \in 1..issued :
             login[j] \notin ended' => \E k \in 1..issued : Usable(k)' /\ login[k] = login[j]
      BY <1>1, <2>2, <2>3 DEF ServerInv
    <2>6. \A j, k \in 1..issued : Usable(j)' /\ Usable(k)' /\ login[j] = login[k] => j = k
      BY <1>1, <2>3 DEF ServerInv
    <2>7. \A j \in Tokens : j > issued => token'[j] = "none"
      BY <2>1 DEF ServerInv
    <2>8. ended' \subseteq 1..issued
      <3>1. ended \subseteq 1..issued /\ login[i] \in 1..issued
        BY DEF ServerInv
      <3> QED BY <2>2, <3>1
    <2>9. /\ issued' = issued /\ issued \in Nat /\ issued <= MaxTokens
          /\ login' = login /\ login \in [Tokens -> Nat]
          /\ \A j \in 1..issued : login[j] \in 1..issued
      BY DEF ServerInv
    <2>10. Tokens' = Tokens
      BY DEF Tokens
    <2>11. (\A j, k \in 1..issued : Usable(j) /\ Usable(k) /\ login[j] = login[k] => j = k)'
      BY <2>6, <2>9
    <2>12. (\A j \in 1..issued : Usable(j) => login[j] \notin ended)'
      BY <2>4, <2>9
    <2>13. (\A j \in 1..issued :
              login[j] \notin ended => \E k \in 1..issued : Usable(k) /\ login[k] = login[j])'
      BY <2>5, <2>9
    <2> QED BY <2>1, <2>7, <2>8, <2>9, <2>10, <2>11, <2>12, <2>13 DEF ServerInv
  <1> QED BY <1>3, <1>4

(* A new session: its first token is the newest one.                       *)
LEMMA LoginKeeps ==
    ASSUME ServerInv, NEW t \in Tabs, Login(t)
    PROVE  ServerInv'
  <1>0. issued + 1 \in Nat
    BY DEF ServerInv
  <1>n. PICK n \in Nat : n = issued + 1
    BY <1>0
  <1>1. /\ n \in Tokens /\ 1..issued \subseteq Tokens /\ n \notin 1..issued
        /\ issued' = n /\ 1..issued' = 1..issued \cup {n}
    BY <1>n, SessionsAssumption DEF Login, ServerInv, Tokens
  <1>2. /\ token' = [token EXCEPT ![n] = "live"] /\ login' = [login EXCEPT ![n] = n] /\ ended' = ended
    BY <1>n DEF Login
  <1>3. /\ token' \in [Tokens -> TokenStates] /\ token'[n] = "live"
        /\ \A j \in Tokens \ {n} : token'[j] = token[j]
        /\ login' \in [Tokens -> Nat] /\ login'[n] = n
        /\ \A j \in Tokens \ {n} : login'[j] = login[j]
    BY <1>1, <1>2 DEF ServerInv, TokenStates, Tokens
  <1>4. Usable(n)' /\ \A j \in Tokens \ {n} : Usable(j)' <=> Usable(j)
    BY <1>3 DEF Usable
  <1>5. issued' \in Nat /\ issued' <= MaxTokens /\ \A j \in Tokens : j > issued' => token'[j] = "none"
    BY <1>1, <1>3 DEF ServerInv, Login, Tokens
  <1>6. \A j \in 1..issued' : login'[j] \in 1..issued'
    BY <1>1, <1>3 DEF ServerInv
  <1>a. \A j \in 1..issued : /\ j # n /\ login'[j] = login[j] /\ login'[j] # n
                             /\ Usable(j)' <=> Usable(j)
    BY <1>1, <1>3, <1>4 DEF ServerInv
  <1>b. \A j, k \in 1..issued : Usable(j) /\ Usable(k) /\ login[j] = login[k] => j = k
    BY DEF ServerInv
  <1>c. /\ \A j \in 1..issued : Usable(j) => login[j] \notin ended
        /\ ended \subseteq 1..issued
    BY DEF ServerInv
  <1>d. \A j \in 1..issued : login[j] \notin ended => \E k \in 1..issued : Usable(k) /\ login[k] = login[j]
    BY DEF ServerInv
  <1>7. ASSUME NEW j \in 1..issued', NEW k \in 1..issued', Usable(j)', Usable(k)', login'[j] = login'[k]
        PROVE  j = k
    <2>1. CASE j = n \/ k = n
      BY <1>1, <1>3, <1>7, <1>a, <2>1
    <2>2. CASE j # n /\ k # n
      BY <1>1, <1>7, <1>a, <1>b, <2>2
    <2> QED BY <2>1, <2>2
  <1>8. ended' \subseteq 1..issued'
    BY <1>1, <1>2, <1>c
  <1>9. ASSUME NEW j \in 1..issued', Usable(j)'
        PROVE  login'[j] \notin ended'
    BY <1>1, <1>2, <1>3, <1>9, <1>a, <1>c
  <1>10. ASSUME NEW j \in 1..issued', login'[j] \notin ended'
         PROVE  \E k \in 1..issued' : Usable(k)' /\ login'[k] = login'[j]
    <2>1. CASE j = n
      BY <1>1, <1>4, <2>1
    <2>2. CASE j # n
      <3>1. PICK k \in 1..issued : Usable(k) /\ login[k] = login[j]
        BY <1>1, <1>2, <1>10, <1>a, <1>d, <2>2
      <3>2. k \in 1..issued' /\ Usable(k)' /\ login'[k] = login'[j]
        BY <1>1, <1>a, <2>2, <3>1
      <3> QED BY <3>2
    <2> QED BY <2>1, <2>2
  <1> QED BY <1>3, <1>5, <1>6, <1>7, <1>8, <1>9, <1>10 DEF ServerInv

(* The newest token takes the place of the one that was exchanged.         *)
LEMMA RotateKeeps ==
    ASSUME ServerInv, NEW i \in 1..issued, Rotate(i)
    PROVE  ServerInv'
  <1>0. issued + 1 \in Nat
    BY DEF ServerInv
  <1>n. PICK n \in Nat : n = issued + 1
    BY <1>0
  <1>1. /\ n \in Tokens /\ 1..issued \subseteq Tokens /\ n \notin 1..issued /\ i # n
        /\ issued' = n /\ 1..issued' = 1..issued \cup {n}
    <2>1. issued \in Nat /\ issued < MaxTokens /\ issued' = n /\ issued <= MaxTokens
      BY <1>n DEF Rotate, ServerInv
    <2> QED BY <1>n, <2>1, SessionsAssumption DEF Tokens
  <1>2. /\ token' = [token EXCEPT ![i] = "rotated", ![n] = "live"]
        /\ login' = [login EXCEPT ![n] = login[i]] /\ ended' = ended /\ Usable(i)
    BY <1>n DEF Rotate
  <1>3. /\ token' \in [Tokens -> TokenStates] /\ token'[n] = "live" /\ token'[i] = "rotated"
        /\ \A j \in Tokens \ {n, i} : token'[j] = token[j]
        /\ login' \in [Tokens -> Nat] /\ login'[n] = login[i]
        /\ \A j \in Tokens \ {n} : login'[j] = login[j]
    BY <1>1, <1>2 DEF ServerInv, TokenStates, Tokens
  <1>4. Usable(n)' /\ ~Usable(i)' /\ \A j \in Tokens \ {n, i} : Usable(j)' <=> Usable(j)
    BY <1>3 DEF Usable
  <1>5. issued' \in Nat /\ issued' <= MaxTokens /\ \A j \in Tokens : j > issued' => token'[j] = "none"
    BY <1>1, <1>3 DEF ServerInv, Rotate, Tokens
  <1>6. \A j \in 1..issued' : login'[j] \in 1..issued'
    BY <1>1, <1>3 DEF ServerInv
  <1>a. \A j \in 1..issued : /\ j # n /\ login'[j] = login[j]
                             /\ j # i => (Usable(j)' <=> Usable(j))
    BY <1>1, <1>3, <1>4
  <1>b. \A j, k \in 1..issued : Usable(j) /\ Usable(k) /\ login[j] = login[k] => j = k
    BY DEF ServerInv
  <1>c. /\ \A j \in 1..issued : Usable(j) => login[j] \notin ended
        /\ ended \subseteq 1..issued
    BY DEF ServerInv
  <1>d. \A j \in 1..issued : login[j] \notin ended => \E k \in 1..issued : Usable(k) /\ login[k] = login[j]
    BY DEF ServerInv
  <1>e. \A j \in 1..issued : Usable(j)' => j # i /\ Usable(j) /\ login[j] # login[i]
    BY <1>2, <1>4, <1>a, <1>b
  <1>7. ASSUME NEW j \in 1..issued', NEW k \in 1..issued', Usable(j)', Usable(k)', login'[j] = login'[k]
        PROVE  j = k
    <2>1. CASE j = n \/ k = n
      BY <1>1, <1>3, <1>7, <1>a, <1>e, <2>1
    <2>2. CASE j # n /\ k # n
      BY <1>1, <1>7, <1>a, <1>b, <1>e, <2>2
    <2> QED BY <2>1, <2>2
  <1>8. ended' \subseteq 1..issued'
    BY <1>1, <1>2, <1>c
  <1>9. ASSUME NEW j \in 1..issued', Usable(j)'
        PROVE  login'[j] \notin ended'
    BY <1>1, <1>2, <1>3, <1>9, <1>a, <1>c, <1>e
  <1>10. ASSUME NEW j \in 1..issued', login'[j] \notin ended'
         PROVE  \E k \in 1..issued' : Usable(k)' /\ login'[k] = login'[j]
    <2>1. CASE login'[j] = login[i]
      BY <1>1, <1>3, <1>4, <2>1
    <2>2. CASE login'[j] # login[i]
      <3>1. j \in 1..issued /\ login'[j] = login[j]
        BY <1>1, <1>3, <1>a, <2>2
      <3>2. PICK k \in 1..issued : Usable(k) /\ login[k] = login[j]
        BY <1>2, <1>10, <1>d, <3>1
      <3>3. k # i /\ k \in 1..issued' /\ Usable(k)' /\ login'[k] = login'[j]
        BY <1>1, <1>a, <2>2, <3>1, <3>2
      <3> QED BY <3>3
    <2> QED BY <2>1, <2>2
  <1> QED BY <1>3, <1>5, <1>6, <1>7, <1>8, <1>9, <1>10 DEF ServerInv

LEMMA ExpireKeeps ==
    ASSUME ServerInv, NEW i \in Tokens, Expire(i)
    PROVE  ServerInv'
  <1>1. /\ token' \in [Tokens -> TokenStates] /\ token'[i] = "expired" /\ token[i] = "live"
        /\ \A j \in Tokens \ {i} : token'[j] = token[j]
        /\ UNCHANGED <<login, issued, ended>>
    BY DEF Expire, ServerInv, TokenStates
  <1>2. \A j \in Tokens : Usable(j)' <=> Usable(j)
    BY <1>1 DEF Usable
  <1>3. 1..issued \subseteq Tokens
    BY SessionsAssumption DEF ServerInv, Tokens
  <1>4. \A j \in Tokens : j > issued => token'[j] = "none"
    BY <1>1 DEF ServerInv
  <1> QED BY <1>1, <1>2, <1>3, <1>4 DEF ServerInv

----------------------------------------------------------------------------
(* Browsers and calls.                                                     *)

LEMMA CallFact ==
    ASSUME ClientInv, NEW t \in Tabs
    PROVE  call[t] \in SessionCalls /\ call[t].token \in Nat
  BY DEF ClientInv, SessionCalls

(* A call moves on, a cookie may be set, and tokens may be issued.         *)
LEMMA ClientKeeps ==
    ASSUME ClientInv, issued \in Nat, issued' \in Nat, issued <= issued', NEW t \in Tabs,
           call' \in [Tabs -> SessionCalls], \A u \in Tabs \ {t} : call'[u] = call[u],
           call'[t].token <= issued',
           call'[t].step \in {"rotate", "revoke"} => call'[t].token # 0,
           cookie' \in [Browsers -> Nat], \A b \in Browsers : cookie'[b] <= issued'
    PROVE  ClientInv'
  <1>1. \A u \in Tabs : call[u].token \in Nat
    BY CallFact
  <1>2. \A u \in Tabs : call'[u].token <= issued'
    BY <1>1 DEF ClientInv
  <1>3. \A u \in Tabs : At(u, "rotate")' \/ At(u, "revoke")' => call'[u].token # 0
    BY DEF ClientInv, At
  <1> QED BY <1>2, <1>3 DEF ClientInv

(* The cookies stay, while tokens may be issued.                           *)
LEMMA CookiesStay ==
    ASSUME ClientInv, issued \in Nat, issued' \in Nat, issued <= issued', UNCHANGED cookie
    PROVE  cookie' \in [Browsers -> Nat] /\ \A b \in Browsers : cookie'[b] <= issued'
  BY DEF ClientInv

LEMMA ClientStays ==
    ASSUME ClientInv, UNCHANGED <<cookie, call, issued>>
    PROVE  ClientInv'
  BY DEF ClientInv, At

(* A call takes its next step with the token it has.                       *)
LEMMA GoesKeeps ==
    ASSUME ClientInv, issued \in Nat, UNCHANGED <<cookie, issued>>,
           NEW t \in Tabs, NEW step \in CallSteps, Goes(t, step),
           step \in {"rotate", "revoke"} => call[t].token # 0
    PROVE  ClientInv'
  <1> DEFINE r == [call[t] EXCEPT !.step = step]
  <1>1. r \in SessionCalls /\ r.token = call[t].token /\ r.step = step
    BY CallFact DEF SessionCalls
  <1>2. call' = [call EXCEPT ![t] = r]
    BY DEF Goes
  <1>3. call[t].token <= issued
    BY DEF ClientInv
  <1> HIDE DEF r
  <1>4. /\ call' \in [Tabs -> SessionCalls] /\ call'[t] = r
        /\ \A u \in Tabs \ {t} : call'[u] = call[u]
    BY <1>1, <1>2 DEF ClientInv
  <1> QED BY <1>1, <1>3, <1>4, ClientKeeps, CookiesStay

LEMMA HomeFact == \A t \in Tabs : Home(t) \in Browsers
  BY SessionsAssumption DEF Home

(* A call begins, or gets the lock, with the cookie of its browser.        *)
LEMMA CookieKeeps ==
    ASSUME ClientInv, issued \in Nat, UNCHANGED <<cookie, issued>>,
           NEW t \in Tabs, NEW kind \in CallKinds, NEW step \in {"wait", "sent", "leave"},
           call' = [call EXCEPT ![t] = [kind |-> kind, step |-> step, token |-> cookie[Home(t)]]]
    PROVE  ClientInv'
  <1> DEFINE r == [kind |-> kind, step |-> step, token |-> cookie[Home(t)]]
  <1>1. cookie[Home(t)] \in Nat /\ cookie[Home(t)] <= issued
    BY HomeFact DEF ClientInv
  <1>2. r \in SessionCalls /\ r.token <= issued /\ r.step \notin {"rotate", "revoke"}
    BY <1>1 DEF SessionCalls, CallSteps
  <1>3. call' = [call EXCEPT ![t] = r]
    OBVIOUS
  <1> HIDE DEF r
  <1>4. /\ call' \in [Tabs -> SessionCalls] /\ call'[t] = r
        /\ \A u \in Tabs \ {t} : call'[u] = call[u]
    BY <1>2, <1>3 DEF ClientInv
  <1> QED BY <1>2, <1>4, ClientKeeps, CookiesStay

LEMMA IdleCall == Idle \in SessionCalls /\ Idle.token = 0 /\ Idle.step = "idle"
  BY DEF Idle, SessionCalls, CallKinds, CallSteps

(* A call ends; its answer may set the cookie to the token it carries, or  *)
(* drop it.                                                                *)
LEMMA EndedKeeps ==
    ASSUME ClientInv, issued \in Nat, UNCHANGED issued, NEW t \in Tabs, Ended(t),
           UNCHANGED cookie \/ SetCookie(t, call[t].token) \/ SetCookie(t, 0)
    PROVE  ClientInv'
  <1>1. call' = [call EXCEPT ![t] = Idle]
    BY DEF Ended
  <1>2. call[t].token \in Nat /\ call[t].token <= issued
    BY CallFact DEF ClientInv
  <1>3. /\ call' \in [Tabs -> SessionCalls] /\ call'[t] = Idle
        /\ \A u \in Tabs \ {t} : call'[u] = call[u]
    BY <1>1, IdleCall DEF ClientInv
  <1>4. cookie' \in [Browsers -> Nat] /\ \A b \in Browsers : cookie'[b] <= issued'
    BY <1>2 DEF SetCookie, ClientInv
  <1> QED BY <1>3, <1>4, IdleCall, ClientKeeps

----------------------------------------------------------------------------
(* Step by step.                                                           *)

LEMMA SessionsInitInv == SessionsInit => SessionsInv
  <1> SUFFICES ASSUME SessionsInit PROVE SessionsInv
    OBVIOUS
  <1>1. ServerInv
    BY SessionsAssumption DEF SessionsInit, ServerInv, TokenStates, Tokens
  <1>2. ClientInv
    BY IdleCall DEF SessionsInit, ClientInv, At
  <1> QED BY <1>1, <1>2 DEF SessionsInv

LEMMA ServerSteps ==
    ASSUME SessionsInv, NEW t \in Tabs,
           Login(t) \/ RefreshRead(t) \/ RefreshRotate(t) \/ LogoutRead(t) \/ LogoutRevoke(t)
    PROVE  SessionsInv'
  <1> DEFINE i == call[t].token
  <1>0. /\ ServerInv /\ ClientInv /\ issued \in Nat
        /\ i \in Nat /\ i <= issued /\ (i # 0 => i \in 1..issued)
        /\ 1..issued \subseteq Tokens
    BY CallFact, SessionsAssumption DEF SessionsInv, ServerInv, ClientInv, Tokens
  <1>1. CASE Login(t)
    <2> DEFINE r == [kind |-> "login", step |-> "answer", token |-> issued']
    <2>1. ServerInv'
      BY <1>0, <1>1, LoginKeeps
    <2>2. issued' = issued + 1 /\ issued' \in Nat /\ UNCHANGED cookie /\ call' = [call EXCEPT ![t] = r]
      BY <1>0, <1>1 DEF Login
    <2>3. r \in SessionCalls /\ r.token = issued' /\ r.step = "answer"
      BY <2>2 DEF SessionCalls, CallKinds, CallSteps
    <2> HIDE DEF r
    <2>4. /\ call' \in [Tabs -> SessionCalls] /\ call'[t] = r
          /\ \A u \in Tabs \ {t} : call'[u] = call[u]
      BY <1>0, <2>2, <2>3 DEF ClientInv
    <2>5. ClientInv'
      BY <1>0, <2>2, <2>3, <2>4, ClientKeeps, CookiesStay
    <2> QED BY <2>1, <2>5 DEF SessionsInv
  <1>2. ASSUME RejectReuse(t), UNCHANGED cookie PROVE SessionsInv'
    <2>1. ServerInv' /\ UNCHANGED issued
      BY <1>0, <1>2, RevokeAllKeeps DEF RejectReuse, RevokeAll
    <2>2. ClientInv'
      BY <1>0, <1>2, <2>1, GoesKeeps DEF RejectReuse, CallSteps
    <2> QED BY <2>1, <2>2 DEF SessionsInv
  <1>3. ASSUME NEW step \in CallSteps, Goes(t, step), UNCHANGED <<serverVars, cookie>>,
               step \in {"rotate", "revoke"} => i # 0
        PROVE  SessionsInv'
    <2>1. ServerInv' /\ UNCHANGED issued
      BY <1>0, <1>3, ServerStays DEF serverVars
    <2>2. ClientInv'
      BY <1>0, <1>3, <2>1, GoesKeeps
    <2> QED BY <2>1, <2>2 DEF SessionsInv
  <1>4. CASE RefreshRead(t)
    <2>1. UNCHANGED cookie
      BY <1>4 DEF RefreshRead
    <2>2. CASE Goes(t, "reject") /\ UNCHANGED serverVars
      BY <1>3, <2>1, <2>2 DEF CallSteps
    <2>3. CASE i # 0 /\ Goes(t, "rotate") /\ UNCHANGED serverVars
      BY <1>3, <2>1, <2>3 DEF CallSteps
    <2>4. CASE /\ i # 0 /\ token[i] = "expired"
               /\ token' = [token EXCEPT ![i] = "revoked"] /\ Ends({i})
               /\ Goes(t, "reject") /\ UNCHANGED <<login, issued>>
      <3>1. ServerInv'
        BY <1>0, <2>4, RevokeOneKeeps DEF Usable
      <3>2. ClientInv'
        BY <1>0, <2>1, <2>4, GoesKeeps DEF CallSteps
      <3> QED BY <3>1, <3>2 DEF SessionsInv
    <2>5. CASE RejectReuse(t)
      BY <1>2, <2>1, <2>5
    <2> QED BY <1>4, <2>2, <2>3, <2>4, <2>5 DEF RefreshRead
  <1>5. CASE RefreshRotate(t)
    <2>1. UNCHANGED cookie /\ i # 0
      BY <1>0, <1>5 DEF RefreshRotate, ClientInv
    <2>2. CASE RejectReuse(t)
      BY <1>2, <2>1, <2>2
    <2>3. CASE Rotate(i) /\ call' = [call EXCEPT ![t].step = "answer", ![t].token = issued']
      <3> DEFINE r == [call[t] EXCEPT !.step = "answer", !.token = issued']
      <3>1. ServerInv'
        BY <1>0, <2>1, <2>3, RotateKeeps
      <3>2. issued' = issued + 1 /\ issued' \in Nat
        BY <1>0, <2>3 DEF Rotate
      <3>3. r \in SessionCalls /\ r.token = issued' /\ r.step = "answer"
        BY <1>0, <3>2, CallFact DEF SessionCalls, CallSteps
      <3>4. call' = [call EXCEPT ![t] = r]
        BY <1>0, <2>3 DEF ClientInv, SessionCalls
      <3> HIDE DEF r
      <3>5. /\ call' \in [Tabs -> SessionCalls] /\ call'[t] = r
            /\ \A u \in Tabs \ {t} : call'[u] = call[u]
        BY <1>0, <3>3, <3>4 DEF ClientInv
      <3>6. ClientInv'
        BY <1>0, <2>1, <3>2, <3>3, <3>5, ClientKeeps, CookiesStay
      <3> QED BY <3>1, <3>6 DEF SessionsInv
    <2> QED BY <1>5, <2>2, <2>3 DEF RefreshRotate
  <1>6. CASE LogoutRead(t)
    <2>1. PICK step \in {"revoke", "left"} : Goes(t, step) /\ (step = "revoke" => i # 0)
      BY <1>6 DEF LogoutRead
    <2> QED BY <1>3, <1>6, <2>1 DEF LogoutRead, CallSteps
  <1>7. CASE LogoutRevoke(t)
    <2>1. i # 0
      BY <1>0, <1>7 DEF LogoutRevoke, ClientInv
    <2>2. ServerInv'
      BY <1>0, <1>7, <2>1, RevokeOneKeeps DEF LogoutRevoke
    <2>3. ClientInv'
      BY <1>0, <1>7, GoesKeeps DEF LogoutRevoke, CallSteps
    <2> QED BY <2>2, <2>3 DEF SessionsInv
  <1> QED BY <1>1, <1>4, <1>5, <1>6, <1>7

LEMMA BrowserSteps ==
    ASSUME SessionsInv, NEW t \in Tabs,
           \/ AccessExpires(t) \/ Refresh(t) \/ Acquire(t) \/ Reload(t) \/ SignOut(t)
           \/ TakeAnswer(t) \/ TakeReject(t) \/ TakeLogout(t) \/ LoseAnswer(t)
    PROVE  SessionsInv'
  <1>0. ServerInv /\ ClientInv /\ issued \in Nat
    BY DEF SessionsInv, ServerInv
  <1>1. UNCHANGED serverVars /\ UNCHANGED issued
    BY DEF AccessExpires, Refresh, Acquire, Reload, SignOut, TakeAnswer, TakeReject, TakeLogout,
           LoseAnswer, serverVars
  <1>2. ServerInv'
    BY <1>0, <1>1, ServerStays
  <1>3. CASE AccessExpires(t)
    <2>1. UNCHANGED <<cookie, call>>
      BY <1>3 DEF AccessExpires
    <2> QED BY <1>0, <1>1, <1>2, <2>1, ClientStays DEF SessionsInv
  <1>4. CASE Refresh(t) \/ Reload(t) \/ SignOut(t)
    <2>1. PICK kind \in CallKinds, step \in {"wait", "sent", "leave"} :
             call' = [call EXCEPT ![t] = [kind |-> kind, step |-> step, token |-> cookie[Home(t)]]]
      BY <1>4 DEF Refresh, Reload, SignOut, Starts, CallKinds
    <2>2. UNCHANGED cookie
      BY <1>4 DEF Refresh, Reload, SignOut
    <2>3. ClientInv'
      BY <1>0, <1>1, <2>1, <2>2, CookieKeeps
    <2> QED BY <1>2, <2>3 DEF SessionsInv
  <1>5. CASE Acquire(t)
    <2>0. UNCHANGED cookie
      BY <1>5 DEF Acquire
    <2>1. CASE call' = [call EXCEPT ![t] = Idle]
      <3>1. /\ call' \in [Tabs -> SessionCalls] /\ call'[t] = Idle
            /\ \A u \in Tabs \ {t} : call'[u] = call[u]
        BY <1>0, <2>1, IdleCall DEF ClientInv
      <3>2. ClientInv'
        BY <1>0, <1>1, <2>0, <3>1, IdleCall, ClientKeeps, CookiesStay
      <3> QED BY <1>2, <3>2 DEF SessionsInv
    <2>2. CASE call' = [call EXCEPT ![t].step = "sent", ![t].token = cookie[Home(t)]]
      <3>1. cookie[Home(t)] \in Nat /\ cookie[Home(t)] <= issued
        BY <1>0, HomeFact DEF ClientInv
      <3>2. /\ call' \in [Tabs -> SessionCalls]
            /\ call'[t].step = "sent" /\ call'[t].token = cookie[Home(t)]
            /\ \A u \in Tabs \ {t} : call'[u] = call[u]
        BY <1>0, <2>2, <3>1, CallFact DEF ClientInv, SessionCalls, CallSteps
      <3>3. ClientInv'
        BY <1>0, <1>1, <2>0, <3>1, <3>2, ClientKeeps, CookiesStay
      <3> QED BY <1>2, <3>3 DEF SessionsInv
    <2> QED BY <1>5, <2>1, <2>2 DEF Acquire
  <1>6. CASE TakeAnswer(t) \/ TakeReject(t) \/ TakeLogout(t) \/ LoseAnswer(t)
    <2>1. Ended(t) /\ (UNCHANGED cookie \/ SetCookie(t, call[t].token) \/ SetCookie(t, 0))
      BY <1>6 DEF TakeAnswer, TakeReject, TakeLogout, LoseAnswer
    <2>2. ClientInv'
      BY <1>0, <1>1, <2>1, EndedKeeps
    <2> QED BY <1>2, <2>2 DEF SessionsInv
  <1> QED BY <1>2, <1>3, <1>4, <1>5, <1>6 DEF SessionsInv

LEMMA SessionsNextInv == SessionsInv /\ [SessionsStep]_sessionVars => SessionsInv'
  <1> SUFFICES ASSUME SessionsInv, [SessionsStep]_sessionVars PROVE SessionsInv'
    OBVIOUS
  <1>1. CASE UNCHANGED sessionVars
    BY <1>1, ServerStays, ClientStays DEF SessionsInv, sessionVars, serverVars, clientVars
  <1>2. CASE \E t \in Tabs : TabStep(t)
    BY <1>2, ServerSteps, BrowserSteps DEF TabStep
  <1>3. ASSUME NEW i \in Tokens, Expire(i) PROVE SessionsInv'
    BY <1>3, ExpireKeeps, ClientStays DEF SessionsInv, Expire, clientVars
  <1>4. CASE EndAllSessions
    BY <1>4, RevokeAllKeeps, ClientStays DEF SessionsInv, EndAllSessions, RevokeAll, clientVars
  <1> QED BY <1>1, <1>2, <1>3, <1>4 DEF SessionsStep

(* However refreshes, restores, sign-outs and alarms overlap, and whatever *)
(* answers get lost, a session has one usable token until it is ended and  *)
(* none after.                                                             *)
THEOREM SessionsKeepOneToken == SessionsSpec => []OneTokenPerSession
  <1>1. SessionsInv => OneTokenPerSession
    <2> SUFFICES ASSUME ServerInv, NEW k \in 1..issued
                 PROVE  Cardinality({i \in 1..issued : login[i] = login[k] /\ Usable(i)})
                          = IF login[k] \in ended THEN 0 ELSE 1
      BY DEF SessionsInv, OneTokenPerSession
    <2> DEFINE S == {i \in 1..issued : login[i] = login[k] /\ Usable(i)}
    <2>1. CASE login[k] \in ended
      <3>1. S = {}
        BY <2>1 DEF ServerInv
      <3> QED BY <2>1, <3>1, FS_EmptySet
    <2>2. CASE login[k] \notin ended
      <3>1. PICK j \in 1..issued : Usable(j) /\ login[j] = login[k]
        BY <2>2 DEF ServerInv
      <3>2. S = {j}
        BY <3>1 DEF ServerInv
      <3> QED BY <2>2, <3>2, FS_Singleton
    <2> QED BY <2>1, <2>2
  <1> QED BY SessionsInitInv, SessionsNextInv, <1>1, PTL DEF SessionsSpec

----------------------------------------------------------------------------
AuthRecords ==
    [step : {"idle", "login", "issue", "reset", "change", "revoke"}, phrase : Phrases \cup {"none"},
     legacy : BOOLEAN, link : Links \cup {"none"}, stale : BOOLEAN, overlaps : BOOLEAN]

PasswordsTypes ==
    /\ password \in [phrase : Phrases, legacy : BOOLEAN]
    /\ link \in [Links -> [row : {"none", "usable", "used"}, uses : Nat]]
    /\ auth \in [AuthRequests -> AuthRecords]
    /\ \A q \in AuthRequests :
          /\ Stage(q, "login") => auth[q].phrase \in Phrases
          /\ Stage(q, "reset") => auth[q].link \in Links

(* A login that nothing has overtaken was shown the present password.      *)
LoginsKnow ==
    "upgrade" \in crossed \/
        \A q \in AuthRequests :
            Stage(q, "login") /\ ~auth[q].stale => auth[q].phrase = password.phrase

(* While one request issues links alone, none is usable; and two never are.*)
IssuesKnow ==
    "issue" \in crossed \/
        /\ \A l, m \in Links : link[l].row = "usable" /\ link[m].row = "usable" => l = m
        /\ \A q \in AuthRequests : Stage(q, "issue") /\ ~auth[q].overlaps =>
              /\ \A l \in Links : link[l].row # "usable"
              /\ \A o \in AuthRequests \ {q} : ~Stage(o, "issue")

(* A link that may still be used has set no password, nor has the link of  *)
(* a request that uses it alone.                                           *)
ResetsKnow ==
    "reset" \in crossed \/
        /\ \A l \in Links : link[l].uses <= 1 /\ (link[l].row # "used" => link[l].uses = 0)
        /\ \A q \in AuthRequests : Stage(q, "reset") /\ ~auth[q].overlaps =>
              /\ link[auth[q].link].uses = 0
              /\ \A o \in AuthRequests \ {q} :
                    Stage(o, "reset") => auth[o].link # auth[q].link

PasswordsInv ==
    /\ PasswordsTypes
    /\ SessionsKnowThePassword /\ LastOneCounts
    /\ LoginsKnow /\ IssuesKnow /\ ResetsKnow

(* What leaves links and their requests alone leaves what is known of them.*)
LinksAreQuiet ==
    /\ UNCHANGED link /\ crossed \subseteq crossed'
    /\ \A q \in AuthRequests :
          \/ auth'[q].step \notin {"issue", "reset"}
          \/ /\ auth'[q].step = auth[q].step /\ auth'[q].link = auth[q].link
             /\ auth'[q].overlaps = auth[q].overlaps

LEMMA QuietLinks ==
    ASSUME IssuesKnow, ResetsKnow, LinksAreQuiet
    PROVE  IssuesKnow' /\ ResetsKnow'
  <1>1. IssuesKnow'
    BY DEF IssuesKnow, LinksAreQuiet, Stage
  <1>2. ResetsKnow'
    BY DEF ResetsKnow, LinksAreQuiet, Stage
  <1> QED BY <1>1, <1>2

(* What changes neither password nor sessions leaves what is known of them.*)
PasswordIsQuiet ==
    /\ UNCHANGED <<password, lastSet>> /\ sessions' \subseteq sessions
    /\ crossed \subseteq crossed'
    /\ \A q \in AuthRequests :
          auth'[q].step = "login" =>
              \/ /\ auth[q].step = "login" /\ auth'[q].phrase = auth[q].phrase
                 /\ auth'[q].stale = auth[q].stale
              \/ auth'[q].phrase = password.phrase
    /\ \A q \in AuthRequests :
          auth[q].step = "revoke" => auth'[q].step = "revoke" \/ "revoke" \in crossed'

LEMMA QuietPassword ==
    ASSUME SessionsKnowThePassword, LastOneCounts, LoginsKnow, PasswordIsQuiet
    PROVE  SessionsKnowThePassword' /\ LastOneCounts' /\ LoginsKnow'
  <1>1. SessionsKnowThePassword'
    BY DEF SessionsKnowThePassword, PasswordIsQuiet, Stage
  <1>2. LastOneCounts' /\ LoginsKnow'
    BY DEF LastOneCounts, LoginsKnow, PasswordIsQuiet, Stage
  <1> QED BY <1>1, <1>2

(* Everything is quiet when a request only ends, or only moves on.         *)
LEMMA AtRestFact ==
    AtRest \in AuthRecords /\ AtRest.step = "idle"
  BY DEF AtRest, AuthRecords

LEMMA TypesStay ==
    ASSUME PasswordsTypes, NEW q \in AuthRequests, NEW r \in AuthRecords,
           auth' = [auth EXCEPT ![q] = r],
           r.step = "login" => r.phrase \in Phrases, r.step = "reset" => r.link \in Links
    PROVE  /\ auth' \in [AuthRequests -> AuthRecords]
           /\ auth'[q] = r /\ \A o \in AuthRequests \ {q} : auth'[o] = auth[o]
           /\ \A o \in AuthRequests :
                 /\ Stage(o, "login")' => auth'[o].phrase \in Phrases
                 /\ Stage(o, "reset")' => auth'[o].link \in Links
  BY DEF PasswordsTypes, Stage

LEMMA PasswordsInitInv == PasswordsInit => PasswordsInv
  <1> SUFFICES ASSUME PasswordsInit PROVE PasswordsInv
    OBVIOUS
  <1>1. PasswordsTypes
    BY AtRestFact DEF PasswordsInit, PasswordsTypes, Stage
  <1>2. \A q \in AuthRequests : auth[q].step = "idle"
    BY AtRestFact DEF PasswordsInit
  <1>3. SessionsKnowThePassword /\ LastOneCounts /\ LoginsKnow
    BY <1>2 DEF PasswordsInit, SessionsKnowThePassword, LastOneCounts, LoginsKnow, Stage
  <1>4. IssuesKnow /\ ResetsKnow
    BY <1>2 DEF PasswordsInit, IssuesKnow, ResetsKnow, Stage
  <1> QED BY <1>1, <1>3, <1>4 DEF PasswordsInv

----------------------------------------------------------------------------
LEMMA OpensFact ==
    ASSUME PasswordsTypes, NEW q \in AuthRequests, NEW r \in AuthRecords, NEW Same \in SUBSET AuthRequests,
           q \notin Same, Opens(q, r, Same)
    PROVE  /\ auth[q].step = "idle" /\ auth' \in [AuthRequests -> AuthRecords]
           /\ auth'[q] = [r EXCEPT !.overlaps = Same # {}]
           /\ \A o \in AuthRequests \ {q} :
                auth'[o] = IF o \in Same THEN [auth[o] EXCEPT !.overlaps = TRUE] ELSE auth[o]
  <1>1. [r EXCEPT !.overlaps = Same # {}] \in AuthRecords
    BY DEF AuthRecords
  <1>2. \A o \in AuthRequests :
          auth[o] \in AuthRecords /\ [auth[o] EXCEPT !.overlaps = TRUE] \in AuthRecords
    BY DEF AuthRecords, PasswordsTypes
  <1>3. \A o \in AuthRequests :
          /\ o = q => auth'[o] = [r EXCEPT !.overlaps = Same # {}]
          /\ o \in Same => auth'[o] = [auth[o] EXCEPT !.overlaps = TRUE]
          /\ o # q /\ o \notin Same => auth'[o] = auth[o]
    BY DEF Opens
  <1>4. auth' \in [AuthRequests -> AuthRecords]
    <2>1. auth' = [o \in AuthRequests |-> auth'[o]]
      BY DEF Opens
    <2>2. \A o \in AuthRequests : auth'[o] \in AuthRecords
      BY <1>1, <1>2, <1>3
    <2> QED BY <2>1, <2>2
  <1> QED BY <1>3, <1>4 DEF Opens, Stage

LEMMA LoginReadKeeps ==
    ASSUME PasswordsInv, NEW q \in AuthRequests, LoginRead(q)
    PROVE  PasswordsInv'
  <1> DEFINE r == [AtRest EXCEPT !.step = "login", !.phrase = password.phrase,
                                 !.legacy = password.legacy]
  <1>0. PasswordsTypes /\ password.phrase \in Phrases
    BY DEF PasswordsInv, PasswordsTypes
  <1>1. r \in AuthRecords /\ r.step = "login" /\ r.phrase = password.phrase
    BY <1>0 DEF AtRest, AuthRecords, PasswordsTypes
  <1>2. Opens(q, r, {}) /\ UNCHANGED <<isStaff, password, sessions, link, lastSet, crossed>>
    BY DEF LoginRead
  <1> HIDE DEF r
  <1>3. /\ auth[q].step = "idle" /\ auth' \in [AuthRequests -> AuthRecords]
        /\ auth'[q] = [r EXCEPT !.overlaps = FALSE]
        /\ \A o \in AuthRequests \ {q} : auth'[o] = auth[o]
    <2>1. {} \subseteq AuthRequests /\ q \notin {} /\ ({} # {}) = FALSE
      OBVIOUS
    <2>2. /\ auth[q].step = "idle" /\ auth' \in [AuthRequests -> AuthRecords]
          /\ auth'[q] = [r EXCEPT !.overlaps = ({} # {})]
          /\ \A o \in AuthRequests \ {q} :
               auth'[o] = IF o \in {} THEN [auth[o] EXCEPT !.overlaps = TRUE] ELSE auth[o]
      BY <1>0, <1>1, <1>2, <2>1, OpensFact
    <2>3. auth'[q] = [r EXCEPT !.overlaps = FALSE]
      BY <2>1, <2>2
    <2> QED BY <2>2, <2>3
  <1>4. auth'[q].step = "login" /\ auth'[q].phrase = password.phrase
    BY <1>1, <1>3 DEF AuthRecords
  <1>5. PasswordsTypes'
    BY <1>0, <1>2, <1>3, <1>4 DEF PasswordsTypes, Stage
  <1>6. PasswordIsQuiet
    BY <1>2, <1>3, <1>4 DEF PasswordIsQuiet
  <1>7. LinksAreQuiet
    BY <1>2, <1>3, <1>4 DEF LinksAreQuiet
  <1> QED BY <1>5, <1>6, <1>7, QuietLinks, QuietPassword DEF PasswordsInv

LEMMA LoginUpgradeKeeps ==
    ASSUME PasswordsInv, NEW q \in AuthRequests, LoginUpgrade(q)
    PROVE  PasswordsInv'
  <1>0. PasswordsTypes /\ auth[q] \in AuthRecords /\ auth[q].phrase \in Phrases /\ auth[q].step = "login"
    BY DEF PasswordsInv, PasswordsTypes, LoginUpgrade, Stage
  <1>1. /\ password' = [phrase |-> auth[q].phrase, legacy |-> FALSE]
        /\ auth' = [auth EXCEPT ![q] = [auth[q] EXCEPT !.legacy = FALSE]]
        /\ crossed' = IF auth[q].stale THEN crossed \cup {"upgrade"} ELSE crossed
        /\ UNCHANGED <<isStaff, sessions, link, lastSet>>
    BY DEF LoginUpgrade
  <1>2. /\ [auth[q] EXCEPT !.legacy = FALSE] \in AuthRecords
        /\ [auth[q] EXCEPT !.legacy = FALSE].step = "login"
        /\ [auth[q] EXCEPT !.legacy = FALSE].phrase = auth[q].phrase
        /\ [auth[q] EXCEPT !.legacy = FALSE].stale = auth[q].stale
    BY <1>0 DEF AuthRecords
  <1>3. /\ auth' \in [AuthRequests -> AuthRecords]
        /\ auth'[q].step = "login" /\ auth'[q].phrase = auth[q].phrase /\ auth'[q].stale = auth[q].stale
        /\ \A o \in AuthRequests \ {q} : auth'[o] = auth[o]
    BY <1>0, <1>1, <1>2 DEF PasswordsTypes
  <1>4. PasswordsTypes'
    BY <1>0, <1>1, <1>3 DEF PasswordsTypes, Stage
  <1>5. LinksAreQuiet
    BY <1>0, <1>1, <1>3 DEF LinksAreQuiet
  <1>6. SessionsKnowThePassword' /\ LastOneCounts' /\ LoginsKnow'
    <2>1. CASE "upgrade" \in crossed'
      BY <2>1 DEF SessionsKnowThePassword, LastOneCounts, LoginsKnow
    <2>2. CASE "upgrade" \notin crossed'
      <3>1. ~auth[q].stale /\ "upgrade" \notin crossed /\ crossed' = crossed
        BY <1>1, <2>2
      <3>2. password'.phrase = password.phrase
        BY <1>0, <1>1, <3>1 DEF PasswordsInv, LoginsKnow, Stage
      <3>3. \A o \in AuthRequests : /\ auth'[o].step = auth[o].step
                                    /\ auth'[o].phrase = auth[o].phrase
                                    /\ auth'[o].stale = auth[o].stale
        BY <1>0, <1>3
      <3> QED BY <1>1, <3>1, <3>2, <3>3
              DEF PasswordsInv, SessionsKnowThePassword, LastOneCounts, LoginsKnow, Stage
    <2> QED BY <2>1, <2>2
  <1> QED BY <1>4, <1>5, <1>6, QuietLinks DEF PasswordsInv

LEMMA LoginMintKeeps ==
    ASSUME PasswordsInv, NEW q \in AuthRequests, LoginMint(q)
    PROVE  PasswordsInv'
  <1>0. PasswordsTypes /\ auth[q].step = "login"
    BY DEF PasswordsInv, LoginMint, Stage
  <1>1. /\ sessions' = sessions \cup {[under |-> auth[q].phrase, late |-> auth[q].stale]}
        /\ auth' = [auth EXCEPT ![q] = AtRest]
        /\ UNCHANGED <<isStaff, password, link, lastSet, crossed>>
    BY DEF LoginMint
  <1>2. /\ auth' \in [AuthRequests -> AuthRecords] /\ auth'[q].step = "idle"
        /\ \A o \in AuthRequests \ {q} : auth'[o] = auth[o]
    BY <1>0, <1>1, AtRestFact DEF PasswordsTypes
  <1>3. PasswordsTypes'
    BY <1>0, <1>1, <1>2 DEF PasswordsTypes, Stage
  <1>4. LinksAreQuiet
    BY <1>1, <1>2 DEF LinksAreQuiet
  <1>5. LastOneCounts' /\ LoginsKnow'
    BY <1>1, <1>2 DEF PasswordsInv, LastOneCounts, LoginsKnow, Stage
  <1>6. SessionsKnowThePassword'
    <2>1. CASE {"upgrade", "revoke"} \cap crossed # {}
      BY <1>1, <2>1 DEF SessionsKnowThePassword
    <2>2. CASE \E o \in AuthRequests : auth[o].step = "revoke"
      BY <1>0, <1>1, <1>2, <2>2 DEF SessionsKnowThePassword, Stage
    <2>3. CASE /\ "upgrade" \notin crossed /\ {"upgrade", "revoke"} \cap crossed = {}
               /\ ~\E o \in AuthRequests : auth[o].step = "revoke"
      <3>1. auth[q].stale \/ auth[q].phrase = password.phrase
        BY <1>0, <2>3 DEF PasswordsInv, LoginsKnow, Stage
      <3>2. \A s \in sessions : s.late \/ s.under = password.phrase
        BY <2>3 DEF PasswordsInv, SessionsKnowThePassword, Stage
      <3>3. \A s \in sessions' : s.late \/ s.under = password.phrase
        BY <1>1, <3>1, <3>2
      <3> QED BY <1>1, <3>3 DEF SessionsKnowThePassword
    <2> QED BY <2>1, <2>2, <2>3
  <1> QED BY <1>3, <1>4, <1>5, <1>6, QuietLinks DEF PasswordsInv

(* A request stops, or ends without having changed anything else.          *)
LEMMA RequestEndsKeeps ==
    ASSUME PasswordsInv, NEW q \in AuthRequests, auth' = [auth EXCEPT ![q] = AtRest],
           UNCHANGED <<password, sessions, link, lastSet>>, crossed \subseteq crossed',
           auth[q].step = "revoke" => "revoke" \in crossed'
    PROVE  PasswordsInv'
  <1>1. /\ auth' \in [AuthRequests -> AuthRecords] /\ auth'[q].step = "idle"
        /\ \A o \in AuthRequests \ {q} : auth'[o] = auth[o]
    BY AtRestFact DEF PasswordsInv, PasswordsTypes
  <1>2. PasswordsTypes'
    BY <1>1 DEF PasswordsInv, PasswordsTypes, Stage
  <1>3. LinksAreQuiet /\ PasswordIsQuiet
    BY <1>1 DEF LinksAreQuiet, PasswordIsQuiet
  <1> QED BY <1>2, <1>3, QuietLinks, QuietPassword DEF PasswordsInv

LEMMA SessionEndsKeeps ==
    ASSUME PasswordsInv, NEW s \in sessions, SessionEnds(s)
    PROVE  PasswordsInv'
  <1>1. PasswordsTypes'
    BY DEF PasswordsInv, PasswordsTypes, SessionEnds, Stage
  <1>2. LinksAreQuiet /\ PasswordIsQuiet
    BY DEF SessionEnds, LinksAreQuiet, PasswordIsQuiet
  <1> QED BY <1>1, <1>2, QuietLinks, QuietPassword DEF PasswordsInv

(* Links that lapse.                                                       *)
LEMMA LinkExpiresKeeps ==
    ASSUME PasswordsInv, NEW l \in Links, LinkExpires(l)
    PROVE  PasswordsInv'
  <1>0. PasswordsTypes
    BY DEF PasswordsInv
  <1>1. /\ link' = [link EXCEPT ![l].row = "used"]
        /\ UNCHANGED <<isStaff, password, sessions, auth, lastSet, crossed>>
    BY DEF LinkExpires
  <1>2. /\ link' \in [Links -> [row : {"none", "usable", "used"}, uses : Nat]]
        /\ \A m \in Links : /\ link'[m].uses = link[m].uses
                            /\ link'[m].row = link[m].row \/ link'[m].row = "used"
    BY <1>0, <1>1 DEF PasswordsTypes
  <1>3. PasswordsTypes'
    BY <1>0, <1>1, <1>2 DEF PasswordsTypes, Stage
  <1>4. PasswordIsQuiet
    BY <1>1 DEF PasswordIsQuiet
  <1>5. IssuesKnow'
    BY <1>1, <1>2 DEF PasswordsInv, IssuesKnow, Stage
  <1>6. ResetsKnow'
    BY <1>0, <1>1, <1>2 DEF PasswordsInv, ResetsKnow, PasswordsTypes, Stage
  <1> QED BY <1>3, <1>4, <1>5, <1>6, QuietPassword DEF PasswordsInv

LEMMA LinkInvalidateKeeps ==
    ASSUME PasswordsInv, NEW q \in AuthRequests, LinkInvalidate(q)
    PROVE  PasswordsInv'
  <1> DEFINE Same == {o \in AuthRequests : Stage(o, "issue")}
             r == [AtRest EXCEPT !.step = "issue"]
  <1>0. PasswordsTypes
    BY DEF PasswordsInv
  <1>1. /\ Opens(q, r, Same)
        /\ link' = [l \in Links |-> [link[l] EXCEPT !.row = IF @ = "usable" THEN "used" ELSE @]]
        /\ UNCHANGED <<isStaff, password, sessions, lastSet, crossed>>
    BY DEF LinkInvalidate
  <1>2. r \in AuthRecords /\ r.step = "issue" /\ q \notin Same
    BY <1>1 DEF AtRest, AuthRecords, Opens, Stage
  <1>a. Same \in SUBSET AuthRequests /\ \A o \in AuthRequests : o \in Same <=> auth[o].step = "issue"
    BY DEF Stage
  <1> HIDE DEF r, Same
  <1>3. /\ auth[q].step = "idle" /\ auth' \in [AuthRequests -> AuthRecords]
        /\ auth'[q] = [r EXCEPT !.overlaps = Same # {}]
        /\ \A o \in AuthRequests \ {q} :
             auth'[o] = IF o \in Same THEN [auth[o] EXCEPT !.overlaps = TRUE] ELSE auth[o]
    BY <1>0, <1>1, <1>2, <1>a, OpensFact
  <1>4. auth'[q].step = "issue" /\ (auth'[q].overlaps <=> Same # {})
    BY <1>2, <1>3 DEF AuthRecords
  <1>5. \A o \in AuthRequests \ {q} :
          /\ auth'[o].step = auth[o].step /\ auth'[o].phrase = auth[o].phrase
          /\ auth'[o].link = auth[o].link /\ auth'[o].stale = auth[o].stale
          /\ auth[o].step = "issue" => auth'[o].overlaps
          /\ auth[o].step # "issue" => auth'[o].overlaps = auth[o].overlaps
    BY <1>0, <1>3, <1>a DEF PasswordsTypes, AuthRecords
  <1>6. /\ link' \in [Links -> [row : {"none", "usable", "used"}, uses : Nat]]
        /\ \A l \in Links : /\ link'[l].uses = link[l].uses /\ link'[l].row # "usable"
                            /\ link'[l].row # "used" => link[l].row = link'[l].row
    BY <1>0, <1>1 DEF PasswordsTypes
  <1>7. PasswordsTypes'
    BY <1>0, <1>1, <1>3, <1>4, <1>5, <1>6 DEF PasswordsTypes, Stage
  <1>8. PasswordIsQuiet
    BY <1>1, <1>3, <1>4, <1>5 DEF PasswordIsQuiet
  <1>9. IssuesKnow'
    <2>1. ASSUME NEW o \in AuthRequests, auth'[o].step = "issue", ~auth'[o].overlaps
          PROVE  \A p \in AuthRequests \ {o} : auth'[p].step # "issue"
      <3>1. o = q
        BY <1>5, <2>1
      <3>2. \A p \in AuthRequests : auth[p].step # "issue"
        BY <1>4, <1>a, <2>1, <3>1
      <3> QED BY <1>5, <3>1, <3>2
    <2> QED BY <1>6, <2>1 DEF IssuesKnow, Stage
  <1>10. ResetsKnow'
    <2>1. CASE "reset" \in crossed
      BY <1>1, <2>1 DEF ResetsKnow
    <2>2. CASE "reset" \notin crossed
      <3>1. \A l \in Links : link'[l].uses <= 1 /\ (link'[l].row # "used" => link'[l].uses = 0)
        BY <1>6, <2>2 DEF PasswordsInv, ResetsKnow
      <3>2. ASSUME NEW o \in AuthRequests, auth'[o].step = "reset", ~auth'[o].overlaps
            PROVE  /\ link'[auth'[o].link].uses = 0
                   /\ \A p \in AuthRequests \ {o} : auth'[p].step = "reset" => auth'[p].link # auth'[o].link
        <4>1. /\ o # q /\ auth[o].step = "reset" /\ ~auth[o].overlaps
              /\ auth'[o].link = auth[o].link /\ auth[o].link \in Links
          BY <1>0, <1>4, <1>5, <3>2 DEF PasswordsTypes, Stage
        <4>2. /\ link[auth[o].link].uses = 0
              /\ \A p \in AuthRequests \ {o} : auth[p].step = "reset" => auth[p].link # auth[o].link
          BY <2>2, <4>1 DEF PasswordsInv, ResetsKnow, Stage
        <4> QED BY <1>4, <1>5, <1>6, <4>1, <4>2
      <3> QED BY <3>1, <3>2 DEF ResetsKnow, Stage
    <2> QED BY <2>1, <2>2
  <1> QED BY <1>7, <1>8, <1>9, <1>10, QuietPassword DEF PasswordsInv

LEMMA LinkIssueKeeps ==
    ASSUME PasswordsInv, NEW q \in AuthRequests, NEW l \in Links, LinkIssue(q, l)
    PROVE  PasswordsInv'
  <1>0. PasswordsTypes /\ auth[q].step = "issue" /\ link[l].row = "none"
    BY DEF PasswordsInv, LinkIssue, Stage
  <1>1. /\ link' = [link EXCEPT ![l].row = "usable"]
        /\ crossed' = IF auth[q].overlaps THEN crossed \cup {"issue"} ELSE crossed
        /\ auth' = [auth EXCEPT ![q] = AtRest]
        /\ UNCHANGED <<isStaff, password, sessions, lastSet>>
    BY DEF LinkIssue, Crosses
  <1>2. /\ auth' \in [AuthRequests -> AuthRecords] /\ auth'[q].step = "idle"
        /\ \A o \in AuthRequests \ {q} : auth'[o] = auth[o]
    BY <1>0, <1>1, AtRestFact DEF PasswordsTypes
  <1>3. /\ link' \in [Links -> [row : {"none", "usable", "used"}, uses : Nat]]
        /\ link'[l].row = "usable" /\ \A m \in Links : link'[m].uses = link[m].uses
        /\ \A m \in Links \ {l} : link'[m].row = link[m].row
    BY <1>0, <1>1 DEF PasswordsTypes
  <1>4. PasswordsTypes'
    BY <1>0, <1>1, <1>2, <1>3 DEF PasswordsTypes, Stage
  <1>5. PasswordIsQuiet
    BY <1>0, <1>1, <1>2 DEF PasswordIsQuiet
  <1>6. IssuesKnow'
    <2>1. CASE "issue" \in crossed'
      BY <2>1 DEF IssuesKnow
    <2>2. CASE "issue" \notin crossed'
      <3>1. "issue" \notin crossed /\ ~auth[q].overlaps
        BY <1>1, <2>2
      <3>2. /\ \A m \in Links : link[m].row # "usable"
            /\ \A o \in AuthRequests \ {q} : auth[o].step # "issue"
        BY <1>0, <3>1 DEF PasswordsInv, IssuesKnow, Stage
      <3>3. \A m \in Links : link'[m].row = "usable" => m = l
        BY <1>3, <3>2
      <3>4. \A o \in AuthRequests : auth'[o].step # "issue"
        BY <1>2, <3>2
      <3> QED BY <3>3, <3>4 DEF IssuesKnow, Stage
    <2> QED BY <2>1, <2>2
  <1>7. ResetsKnow'
    BY <1>0, <1>1, <1>2, <1>3 DEF PasswordsInv, ResetsKnow, Stage
  <1> QED BY <1>4, <1>5, <1>6, <1>7, QuietPassword DEF PasswordsInv

LEMMA ResetReadKeeps ==
    ASSUME PasswordsInv, NEW q \in AuthRequests, NEW l \in Links, ResetRead(q, l)
    PROVE  PasswordsInv'
  <1> DEFINE Same == {o \in AuthRequests : Stage(o, "reset") /\ auth[o].link = l}
             r == [AtRest EXCEPT !.step = "reset", !.link = l]
  <1>0. PasswordsTypes
    BY DEF PasswordsInv
  <1>1. /\ Opens(q, r, Same) /\ link[l].row = "usable"
        /\ UNCHANGED <<isStaff, password, sessions, link, lastSet, crossed>>
    BY DEF ResetRead
  <1>2. r \in AuthRecords /\ r.step = "reset" /\ r.link = l /\ q \notin Same
    BY <1>1 DEF AtRest, AuthRecords, Opens, Stage
  <1> HIDE DEF r
  <1>3. /\ auth[q].step = "idle" /\ auth' \in [AuthRequests -> AuthRecords]
        /\ auth'[q] = [r EXCEPT !.overlaps = Same # {}]
        /\ \A o \in AuthRequests \ {q} :
             auth'[o] = IF o \in Same THEN [auth[o] EXCEPT !.overlaps = TRUE] ELSE auth[o]
    BY <1>0, <1>1, <1>2, OpensFact
  <1>4. auth'[q].step = "reset" /\ auth'[q].link = l /\ (auth'[q].overlaps <=> Same # {})
    BY <1>2, <1>3 DEF AuthRecords
  <1>5. \A o \in AuthRequests \ {q} :
          /\ auth'[o].step = auth[o].step /\ auth'[o].phrase = auth[o].phrase
          /\ auth'[o].link = auth[o].link /\ auth'[o].stale = auth[o].stale
          /\ auth[o].step = "reset" /\ auth[o].link = l => auth'[o].overlaps
          /\ ~(auth[o].step = "reset" /\ auth[o].link = l) => auth'[o].overlaps = auth[o].overlaps
    BY <1>0, <1>3 DEF PasswordsTypes, AuthRecords, Stage
  <1>6. PasswordsTypes'
    BY <1>0, <1>1, <1>3, <1>4, <1>5 DEF PasswordsTypes, Stage
  <1>7. PasswordIsQuiet
    BY <1>1, <1>3, <1>4, <1>5 DEF PasswordIsQuiet
  <1>8. IssuesKnow'
    <2>1. CASE "issue" \in crossed
      BY <1>1, <2>1 DEF IssuesKnow
    <2>2. CASE "issue" \notin crossed
      <3>1. ASSUME NEW o \in AuthRequests, auth'[o].step = "issue", ~auth'[o].overlaps
            PROVE  /\ \A m \in Links : link[m].row # "usable"
                   /\ \A p \in AuthRequests \ {o} : auth'[p].step # "issue"
        <4>1. o # q /\ auth[o].step = "issue" /\ ~auth[o].overlaps
          BY <1>4, <1>5, <3>1
        <4>2. /\ \A m \in Links : link[m].row # "usable"
              /\ \A p \in AuthRequests \ {o} : auth[p].step # "issue"
          BY <2>2, <4>1 DEF PasswordsInv, IssuesKnow, Stage
        <4> QED BY <1>4, <1>5, <4>2
      <3> QED BY <1>1, <2>2, <3>1 DEF PasswordsInv, IssuesKnow, Stage
    <2> QED BY <2>1, <2>2
  <1>9. ResetsKnow'
    <2>1. CASE "reset" \in crossed
      BY <1>1, <2>1 DEF ResetsKnow
    <2>2. CASE "reset" \notin crossed
      <3>1. \A m \in Links : link[m].uses <= 1 /\ (link[m].row # "used" => link[m].uses = 0)
        BY <2>2 DEF PasswordsInv, ResetsKnow
      <3>2. ASSUME NEW o \in AuthRequests, auth'[o].step = "reset", ~auth'[o].overlaps
            PROVE  /\ link[auth'[o].link].uses = 0
                   /\ \A p \in AuthRequests \ {o} :
                         auth'[p].step = "reset" => auth'[p].link # auth'[o].link
        <4>1. CASE o = q
          BY <1>1, <1>4, <1>5, <3>1, <3>2, <4>1 DEF Stage
        <4>2. CASE o # q
          BY <1>4, <1>5, <2>2, <3>2, <4>2 DEF PasswordsInv, ResetsKnow, Stage
        <4> QED BY <4>1, <4>2
      <3> QED BY <1>1, <3>1, <3>2 DEF ResetsKnow, Stage
    <2> QED BY <2>1, <2>2
  <1> QED BY <1>6, <1>7, <1>8, <1>9, QuietPassword DEF PasswordsInv

LEMMA ChangeLookKeeps ==
    ASSUME PasswordsInv, NEW q \in AuthRequests, ChangeLook(q)
    PROVE  PasswordsInv'
  <1> DEFINE r == [AtRest EXCEPT !.step = "change", !.phrase = password.phrase]
  <1>0. PasswordsTypes
    BY DEF PasswordsInv
  <1>1. Opens(q, r, {}) /\ UNCHANGED <<isStaff, password, sessions, link, lastSet, crossed>>
    BY DEF ChangeLook
  <1>2. r \in AuthRecords /\ r.step = "change"
    BY <1>0 DEF AtRest, AuthRecords, PasswordsTypes
  <1> HIDE DEF r
  <1>3. /\ auth[q].step = "idle" /\ auth' \in [AuthRequests -> AuthRecords]
        /\ auth'[q] = [r EXCEPT !.overlaps = FALSE]
        /\ \A o \in AuthRequests \ {q} : auth'[o] = auth[o]
    BY <1>0, <1>1, <1>2, OpensFact
  <1>4. auth'[q].step = "change"
    BY <1>2, <1>3 DEF AuthRecords
  <1>5. PasswordsTypes'
    BY <1>0, <1>1, <1>3, <1>4 DEF PasswordsTypes, Stage
  <1>6. LinksAreQuiet /\ PasswordIsQuiet
    BY <1>1, <1>3, <1>4 DEF LinksAreQuiet, PasswordIsQuiet
  <1> QED BY <1>5, <1>6, QuietLinks, QuietPassword DEF PasswordsInv

----------------------------------------------------------------------------
(* A new password: whoever is at work has read an older one.               *)
LEMMA SetsFact ==
    ASSUME PasswordsTypes, NEW q \in AuthRequests, NEW p \in Phrases, NEW next \in AuthRecords,
           next.step \notin {"login", "issue", "reset"}, Sets(q, p, next)
    PROVE  /\ password' = [phrase |-> p, legacy |-> FALSE] /\ lastSet' = p
           /\ auth' \in [AuthRequests -> AuthRecords] /\ auth'[q] = next
           /\ \A o \in AuthRequests \ {q} :
                 /\ auth'[o].step = auth[o].step /\ auth'[o].phrase = auth[o].phrase
                 /\ auth'[o].link = auth[o].link /\ auth'[o].overlaps = auth[o].overlaps
                 /\ auth[o].step # "idle" => auth'[o].stale
           /\ \A o \in AuthRequests :
                 /\ Stage(o, "login")' => auth'[o].phrase \in Phrases
                 /\ Stage(o, "reset")' => auth'[o].link \in Links
           /\ LastOneCounts' /\ LoginsKnow'
  <1>1. \A o \in AuthRequests :
          auth[o] \in AuthRecords /\ [auth[o] EXCEPT !.stale = ~Stage(o, "idle")] \in AuthRecords
    BY DEF AuthRecords, PasswordsTypes
  <1>2. /\ auth' \in [AuthRequests -> AuthRecords] /\ auth'[q] = next
        /\ \A o \in AuthRequests \ {q} : auth'[o] = [auth[o] EXCEPT !.stale = ~Stage(o, "idle")]
    BY <1>1 DEF Sets
  <1>3. \A o \in AuthRequests \ {q} :
           /\ auth'[o].step = auth[o].step /\ auth'[o].phrase = auth[o].phrase
           /\ auth'[o].link = auth[o].link /\ auth'[o].overlaps = auth[o].overlaps
           /\ auth[o].step # "idle" => auth'[o].stale
    BY <1>1, <1>2 DEF AuthRecords, Stage
  <1>4. password' = [phrase |-> p, legacy |-> FALSE] /\ lastSet' = p
    BY DEF Sets
  <1>5. LastOneCounts' /\ LoginsKnow'
    BY <1>2, <1>3, <1>4 DEF LastOneCounts, LoginsKnow, Stage
  <1>6. \A o \in AuthRequests :
           /\ Stage(o, "login")' => auth'[o].phrase \in Phrases
           /\ Stage(o, "reset")' => auth'[o].link \in Links
    BY <1>2, <1>3 DEF PasswordsTypes, Stage
  <1> QED BY <1>2, <1>3, <1>4, <1>5, <1>6

LEMMA ResetWriteKeeps ==
    ASSUME PasswordsInv, NEW q \in AuthRequests, NEW p \in Phrases, ResetWrite(q, p)
    PROVE  PasswordsInv'
  <1> DEFINE l == auth[q].link
  <1>0. PasswordsTypes /\ auth[q].step = "reset" /\ l \in Links
    BY DEF PasswordsInv, PasswordsTypes, ResetWrite, Stage
  <1>1. /\ Sets(q, p, AtRest) /\ sessions' = {} /\ UNCHANGED isStaff
        /\ link' = [link EXCEPT ![l] = [row |-> "used", uses |-> @.uses + 1]]
        /\ crossed' = IF auth[q].overlaps THEN crossed \cup {"reset"} ELSE crossed
    BY DEF ResetWrite, Crosses
  <1>2. /\ password' = [phrase |-> p, legacy |-> FALSE] /\ lastSet' = p
        /\ auth' \in [AuthRequests -> AuthRecords] /\ auth'[q].step = "idle"
        /\ \A o \in AuthRequests \ {q} :
              /\ auth'[o].step = auth[o].step /\ auth'[o].link = auth[o].link
              /\ auth'[o].overlaps = auth[o].overlaps
        /\ \A o \in AuthRequests :
              /\ Stage(o, "login")' => auth'[o].phrase \in Phrases
              /\ Stage(o, "reset")' => auth'[o].link \in Links
        /\ LastOneCounts' /\ LoginsKnow'
    BY <1>0, <1>1, SetsFact, AtRestFact
  <1>3. /\ link' \in [Links -> [row : {"none", "usable", "used"}, uses : Nat]]
        /\ link'[l].row = "used" /\ link'[l].uses = link[l].uses + 1
        /\ \A m \in Links \ {l} : link'[m] = link[m]
    BY <1>0, <1>1 DEF PasswordsTypes
  <1>4. PasswordsTypes'
    BY <1>2, <1>3 DEF PasswordsTypes
  <1>5. SessionsKnowThePassword'
    BY <1>1 DEF SessionsKnowThePassword
  <1>6. IssuesKnow'
    BY <1>0, <1>1, <1>2, <1>3 DEF PasswordsInv, IssuesKnow, Stage
  <1>7. ResetsKnow'
    <2>1. CASE "reset" \in crossed'
      BY <2>1 DEF ResetsKnow
    <2>2. CASE "reset" \notin crossed'
      <3>1. "reset" \notin crossed /\ ~auth[q].overlaps
        BY <1>1, <2>2
      <3>2. /\ link[l].uses = 0
            /\ \A o \in AuthRequests \ {q} : auth[o].step = "reset" => auth[o].link # l
        BY <1>0, <3>1 DEF PasswordsInv, ResetsKnow, Stage
      <3>3. \A m \in Links : link'[m].uses <= 1 /\ (link'[m].row # "used" => link'[m].uses = 0)
        BY <1>0, <1>3, <3>1, <3>2 DEF PasswordsInv, ResetsKnow
      <3>4. ASSUME NEW o \in AuthRequests, auth'[o].step = "reset", ~auth'[o].overlaps
            PROVE  /\ link'[auth'[o].link].uses = 0
                   /\ \A r \in AuthRequests \ {o} :
                         auth'[r].step = "reset" => auth'[r].link # auth'[o].link
        <4>1. /\ o # q /\ auth[o].step = "reset" /\ ~auth[o].overlaps
              /\ auth[o].link \in Links \ {l} /\ auth'[o].link = auth[o].link
          BY <1>0, <1>2, <3>2, <3>4 DEF PasswordsTypes, Stage
        <4>2. /\ link[auth[o].link].uses = 0
              /\ \A r \in AuthRequests \ {o} : auth[r].step = "reset" => auth[r].link # auth[o].link
          BY <3>1, <4>1 DEF PasswordsInv, ResetsKnow, Stage
        <4> QED BY <1>2, <1>3, <4>1, <4>2
      <3> QED BY <3>3, <3>4 DEF ResetsKnow, Stage
    <2> QED BY <2>1, <2>2
  <1> QED BY <1>2, <1>4, <1>5, <1>6, <1>7 DEF PasswordsInv

(* The other ways to set one: the account's own, and the administrator's.  *)
LEMMA SettingKeeps ==
    ASSUME PasswordsInv, NEW q \in AuthRequests, NEW p \in Phrases, NEW next \in AuthRecords,
           Sets(q, p, next), UNCHANGED <<link, crossed>>,
           next.step \notin {"login", "issue", "reset"},
           sessions' = {} \/ next.step = "revoke"
    PROVE  PasswordsInv'
  <1>0. PasswordsTypes
    BY DEF PasswordsInv
  <1>1. /\ password' = [phrase |-> p, legacy |-> FALSE] /\ lastSet' = p
        /\ auth' \in [AuthRequests -> AuthRecords] /\ auth'[q] = next
        /\ \A o \in AuthRequests \ {q} :
              /\ auth'[o].step = auth[o].step /\ auth'[o].link = auth[o].link
              /\ auth'[o].overlaps = auth[o].overlaps
        /\ \A o \in AuthRequests :
              /\ Stage(o, "login")' => auth'[o].phrase \in Phrases
              /\ Stage(o, "reset")' => auth'[o].link \in Links
        /\ LastOneCounts' /\ LoginsKnow'
    BY <1>0, SetsFact
  <1>2. PasswordsTypes'
    BY <1>0, <1>1 DEF PasswordsTypes
  <1>3. SessionsKnowThePassword'
    BY <1>1 DEF SessionsKnowThePassword, Stage
  <1>4. LinksAreQuiet
    BY <1>1 DEF LinksAreQuiet
  <1> QED BY <1>1, <1>2, <1>3, <1>4, QuietLinks DEF PasswordsInv

LEMMA StaffRevokeKeeps ==
    ASSUME PasswordsInv, NEW q \in AuthRequests, StaffRevoke(q)
    PROVE  PasswordsInv'
  <1>1. /\ auth' \in [AuthRequests -> AuthRecords] /\ auth'[q].step = "idle"
        /\ \A o \in AuthRequests \ {q} : auth'[o] = auth[o]
        /\ sessions' = {} /\ UNCHANGED <<isStaff, password, link, lastSet, crossed>>
    BY AtRestFact DEF PasswordsInv, PasswordsTypes, StaffRevoke
  <1>2. PasswordsTypes'
    BY <1>1 DEF PasswordsInv, PasswordsTypes, Stage
  <1>3. SessionsKnowThePassword' /\ LastOneCounts' /\ LoginsKnow'
    BY <1>1 DEF PasswordsInv, SessionsKnowThePassword, LastOneCounts, LoginsKnow, Stage
  <1>4. LinksAreQuiet
    BY <1>1 DEF LinksAreQuiet
  <1> QED BY <1>2, <1>3, <1>4, QuietLinks DEF PasswordsInv

LEMMA PasswordsNextInv == PasswordsInv /\ [PasswordsStep]_passwordVars => PasswordsInv'
  <1> SUFFICES ASSUME PasswordsInv, [PasswordsStep]_passwordVars PROVE PasswordsInv'
    OBVIOUS
  <1>1. CASE UNCHANGED passwordVars
    BY <1>1 DEF passwordVars, PasswordsInv, PasswordsTypes, SessionsKnowThePassword, LastOneCounts,
                LoginsKnow, IssuesKnow, ResetsKnow, Stage
  <1>2. ASSUME NEW q \in AuthRequests, RequestDies(q) PROVE PasswordsInv'
    BY <1>2, RequestEndsKeeps DEF RequestDies, Stage
  <1>3. ASSUME NEW q \in AuthRequests, NEW p \in Phrases, ChangePassword(q, p) PROVE PasswordsInv'
    BY <1>3, SettingKeeps, AtRestFact DEF ChangePassword
  <1>4. ASSUME NEW q \in AuthRequests, NEW p \in Phrases, StaffSet(q, p) PROVE PasswordsInv'
    <2> DEFINE r == [AtRest EXCEPT !.step = "revoke"]
    <2>1. r \in AuthRecords /\ r.step = "revoke"
      BY DEF AtRest, AuthRecords
    <2>2. Sets(q, p, r) /\ UNCHANGED <<link, crossed>>
      BY <1>4 DEF StaffSet
    <2> HIDE DEF r
    <2> QED BY <2>1, <2>2, SettingKeeps
  <1> QED BY <1>1, <1>2, <1>3, <1>4, SessionEndsKeeps, LinkExpiresKeeps, LoginReadKeeps,
             LoginUpgradeKeeps, LoginMintKeeps, LinkInvalidateKeeps, LinkIssueKeeps, ResetReadKeeps,
             ResetWriteKeeps, ChangeLookKeeps, StaffRevokeKeeps
          DEF PasswordsStep

(* However sign-ins, reset links and changes of the password overlap, and  *)
(* wherever requests stop, the exceptions named are the only ones.         *)
THEOREM PasswordsAreKept == PasswordsSpec => []PasswordsHold
  <1>1. PasswordsInv => PasswordsHold
    <2> SUFFICES ASSUME PasswordsInv PROVE PasswordsHold
      OBVIOUS
    <2>1. OneLink
      <3> DEFINE S == {l \in Links : link[l].row = "usable"}
      <3>1. CASE "issue" \notin crossed
        <4>1. \A l, m \in S : l = m
          BY <3>1 DEF PasswordsInv, IssuesKnow
        <4>2. Cardinality(S) <= 1
          <5>1. CASE S = {}
            BY <5>1, FS_EmptySet
          <5>2. CASE S # {}
            <6>1. PICK l \in S : TRUE
              BY <5>2
            <6>2. S = {l}
              BY <4>1, <6>1
            <6>3. Cardinality(S) = 1
              BY <6>2, FS_Singleton
            <6> QED BY <6>3
          <5> QED BY <5>1, <5>2
        <4> QED BY <4>2 DEF PasswordsInv, ResetsKnow, OneLink
      <3>2. CASE "issue" \in crossed
        BY <3>2 DEF PasswordsInv, ResetsKnow, OneLink
      <3> QED BY <3>1, <3>2
    <2> QED BY <2>1 DEF PasswordsInv, PasswordsHold
  <1> QED BY PasswordsInitInv, PasswordsNextInv, <1>1, PTL DEF PasswordsSpec

----------------------------------------------------------------------------
(* The payment switches.                                                   *)

SwitchRows == [there : BOOLEAN, online : BOOLEAN, key : Pairs \cup {NoPair}, secret : Pairs \cup {NoPair}, cod : BOOLEAN]
Copies == [held : BOOLEAN, row : SwitchRows]
PaymentForms == [step : {"closed", "open", "row", "mirror", "clear"}, at : Servers \cup {"none"}, row : SwitchRows,
                 names : {"nothing", "pair", "half"}, stale : BOOLEAN]

SwitchTypes ==
    /\ gateway \in SwitchRows /\ codSetting \in {"unset", "on", "off"}
    /\ session \in [Servers -> Copies] /\ reading \in [Servers -> Copies]
    /\ form \in [Forms -> PaymentForms]
    /\ behind \subseteq Servers /\ mixed \in BOOLEAN /\ halved \in BOOLEAN

(* A row never allows online payment without a key and a secret.           *)
HasItsKeys(row) == row.online => row.key # NoPair /\ row.secret # NoPair
Matching(row) == row.key = row.secret

RowsAreComplete ==
    /\ HasItsKeys(gateway)
    /\ \A f \in Forms :
        /\ form[f].step \in {"row", "mirror", "clear"} => form[f].at \in Servers
        /\ form[f].step \in {"row", "mirror"} => HasItsKeys(form[f].row) /\ form[f].row.there

(* The halves that a form is about to save belong together, if it names a  *)
(* pair, or nothing and those in the row do.                               *)
WillMatch(r) == Matching(r.row) \/ r.names = "half" \/ (r.names = "nothing" /\ halved)

(* A form that no save has overtaken knows the row: what it shows, what it *)
(* is about to save, and what it has saved.                                *)
FormsKnow ==
    \A f \in Forms : ~form[f].stale =>
        /\ form[f].step = "open" => form[f].row = gateway
        /\ form[f].step = "row" => WillMatch(form[f])
        /\ form[f].step = "mirror" => form[f].row = gateway

(* The mirror agrees with the row, or is about to be written.              *)
MirrorAgrees ==
    \/ codSetting = (IF gateway.there THEN AsSetting(gateway.cod) ELSE "unset")
    \/ \E f \in Forms : form[f].step = "mirror"

(* A copy that is not known to be behind is the row, or about to be        *)
(* dropped.                                                                *)
About(i) == \E f \in Forms : form[f].step \in {"mirror", "clear"} /\ form[f].at = i

CopiesKnow ==
    \A i \in Servers : session[i].held /\ i \notin behind => session[i].row = gateway \/ About(i)

SwitchInv ==
    /\ SwitchTypes /\ RowsAreComplete
    /\ ~mixed => (halved \/ Matching(gateway)) /\ FormsKnow /\ MirrorAgrees /\ CopiesKnow

(* A form under way.                                                       *)
LEMMA FormFact ==
    ASSUME SwitchTypes, NEW f \in Forms
    PROVE  /\ form[f] \in PaymentForms /\ form[f].row \in SwitchRows /\ form[f].stale \in BOOLEAN
           /\ form[f].row.cod \in BOOLEAN /\ form[f].row.there \in BOOLEAN
  BY DEF SwitchTypes, PaymentForms, SwitchRows

LEMMA ClosedFact ==
    /\ Unsaved \in SwitchRows /\ NoSession \in Copies /\ Closed \in PaymentForms
    /\ Closed.step = "closed" /\ NoSession.held = FALSE /\ HasItsKeys(Unsaved) /\ Matching(Unsaved)
    /\ Unsaved.there = FALSE /\ Closed.stale = FALSE
  BY DEF Unsaved, NoSession, Closed, SwitchRows, Copies, PaymentForms, HasItsKeys, Matching

LEMMA SwitchInitInv == GatewayInit => SwitchInv
<1> SUFFICES ASSUME GatewayInit PROVE SwitchInv
  OBVIOUS
<1>1. SwitchTypes /\ RowsAreComplete
  BY ClosedFact DEF GatewayInit, SwitchTypes, RowsAreComplete
<1>2. Matching(gateway) /\ FormsKnow /\ MirrorAgrees /\ CopiesKnow
  BY ClosedFact DEF GatewayInit, FormsKnow, MirrorAgrees, CopiesKnow
<1> QED
  BY <1>1, <1>2 DEF SwitchInv

(* One form changes, and neither the row nor the mirror.                   *)
LEMMA FormMoves ==
    ASSUME SwitchInv, NEW f \in Forms, NEW r \in PaymentForms, form' = [form EXCEPT ![f] = r],
           UNCHANGED <<gateway, codSetting, session, reading, behind, halved>>, mixed' \in BOOLEAN, mixed => mixed',
           r.step \in {"row", "mirror", "clear"} => r.at \in Servers,
           r.step \in {"row", "mirror"} => HasItsKeys(r.row) /\ r.row.there,
           ~mixed' => /\ form[f].step \notin {"mirror", "clear"} /\ r.step \notin {"mirror", "clear"}
                      /\ ~r.stale => /\ r.step = "open" => r.row = gateway
                                     /\ r.step = "row" => WillMatch(r)
    PROVE  SwitchInv'
<1>0. SwitchTypes /\ RowsAreComplete /\ form \in [Forms -> PaymentForms]
  BY DEF SwitchInv, SwitchTypes
<1>1. form'[f] = r /\ \A g \in Forms \ {f} : form'[g] = form[g]
  BY <1>0
<1>2. SwitchTypes'
  BY <1>0 DEF SwitchTypes
<1>3. RowsAreComplete'
  BY <1>0, <1>1 DEF RowsAreComplete, HasItsKeys
<1>4. ASSUME ~mixed'
      PROVE  (halved \/ Matching(gateway))' /\ FormsKnow' /\ MirrorAgrees' /\ CopiesKnow'
  <2>0. ~mixed /\ (halved \/ Matching(gateway)) /\ FormsKnow /\ MirrorAgrees /\ CopiesKnow
    BY <1>4 DEF SwitchInv
  <2>1. FormsKnow'
    BY <1>1, <1>4, <2>0 DEF FormsKnow, WillMatch, Matching
  <2>2. MirrorAgrees' /\ CopiesKnow'
    BY <1>1, <1>4, <2>0 DEF MirrorAgrees, CopiesKnow, About
  <2> QED
    BY <2>0, <2>1, <2>2 DEF Matching
<1> QED
  BY <1>2, <1>3, <1>4 DEF SwitchInv

LEMMA OpenKeeps == ASSUME SwitchInv, NEW f \in Forms, OpenForm(f) PROVE SwitchInv'
<1> DEFINE r == [Closed EXCEPT !.step = "open", !.row = gateway]
<1>1. r \in PaymentForms /\ r.step = "open" /\ r.row = gateway
  BY DEF Closed, SwitchInv, SwitchTypes, PaymentForms
<1>2. /\ form[f].step = "closed" /\ form' = [form EXCEPT ![f] = r]
      /\ UNCHANGED <<gateway, codSetting, session, reading, behind, mixed, halved>> /\ mixed \in BOOLEAN
  BY DEF OpenForm, SwitchInv, SwitchTypes
<1> HIDE DEF r
<1> QED
  BY <1>1, <1>2, FormMoves

LEMMA SubmitsKeep ==
    ASSUME SwitchInv, NEW f \in Forms, NEW i \in Servers, NEW key \in Pairs \cup {NoPair}, NEW secret \in Pairs \cup {NoPair},
           NEW online \in BOOLEAN, NEW cod \in BOOLEAN, Submit(f, i, key, secret, online, cod)
    PROVE  SwitchInv'
<1> DEFINE row == Merged(key, secret, online, cod)
           r == [form[f] EXCEPT !.step = "row", !.at = i, !.row = row, !.names = Names(f, key, secret)]
<1>0. SwitchTypes /\ form[f] \in PaymentForms /\ form[f].row \in SwitchRows /\ gateway \in SwitchRows
  BY FormFact DEF SwitchInv, SwitchTypes
<1>1. row \in SwitchRows /\ row.there = TRUE /\ row.online = online
  BY <1>0 DEF Merged, SwitchRows
<1>2. /\ form[f].step = "open" /\ (online => row.key # NoPair /\ row.secret # NoPair)
      /\ form' = [form EXCEPT ![f] = r]
      /\ UNCHANGED <<gateway, codSetting, session, reading, behind, mixed, halved>>
  BY <1>0 DEF Submit, SwitchTypes, PaymentForms
<1>3. HasItsKeys(row)
  BY <1>1, <1>2 DEF HasItsKeys
<1>4. ASSUME ~mixed, ~form[f].stale
      PROVE  Matching(row) \/ Names(f, key, secret) = "half" \/ (Names(f, key, secret) = "nothing" /\ halved)
  <2>1. form[f].row = gateway /\ (halved \/ gateway.key = gateway.secret)
    BY <1>2, <1>4 DEF SwitchInv, FormsKnow, Matching
  <2> QED
    BY <2>1 DEF Merged, Names, Matching
<1> HIDE DEF row
<1>5. /\ r \in PaymentForms /\ r.step = "row" /\ r.at = i /\ r.row = row /\ r.stale = form[f].stale
      /\ r.names = Names(f, key, secret)
  BY <1>0, <1>1 DEF PaymentForms, Names
<1> HIDE DEF r
<1>6. mixed \in BOOLEAN
  BY <1>0 DEF SwitchTypes
<1>7. ~mixed /\ ~r.stale => WillMatch(r)
  BY <1>4, <1>5 DEF WillMatch
<1> QED
  BY <1>1, <1>2, <1>3, <1>5, <1>6, <1>7, FormMoves

LEMMA SaveKeeps == ASSUME SwitchInv, NEW f \in Forms, SaveRow(f) PROVE SwitchInv'
<1>0. /\ SwitchTypes /\ RowsAreComplete /\ form \in [Forms -> PaymentForms] /\ mixed \in BOOLEAN
      /\ form[f] \in PaymentForms /\ form[f].row \in SwitchRows /\ form[f].stale \in BOOLEAN
  BY FormFact DEF SwitchInv, SwitchTypes
<1>1. /\ form[f].step = "row" /\ gateway' = form[f].row
      /\ mixed' = (mixed \/ form[f].stale)
      /\ halved' = IF form[f].names = "nothing" THEN halved ELSE form[f].names = "half"
      /\ behind' = behind \cup {j \in Servers \ {form[f].at} : session[j].held}
      /\ UNCHANGED <<codSetting, session, reading>>
  BY DEF SaveRow
<1>2. /\ form' \in [Forms -> PaymentForms]
      /\ form'[f].step = "mirror" /\ form'[f].at = form[f].at /\ form'[f].row = form[f].row
      /\ \A g \in Forms \ {f} : /\ form'[g].step = form[g].step /\ form'[g].at = form[g].at
                                /\ form'[g].row = form[g].row /\ (form'[g].stale <=> form[g].step # "closed")
  <2> DEFINE one == [form[f] EXCEPT !.step = "mirror"]
             other(g) == [form[g] EXCEPT !.stale = form[g].step # "closed"]
  <2>1. one \in PaymentForms /\ one.step = "mirror" /\ one.at = form[f].at /\ one.row = form[f].row
    BY <1>0 DEF PaymentForms
  <2>2. \A g \in Forms : /\ other(g) \in PaymentForms /\ other(g).step = form[g].step /\ other(g).at = form[g].at
                         /\ other(g).row = form[g].row /\ (other(g).stale <=> form[g].step # "closed")
    BY <1>0 DEF PaymentForms
  <2>3. form' = [g \in Forms |-> IF g = f THEN one ELSE other(g)]
    BY DEF SaveRow
  <2> HIDE DEF one, other
  <2> QED
    BY <2>1, <2>2, <2>3
<1>3. mixed' \in BOOLEAN /\ behind' \subseteq Servers /\ halved' \in BOOLEAN
  BY <1>0, <1>1 DEF SwitchTypes
<1>4. SwitchTypes'
  BY <1>0, <1>1, <1>2, <1>3 DEF SwitchTypes
<1>5. RowsAreComplete'
  BY <1>0, <1>1, <1>2 DEF RowsAreComplete, HasItsKeys
<1>6. ASSUME ~mixed'
      PROVE  (halved \/ Matching(gateway))' /\ FormsKnow' /\ MirrorAgrees' /\ CopiesKnow'
  <2>0. ~mixed /\ ~form[f].stale /\ FormsKnow
    BY <1>0, <1>1, <1>6 DEF SwitchInv
  <2>1. (halved \/ Matching(gateway))'
    BY <1>1, <2>0 DEF FormsKnow, WillMatch, Matching
  <2>2. FormsKnow'
    BY <1>1, <1>2 DEF FormsKnow, WillMatch
  <2>3. MirrorAgrees' /\ CopiesKnow'
    BY <1>0, <1>1, <1>2 DEF MirrorAgrees, CopiesKnow, About
  <2> QED
    BY <2>1, <2>2, <2>3
<1> QED
  BY <1>4, <1>5, <1>6 DEF SwitchInv

LEMMA MirrorsKeep == ASSUME SwitchInv, NEW f \in Forms, MirrorCod(f) PROVE SwitchInv'
<1>0. /\ SwitchTypes /\ RowsAreComplete /\ form \in [Forms -> PaymentForms] /\ mixed \in BOOLEAN
      /\ form[f] \in PaymentForms /\ form[f].row \in SwitchRows /\ form[f].stale \in BOOLEAN
  BY FormFact DEF SwitchInv, SwitchTypes
<1> DEFINE r == [form[f] EXCEPT !.step = "clear"]
<1>1. /\ form[f].step = "mirror" /\ codSetting' = AsSetting(form[f].row.cod)
      /\ form' = [form EXCEPT ![f] = r] /\ mixed' = (mixed \/ form[f].stale)
      /\ UNCHANGED <<gateway, session, reading, behind, halved>>
  BY <1>0 DEF MirrorCod
<1>2. r \in PaymentForms /\ r.step = "clear" /\ r.at = form[f].at
  BY <1>0 DEF PaymentForms
<1> HIDE DEF r
<1>3. form'[f] = r /\ \A g \in Forms \ {f} : form'[g] = form[g]
  BY <1>0, <1>1
<1>4. codSetting' \in {"unset", "on", "off"} /\ mixed' \in BOOLEAN
  BY <1>0, <1>1 DEF AsSetting
<1>5. SwitchTypes'
  BY <1>0, <1>1, <1>2, <1>4 DEF SwitchTypes
<1>6. RowsAreComplete'
  BY <1>0, <1>1, <1>2, <1>3 DEF RowsAreComplete, HasItsKeys
<1>7. ASSUME ~mixed'
      PROVE  (halved \/ Matching(gateway))' /\ FormsKnow' /\ MirrorAgrees' /\ CopiesKnow'
  <2>0. ~mixed /\ ~form[f].stale /\ (halved \/ Matching(gateway)) /\ FormsKnow /\ CopiesKnow
    BY <1>0, <1>1, <1>7 DEF SwitchInv
  <2>1. gateway = form[f].row /\ gateway.there
    BY <1>0, <1>1, <2>0 DEF FormsKnow, RowsAreComplete
  <2>2. MirrorAgrees'
    BY <1>1, <2>1 DEF MirrorAgrees
  <2>3. FormsKnow'
    BY <1>1, <1>2, <1>3, <2>0 DEF FormsKnow, WillMatch
  <2>4. \A i \in Servers : About(i) => About(i)'
    BY <1>1, <1>2, <1>3 DEF About
  <2>5. CopiesKnow'
    BY <1>1, <2>0, <2>4 DEF CopiesKnow
  <2> QED
    BY <1>1, <2>0, <2>2, <2>3, <2>5 DEF Matching
<1> QED
  BY <1>5, <1>6, <1>7 DEF SwitchInv

LEMMA ClearKeeps == ASSUME SwitchInv, NEW f \in Forms, ClearCredentialCache(f) PROVE SwitchInv'
<1>0. /\ SwitchTypes /\ RowsAreComplete /\ form \in [Forms -> PaymentForms] /\ mixed \in BOOLEAN
  BY DEF SwitchInv, SwitchTypes
<1>1. /\ form[f].step = "clear" /\ session' = [session EXCEPT ![form[f].at] = NoSession]
      /\ behind' = behind \ {form[f].at} /\ form' = [form EXCEPT ![f] = Closed]
      /\ UNCHANGED <<gateway, codSetting, reading, mixed, halved>>
  BY DEF ClearCredentialCache
<1>2. form'[f] = Closed /\ \A g \in Forms \ {f} : form'[g] = form[g]
  BY <1>0, <1>1
<1>3. SwitchTypes' /\ RowsAreComplete'
  BY <1>0, <1>1, <1>2, ClosedFact DEF SwitchTypes, RowsAreComplete, HasItsKeys
<1>4. \A i \in Servers : i # form[f].at => /\ session'[i] = session[i]
                                           /\ i \in behind' <=> i \in behind
  BY <1>0, <1>1 DEF SwitchTypes
<1>5. \A i \in Servers : i # form[f].at /\ About(i) => About(i)'
  BY <1>2 DEF About
<1>6. form[f].at \in Servers => ~session'[form[f].at].held
  BY <1>0, <1>1, ClosedFact DEF SwitchTypes
<1>7. ASSUME ~mixed'
      PROVE  (halved \/ Matching(gateway))' /\ FormsKnow' /\ MirrorAgrees' /\ CopiesKnow'
  <2>0. ~mixed /\ (halved \/ Matching(gateway)) /\ FormsKnow /\ MirrorAgrees /\ CopiesKnow
    BY <1>1, <1>7 DEF SwitchInv
  <2>1. MirrorAgrees'
    <3>1. \A g \in Forms : form[g].step = "mirror" => form'[g].step = "mirror"
      BY <1>1, <1>2
    <3> QED BY <1>1, <2>0, <3>1 DEF MirrorAgrees
  <2>2. FormsKnow'
    <3>1. \A g \in Forms : form'[g].step # "closed" => form'[g] = form[g]
      BY <1>2, ClosedFact
    <3> QED BY <1>1, <2>0, <3>1 DEF FormsKnow, WillMatch
  <2>3. CopiesKnow'
    BY <1>1, <1>4, <1>5, <1>6, <2>0 DEF CopiesKnow
  <2> QED
    BY <1>1, <2>0, <2>1, <2>2, <2>3 DEF Matching
<1> QED
  BY <1>3, <1>7 DEF SwitchInv

LEMMA EndsKeep == ASSUME SwitchInv, NEW f \in Forms, SaveEnds(f) PROVE SwitchInv'
<1>1. /\ mixed' = (mixed \/ form[f].step \in {"mirror", "clear"}) /\ form' = [form EXCEPT ![f] = Closed]
      /\ UNCHANGED <<gateway, codSetting, session, reading, behind, halved>> /\ mixed \in BOOLEAN
  BY DEF SaveEnds, SwitchInv, SwitchTypes
<1>2. mixed' \in BOOLEAN /\ (mixed => mixed') /\ (~mixed' => form[f].step \notin {"mirror", "clear"})
  BY <1>1
<1> QED
  BY <1>1, <1>2, ClosedFact, FormMoves

(* The servers' copies.                                                    *)
LEMMA CopyKeeps ==
    ASSUME SwitchInv, NEW i \in Servers, UNCHANGED <<gateway, codSetting, form, mixed, halved>>,
           session' \in [Servers -> Copies], reading' \in [Servers -> Copies], behind' \subseteq Servers,
           \A j \in Servers \ {i} : session'[j] = session[j] /\ (j \in behind' <=> j \in behind),
           \/ session'[i] = session[i] /\ (i \in behind' <=> i \in behind)
           \/ session'[i].held /\ i \notin behind' => session'[i].row = gateway
    PROVE  SwitchInv'
<1>1. SwitchTypes' /\ RowsAreComplete'
  BY DEF SwitchInv, SwitchTypes, RowsAreComplete
<1>2. FormsKnow => FormsKnow'
  BY DEF FormsKnow, WillMatch
<1>3. MirrorAgrees => MirrorAgrees'
  BY DEF MirrorAgrees
<1>4. CopiesKnow => CopiesKnow'
  <2> SUFFICES ASSUME CopiesKnow, NEW j \in Servers, session'[j].held, j \notin behind'
               PROVE  session'[j].row = gateway \/ About(j)
    BY DEF CopiesKnow, About
  <2>1. CASE j = i
    BY <2>1 DEF CopiesKnow
  <2>2. CASE j # i
    BY <2>2 DEF CopiesKnow
  <2> QED
    BY <2>1, <2>2
<1> QED
  BY <1>1, <1>2, <1>3, <1>4 DEF SwitchInv, Matching

LEMMA ServersKeep ==
    ASSUME SwitchInv, NEW i \in Servers,
           \/ ResolveCache(i) \/ SessionExpires(i) \/ \E row \in {gateway, Unsaved} : ResolveRead(i, row)
    PROVE  SwitchInv'
<1>0. /\ session \in [Servers -> Copies] /\ reading \in [Servers -> Copies] /\ behind \subseteq Servers
      /\ gateway \in SwitchRows
  BY DEF SwitchInv, SwitchTypes
<1>1. CASE ResolveCache(i)
  <2>1. /\ session' = [session EXCEPT ![i] = reading[i]] /\ reading' = [reading EXCEPT ![i] = NoSession]
        /\ behind' = IF reading[i].row = gateway THEN behind \ {i} ELSE behind \cup {i}
        /\ UNCHANGED <<gateway, codSetting, form, mixed, halved>>
    BY <1>1 DEF ResolveCache
  <2>2. session' \in [Servers -> Copies] /\ reading' \in [Servers -> Copies] /\ behind' \subseteq Servers
    BY <1>0, <2>1, ClosedFact
  <2>3. session'[i].held /\ i \notin behind' => session'[i].row = gateway
    BY <1>0, <2>1
  <2>4. \A j \in Servers \ {i} : session'[j] = session[j] /\ (j \in behind' <=> j \in behind)
    BY <1>0, <2>1
  <2> QED
    BY <2>1, <2>2, <2>3, <2>4, CopyKeeps
<1>2. CASE SessionExpires(i)
  <2>1. /\ session' = [session EXCEPT ![i] = NoSession] /\ behind' = behind \ {i}
        /\ UNCHANGED <<gateway, codSetting, reading, form, mixed, halved>>
    BY <1>2 DEF SessionExpires
  <2>2. session' \in [Servers -> Copies] /\ behind' \subseteq Servers /\ ~session'[i].held
    BY <1>0, <2>1, ClosedFact
  <2>4. \A j \in Servers \ {i} : session'[j] = session[j] /\ (j \in behind' <=> j \in behind)
    BY <1>0, <2>1
  <2> QED
    BY <1>0, <2>1, <2>2, <2>4, CopyKeeps
<1>3. ASSUME NEW row \in {gateway, Unsaved}, ResolveRead(i, row) PROVE SwitchInv'
  <2>1. /\ reading' = [reading EXCEPT ![i] = [held |-> TRUE, row |-> row]]
        /\ UNCHANGED <<gateway, codSetting, session, form, behind, mixed, halved>>
    BY <1>3 DEF ResolveRead
  <2>2. reading' \in [Servers -> Copies]
    BY <1>0, <2>1, ClosedFact DEF Copies
  <2> QED
    BY <1>0, <2>1, <2>2, CopyKeeps
<1> QED
  BY <1>1, <1>2, <1>3

LEMMA SwitchStepInv == SwitchInv /\ [GatewayStep]_gatewayVars => SwitchInv'
<1> SUFFICES ASSUME SwitchInv, [GatewayStep]_gatewayVars PROVE SwitchInv'
  OBVIOUS
<1>1. ASSUME UNCHANGED gatewayVars PROVE SwitchInv'
  BY <1>1 DEF gatewayVars, SwitchInv, SwitchTypes, RowsAreComplete, HasItsKeys, Matching, FormsKnow, WillMatch, MirrorAgrees,
              CopiesKnow, About
<1>2. ASSUME NEW cod \in BOOLEAN, UpsertSetting(cod) PROVE SwitchInv'
  <2>1. /\ UNCHANGED <<gateway, session, reading, form, behind, halved>> /\ mixed' = TRUE
        /\ codSetting' \in {"unset", "on", "off"}
    BY <1>2 DEF UpsertSetting, AsSetting
  <2>2. SwitchTypes' /\ RowsAreComplete'
    BY <2>1 DEF SwitchInv, SwitchTypes, RowsAreComplete, HasItsKeys
  <2> QED
    BY <2>1, <2>2 DEF SwitchInv
<1> QED
  BY <1>1, <1>2, OpenKeeps, SubmitsKeep, SaveKeeps, MirrorsKeep, ClearKeeps, EndsKeep, ServersKeep DEF GatewayStep

(* The storefront offers what the settings say, with a key and its own     *)
(* secret unless a save named half a pair, however saves overlap and       *)
(* copies are read and dropped.                                            *)
THEOREM SwitchesAreKept == GatewaySpec => []SwitchesAreHonoured
<1>1. SwitchInv => SwitchesAreHonoured
  <2> SUFFICES ASSUME SwitchInv, ~mixed, ~Saving PROVE SwitchesAreHonoured
    BY DEF SwitchesAreHonoured
  <2>1. SwitchTypes /\ RowsAreComplete /\ (halved \/ Matching(gateway)) /\ CopiesKnow
        /\ codSetting = (IF gateway.there THEN AsSetting(gateway.cod) ELSE "unset")
    BY DEF SwitchInv, MirrorAgrees, Saving
  <2>2. gateway.there \in BOOLEAN /\ gateway.cod \in BOOLEAN /\ gateway.online \in BOOLEAN
    BY <2>1 DEF SwitchTypes, SwitchRows
  <2>3. CodAccepted = (gateway.there /\ gateway.cod)
    BY <2>1, <2>2 DEF CodAccepted, AsSetting
  <2>4. gateway.there => CodOffered = CodAccepted
    BY <2>1, <2>2 DEF CodAccepted, CodOffered, AsSetting
  <2>5. ASSUME NEW i \in Servers, session[i].held, i \notin behind
        PROVE  OnlineAllowed(i) = gateway.online
    <3>1. session[i].row = gateway
      BY <2>1, <2>5 DEF CopiesKnow, About, Saving
    <3>2. HasItsKeys(gateway)
      BY <2>1 DEF RowsAreComplete
    <3> QED
      BY <2>2, <2>5, <3>1, <3>2 DEF OnlineAllowed, HasItsKeys
  <2> QED
    BY <2>1, <2>3, <2>4, <2>5 DEF SwitchesAreHonoured, Matching
<1> QED
  BY <1>1, SwitchInitInv, SwitchStepInv, PTL DEF GatewaySpec

----------------------------------------------------------------------------
(* The lock of the console.                                                *)

(* A call that exchanges a token of a console holds the lock of its        *)
(* browser.                                                                *)
LockIsHeld ==
    /\ holder \in [Browsers -> Tabs \cup {NoTab}]
    /\ \A t \in Tabs : \A b \in Browsers : holder[b] = t =>
          Home(t) = b /\ call[t].step \in {"sent", "rotate", "answer", "reject"}
    /\ \A t \in Tabs : Console(t) /\ call[t].step \in {"sent", "rotate", "reject"} => holder[Home(t)] = t

(* A token is known in one browser only.                                   *)
TokensStayHome ==
    /\ \A b, c \in Browsers : cookie[b] = cookie[c] /\ cookie[b] # 0 => b = c
    /\ \A t \in Tabs : \A b \in Browsers : call[t].token = cookie[b] /\ cookie[b] # 0 => Home(t) = b
    /\ \A t, u \in Tabs : call[t].token = call[u].token /\ call[t].token # 0 => Home(t) = Home(u)

(* Until its browser has it, the token of an answer is known to nobody     *)
(* else, so it has not been exchanged.                                     *)
AnswersAreFresh ==
    \A t \in Tabs : At(t, "answer") =>
        /\ call[t].token # 0 /\ token[call[t].token] # "rotated"
        /\ \A u \in Tabs \ {t} : call[u].token # call[t].token
        /\ \A b \in Browsers : cookie[b] # call[t].token

(* The cookie is an exchanged token only while the answer is on its way.   *)
ExchangeIsUnderWay ==
    \A b \in Consoles \ lost :
        cookie[b] # 0 /\ token[cookie[b]] = "rotated" =>
            holder[b] \in Tabs /\ At(holder[b], "answer")

LockInv == LockIsHeld /\ TokensStayHome /\ AnswersAreFresh /\ ExchangeIsUnderWay

(* No token is exchanged.                                                  *)
NoneRotates == \A i \in Tokens : token'[i] = "rotated" => token[i] = "rotated"

(* Tabs and browsers know no other tokens than those there can be.         *)
LEMMA KnownAreTokens ==
    ASSUME SessionsInv
    PROVE  /\ \A t \in Tabs : call[t].token # 0 => call[t].token \in Tokens
           /\ \A b \in Browsers : cookie[b] # 0 => cookie[b] \in Tokens
  BY CallFact, SessionsAssumption DEF SessionsInv, ServerInv, ClientInv, Tokens

(* A call moves on, with the token it had, that of its browser's cookie or *)
(* none; it takes the lock if it is free and gives back only its own.      *)
LEMMA CallMoves ==
    ASSUME SessionsInv, LockInv, NEW t \in Tabs, call' \in [Tabs -> SessionCalls],
           \A u \in Tabs \ {t} : call'[u] = call[u],
           UNCHANGED <<cookie, lost>>, NoneRotates, call[t].step # "answer",
           call'[t].token \in {0, call[t].token, cookie[Home(t)]}, call'[t].step # "answer",
           \/ /\ UNCHANGED holder
              /\ holder[Home(t)] = t => call'[t].step \in {"sent", "rotate", "reject"}
              /\ Console(t) /\ call'[t].step \in {"sent", "rotate", "reject"} => holder[Home(t)] = t
           \/ /\ holder[Home(t)] = NoTab /\ holder' = [holder EXCEPT ![Home(t)] = t]
              /\ call'[t].step = "sent"
    PROVE  LockInv'
<1>0. Home(t) \in Browsers /\ cookie \in [Browsers -> Nat] /\ call \in [Tabs -> SessionCalls] /\ NoTab \notin Tabs
      /\ Consoles \subseteq Browsers
  BY HomeFact, SessionsAssumption DEF SessionsInv, ClientInv, NoTab
<1>1. /\ \A u \in Tabs : Home(u)' = Home(u) /\ Home(u) \in Browsers /\ (Console(u)' <=> Console(u))
  BY HomeFact DEF Home, Console
<1>2. LockIsHeld'
  BY <1>0, <1>1 DEF LockInv, LockIsHeld
<1>3. TokensStayHome'
  BY <1>0, <1>1 DEF LockInv, TokensStayHome
<1>4. AnswersAreFresh'
  <2> SUFFICES ASSUME NEW u \in Tabs, At(u, "answer")'
               PROVE  /\ call'[u].token # 0 /\ token'[call'[u].token] # "rotated"
                      /\ \A v \in Tabs \ {u} : call'[v].token # call'[u].token
                      /\ \A b \in Browsers : cookie'[b] # call'[u].token
    BY DEF AnswersAreFresh
  <2>1. u # t /\ call'[u] = call[u] /\ At(u, "answer")
    BY DEF At
  <2>2. /\ call[u].token # 0 /\ token[call[u].token] # "rotated"
        /\ \A v \in Tabs \ {u} : call[v].token # call[u].token
        /\ \A b \in Browsers : cookie[b] # call[u].token
    BY <2>1 DEF LockInv, AnswersAreFresh
  <2>3. call[u].token \in Tokens
    BY <2>2, KnownAreTokens
  <2> QED BY <1>0, <2>1, <2>2, <2>3 DEF NoneRotates
<1>5. ExchangeIsUnderWay'
  <2> SUFFICES ASSUME NEW b \in Consoles \ lost, cookie[b] # 0, token'[cookie[b]] = "rotated"
               PROVE  holder'[b] \in Tabs /\ call'[holder'[b]].step = "answer"
    BY DEF ExchangeIsUnderWay, At
  <2>1. cookie[b] \in Tokens /\ b \in Browsers
    BY <1>0, KnownAreTokens
  <2>2. holder[b] \in Tabs /\ call[holder[b]].step = "answer"
    BY <2>1 DEF LockInv, ExchangeIsUnderWay, At, NoneRotates
  <2>3. holder[b] # t /\ holder[b] # NoTab
    BY <1>0, <2>2
  <2>4. holder'[b] = holder[b]
    BY <1>0, <2>1, <2>3 DEF LockInv, LockIsHeld
  <2> QED BY <2>2, <2>3, <2>4
<1> QED BY <1>2, <1>3, <1>4, <1>5 DEF LockInv

(* A call ends: with its answer, which sets or drops the cookie, or lost.  *)
LEMMA CallEnds ==
    ASSUME ClientInv, LockInv, NEW t \in Tabs, Ended(t), UNCHANGED token,
           \/ UNCHANGED lost /\ UNCHANGED cookie /\ ~At(t, "answer")
           \/ UNCHANGED cookie /\ lost' = lost \cup {Home(t)}
           \/ UNCHANGED lost /\ SetCookie(t, 0)
           \/ UNCHANGED lost /\ SetCookie(t, call[t].token) /\ At(t, "answer")
    PROVE  LockInv'
<1>0. /\ Home(t) \in Browsers /\ cookie \in [Browsers -> Nat] /\ call \in [Tabs -> SessionCalls] /\ NoTab \notin Tabs
      /\ Consoles \subseteq Browsers /\ holder \in [Browsers -> Tabs \cup {NoTab}]
      /\ call' \in [Tabs -> SessionCalls] /\ call'[t] = Idle /\ \A u \in Tabs \ {t} : call'[u] = call[u]
  BY HomeFact, SessionsAssumption, IdleCall DEF ClientInv, NoTab, Ended, LockInv, LockIsHeld
<1>1. \A u \in Tabs : Home(u)' = Home(u) /\ Home(u) \in Browsers /\ (Console(u)' <=> Console(u))
  BY HomeFact DEF Home, Console
<1>2. /\ holder' \in [Browsers -> Tabs \cup {NoTab}]
      /\ \A b \in Browsers \ {Home(t)} : holder'[b] = holder[b]
      /\ holder'[Home(t)] = IF holder[Home(t)] = t THEN NoTab ELSE holder[Home(t)]
  BY <1>0 DEF Ended
<1>3. LockIsHeld'
  BY <1>0, <1>1, <1>2, IdleCall DEF LockInv, LockIsHeld
<1>4. /\ cookie' \in [Browsers -> Nat] /\ \A b \in Browsers \ {Home(t)} : cookie'[b] = cookie[b]
      /\ \/ cookie'[Home(t)] = cookie[Home(t)]
         \/ cookie'[Home(t)] = 0
         \/ cookie'[Home(t)] = call[t].token /\ At(t, "answer")
  BY <1>0, CallFact DEF SetCookie
<1>5. TokensStayHome'
  BY <1>0, <1>1, <1>4, IdleCall DEF LockInv, TokensStayHome
<1>6. AnswersAreFresh'
  <2> SUFFICES ASSUME NEW u \in Tabs, At(u, "answer")'
               PROVE  /\ call'[u].token # 0 /\ token'[call'[u].token] # "rotated"
                      /\ \A v \in Tabs \ {u} : call'[v].token # call'[u].token
                      /\ \A b \in Browsers : cookie'[b] # call'[u].token
    BY DEF AnswersAreFresh
  <2>1. u # t /\ call'[u] = call[u] /\ At(u, "answer")
    BY <1>0, IdleCall DEF At
  <2>2. /\ call[u].token # 0 /\ token[call[u].token] # "rotated"
        /\ \A v \in Tabs \ {u} : call[v].token # call[u].token
        /\ \A b \in Browsers : cookie[b] # call[u].token
    BY <2>1 DEF LockInv, AnswersAreFresh
  <2> QED BY <1>0, <1>4, <2>1, <2>2, IdleCall
<1>7. ExchangeIsUnderWay'
  <2> SUFFICES ASSUME NEW b \in Consoles \ lost', cookie'[b] # 0, token[cookie'[b]] = "rotated"
               PROVE  holder'[b] \in Tabs /\ call'[holder'[b]].step = "answer"
    BY DEF ExchangeIsUnderWay, At
  <2>1. b \in Browsers /\ b \in Consoles \ lost
    BY <1>0
  <2>2. ASSUME holder[b] \in Tabs, At(holder[b], "answer"), holder[b] # t
        PROVE  holder'[b] \in Tabs /\ call'[holder'[b]].step = "answer"
    BY <1>0, <1>2, <2>1, <2>2 DEF At
  <2>3. CASE b # Home(t)
    <3>1. cookie'[b] = cookie[b] /\ holder[b] \in Tabs /\ At(holder[b], "answer")
      BY <1>4, <2>1, <2>3 DEF LockInv, ExchangeIsUnderWay
    <3>2. holder[b] # t
      BY <2>1, <2>3 DEF LockInv, LockIsHeld
    <3> QED BY <2>2, <3>1, <3>2
  <2>4. CASE b = Home(t)
    <3>1. ~(cookie'[b] = call[t].token /\ At(t, "answer"))
      BY DEF LockInv, AnswersAreFresh
    <3>2. cookie'[b] = cookie[b]
      BY <1>4, <2>4, <3>1
    <3>3. ~At(t, "answer")
      BY <1>0, <2>4, <3>1, <3>2 DEF SetCookie
    <3>4. holder[b] \in Tabs /\ At(holder[b], "answer")
      BY <2>1, <3>2 DEF LockInv, ExchangeIsUnderWay
    <3> QED BY <2>2, <3>3, <3>4
  <2> QED BY <2>3, <2>4
<1> QED BY <1>3, <1>5, <1>6, <1>7 DEF LockInv

(* Tokens lapse or are revoked.                                            *)
LEMMA ServerMoves ==
    ASSUME SessionsInv, LockInv, NoneRotates, UNCHANGED <<cookie, holder, lost, call>>
    PROVE  LockInv'
<1>1. LockIsHeld' /\ TokensStayHome'
  BY DEF LockInv, LockIsHeld, TokensStayHome, Home, Console
<1>2. AnswersAreFresh'
  <2>1. \A t \in Tabs : call[t].token # 0 => call[t].token \in Tokens
    BY KnownAreTokens
  <2> QED BY <2>1 DEF LockInv, AnswersAreFresh, At, NoneRotates
<1>3. ExchangeIsUnderWay'
  BY SessionsAssumption, KnownAreTokens DEF LockInv, ExchangeIsUnderWay, At, NoneRotates, ClientInv
<1> QED BY <1>1, <1>2, <1>3 DEF LockInv

(* A token is issued, for a login or in exchange for the one presented.    *)
LEMMA IssueMoves ==
    ASSUME SessionsInv, LockInv, NEW t \in Tabs, call[t].step \in {"idle", "rotate"},
           call' \in [Tabs -> SessionCalls], \A u \in Tabs \ {t} : call'[u] = call[u],
           call'[t].step = "answer", call'[t].token = issued + 1, token'[issued + 1] = "live",
           \A j \in 1..issued : token'[j] = "rotated" =>
                token[j] = "rotated" \/ (j = call[t].token /\ At(t, "rotate")),
           UNCHANGED <<cookie, holder, lost>>
    PROVE  LockInv'
<1>0. /\ Home(t) \in Browsers /\ cookie \in [Browsers -> Nat] /\ call \in [Tabs -> SessionCalls] /\ NoTab \notin Tabs
      /\ Consoles \subseteq Browsers /\ issued \in Nat
      /\ \A b \in Browsers : cookie[b] <= issued
      /\ \A u \in Tabs : call[u].token <= issued /\ call[u].token \in Nat
  BY HomeFact, CallFact, SessionsAssumption DEF SessionsInv, ServerInv, ClientInv, NoTab
<1>1. \A u \in Tabs : Home(u)' = Home(u) /\ Home(u) \in Browsers /\ (Console(u)' <=> Console(u))
  BY HomeFact DEF Home, Console
<1>2. LockIsHeld'
  BY <1>0, <1>1 DEF LockInv, LockIsHeld
<1>3. TokensStayHome'
  <2>1. \A b, c \in Browsers : cookie[b] = cookie[c] /\ cookie[b] # 0 => b = c
    BY DEF LockInv, TokensStayHome
  <2>2. \A u \in Tabs : \A b \in Browsers : call'[u].token = cookie[b] /\ cookie[b] # 0 => Home(u) = b
    BY <1>0 DEF LockInv, TokensStayHome
  <2>3. \A u, v \in Tabs : call'[u].token = call'[v].token /\ call'[u].token # 0 => Home(u) = Home(v)
    BY <1>0 DEF LockInv, TokensStayHome
  <2> QED BY <1>1, <2>1, <2>2, <2>3 DEF TokensStayHome
<1>4. AnswersAreFresh'
  <2> SUFFICES ASSUME NEW u \in Tabs, At(u, "answer")'
               PROVE  /\ call'[u].token # 0 /\ token'[call'[u].token] # "rotated"
                      /\ \A v \in Tabs \ {u} : call'[v].token # call'[u].token
                      /\ \A b \in Browsers : cookie'[b] # call'[u].token
    BY DEF AnswersAreFresh
  <2>1. CASE u = t
    BY <1>0, <2>1
  <2>2. CASE u # t
    <3>1. /\ At(u, "answer") /\ call'[u] = call[u] /\ call[u].token # 0 /\ token[call[u].token] # "rotated"
          /\ \A v \in Tabs \ {u} : call[v].token # call[u].token
          /\ \A b \in Browsers : cookie[b] # call[u].token
      BY <2>2 DEF LockInv, AnswersAreFresh, At
    <3>2. call[u].token \in 1..issued
      BY <1>0, <3>1
    <3> QED BY <1>0, <2>2, <3>1, <3>2
  <2> QED BY <2>1, <2>2
<1>5. ExchangeIsUnderWay'
  <2> SUFFICES ASSUME NEW b \in Consoles \ lost, cookie[b] # 0, token'[cookie[b]] = "rotated"
               PROVE  holder[b] \in Tabs /\ call'[holder[b]].step = "answer"
    BY DEF ExchangeIsUnderWay, At
  <2>1. cookie[b] \in 1..issued /\ b \in Browsers
    BY <1>0
  <2>2. CASE token[cookie[b]] = "rotated"
    BY <2>1, <2>2 DEF LockInv, ExchangeIsUnderWay, At
  <2>3. CASE cookie[b] = call[t].token /\ At(t, "rotate")
    BY <1>0, <2>1, <2>3 DEF LockInv, TokensStayHome, LockIsHeld, Console, At
  <2> QED BY <2>1, <2>2, <2>3
<1> QED BY <1>2, <1>3, <1>4, <1>5 DEF LockInv

LEMMA LockInitInv == SessionsInit => LockInv
  BY SessionsAssumption, IdleCall DEF SessionsInit, LockInv, LockIsHeld, TokensStayHome, AnswersAreFresh,
     ExchangeIsUnderWay, At, NoTab

(* Every step of the sessions keeps the invariant.                         *)
LEMMA LockStepInv == SessionsInv /\ LockInv /\ [SessionsStep]_sessionVars => LockInv'
<1> SUFFICES ASSUME SessionsInv, LockInv, [SessionsStep]_sessionVars PROVE LockInv'
  OBVIOUS
<1>0. /\ ClientInv /\ ServerInv /\ issued \in Nat /\ token \in [Tokens -> TokenStates]
      /\ \A i \in 1..issued : i \in Tokens
      /\ call \in [Tabs -> SessionCalls] /\ MaxTokens \in Nat
      /\ \A t \in Tabs : call[t].token \in 0..issued
  BY SessionsAssumption, CallFact DEF SessionsInv, ServerInv, ClientInv, Tokens
<1>1. RevokeAll => NoneRotates
  BY <1>0 DEF RevokeAll, NoneRotates, Usable
<1>2. UNCHANGED token => NoneRotates
  BY DEF NoneRotates
<1>3. CASE UNCHANGED sessionVars
  BY <1>0, <1>2, <1>3, ServerMoves DEF sessionVars, serverVars, clientVars
<1>4. ASSUME NEW i \in Tokens, Expire(i) PROVE LockInv'
  <2>1. NoneRotates
    BY <1>0, <1>4 DEF Expire, NoneRotates
  <2> QED BY <1>0, <1>4, <2>1, ServerMoves DEF Expire, clientVars
<1>5. CASE EndAllSessions
  BY <1>0, <1>1, <1>5, ServerMoves DEF EndAllSessions, clientVars
<1>6. ASSUME NEW t \in Tabs, Goes(t, "rotate") \/ Goes(t, "reject"), At(t, "sent") \/ At(t, "rotate"),
             NoneRotates, UNCHANGED <<cookie, holder, lost>>
      PROVE  LockInv'
  <2>1. PICK step \in {"rotate", "reject"} : Goes(t, step)
    BY <1>6
  <2>2. /\ call' \in [Tabs -> SessionCalls] /\ \A u \in Tabs \ {t} : call'[u] = call[u]
        /\ call'[t].step = step /\ call'[t].token = call[t].token
    BY <1>0, <2>1 DEF Goes, SessionCalls, CallSteps
  <2>3. Console(t) => holder[Home(t)] = t
    BY <1>6 DEF LockInv, LockIsHeld, At
  <2> QED BY <1>0, <1>6, <2>2, <2>3, CallMoves DEF At
<1>7. ASSUME NEW t \in Tabs, Goes(t, "revoke") \/ Goes(t, "left"), At(t, "leave") \/ At(t, "revoke"),
             NoneRotates, UNCHANGED <<cookie, holder, lost>>
      PROVE  LockInv'
  <2>1. PICK step \in {"revoke", "left"} : Goes(t, step)
    BY <1>7
  <2>2. /\ call' \in [Tabs -> SessionCalls] /\ \A u \in Tabs \ {t} : call'[u] = call[u]
        /\ call'[t].step = step /\ call'[t].token = call[t].token
    BY <1>0, <2>1 DEF Goes, SessionCalls, CallSteps
  <2>3. holder[Home(t)] # t
    BY <1>7, HomeFact DEF LockInv, LockIsHeld, At
  <2> QED BY <1>0, <1>7, <2>2, <2>3, CallMoves DEF At
<1>8. ASSUME NEW t \in Tabs, Login(t) PROVE LockInv'
  <2>1. /\ issued' = issued + 1 /\ issued + 1 \in Tokens /\ call[t].step = "idle"
        /\ call' = [call EXCEPT ![t] = [kind |-> "login", step |-> "answer", token |-> issued + 1]]
        /\ token' = [token EXCEPT ![issued + 1] = "live"] /\ UNCHANGED <<cookie, holder, lost>>
    BY <1>0, <1>8 DEF Login, Tokens, At
  <2>2. /\ call' \in [Tabs -> SessionCalls] /\ \A u \in Tabs \ {t} : call'[u] = call[u]
        /\ call'[t].step = "answer" /\ call'[t].token = issued + 1
    BY <1>0, <2>1 DEF SessionCalls, CallSteps, CallKinds
  <2>3. token'[issued + 1] = "live" /\ \A j \in 1..issued : token'[j] = token[j]
    BY <1>0, <2>1
  <2> QED BY <2>1, <2>2, <2>3, IssueMoves
<1>9. ASSUME NEW t \in Tabs, RefreshRead(t) PROVE LockInv'
  <2>0. At(t, "sent") /\ UNCHANGED <<cookie, holder, lost>>
    BY <1>9 DEF RefreshRead
  <2>1. CASE UNCHANGED serverVars
    BY <1>2, <1>6, <1>9, <2>0, <2>1 DEF RefreshRead, serverVars, RejectReuse
  <2>2. CASE RejectReuse(t)
    BY <1>1, <1>6, <2>0, <2>2 DEF RejectReuse
  <2>3. CASE token' = [token EXCEPT ![call[t].token] = "revoked"] /\ Goes(t, "reject")
    <3>1. NoneRotates
      BY <1>0, <2>3 DEF NoneRotates
    <3> QED BY <1>6, <2>0, <2>3, <3>1
  <2> QED BY <1>9, <2>1, <2>2, <2>3 DEF RefreshRead
<1>10. ASSUME NEW t \in Tabs, RefreshRotate(t) PROVE LockInv'
  <2>0. At(t, "rotate") /\ UNCHANGED <<cookie, holder, lost>>
    BY <1>10 DEF RefreshRotate
  <2>1. CASE RejectReuse(t)
    BY <1>1, <1>6, <2>0, <2>1 DEF RejectReuse
  <2>2. CASE Rotate(call[t].token) /\ call' = [call EXCEPT ![t].step = "answer", ![t].token = issued']
    <3>1. /\ issued' = issued + 1 /\ issued + 1 \in Tokens
          /\ token' = [token EXCEPT ![call[t].token] = "rotated", ![issued + 1] = "live"]
          /\ call' = [call EXCEPT ![t].step = "answer", ![t].token = issued + 1]
      BY <1>0, <2>2 DEF Rotate, Tokens
    <3>2. /\ call' \in [Tabs -> SessionCalls] /\ \A u \in Tabs \ {t} : call'[u] = call[u]
          /\ call'[t].step = "answer" /\ call'[t].token = issued + 1
      BY <1>0, <3>1 DEF SessionCalls, CallSteps
    <3>3. token'[issued + 1] = "live" /\ \A j \in 1..issued : token'[j] = "rotated" => token[j] = "rotated" \/ j = call[t].token
      BY <1>0, <3>1
    <3> QED BY <2>0, <3>1, <3>2, <3>3, IssueMoves DEF At
  <2> QED BY <1>10, <2>1, <2>2 DEF RefreshRotate
<1>11. ASSUME NEW t \in Tabs, LogoutRead(t) PROVE LockInv'
  BY <1>2, <1>7, <1>11 DEF LogoutRead, serverVars
<1>12. ASSUME NEW t \in Tabs, LogoutRevoke(t) PROVE LockInv'
  <2>1. NoneRotates
    BY <1>0, <1>12 DEF LogoutRevoke, NoneRotates, Usable
  <2> QED BY <1>7, <1>12, <2>1 DEF LogoutRevoke
<1>13. ASSUME NEW t \in Tabs, AccessExpires(t) PROVE LockInv'
  BY <1>0, <1>2, <1>13, ServerMoves DEF AccessExpires, serverVars
<1>14. ASSUME NEW t \in Tabs, Refresh(t) \/ Reload(t) \/ SignOut(t) PROVE LockInv'
  <2>1. PICK kind \in CallKinds, step \in {"wait", "sent", "leave"} :
           /\ Starts(t, kind, step) /\ UNCHANGED <<token, cookie, holder, lost>>
           /\ (Console(t) => step # "sent")
    BY <1>14 DEF Refresh, Reload, SignOut, CallKinds, serverVars
  <2>2. /\ call[t].step = "idle" /\ call' \in [Tabs -> SessionCalls] /\ \A u \in Tabs \ {t} : call'[u] = call[u]
        /\ call'[t].step = step /\ call'[t].token = cookie[Home(t)]
    BY <1>0, <2>1, HomeFact DEF Starts, At, SessionCalls, CallSteps, ClientInv
  <2>3. holder[Home(t)] # t
    BY <2>2, HomeFact DEF LockInv, LockIsHeld
  <2> QED BY <1>0, <1>2, <2>1, <2>2, <2>3, CallMoves
<1>15. ASSUME NEW t \in Tabs, Acquire(t) PROVE LockInv'
  <2>0. /\ call[t].step = "wait" /\ holder[Home(t)] = NoTab /\ UNCHANGED <<token, cookie, lost>>
        /\ t # NoTab
    BY <1>15, SessionsAssumption DEF Acquire, At, serverVars, NoTab
  <2>1. CASE call' = [call EXCEPT ![t] = Idle] /\ UNCHANGED holder
    <3>1. /\ call' \in [Tabs -> SessionCalls] /\ \A u \in Tabs \ {t} : call'[u] = call[u]
          /\ call'[t].step = "idle" /\ call'[t].token = 0
      BY <1>0, <2>1, IdleCall
    <3> QED BY <1>0, <1>2, <2>0, <2>1, <3>1, CallMoves
  <2>2. CASE /\ call' = [call EXCEPT ![t].step = "sent", ![t].token = cookie[Home(t)]]
             /\ holder' = [holder EXCEPT ![Home(t)] = t]
    <3>1. /\ call' \in [Tabs -> SessionCalls] /\ \A u \in Tabs \ {t} : call'[u] = call[u]
          /\ call'[t].step = "sent" /\ call'[t].token = cookie[Home(t)]
      BY <1>0, <2>2, HomeFact DEF SessionCalls, CallSteps, ClientInv
    <3> QED BY <1>0, <1>2, <2>0, <2>2, <3>1, CallMoves
  <2> QED BY <1>15, <2>1, <2>2 DEF Acquire
<1>16. ASSUME NEW t \in Tabs, TakeAnswer(t) \/ TakeReject(t) \/ TakeLogout(t) \/ LoseAnswer(t) PROVE LockInv'
  <2>1. Ended(t) /\ UNCHANGED token
    BY <1>16 DEF TakeAnswer, TakeReject, TakeLogout, LoseAnswer, serverVars
  <2>2. \/ UNCHANGED lost /\ UNCHANGED cookie /\ ~At(t, "answer")
        \/ UNCHANGED cookie /\ lost' = lost \cup {Home(t)}
        \/ UNCHANGED lost /\ SetCookie(t, 0)
        \/ UNCHANGED lost /\ SetCookie(t, call[t].token) /\ At(t, "answer")
    BY <1>16 DEF TakeAnswer, TakeReject, TakeLogout, LoseAnswer, At
  <2> QED BY <1>0, <2>1, <2>2, CallEnds
<1> QED BY <1>3, <1>4, <1>5, <1>8, <1>9, <1>10, <1>11, <1>12, <1>13, <1>14, <1>15, <1>16 DEF SessionsStep, TabStep

(* Whatever tabs, sign-ins and alarms overlap, a console at rest never has *)
(* a cookie that was already exchanged, unless an answer got lost.         *)
THEOREM ConsolesStayCurrent == SessionsSpec => []ConsoleIsCurrent
<1>1. LockInv => ConsoleIsCurrent
  BY SessionsAssumption DEF LockInv, ExchangeIsUnderWay, ConsoleIsCurrent, NoTab
<1> QED BY SessionsInitInv, SessionsNextInv, LockInitInv, LockStepInv, <1>1, PTL DEF SessionsSpec

----------------------------------------------------------------------------
(* The staff accounts.                                                     *)

(* Between the checks of a request and its transaction nobody changes what *)
(* the checks were about: the role it ranked, the other active owners it   *)
(* counted, the permission rows it read.                                   *)
ChecksHold ==
    \A d \in StaffRequests :
        LET q == staffReq[d] IN
        q # Free /\ staffReq'[d] # Free =>
            /\ q.kind \in {"update", "delete"} => role'[q.user] = role[q.user]
            /\ q.kind = "update" /\ q.standing = "inactive" => ActiveOwners \ {q.user} \subseteq ActiveOwners'
            /\ q.kind = "grant" => grant'[q.user] = grant[q.user]

(* That is so with one request of the desk at a time.                      *)
DeskInTurn == \A d, e \in StaffRequests : d = e

StaffKinds == {"update", "delete", "grant"}
Grants == {"none", "granted", "revoked"}

StaffTypes ==
    /\ role \in [People -> Roles \cup {"NONE"}]
    /\ standing \in [People -> {"absent", "active", "inactive", "deleted"}]
    /\ grant \in [People -> [Slugs -> Grants]]
    /\ asked \in [People -> (SUBSET Slugs) \cup {Unset}]
    /\ staffReq \in [StaffRequests ->
          {Free}
          \cup [kind : {"update"}, user : People, role : Roles \cup {"keep"}, standing : {"active", "inactive", "keep"}]
          \cup [kind : {"delete"}, user : People]
          \cup [kind : {"grant"}, user : People, set : SUBSET Slugs, seen : [Slugs -> Grants]]]

(* What was asked for is what the rows say.                                *)
RowsSay(u) == asked[u] # Unset => Overridden(u) /\ Granted(u) = asked[u]

(* An owner is only changed by itself, stays one, and is not the last to   *)
(* be disabled; and permissions are rewritten from the rows as they are.   *)
RequestIsSound(q) ==
    /\ q # Free => standing[q.user] # "absent"
    /\ q.kind = "update" /\ role[q.user] = "OWNER" =>
          /\ q.role \in {"keep", "OWNER"}
          /\ q.standing = "inactive" => ActiveOwners \ {q.user} # {}
    /\ q.kind = "delete" => role[q.user] # "OWNER"
    /\ q.kind = "grant" => q.seen = grant[q.user] /\ (q.set = {} => Overridden(q.user))

StaffInv ==
    /\ StaffTypes
    /\ OwnerRemains
    /\ \A u \in People : RowsSay(u)
    /\ \A d \in StaffRequests : RequestIsSound(staffReq[d])

LEMMA StaffBegins == ASSUME StaffInit PROVE StaffInv
<1>1. StaffTypes
  BY StaffAssumption DEF StaffInit, StaffTypes, Roles, ConsoleRoles, Grants, Unset
<1>2. OwnerRemains
  <2>1. PICK u : u \in Owners
    BY StaffAssumption
  <2>3. u \in People
    BY <2>1, StaffAssumption
  <2>2. role[u] = "OWNER" /\ standing[u] = "active"
    BY <2>1, <2>3 DEF StaffInit
  <2> QED BY <2>2, <2>3 DEF OwnerRemains, ActiveOwners
<1>3. \A u \in People : RowsSay(u)
  BY DEF StaffInit, RowsSay
<1>4. \A d \in StaffRequests : RequestIsSound(staffReq[d])
  BY DEF StaffInit, RequestIsSound, Free
<1> QED BY <1>1, <1>2, <1>3, <1>4 DEF StaffInv

(* A second active owner is another one.                                   *)
LEMMA AnotherOwner ==
    ASSUME NEW u \in People, Cardinality(ActiveOwners) > 1 PROVE ActiveOwners \ {u} # {}
<1>1. IsFiniteSet(ActiveOwners)
  BY StaffAssumption, FS_Subset DEF ActiveOwners
<1>2. SUFFICES ASSUME ActiveOwners \subseteq {u} PROVE FALSE
  OBVIOUS
<1>3. IsFiniteSet({u}) /\ Cardinality({u}) = 1
  BY FS_Singleton
<1>4. Cardinality(ActiveOwners) <= 1
  BY <1>2, <1>3, FS_Subset
<1>5. Cardinality(ActiveOwners) \in Nat
  BY <1>1, FS_CardinalityType
<1> QED BY <1>4, <1>5

LEMMA CreateKeeps ==
    ASSUME StaffInv, NEW a \in Desk, NEW u \in People, NEW r \in Roles,
           NEW s \in {"active", "inactive"}, NEW set \in SUBSET Slugs, CreateStaff(a, u, r, s, set)
    PROVE  StaffInv'
<1>0. StaffTypes
  BY DEF StaffInv
<1> DEFINE rows == [g \in Slugs |-> IF g \in set THEN "granted" ELSE "none"]
<1>1. /\ standing[u] = "absent" /\ role' = [role EXCEPT ![u] = r] /\ standing' = [standing EXCEPT ![u] = s]
      /\ grant' = [grant EXCEPT ![u] = rows] /\ UNCHANGED staffReq
      /\ asked' = [asked EXCEPT ![u] = IF set = {} THEN Unset ELSE set]
  BY DEF CreateStaff
<1>2. rows \in [Slugs -> Grants]
  BY DEF Grants
<1>3. StaffTypes'
  BY <1>0, <1>1, <1>2 DEF StaffTypes
<1>4. \A v \in People \ {u} : role'[v] = role[v] /\ standing'[v] = standing[v] /\ grant'[v] = grant[v] /\ asked'[v] = asked[v]
  BY <1>0, <1>1 DEF StaffTypes
<1>5. grant'[u] = rows /\ asked'[u] = (IF set = {} THEN Unset ELSE set)
  BY <1>0, <1>1 DEF StaffTypes
<1>6. \A v \in ActiveOwners : v # u /\ v \in ActiveOwners'
  BY <1>1, <1>4 DEF ActiveOwners
<1>7. OwnerRemains'
  BY <1>6 DEF StaffInv, OwnerRemains
<1>8. ASSUME NEW v \in People PROVE RowsSay(v)'
  <2>1. CASE v = u
    BY <1>5, <2>1 DEF RowsSay, Overridden, Granted
  <2>2. CASE v # u
    BY <1>4, <2>2 DEF StaffInv, RowsSay, Overridden, Granted
  <2> QED BY <2>1, <2>2
<1>9. ASSUME NEW d \in StaffRequests PROVE RequestIsSound(staffReq[d])'
  <2> DEFINE q == staffReq[d]
  <2>1. RequestIsSound(q) /\ q' = q
    BY <1>1 DEF StaffInv
  <2>2. CASE q = Free
    BY <2>1, <2>2 DEF RequestIsSound, Free
  <2>3. CASE q # Free
    <3>1. q.user \in People
      BY <1>0, <2>3 DEF StaffTypes
    <3>2. q.user # u
      BY <1>1, <2>1, <2>3 DEF RequestIsSound, Exists
    <3> QED BY <1>4, <1>6, <2>1, <3>1, <3>2 DEF RequestIsSound, Exists, Overridden
  <2> QED BY <2>2, <2>3
<1> QED BY <1>3, <1>7, <1>8, <1>9 DEF StaffInv

(* Accounts are never created again.                                       *)
Remembers == \A u \in People : standing[u] # "absent" => standing'[u] # "absent"

(* A request that waits is still sound, when its checks hold.              *)
LEMMA WaitsSound ==
    ASSUME StaffInv, ChecksHold, Remembers, NEW e \in StaffRequests, staffReq'[e] = staffReq[e]
    PROVE  RequestIsSound(staffReq[e])'
<1>1. PICK q : q = staffReq[e]
  OBVIOUS
<1>2. RequestIsSound(q) /\ StaffTypes
  BY <1>1 DEF StaffInv
<1>3. CASE q = Free
  BY <1>1, <1>3 DEF RequestIsSound, Free
<1>4. CASE q # Free
  <2>1. PICK u \in People : u = q.user
    BY <1>1, <1>2, <1>4 DEF StaffTypes
  <2>2. /\ q.kind \in {"update", "delete"} => role'[u] = role[u]
        /\ q.kind = "update" /\ q.standing = "inactive" => ActiveOwners \ {u} \subseteq ActiveOwners'
        /\ q.kind = "grant" => grant'[u] = grant[u]
    BY <1>1, <1>4, <2>1 DEF ChecksHold
  <2>3. standing'[u] # "absent"
    BY <1>2, <1>4, <2>1 DEF RequestIsSound, Remembers
  <2>4. q.kind = "update" /\ role'[u] = "OWNER" =>
            /\ q.role \in {"keep", "OWNER"}
            /\ q.standing = "inactive" => ActiveOwners' \ {u} # {}
    <3> SUFFICES ASSUME q.kind = "update", role'[u] = "OWNER"
                 PROVE  /\ q.role \in {"keep", "OWNER"}
                        /\ q.standing = "inactive" => ActiveOwners' \ {u} # {}
      OBVIOUS
    <3>1. q.role \in {"keep", "OWNER"} /\ (q.standing = "inactive" => ActiveOwners \ {u} # {})
      BY <1>2, <2>1, <2>2 DEF RequestIsSound
    <3> QED BY <2>2, <3>1
  <2>5. q.kind = "delete" => role'[u] # "OWNER"
    BY <1>2, <2>1, <2>2 DEF RequestIsSound
  <2>6. q.kind = "grant" => q.seen = grant'[u] /\ (q.set = {} => Overridden(u)')
    BY <1>2, <2>1, <2>2 DEF RequestIsSound, Overridden
  <2> QED BY <1>1, <2>1, <2>3, <2>4, <2>5, <2>6 DEF RequestIsSound
<1> QED BY <1>3, <1>4

(* A request begins and touches nothing.                                   *)
LEMMA ReadKeeps ==
    ASSUME StaffInv, ChecksHold, NEW d \in StaffRequests, NEW q, Begins(d, q), UNCHANGED <<role, standing, grant, asked>>,
           RequestIsSound(q), StaffTypes'
    PROVE  StaffInv'
<1>1. OwnerRemains' /\ \A u \in People : RowsSay(u)'
  BY DEF StaffInv, OwnerRemains, ActiveOwners, RowsSay, Overridden, Granted
<1>2. staffReq'[d] = q
  BY DEF StaffInv, StaffTypes, Begins
<1>3. ActiveOwners' = ActiveOwners
  BY DEF ActiveOwners
<1>4. RequestIsSound(staffReq[d])'
  BY <1>2, <1>3 DEF RequestIsSound, Overridden
<1>5. ASSUME NEW e \in StaffRequests PROVE RequestIsSound(staffReq[e])'
  <2>1. e # d => staffReq'[e] = staffReq[e]
    BY DEF StaffInv, StaffTypes, Begins
  <2>2. Remembers
    BY DEF Remembers
  <2> QED BY <1>4, <2>1, <2>2, WaitsSound
<1> QED BY <1>1, <1>5 DEF StaffInv

(* A request that ends leaves the others as they were.                     *)
LEMMA OthersAreSound ==
    ASSUME StaffInv, ChecksHold, Remembers, NEW d \in StaffRequests, Finishes(d)
    PROVE  \A e \in StaffRequests : RequestIsSound(staffReq[e])'
<1>1. staffReq'[d] = Free /\ \A e \in StaffRequests \ {d} : staffReq'[e] = staffReq[e]
  BY DEF Finishes, StaffInv, StaffTypes
<1>2. RequestIsSound(staffReq[d])'
  BY <1>1 DEF RequestIsSound, Free
<1> QED BY <1>1, <1>2, WaitsSound

LEMMA UpdateReadKeeps ==
    ASSUME StaffInv, ChecksHold, NEW d \in StaffRequests, NEW a \in Desk, NEW u \in People,
           NEW r \in Roles \cup {"keep"}, NEW s \in {"active", "inactive", "keep"}, UpdateStaffRead(d, a, u, r, s)
    PROVE  StaffInv'
<1> DEFINE q == [kind |-> "update", user |-> u, role |-> r, standing |-> s]
<1>1. Exists(u) /\ CanReach(a, u) /\ (r # "keep" => (a = u => r = role[u])) /\ (s = "inactive" => KeepsAnOwner(u))
  BY DEF UpdateStaffRead
<1>2. Begins(d, q) /\ UNCHANGED <<role, standing, grant, asked>>
  BY DEF UpdateStaffRead
<1>3. StaffTypes'
  BY <1>2 DEF StaffInv, StaffTypes, Begins
<1>4. ASSUME role[u] = "OWNER" PROVE a = u
  <2>1. a \in People /\ role[a] \in Roles \cup {"NONE"}
    BY DEF Desk, StaffInv, StaffTypes
  <2>2. Rank(role[a]) \in 0..3 /\ Rank(role[u]) = 3
    BY <1>4, <2>1 DEF Rank, Roles, ConsoleRoles
  <2> QED BY <1>1, <2>2 DEF CanReach
<1>5. ASSUME role[u] = "OWNER" PROVE r \in {"keep", "OWNER"} /\ (s = "inactive" => ActiveOwners \ {u} # {})
  BY <1>1, <1>4, <1>5, AnotherOwner DEF KeepsAnOwner
<1>6. RequestIsSound(q)
  BY <1>1, <1>5 DEF RequestIsSound, Free, Exists
<1> QED
  <2> HIDE DEF q
  <2> QED BY <1>2, <1>3, <1>6, ReadKeeps

LEMMA DeleteReadKeeps ==
    ASSUME StaffInv, ChecksHold, NEW d \in StaffRequests, NEW a \in Desk, NEW u \in People, DeleteStaffRead(d, a, u)
    PROVE  StaffInv'
<1> DEFINE q == [kind |-> "delete", user |-> u]
<1>1. Exists(u) /\ a # u /\ CanReach(a, u)
  BY DEF DeleteStaffRead
<1>2. Begins(d, q) /\ UNCHANGED <<role, standing, grant, asked>>
  BY DEF DeleteStaffRead
<1>3. StaffTypes'
  BY <1>2 DEF StaffInv, StaffTypes, Begins
<1>4. role[u] # "OWNER"
  <2>1. a \in People /\ role[a] \in Roles \cup {"NONE"}
    BY DEF Desk, StaffInv, StaffTypes
  <2>2. Rank(role[a]) \in 0..3 /\ (role[u] = "OWNER" => Rank(role[u]) = 3)
    BY <2>1 DEF Rank, Roles, ConsoleRoles
  <2> QED BY <1>1, <2>2 DEF CanReach
<1>5. RequestIsSound(q)
  BY <1>1, <1>4 DEF RequestIsSound, Free, Exists
<1> QED
  <2> HIDE DEF q
  <2> QED BY <1>2, <1>3, <1>5, ReadKeeps

LEMMA GrantReadKeeps ==
    ASSUME StaffInv, ChecksHold, NEW d \in StaffRequests, NEW a \in Desk, NEW u \in People, NEW set \in SUBSET Slugs,
           GrantRead(d, a, u, set)
    PROVE  StaffInv'
<1>0. PICK g \in [Slugs -> Grants] : g = grant[u]
  BY DEF StaffInv, StaffTypes
<1> DEFINE q == [kind |-> "grant", user |-> u, set |-> set, seen |-> g]
<1>1. Exists(u) /\ (set = {} => Overridden(u))
  BY DEF GrantRead
<1>2. Begins(d, q) /\ UNCHANGED <<role, standing, grant, asked>>
  BY <1>0 DEF GrantRead
<1>3. StaffTypes'
  BY <1>2 DEF StaffInv, StaffTypes, Begins
<1>4. RequestIsSound(q)
  BY <1>0, <1>1 DEF RequestIsSound, Free, Exists
<1> QED
  <2> HIDE DEF q
  <2> QED BY <1>2, <1>3, <1>4, ReadKeeps

LEMMA UpdateWriteKeeps ==
    ASSUME StaffInv, ChecksHold, NEW d \in StaffRequests, UpdateStaffWrite(d)
    PROVE  StaffInv'
<1>0. StaffTypes
  BY DEF StaffInv
<1>1. PICK q : q = staffReq[d]
  OBVIOUS
<1>2. q.kind = "update" /\ q # Free /\ RequestIsSound(q)
  BY <1>1 DEF UpdateStaffWrite, StaffInv, Free
<1>3. q.user \in People /\ q.role \in Roles \cup {"keep"} /\ q.standing \in {"active", "inactive", "keep"}
  BY <1>0, <1>1, <1>2 DEF StaffTypes
<1>4. PICK u \in People : u = q.user
  BY <1>3
<1>5. /\ role' = [role EXCEPT ![u] = IF q.role = "keep" THEN @ ELSE q.role]
      /\ standing' = [standing EXCEPT ![u] = IF @ = "deleted" \/ q.standing = "keep" THEN @ ELSE q.standing]
      /\ Finishes(d) /\ UNCHANGED <<grant, asked>>
  BY <1>1, <1>4 DEF UpdateStaffWrite
<1>6. StaffTypes'
  BY <1>0, <1>3, <1>5 DEF StaffTypes, Finishes
<1>7. /\ \A v \in People \ {u} : role'[v] = role[v] /\ standing'[v] = standing[v]
      /\ role'[u] = (IF q.role = "keep" THEN role[u] ELSE q.role)
      /\ standing'[u] = (IF standing[u] = "deleted" \/ q.standing = "keep" THEN standing[u] ELSE q.standing)
  BY <1>0, <1>5 DEF StaffTypes
<1>8. OwnerRemains'
  <2>1. PICK o \in ActiveOwners : TRUE
    BY DEF StaffInv, OwnerRemains
  <2>2. \A v \in ActiveOwners : v # u => v \in ActiveOwners'
    BY <1>7 DEF ActiveOwners
  <2>3. CASE \E v \in ActiveOwners : v # u
    BY <2>2, <2>3 DEF OwnerRemains
  <2>4. CASE ActiveOwners = {u}
    <3>1. role[u] = "OWNER" /\ standing[u] = "active"
      BY <2>4 DEF ActiveOwners
    <3>2. q.role \in {"keep", "OWNER"} /\ q.standing # "inactive"
      BY <1>2, <1>4, <2>4, <3>1 DEF RequestIsSound
    <3>3. role'[u] = "OWNER" /\ standing'[u] = "active"
      BY <1>3, <1>7, <3>1, <3>2
    <3> QED BY <3>3 DEF OwnerRemains, ActiveOwners
  <2> QED BY <2>1, <2>3, <2>4
<1>9. \A v \in People : RowsSay(v)'
  BY <1>5 DEF StaffInv, RowsSay, Overridden, Granted
<1>10. Remembers
  BY <1>3, <1>7 DEF Remembers
<1> QED BY <1>5, <1>6, <1>8, <1>9, <1>10, OthersAreSound DEF StaffInv

LEMMA DeleteWriteKeeps ==
    ASSUME StaffInv, ChecksHold, NEW d \in StaffRequests, DeleteStaffWrite(d)
    PROVE  StaffInv'
<1>0. StaffTypes
  BY DEF StaffInv
<1>1. PICK q : q = staffReq[d]
  OBVIOUS
<1>2. q.kind = "delete" /\ RequestIsSound(q)
  BY <1>1 DEF DeleteStaffWrite, StaffInv
<1>3. q.user \in People /\ role[q.user] # "OWNER"
  BY <1>0, <1>1, <1>2 DEF StaffTypes, RequestIsSound, Free
<1>4. /\ standing' = [standing EXCEPT ![q.user] = "deleted"]
      /\ Finishes(d) /\ UNCHANGED <<role, grant, asked>>
  BY <1>1 DEF DeleteStaffWrite
<1>5. StaffTypes'
  BY <1>0, <1>3, <1>4 DEF StaffTypes, Finishes
<1>6. \A v \in ActiveOwners : v \in ActiveOwners'
  BY <1>0, <1>3, <1>4 DEF ActiveOwners, StaffTypes
<1>7. OwnerRemains'
  BY <1>6 DEF StaffInv, OwnerRemains
<1>8. \A v \in People : RowsSay(v)'
  BY <1>4 DEF StaffInv, RowsSay, Overridden, Granted
<1>9. Remembers
  BY <1>0, <1>3, <1>4 DEF Remembers, StaffTypes
<1> QED BY <1>4, <1>5, <1>7, <1>8, <1>9, OthersAreSound DEF StaffInv

LEMMA GrantWriteKeeps ==
    ASSUME StaffInv, ChecksHold, NEW d \in StaffRequests, GrantWrite(d)
    PROVE  StaffInv'
<1>0. StaffTypes
  BY DEF StaffInv
<1>1. PICK q : q = staffReq[d]
  OBVIOUS
<1>2. q.kind = "grant" /\ RequestIsSound(q) /\ q # Free
  BY <1>1 DEF GrantWrite, StaffInv, Free
<1>3. q.user \in People /\ q.set \in SUBSET Slugs /\ q.seen \in [Slugs -> Grants]
  BY <1>0, <1>1, <1>2 DEF StaffTypes
<1>4. PICK u \in People : u = q.user
  BY <1>3
<1>5. q.seen = grant[u] /\ (q.set = {} => Overridden(u)) /\ grant[u] \in [Slugs -> Grants]
  BY <1>0, <1>2, <1>4 DEF RequestIsSound, StaffTypes
<1> DEFINE rows == RewriteGrants(grant[u], q)
<1>6. /\ grant' = [grant EXCEPT ![u] = rows]
      /\ asked' = [asked EXCEPT ![u] = q.set]
      /\ Finishes(d) /\ UNCHANGED <<role, standing>>
  BY <1>0, <1>1, <1>4 DEF GrantWrite, StaffTypes
<1>7. rows = [s \in Slugs |-> IF s \in q.set THEN "granted" ELSE IF grant[u][s] = "granted" THEN "revoked" ELSE grant[u][s]]
  BY <1>5 DEF RewriteGrants, Regrant
<1>8. rows \in [Slugs -> Grants]
  BY <1>5, <1>7 DEF Grants
<1>9. StaffTypes'
  BY <1>0, <1>3, <1>6, <1>8 DEF StaffTypes, Finishes
<1>10. /\ grant'[u] = rows /\ asked'[u] = q.set
       /\ \A v \in People \ {u} : grant'[v] = grant[v] /\ asked'[v] = asked[v]
  BY <1>0, <1>6 DEF StaffTypes
<1>11. {s \in Slugs : rows[s] = "granted"} = q.set
  BY <1>3, <1>7
<1>12. \E s \in Slugs : rows[s] # "none"
  <2>1. CASE q.set = {}
    <3>1. PICK s \in Slugs : grant[u][s] # "none"
      BY <1>5, <2>1 DEF Overridden
    <3> QED BY <1>7, <3>1
  <2>2. CASE q.set # {}
    BY <1>3, <1>7, <2>2
  <2> QED BY <2>1, <2>2
<1>13. ASSUME NEW v \in People PROVE RowsSay(v)'
  <2> HIDE DEF rows
  <2>1. CASE v = u
    BY <1>10, <1>11, <1>12, <2>1 DEF RowsSay, Overridden, Granted
  <2>2. CASE v # u
    BY <1>10, <2>2 DEF StaffInv, RowsSay, Overridden, Granted
  <2> QED BY <2>1, <2>2
<1>14. OwnerRemains'
  BY <1>6 DEF StaffInv, OwnerRemains, ActiveOwners
<1>15. Remembers
  BY <1>6 DEF Remembers
<1> QED BY <1>6, <1>9, <1>13, <1>14, <1>15, OthersAreSound DEF StaffInv

LEMMA StaffKeeps ==
    ASSUME StaffInv, [StaffStep]_staffVars, ChecksHold \/ UNCHANGED staffVars
    PROVE  StaffInv'
<1>1. CASE UNCHANGED staffVars
  <2>1. StaffTypes' /\ OwnerRemains' /\ \A u \in People : RowsSay(u)'
    BY <1>1 DEF StaffInv, StaffTypes, OwnerRemains, ActiveOwners, RowsSay, Overridden, Granted, staffVars
  <2>2. ActiveOwners' = ActiveOwners
    BY <1>1 DEF ActiveOwners, staffVars
  <2>3. \A d \in StaffRequests : RequestIsSound(staffReq[d])'
    BY <1>1, <2>2 DEF StaffInv, RequestIsSound, Exists, Overridden, staffVars
  <2> QED BY <2>1, <2>3 DEF StaffInv
<1>2. CASE StaffStep /\ ChecksHold
  <2> USE <1>2
  <2>1. ASSUME NEW a \in Desk, NEW u \in People, NEW r \in Roles, NEW s \in {"active", "inactive"},
               NEW set \in SUBSET Slugs, CreateStaff(a, u, r, s, set)
        PROVE  StaffInv'
    BY <2>1, CreateKeeps
  <2>2. ASSUME NEW d \in StaffRequests, UpdateStaffWrite(d) \/ DeleteStaffWrite(d) \/ GrantWrite(d)
        PROVE  StaffInv'
    BY <2>2, UpdateWriteKeeps, DeleteWriteKeeps, GrantWriteKeeps
  <2>3. ASSUME NEW d \in StaffRequests, NEW a \in Desk, NEW u \in People,
               NEW r \in Roles \cup {"keep"}, NEW s \in {"active", "inactive", "keep"}, UpdateStaffRead(d, a, u, r, s)
        PROVE  StaffInv'
    BY <2>3, UpdateReadKeeps
  <2>4. ASSUME NEW d \in StaffRequests, NEW a \in Desk, NEW u \in People, DeleteStaffRead(d, a, u)
        PROVE  StaffInv'
    BY <2>4, DeleteReadKeeps
  <2>5. ASSUME NEW d \in StaffRequests, NEW a \in Desk, NEW u \in People, NEW set \in SUBSET Slugs, GrantRead(d, a, u, set)
        PROVE  StaffInv'
    BY <2>5, GrantReadKeeps
  <2> QED BY <2>1, <2>2, <2>3, <2>4, <2>5 DEF StaffStep
<1> QED BY <1>1, <1>2

(* A step that writes ends its request, and a new account is nobody's      *)
(* business yet.                                                           *)
LEMMA DeskTurn ==
    ASSUME DeskInTurn, StaffInv, StaffStep
    PROVE  ChecksHold
<1>0. StaffTypes /\ \A d, e \in StaffRequests : d = e
  BY DEF StaffInv, DeskInTurn
<1>1. ASSUME NEW d \in StaffRequests, Finishes(d) PROVE ChecksHold
  BY <1>0, <1>1 DEF ChecksHold, Finishes, StaffTypes
<1>2. ASSUME NEW d \in StaffRequests, staffReq[d] = Free PROVE ChecksHold
  BY <1>0, <1>2 DEF ChecksHold
<1>3. ASSUME NEW a \in Desk, NEW u \in People, NEW r \in Roles, NEW s \in {"active", "inactive"},
             NEW set \in SUBSET Slugs, CreateStaff(a, u, r, s, set)
      PROVE  ChecksHold
  <2>1. standing[u] = "absent"
    BY <1>3 DEF CreateStaff
  <2>2. \A v \in People \ {u} : role'[v] = role[v] /\ standing'[v] = standing[v] /\ grant'[v] = grant[v]
    BY <1>0, <1>3 DEF CreateStaff, StaffTypes
  <2>3. ActiveOwners \subseteq ActiveOwners'
    BY <2>1, <2>2 DEF ActiveOwners
  <2>4. ASSUME NEW d \in StaffRequests, staffReq[d] # Free
        PROVE  staffReq[d].user \in People \ {u}
    BY <1>0, <2>1, <2>4 DEF StaffTypes, StaffInv, RequestIsSound
  <2> QED BY <2>2, <2>3, <2>4 DEF ChecksHold
<1>4. CASE \E d \in StaffRequests : UpdateStaffWrite(d) \/ DeleteStaffWrite(d) \/ GrantWrite(d)
  BY <1>1, <1>4 DEF UpdateStaffWrite, DeleteStaffWrite, GrantWrite
<1> QED BY <1>2, <1>3, <1>4 DEF StaffStep

(* For any accounts, permissions and any number of overlapping requests:   *)
(* an active owner remains, and everybody may do what was asked for, as    *)
(* long as nobody changes between the checks of a request and its          *)
(* transaction what the checks were about.                                 *)
THEOREM AnOwnerRemainsWhileChecksHold ==
    StaffSpec /\ [][ChecksHold]_staffVars => []StaffHolds
<1>1. StaffInit => StaffInv
  BY StaffBegins
<1>2. StaffInv /\ [StaffStep]_staffVars /\ [ChecksHold]_staffVars => StaffInv'
  BY StaffKeeps
<1>3. StaffInv => StaffHolds
  BY DEF StaffInv, StaffHolds, GrantsAreAsAsked, RowsSay, Permissions
<1> QED BY <1>1, <1>2, <1>3, PTL DEF StaffSpec

(* ... without that condition for requests one at a time.                  *)
THEOREM AnOwnerRemains == ASSUME DeskInTurn PROVE StaffSpec => []StaffHolds
<1>1. StaffInit => StaffInv
  BY StaffBegins
<1>2. StaffInv /\ [StaffStep]_staffVars => StaffInv'
  BY StaffKeeps, DeskTurn
<1>3. StaffInv => StaffHolds
  BY DEF StaffInv, StaffHolds, GrantsAreAsAsked, RowsSay, Permissions
<1> QED BY <1>1, <1>2, <1>3, PTL DEF StaffSpec
=============================================================================
