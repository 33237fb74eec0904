---------------------------- MODULE AccessProofs ----------------------------
(***************************************************************************)
(* Proofs about Access, for any number of requests in flight, any lives of *)
(* the tokens, and servers with and without a key of their own.            *)
(***************************************************************************)
EXTENDS Access, TLAPS

(* Tokens and requests *)

LEMMA NullTypes == NoTokens \in Pair /\ NoFetch \in Fetch
BY DEF NoTokens, Pair, Fetch, NoFetch

\* A token just issued is one, and the pair is not the empty one.
LEMMA IssueTypes ==
    ASSUME TypeOK
    PROVE  /\ Issue \in Token /\ Issue # None /\ Issue.key = key
           /\ [access |-> Issue, refresh |-> Issue] \in Pair
           /\ [access |-> Issue, refresh |-> Issue] # NoTokens
<1>1. Issue \in Token /\ Issue.key = key
  BY DEF Issue, Token, TypeOK
<1>2. Issue \in [born : Nat, key : Nat]
  BY AccessAssumption, <1>1 DEF Token
<1>3. Issue # None
  BY <1>2, AccessAssumption
<1>4. QED
  BY <1>1, <1>3 DEF Pair, NoTokens

RequestsTyped == pc \in [Requests -> Where] /\ fetch \in [Requests -> Fetch]
Others(r) == \A q \in Requests \ {r} : pc'[q] = pc[q] /\ fetch'[q] = fetch[q]

LEMMA GoEffect ==
    ASSUME IInv, NEW r \in Requests, NEW from, NEW to \in Where, NEW f \in Fetch, Go(r, from, to, f)
    PROVE  pc[r] = from /\ pc'[r] = to /\ fetch'[r] = f /\ Others(r) /\ RequestsTyped'
BY DEF Go, IInv, TypeOK, FetchOK, Others, RequestsTyped

\* What a request is does not depend on the others.
LEMMA RanEffect ==
    ASSUME IInv, NEW r \in Requests, NEW n \in {0, 1}, ran' = [ran EXCEPT ![r] = n]
    PROVE  /\ ran'[r] = n /\ ran' \in [Requests -> 0..2]
           /\ \A q \in Requests \ {r} : ran'[q] = ran[q]
BY DEF IInv, TypeOK

-----------------------------------------------------------------------------
(* What each step of a request does, field by field *)

\* A request goes out, through request() or uploadFile().
LEMMA SendEffect ==
    ASSUME IInv, NEW r \in Requests, Send(r) \/ SendFile(r)
    PROVE  /\ pc[r] = "idle" /\ pc'[r] = "sent" /\ Others(r) /\ RequestsTyped'
           /\ fetch'[r].token = browser.access /\ fetch'[r].tokens = NoTokens
           /\ ran'[r] = 0 /\ ran' \in [Requests -> 0..2]
           /\ \A q \in Requests \ {r} : ran'[q] = ran[q]
           /\ UNCHANGED <<serverVars, browser, leaving, signedIn, hitch>>
<1>1. /\ [NoFetch EXCEPT !.token = browser.access] \in Fetch
      /\ [NoFetch EXCEPT !.token = browser.access, !.again = TRUE] \in Fetch
  <2>1. browser.access \in Token \cup {None}
    BY DEF IInv, TypeOK
  <2>2. QED
    BY <2>1, NullTypes DEF Fetch, NoFetch
<1>2. PICK f : /\ f \in {[NoFetch EXCEPT !.token = browser.access],
                         [NoFetch EXCEPT !.token = browser.access, !.again = TRUE]}
               /\ Go(r, "idle", "sent", f)
  BY DEF Send, SendFile
<1>3. f \in Fetch /\ f.token = browser.access /\ f.tokens = NoTokens
  BY <1>1, <1>2 DEF NoFetch
<1>4. ran' = [ran EXCEPT ![r] = 0]
  BY DEF Send, SendFile
<1>5. UNCHANGED <<serverVars, browser, leaving, signedIn, hitch>>
  BY DEF Send, SendFile
<1>6. pc[r] = "idle" /\ pc'[r] = "sent" /\ fetch'[r] = f /\ Others(r) /\ RequestsTyped'
  BY <1>2, <1>3, GoEffect DEF Where
<1>7. ran'[r] = 0 /\ ran' \in [Requests -> 0..2] /\ \A q \in Requests \ {r} : ran'[q] = ran[q]
  BY <1>4, RanEffect
<1>8. QED
  BY <1>3, <1>5, <1>6, <1>7

LEMMA AnswerEffect ==
    ASSUME IInv, NEW r \in Requests, Answer(r)
    PROVE  /\ pc[r] = "sent" /\ pc'[r] = "answered" /\ Others(r) /\ RequestsTyped'
           /\ fetch'[r].token = fetch[r].token /\ fetch'[r].tokens = fetch[r].tokens
           /\ ran'[r] = IF fetch'[r].status = "200" THEN 1 ELSE 0
           /\ ran' \in [Requests -> 0..2]
           /\ \A q \in Requests \ {r} : ran'[q] = ran[q]
           /\ UNCHANGED <<serverVars, browser, leaving, signedIn, hitch>>
<1>. DEFINE status == StatusOf(fetch[r].token)
<1>1. status \in {"200", "400", "401", "404"}
  BY DEF StatusOf
<1>. HIDE DEF status
<1>2. PICK f : f = [fetch[r] EXCEPT !.status = status]
  OBVIOUS
<1>3. fetch[r] \in Fetch
  BY DEF IInv, FetchOK
<1>4. f \in Fetch /\ f.token = fetch[r].token /\ f.tokens = fetch[r].tokens /\ f.status = status
  BY <1>1, <1>2, <1>3 DEF Fetch
<1>5. Go(r, "sent", "answered", f)
  BY <1>2 DEF Answer, status
<1>6. pc[r] = "sent" /\ ran[r] = 0
  BY <1>4, <1>5, GoEffect DEF IInv, NotRunYet, Where
<1>7. ran' = [ran EXCEPT ![r] = IF status = "200" THEN 1 ELSE 0]
  BY <1>6 DEF Answer, status, IInv, TypeOK
<1>8. UNCHANGED <<serverVars, browser, leaving, signedIn, hitch>>
  BY DEF Answer
<1>9. pc'[r] = "answered" /\ fetch'[r] = f /\ Others(r) /\ RequestsTyped'
  BY <1>4, <1>5, GoEffect DEF Where
<1>10. PICK n \in {0, 1} : n = IF status = "200" THEN 1 ELSE 0
  OBVIOUS
<1>11. ran'[r] = n /\ ran' \in [Requests -> 0..2] /\ \A q \in Requests \ {r} : ran'[q] = ran[q]
  BY <1>7, <1>10, RanEffect
<1>12. QED
  BY <1>4, <1>6, <1>8, <1>9, <1>10, <1>11

\* The end of request(), with or without an answer.
LEMMA EndEffect ==
    ASSUME IInv, NEW r \in Requests, Return(r) \/ GiveUp(r) \/ Lose(r)
    PROVE  /\ pc'[r] = "idle" /\ fetch'[r] = NoFetch /\ Others(r) /\ RequestsTyped'
           /\ ran'[r] \in {0, 1} /\ ran' \in [Requests -> 0..2]
           /\ \A q \in Requests \ {r} : ran'[q] = ran[q]
           /\ UNCHANGED <<serverVars, signedIn>>
           /\ GiveUp(r) => /\ pc[r] = "refreshed" /\ fetch[r].tokens = NoTokens
                           /\ browser' = NoTokens /\ leaving' = TRUE /\ hitch' = hitch
           /\ ~GiveUp(r) => browser' = browser /\ leaving' = leaving /\ hitch' \in {hitch, TRUE}
<1>1. ASSUME NEW from, Go(r, from, "idle", NoFetch)
      PROVE  pc[r] = from /\ pc'[r] = "idle" /\ fetch'[r] = NoFetch /\ Others(r) /\ RequestsTyped'
  BY <1>1, GoEffect, NullTypes DEF Where
<1>2. ASSUME NEW n \in {0, 1}, ran' = [ran EXCEPT ![r] = n]
      PROVE  /\ ran'[r] \in {0, 1} /\ ran' \in [Requests -> 0..2]
             /\ \A q \in Requests \ {r} : ran'[q] = ran[q]
  BY <1>2, RanEffect
<1>3. CASE Return(r)
  <2>1. Go(r, "answered", "idle", NoFetch) /\ ran' = [ran EXCEPT ![r] = 0]
    BY <1>3 DEF Return
  <2>2. ~GiveUp(r)
    BY <2>1 DEF GiveUp, Go
  <2>3. UNCHANGED <<serverVars, browser, leaving, signedIn, hitch>>
    BY <1>3 DEF Return
  <2>4. QED
    BY <1>1, <1>2, <2>1, <2>2, <2>3
<1>4. CASE GiveUp(r)
  <2>1. Go(r, "refreshed", "idle", NoFetch) /\ ran' = [ran EXCEPT ![r] = 0]
    BY <1>4 DEF GiveUp
  <2>2. /\ fetch[r].tokens = NoTokens /\ browser' = NoTokens /\ leaving' = TRUE
        /\ UNCHANGED <<serverVars, signedIn, hitch>>
    BY <1>4 DEF GiveUp
  <2>3. QED
    BY <1>1, <1>2, <1>4, <2>1, <2>2
<1>5. CASE Lose(r)
  <2>1. Go(r, "sent", "idle", NoFetch)
    BY <1>5 DEF Lose
  <2>2. ran[r] = 0
    BY <1>1, <2>1 DEF IInv, NotRunYet
  <2>3. ~GiveUp(r)
    BY <2>1 DEF GiveUp, Go
  <2>4. PICK n \in {0, 1} : n = IF StatusOf(fetch[r].token) = "200" THEN 1 ELSE 0
    OBVIOUS
  <2>5. ran' = [ran EXCEPT ![r] = n]
    BY <1>5, <2>2, <2>4 DEF Lose, IInv, TypeOK
  <2>6. UNCHANGED <<serverVars, browser, leaving, signedIn>> /\ hitch' = TRUE
    BY <1>5 DEF Lose
  <2>7. QED
    BY <1>1, <1>2, <2>1, <2>3, <2>5, <2>6
<1>6. QED
  BY <1>3, <1>4, <1>5

LEMMA RefreshEffect ==
    ASSUME IInv, NEW r \in Requests, Refresh(r)
    PROVE  /\ pc[r] = "answered" /\ pc'[r] = "refreshing" /\ Others(r) /\ RequestsTyped'
           /\ fetch'[r].token = browser.refresh /\ browser.refresh # None
           /\ fetch'[r].tokens = fetch[r].tokens /\ ran[r] = 0
           /\ UNCHANGED <<serverVars, browser, leaving, signedIn, hitch, ran>>
<1>1. PICK f : f = [fetch[r] EXCEPT !.token = browser.refresh]
  OBVIOUS
<1>2. fetch[r] \in Fetch /\ browser.refresh \in Token \cup {None}
  BY DEF IInv, FetchOK, TypeOK
<1>3. f \in Fetch /\ f.token = browser.refresh /\ f.tokens = fetch[r].tokens
  BY <1>1, <1>2 DEF Fetch
<1>4. Go(r, "answered", "refreshing", f)
  BY <1>1 DEF Refresh
<1>5. browser.refresh # None /\ fetch[r].status = "401"
  BY DEF Refresh, MayRefresh
<1>6. UNCHANGED <<serverVars, browser, leaving, signedIn, hitch, ran>>
  BY DEF Refresh
<1>7. pc[r] = "answered" /\ pc'[r] = "refreshing" /\ fetch'[r] = f /\ Others(r) /\ RequestsTyped'
  BY <1>3, <1>4, GoEffect DEF Where
<1>8. ran[r] = 0
  BY <1>5, <1>7 DEF IInv, NotRunYet
<1>9. QED
  BY <1>3, <1>5, <1>6, <1>7, <1>8

LEMMA AnswerRefreshEffect ==
    ASSUME IInv, NEW r \in Requests, AnswerRefresh(r)
    PROVE  /\ pc[r] = "refreshing" /\ pc'[r] = "refreshed" /\ Others(r) /\ RequestsTyped'
           /\ fetch'[r].token = fetch[r].token
           /\ fetch'[r].tokens = IF Good(fetch[r].token, RefreshLife) /\ active
                                   THEN [access |-> Issue, refresh |-> Issue] ELSE NoTokens
           /\ UNCHANGED <<serverVars, browser, leaving, signedIn, hitch, ran>>
<1>. DEFINE tokens == IF Good(fetch[r].token, RefreshLife) /\ active
                        THEN [access |-> Issue, refresh |-> Issue] ELSE NoTokens
<1>1. tokens \in Pair
  BY NullTypes, IssueTypes DEF IInv
<1>2. Go(r, "refreshing", "refreshed", [fetch[r] EXCEPT !.tokens = tokens])
  BY DEF AnswerRefresh
<1>3. UNCHANGED <<serverVars, browser, leaving, signedIn, hitch, ran>>
  BY DEF AnswerRefresh
<1>4. fetch'[r].tokens = tokens /\ fetch'[r].token = fetch[r].token /\ pc[r] = "refreshing"
      /\ pc'[r] = "refreshed" /\ Others(r) /\ RequestsTyped'
  <2>. HIDE DEF tokens
  <2>1. PICK f : f = [fetch[r] EXCEPT !.tokens = tokens]
    OBVIOUS
  <2>2. fetch[r] \in Fetch
    BY DEF IInv, FetchOK
  <2>3. f \in Fetch /\ f.tokens = tokens /\ f.token = fetch[r].token
    BY <1>1, <2>1, <2>2 DEF Fetch
  <2>4. Go(r, "refreshing", "refreshed", f)
    BY <1>2, <2>1
  <2>5. QED
    BY <2>3, <2>4, GoEffect DEF Where
<1>5. QED
  BY <1>3, <1>4

LEMMA LoseRefreshEffect ==
    ASSUME IInv, NEW r \in Requests, LoseRefresh(r)
    PROVE  /\ pc[r] = "refreshing" /\ pc'[r] = "refreshed" /\ Others(r) /\ RequestsTyped'
           /\ fetch'[r].token = fetch[r].token /\ hitch' = TRUE
           /\ UNCHANGED <<serverVars, browser, leaving, signedIn, ran>>
<1>1. PICK f : f = [fetch[r] EXCEPT !.tokens = NoTokens]
  OBVIOUS
<1>2. f \in Fetch /\ f.token = fetch[r].token
  BY <1>1, NullTypes DEF Fetch, IInv, FetchOK
<1>3. Go(r, "refreshing", "refreshed", f)
  BY <1>1 DEF LoseRefresh
<1>4. QED
  BY <1>2, <1>3, GoEffect DEF Where, LoseRefresh

LEMMA ResendEffect ==
    ASSUME IInv, NEW r \in Requests, Resend(r)
    PROVE  /\ pc[r] = "refreshed" /\ pc'[r] = "sent" /\ Others(r) /\ RequestsTyped'
           /\ fetch[r].tokens # NoTokens /\ fetch[r].tokens \in Pair
           /\ browser' = fetch[r].tokens
           /\ fetch'[r].token = fetch[r].tokens.access /\ fetch'[r].tokens = NoTokens
           /\ UNCHANGED <<serverVars, leaving, signedIn, hitch, ran>>
<1>1. PICK f : f = [NoFetch EXCEPT !.token = fetch[r].tokens.access, !.again = TRUE]
  OBVIOUS
<1>2. fetch[r].tokens \in Pair
  BY DEF IInv, FetchOK, Fetch
<1>3. f \in Fetch /\ f.token = fetch[r].tokens.access /\ f.tokens = NoTokens
  <2>1. fetch[r].tokens.access \in Token \cup {None}
    BY <1>2 DEF Pair, NoTokens
  <2>2. QED
    BY <1>1, <2>1, NullTypes DEF Fetch, NoFetch
<1>4. Go(r, "refreshed", "sent", f)
  BY <1>1 DEF Resend
<1>5. fetch[r].tokens # NoTokens /\ browser' = fetch[r].tokens
      /\ UNCHANGED <<serverVars, leaving, signedIn, hitch, ran>>
  BY DEF Resend
<1>6. pc[r] = "refreshed" /\ pc'[r] = "sent" /\ fetch'[r] = f /\ Others(r) /\ RequestsTyped'
  BY <1>3, <1>4, GoEffect DEF Where
<1>7. QED
  BY <1>2, <1>3, <1>5, <1>6

LEMMA PairTypes ==
    /\ Pair \subseteq [access : Token \cup {None}, refresh : Token \cup {None}]
    /\ \A p \in Pair \ {NoTokens} : p.access # None
<1>1. None \notin Token
  BY AccessAssumption DEF Token
<1>2. QED
  BY <1>1 DEF Pair, NoTokens

\* While nothing went wrong, a refresh is granted or its token has expired.
LEMMA GrantedOrExpired ==
    ASSUME IInv, ~hitch, NEW r \in Requests, pc[r] = "refreshing"
    PROVE  (Good(fetch[r].token, RefreshLife) /\ active) \/ Expired(fetch[r].token)
<1>1. fetch[r].token \in Token /\ fetch[r].token # None /\ fetch[r].token.key = 0
  BY DEF IInv, FetchOK, Fetch, NoHitch, Signed
<1>2. fetch[r].token.born \in Nat /\ clock \in Nat /\ RefreshLife \in Nat
  BY <1>1, AccessAssumption DEF Token, IInv, TypeOK
<1>3. QED
  BY <1>1, <1>2 DEF Good, Expired, IInv, NoHitch

-----------------------------------------------------------------------------
(* Each part of the invariant *)

LEMMA TypeStays ==
    ASSUME IInv, [Next]_vars
    PROVE  TypeOK'
<1>. USE AccessAssumption DEF IInv, TypeOK, RequestsTyped
<1>1. ASSUME NEW r \in Requests, Send(r) \/ SendFile(r) PROVE TypeOK'
  BY <1>1, SendEffect DEF Others, serverVars
<1>2. ASSUME NEW r \in Requests, Answer(r) PROVE TypeOK'
  BY <1>2, AnswerEffect DEF Others, serverVars
<1>3. ASSUME NEW r \in Requests, Return(r) PROVE TypeOK'
  BY <1>3, EndEffect DEF Others, GiveUp, Return, Go, serverVars
<1>4. ASSUME NEW r \in Requests, GiveUp(r) PROVE TypeOK'
  BY <1>4, EndEffect, NullTypes, PairTypes DEF Others, serverVars
<1>5. ASSUME NEW r \in Requests, Lose(r) PROVE TypeOK'
  BY <1>5, EndEffect DEF Others, GiveUp, Lose, Go, serverVars
<1>6. ASSUME NEW r \in Requests, Refresh(r) PROVE TypeOK'
  BY <1>6, RefreshEffect DEF Others, serverVars
<1>7. ASSUME NEW r \in Requests, AnswerRefresh(r) PROVE TypeOK'
  BY <1>7, AnswerRefreshEffect DEF Others, serverVars
<1>8. ASSUME NEW r \in Requests, LoseRefresh(r) PROVE TypeOK'
  BY <1>8, LoseRefreshEffect DEF Others, serverVars
<1>9. ASSUME NEW r \in Requests, Resend(r) PROVE TypeOK'
  BY <1>9, ResendEffect, PairTypes DEF Others, serverVars
<1>10. CASE Tick
  BY <1>10 DEF Tick, serverVars, clientVars
<1>11. CASE Restart
  BY <1>11 DEF Restart, serverVars, clientVars
<1>12. CASE UpdateUser
  BY <1>12 DEF UpdateUser, serverVars, clientVars
<1>13. CASE Unload
  <2>1. signedIn' \in BOOLEAN /\ leaving' = FALSE /\ hitch' = hitch
    BY <1>13 DEF Unload
  <2>2. {leaving, signedIn, hitch}' \subseteq BOOLEAN
    BY <2>1
  <2>3. pc' \in [Requests -> Where] /\ ran' \in [Requests -> 0..2]
    BY <1>13 DEF Unload, Where
  <2>4. UNCHANGED <<serverVars, browser>>
    BY <1>13 DEF Unload
  <2>5. QED
    BY <2>2, <2>3, <2>4 DEF serverVars
<1>14. CASE SignOut
  BY <1>14, NullTypes, IssueTypes, PairTypes DEF SignOut, serverVars, clientVars, Where
<1>15. CASE SignIn
  BY <1>15, NullTypes, IssueTypes, PairTypes DEF SignIn, serverVars, clientVars, Where
<1>16. ASSUME NEW enabled \in BOOLEAN, SetModule(enabled) PROVE TypeOK'
  BY <1>16 DEF SetModule, serverVars, clientVars
<1>17. CASE UNCHANGED vars
  BY <1>17 DEF vars, serverVars, clientVars
<1>18. QED
  BY <1>1, <1>2, <1>3, <1>4, <1>5, <1>6, <1>7, <1>8, <1>9, <1>10, <1>11, <1>12, <1>13, <1>14, <1>15, <1>16, <1>17 DEF Next, Step

LEMMA FetchStays ==
    ASSUME IInv, [Next]_vars
    PROVE  FetchOK'
<1>. USE AccessAssumption DEF IInv, FetchOK, TypeOK, RequestsTyped
<1>1. ASSUME NEW r \in Requests, Send(r) \/ SendFile(r) PROVE FetchOK'
  BY <1>1, SendEffect DEF Others, serverVars
<1>2. ASSUME NEW r \in Requests, Answer(r) PROVE FetchOK'
  BY <1>2, AnswerEffect DEF Others, serverVars
<1>3. ASSUME NEW r \in Requests, Return(r) PROVE FetchOK'
  BY <1>3, EndEffect DEF Others, GiveUp, Return, Go, serverVars
<1>4. ASSUME NEW r \in Requests, GiveUp(r) PROVE FetchOK'
  BY <1>4, EndEffect, NullTypes DEF Others, serverVars
<1>5. ASSUME NEW r \in Requests, Lose(r) PROVE FetchOK'
  BY <1>5, EndEffect DEF Others, GiveUp, Lose, Go, serverVars
<1>6. ASSUME NEW r \in Requests, Refresh(r) PROVE FetchOK'
  BY <1>6, RefreshEffect DEF Others, serverVars
<1>7. ASSUME NEW r \in Requests, AnswerRefresh(r) PROVE FetchOK'
  BY <1>7, AnswerRefreshEffect DEF Others, serverVars
<1>8. ASSUME NEW r \in Requests, LoseRefresh(r) PROVE FetchOK'
  BY <1>8, LoseRefreshEffect DEF Others, serverVars
<1>9. ASSUME NEW r \in Requests, Resend(r) PROVE FetchOK'
  BY <1>9, ResendEffect DEF Others, serverVars
<1>10. CASE Tick
  BY <1>10 DEF Tick, serverVars, clientVars
<1>11. CASE Restart
  BY <1>11 DEF Restart, serverVars, clientVars
<1>12. CASE UpdateUser
  BY <1>12 DEF UpdateUser, serverVars, clientVars
<1>13. CASE Unload
  BY <1>13, NullTypes, IssueTypes DEF Unload, serverVars, clientVars
<1>14. CASE SignOut
  BY <1>14, NullTypes, IssueTypes DEF SignOut, serverVars, clientVars
<1>15. CASE SignIn
  BY <1>15, NullTypes, IssueTypes DEF SignIn, serverVars, clientVars
<1>16. ASSUME NEW enabled \in BOOLEAN, SetModule(enabled) PROVE FetchOK'
  BY <1>16 DEF SetModule, serverVars, clientVars
<1>17. CASE UNCHANGED vars
  BY <1>17 DEF vars, serverVars, clientVars
<1>18. QED
  BY <1>1, <1>2, <1>3, <1>4, <1>5, <1>6, <1>7, <1>8, <1>9, <1>10, <1>11, <1>12, <1>13, <1>14, <1>15, <1>16, <1>17 DEF Next, Step

LEMMA NotRunStays ==
    ASSUME IInv, [Next]_vars
    PROVE  (RanOnce /\ NotRunYet)'
<1>. USE AccessAssumption DEF IInv, RanOnce, NotRunYet, TypeOK
<1>1. ASSUME NEW r \in Requests, Send(r) \/ SendFile(r) PROVE (RanOnce /\ NotRunYet)'
  BY <1>1, SendEffect DEF Others, serverVars
<1>2. ASSUME NEW r \in Requests, Answer(r) PROVE (RanOnce /\ NotRunYet)'
  BY <1>2, AnswerEffect DEF Others, serverVars
<1>3. ASSUME NEW r \in Requests, Return(r) PROVE (RanOnce /\ NotRunYet)'
  BY <1>3, EndEffect DEF Others, GiveUp, Return, Go, serverVars
<1>4. ASSUME NEW r \in Requests, GiveUp(r) PROVE (RanOnce /\ NotRunYet)'
  <2>1. /\ pc'[r] = "idle" /\ ran'[r] \in {0, 1} /\ Others(r)
        /\ \A q \in Requests \ {r} : ran'[q] = ran[q]
    BY <1>4, EndEffect
  <2>2. QED
    BY <2>1 DEF Others
<1>5. ASSUME NEW r \in Requests, Lose(r) PROVE (RanOnce /\ NotRunYet)'
  BY <1>5, EndEffect DEF Others, GiveUp, Lose, Go, serverVars
<1>6. ASSUME NEW r \in Requests, Refresh(r) PROVE (RanOnce /\ NotRunYet)'
  BY <1>6, RefreshEffect DEF Others, serverVars
<1>7. ASSUME NEW r \in Requests, AnswerRefresh(r) PROVE (RanOnce /\ NotRunYet)'
  BY <1>7, AnswerRefreshEffect DEF Others, serverVars
<1>8. ASSUME NEW r \in Requests, LoseRefresh(r) PROVE (RanOnce /\ NotRunYet)'
  BY <1>8, LoseRefreshEffect DEF Others, serverVars
<1>9. ASSUME NEW r \in Requests, Resend(r) PROVE (RanOnce /\ NotRunYet)'
  BY <1>9, ResendEffect DEF Others, serverVars
<1>10. CASE Tick
  BY <1>10 DEF Tick, serverVars, clientVars
<1>11. CASE Restart
  BY <1>11 DEF Restart, serverVars, clientVars
<1>12. CASE UpdateUser
  BY <1>12 DEF UpdateUser, serverVars, clientVars
<1>13. CASE Unload
  BY <1>13 DEF Unload, serverVars, clientVars
<1>14. CASE SignOut
  BY <1>14 DEF SignOut, serverVars, clientVars
<1>15. CASE SignIn
  BY <1>15 DEF SignIn, serverVars, clientVars
<1>16. ASSUME NEW enabled \in BOOLEAN, SetModule(enabled) PROVE (RanOnce /\ NotRunYet)'
  BY <1>16 DEF SetModule, serverVars, clientVars
<1>17. CASE UNCHANGED vars
  BY <1>17 DEF vars, serverVars, clientVars
<1>18. QED
  BY <1>1, <1>2, <1>3, <1>4, <1>5, <1>6, <1>7, <1>8, <1>9, <1>10, <1>11, <1>12, <1>13, <1>14, <1>15, <1>16, <1>17 DEF Next, Step

LEMMA HitchStays ==
    ASSUME IInv, [Next]_vars
    PROVE  NoHitch'
<1>. USE AccessAssumption DEF IInv, NoHitch, Signed
<1>1. ASSUME NEW r \in Requests, Send(r) \/ SendFile(r) PROVE NoHitch'
  BY <1>1, SendEffect DEF Others, serverVars, NoTokens
<1>2. ASSUME NEW r \in Requests, Answer(r) PROVE NoHitch'
  BY <1>2, AnswerEffect DEF Others, serverVars
<1>3. ASSUME NEW r \in Requests, Return(r) PROVE NoHitch'
  <2>1. /\ fetch'[r] = NoFetch /\ Others(r) /\ UNCHANGED <<active, key>>
        /\ browser' \in {browser, NoTokens} /\ hitch' \in {hitch, TRUE}
    BY <1>3, EndEffect DEF serverVars, Return, GiveUp, Go
  <2>2. /\ fetch'[r].token = None /\ fetch'[r].tokens.access = None
        /\ fetch'[r].tokens.refresh = None
    BY <2>1 DEF NoFetch, NoTokens
  <2>3. /\ browser'.access \in {browser.access, None}
        /\ browser'.refresh \in {browser.refresh, None}
    BY <2>1 DEF NoTokens
  <2>4. ~hitch' => ~hitch
    BY <2>1
  <2>5. UNCHANGED <<active, key>> /\ \A q \in Requests \ {r} : fetch'[q] = fetch[q]
    BY <2>1 DEF Others
  <2>6. QED
    BY <2>2, <2>3, <2>4, <2>5
<1>4. ASSUME NEW r \in Requests, GiveUp(r) PROVE NoHitch'
  <2>1. /\ fetch'[r] = NoFetch /\ Others(r) /\ UNCHANGED <<active, key>>
        /\ browser' \in {browser, NoTokens} /\ hitch' \in {hitch, TRUE}
    BY <1>4, EndEffect DEF serverVars
  <2>2. /\ fetch'[r].token = None /\ fetch'[r].tokens.access = None
        /\ fetch'[r].tokens.refresh = None
    BY <2>1 DEF NoFetch, NoTokens
  <2>3. /\ browser'.access \in {browser.access, None}
        /\ browser'.refresh \in {browser.refresh, None}
    BY <2>1 DEF NoTokens
  <2>4. ~hitch' => ~hitch
    BY <2>1
  <2>5. UNCHANGED <<active, key>> /\ \A q \in Requests \ {r} : fetch'[q] = fetch[q]
    BY <2>1 DEF Others
  <2>6. QED
    BY <2>2, <2>3, <2>4, <2>5
<1>5. ASSUME NEW r \in Requests, Lose(r) PROVE NoHitch'
  BY <1>5, EndEffect DEF Others, GiveUp, Lose, Go, serverVars
<1>6. ASSUME NEW r \in Requests, Refresh(r) PROVE NoHitch'
  BY <1>6, RefreshEffect DEF Others, serverVars
<1>7. ASSUME NEW r \in Requests, AnswerRefresh(r) PROVE NoHitch'
  <2>1. fetch'[r].tokens \in {[access |-> Issue, refresh |-> Issue], NoTokens}
    BY <1>7, AnswerRefreshEffect
  <2>2. ~hitch => Signed(fetch'[r].tokens.access) /\ Signed(fetch'[r].tokens.refresh)
    BY <2>1, IssueTypes DEF NoTokens
  <2>3. QED
    BY <1>7, <2>2, AnswerRefreshEffect DEF Others, serverVars
<1>8. ASSUME NEW r \in Requests, LoseRefresh(r) PROVE NoHitch'
  BY <1>8, LoseRefreshEffect DEF Others, serverVars
<1>9. ASSUME NEW r \in Requests, Resend(r) PROVE NoHitch'
  BY <1>9, ResendEffect DEF Others, serverVars, NoTokens
<1>10. CASE Tick
  BY <1>10 DEF Tick, serverVars, clientVars
<1>11. CASE Restart
  BY <1>11 DEF Restart, serverVars, clientVars
<1>12. CASE UpdateUser
  BY <1>12 DEF UpdateUser, serverVars, clientVars
<1>13. CASE Unload
  BY <1>13 DEF Unload, serverVars, NoFetch, NoTokens
<1>14. CASE SignOut
  BY <1>14 DEF SignOut, serverVars, NoTokens
<1>15. CASE SignIn
  BY <1>15, IssueTypes DEF SignIn, serverVars
<1>16. ASSUME NEW enabled \in BOOLEAN, SetModule(enabled) PROVE NoHitch'
  BY <1>16 DEF SetModule, serverVars, clientVars
<1>17. CASE UNCHANGED vars
  BY <1>17 DEF vars, serverVars, clientVars
<1>18. QED
  BY <1>1, <1>2, <1>3, <1>4, <1>5, <1>6, <1>7, <1>8, <1>9, <1>10, <1>11, <1>12, <1>13, <1>14, <1>15, <1>16, <1>17 DEF Next, Step

LEMMA RefusedStays ==
    ASSUME IInv, [Next]_vars
    PROVE  RefusedByExpiry'
<1>. USE AccessAssumption DEF IInv, RefusedByExpiry, Expired
<1>1. ASSUME NEW r \in Requests, Send(r) \/ SendFile(r) PROVE RefusedByExpiry'
  BY <1>1, SendEffect DEF Others, serverVars
<1>2. ASSUME NEW r \in Requests, Answer(r) PROVE RefusedByExpiry'
  BY <1>2, AnswerEffect DEF Others, serverVars
<1>3. ASSUME NEW r \in Requests, Return(r) PROVE RefusedByExpiry'
  BY <1>3, EndEffect DEF Others, GiveUp, Return, Go, serverVars
<1>4. ASSUME NEW r \in Requests, GiveUp(r) PROVE RefusedByExpiry'
  BY <1>4, EndEffect DEF Others, serverVars
<1>5. ASSUME NEW r \in Requests, Lose(r) PROVE RefusedByExpiry'
  BY <1>5, EndEffect DEF Others, GiveUp, Lose, Go, serverVars
<1>6. ASSUME NEW r \in Requests, Refresh(r) PROVE RefusedByExpiry'
  BY <1>6, RefreshEffect DEF Others, serverVars
<1>7. ASSUME NEW r \in Requests, AnswerRefresh(r) PROVE RefusedByExpiry'
  <2>1. /\ pc[r] = "refreshing" /\ Others(r) /\ fetch'[r].token = fetch[r].token
        /\ UNCHANGED <<clock, hitch>>
        /\ fetch'[r].tokens = NoTokens => ~(Good(fetch[r].token, RefreshLife) /\ active)
    BY <1>7, AnswerRefreshEffect, IssueTypes DEF serverVars
  <2>2. ~hitch /\ fetch'[r].tokens = NoTokens => Expired(fetch[r].token)
    BY <2>1, GrantedOrExpired
  <2>3. QED
    BY <2>1, <2>2 DEF Others
<1>8. ASSUME NEW r \in Requests, LoseRefresh(r) PROVE RefusedByExpiry'
  BY <1>8, LoseRefreshEffect DEF Others, serverVars
<1>9. ASSUME NEW r \in Requests, Resend(r) PROVE RefusedByExpiry'
  BY <1>9, ResendEffect DEF Others, serverVars
<1>10. CASE Tick
  <2>1. /\ clock \in Nat /\ clock' = clock + 1
        /\ UNCHANGED <<pc, fetch, hitch>>
    BY <1>10 DEF Tick, clientVars, TypeOK
  <2>2. ASSUME NEW r \in Requests, Expired(fetch[r].token)
        PROVE  Expired(fetch[r].token)'
    <3>1. fetch[r].token \in Token
      BY <2>2 DEF FetchOK, Fetch
    <3>2. fetch[r].token.born \in Nat
      BY <3>1 DEF Token
    <3>3. QED
      BY <2>1, <2>2, <3>2
  <2>3. QED
    BY <2>1, <2>2
<1>11. CASE Restart
  BY <1>11 DEF Restart, serverVars, clientVars
<1>12. CASE UpdateUser
  BY <1>12 DEF UpdateUser, serverVars, clientVars
<1>13. CASE Unload
  BY <1>13 DEF Unload, serverVars, clientVars
<1>14. CASE SignOut
  BY <1>14 DEF SignOut, serverVars, clientVars
<1>15. CASE SignIn
  BY <1>15 DEF SignIn, serverVars, clientVars
<1>16. ASSUME NEW enabled \in BOOLEAN, SetModule(enabled) PROVE RefusedByExpiry'
  BY <1>16 DEF SetModule, serverVars, clientVars
<1>17. CASE UNCHANGED vars
  BY <1>17 DEF vars, serverVars, clientVars
<1>18. QED
  BY <1>1, <1>2, <1>3, <1>4, <1>5, <1>6, <1>7, <1>8, <1>9, <1>10, <1>11, <1>12, <1>13, <1>14, <1>15, <1>16, <1>17 DEF Next, Step

\* What takes the tokens away: signing out, or a refresh that was refused.
LEMMA LostIsExpired ==
    ASSUME IInv, [Next]_vars, ~hitch, browser # NoTokens, browser' = NoTokens,
           signedIn' = signedIn
    PROVE  \E r \in Requests : /\ pc[r] = "refreshed" /\ pc'[r] = "idle"
                               /\ Expired(fetch[r].token)
<1>1. ASSUME NEW r \in Requests, GiveUp(r)
      PROVE  pc[r] = "refreshed" /\ pc'[r] = "idle" /\ Expired(fetch[r].token)
  BY <1>1, EndEffect DEF IInv, RefusedByExpiry
<1>2. ASSUME NEW r \in Requests, Resend(r) PROVE FALSE
  BY <1>2, ResendEffect
<1>3. ~SignOut /\ ~SignIn
  <2>1. signedIn' = signedIn
    OBVIOUS
  <2>2. QED
    BY <2>1 DEF SignOut, SignIn
<1>4. ~UNCHANGED browser
  OBVIOUS
<1>5. ~Tick /\ ~Restart /\ ~UpdateUser /\ ~Unload /\ ~UNCHANGED vars
      /\ \A enabled \in BOOLEAN : ~SetModule(enabled)
  BY <1>4 DEF Tick, Restart, UpdateUser, Unload, SetModule, vars, clientVars
<1>6. \A r \in Requests : /\ ~Send(r) /\ ~SendFile(r) /\ ~Answer(r) /\ ~Lose(r) /\ ~Refresh(r)
                          /\ ~Return(r) /\ ~AnswerRefresh(r) /\ ~LoseRefresh(r)
  BY <1>4 DEF Send, SendFile, Answer, Lose, Refresh, Return, AnswerRefresh, LoseRefresh
<1>7. QED
  BY <1>1, <1>2, <1>3, <1>5, <1>6 DEF Next, Step

-----------------------------------------------------------------------------
(* The theorems *)

LEMMA Initially == Init => IInv
<1>. SUFFICES ASSUME Init PROVE IInv
  OBVIOUS
<1>. USE DEF Init
<1>1. Issue \in Token /\ Issue # None /\ Issue.key = 0
  <2>1. Issue \in Token /\ Issue \in [born : Nat, key : Nat] /\ Issue.key = 0
    BY AccessAssumption DEF Issue, Token
  <2>2. QED
    BY <2>1, AccessAssumption
<1>2. TypeOK
  <2>1. /\ clock \in 0..MaxClock /\ key \in 0..MaxRestarts /\ restarts \in 0..MaxRestarts
        /\ ran \in [Requests -> 0..2]
    BY AccessAssumption
  <2>2. browser \in [access : Token \cup {None}, refresh : Token \cup {None}]
    BY <1>1
  <2>3. pc \in [Requests -> Where]
    BY DEF Where
  <2>4. active \in BOOLEAN /\ setting \in BOOLEAN \cup {None} /\ {leaving, signedIn, hitch} \subseteq BOOLEAN
    OBVIOUS
  <2>5. QED
    BY <2>1, <2>2, <2>3, <2>4 DEF TypeOK
<1>3. FetchOK
  BY <1>1, NullTypes DEF FetchOK, Pair
<1>4. RanOnce /\ NotRunYet /\ RefusedByExpiry
  BY DEF RanOnce, NotRunYet, RefusedByExpiry
<1>5. NoHitch
  BY <1>1 DEF NoHitch, Signed, NoFetch, NoTokens
<1>6. QED
  BY <1>2, <1>3, <1>4, <1>5 DEF IInv

LEMMA Inductive ==
    ASSUME IInv, [Next]_vars
    PROVE  IInv'
BY TypeStays, FetchStays, NotRunStays, HitchStays, RefusedStays DEF IInv

\* The inductive invariant: where in request() a handler can have run, and that without a
\* hitch every token is signed with the one key and refused a refresh only once it has expired.
THEOREM Invariance == Spec => []IInv
<1>1. Init => IInv
  BY Initially
<1>2. IInv /\ [Next]_vars => IInv'
  BY Inductive
<1>3. Spec => Init /\ [][Next]_vars
  BY PTL DEF Spec
<1>4. QED
  BY <1>1, <1>2, <1>3, PTL

\* The clock, the keys and the tokens keep their types.
THEOREM TypeCorrect == Spec => []TypeOK
BY Invariance, PTL DEF IInv

\* request() repeats only what the server refused before a handler ran: nothing is
\* created or changed twice for one call, however many refresh at once.
THEOREM RunsOnce == Spec => []RanOnce
BY Invariance, PTL DEF IInv

\* Requests that refresh together do not refuse each other: unless the account is switched
\* off, the network fails or the server changes its key, the tab loses its tokens without
\* signing out only through a request whose own refresh token has expired.
THEOREM OnlyExpirySignsOut == Spec => LostByExpiry
<1>1. IInv /\ [Next]_vars =>
        [~hitch /\ browser # NoTokens /\ browser' = NoTokens /\ signedIn' = signedIn =>
           \E r \in Requests : /\ pc[r] = "refreshed" /\ pc'[r] = "idle"
                               /\ Expired(fetch[r].token)]_vars
  BY LostIsExpired
<1>2. QED
  BY <1>1, Invariance, PTL DEF Spec, LostByExpiry
=============================================================================
