------------------------------- MODULE Access -------------------------------
(***************************************************************************)
(* How a user's requests get to a module of the server.                    *)
(*                                                                         *)
(* The browser (frontend/src/api.ts) holds an access and a refresh token.  *)
(* A view sends several requests at once; each that is answered 401 asks   *)
(* for new tokens by itself and is sent once more.  The server (auth.py,   *)
(* security.py) keeps no sessions: a token is good while it is signed with *)
(* the key of the process and has not expired; who the user is is read     *)
(* from the database for each request.  A module's routes are there only   *)
(* if it is switched on for the tenant (module_registry.py), which         *)
(* administrators change meanwhile (module_routes.py).                     *)
(*                                                                         *)
(* One user, one tab, one module and the tenant of the user.               *)
(***************************************************************************)
EXTENDS Naturals

CONSTANTS
    Requests,     \* what the tab can have in flight
    Default,      \* manifest.default_enabled
    AccessLife, RefreshLife,  \* of tokens, in ticks of the clock
    StableKey,    \* SECRET_KEY is set; otherwise each process makes one
    MaxClock,     \* bound on the time
    MaxRestarts,  \* bound on restarts of the server
    None

ASSUME AccessAssumption ==
    /\ Default \in BOOLEAN /\ StableKey \in BOOLEAN
    /\ AccessLife \in Nat /\ RefreshLife \in Nat /\ AccessLife < RefreshLife
    /\ MaxClock \in Nat /\ MaxRestarts \in Nat
    /\ None \notin BOOLEAN \cup [born : Nat, key : Nat]

VARIABLES
    clock, key, restarts,
    active,    \* users.is_active
    setting,   \* tenant_modules.enabled, or None without a row
    browser,   \* the tokens of the tab
    leaving,   \* the tab is on its way to /login
    pc, fetch, \* per request: where request() is, and what it has sent and got
    signedIn,  \* the views are shown, not the form to sign in
    hitch, ran \* observed: see LostByExpiry and RanOnce

serverVars == <<clock, key, restarts, active, setting>>
clientVars == <<browser, leaving, pc, fetch, signedIn>>
vars == <<serverVars, clientVars, hitch, ran>>

-----------------------------------------------------------------------------
(* Tokens *)

\* jwt.encode: what is signed besides the user and the kind.
Token == [born : 0..MaxClock, key : 0..MaxRestarts]
Issue == [born |-> clock, key |-> key]

\* jwt.decode: signed with this key and not expired.
Good(token, life) == token # None /\ token.key = key /\ clock - token.born < life

Expired(token) == token # None /\ clock - token.born >= RefreshLife

NoTokens == [access |-> None, refresh |-> None]

-----------------------------------------------------------------------------
(* State *)

Where == {"idle", "sent", "answered", "refreshing", "refreshed"}
NoFetch == [token |-> None, again |-> FALSE, status |-> None, tokens |-> NoTokens]

TypeOK ==
    /\ clock \in 0..MaxClock /\ key \in 0..MaxRestarts /\ restarts \in 0..MaxRestarts
    /\ active \in BOOLEAN /\ setting \in BOOLEAN \cup {None}
    /\ browser \in [access : Token \cup {None}, refresh : Token \cup {None}]
    /\ pc \in [Requests -> Where]
    /\ {leaving, signedIn, hitch} \subseteq BOOLEAN /\ ran \in [Requests -> 0..2]

\* The user has just signed in.
Init ==
    /\ clock = 0 /\ key = 0 /\ restarts = 0
    /\ active = TRUE /\ setting = None
    /\ browser = [access |-> Issue, refresh |-> Issue]
    /\ leaving = FALSE
    /\ pc = [r \in Requests |-> "idle"] /\ fetch = [r \in Requests |-> NoFetch]
    /\ signedIn = TRUE /\ hitch = FALSE
    /\ ran = [r \in Requests |-> 0]

-----------------------------------------------------------------------------
(* Time, and the server's process *)

Tick ==
    /\ clock < MaxClock /\ clock' = clock + 1
    /\ UNCHANGED <<key, restarts, active, setting, clientVars, hitch, ran>>

\* The server is restarted; without SECRET_KEY the new process has a key of its own.
Restart ==
    /\ restarts < MaxRestarts /\ restarts' = restarts + 1
    /\ key' = IF StableKey THEN key ELSE restarts + 1
    /\ hitch' = (hitch \/ ~StableKey)
    /\ UNCHANGED <<clock, active, setting, clientVars, ran>>

-----------------------------------------------------------------------------
(* Administration *)

\* PATCH /auth/users/{id}
UpdateUser ==
    /\ active' = ~active /\ hitch' = TRUE
    /\ UNCHANGED <<clock, key, restarts, setting, clientVars, ran>>

\* PUT /modules/{name}.  Administrators change one setting one after the other.
SetModule(enabled) ==
    /\ setting' = enabled
    /\ UNCHANGED <<clock, key, restarts, active, clientVars, hitch, ran>>

\* is_module_enabled, for a user who is no administrator.
Enabled == IF setting = None THEN Default ELSE setting

-----------------------------------------------------------------------------
(* Requests *)

Go(r, from, to, f) ==
    /\ pc[r] = from
    /\ pc' = [pc EXCEPT ![r] = to]
    /\ fetch' = [fetch EXCEPT ![r] = f]

\* A view calls request().
Send(r) ==
    /\ signedIn
    /\ Go(r, "idle", "sent", [NoFetch EXCEPT !.token = browser.access])
    /\ ran' = [ran EXCEPT ![r] = 0]
    /\ UNCHANGED <<serverVars, browser, leaving, signedIn, hitch>>

\* uploadFile() does without request(): whatever the answer, it is sent once.
SendFile(r) ==
    /\ signedIn
    /\ Go(r, "idle", "sent", [NoFetch EXCEPT !.token = browser.access, !.again = TRUE])
    /\ ran' = [ran EXCEPT ![r] = 0]
    /\ UNCHANGED <<serverVars, browser, leaving, signedIn, hitch>>

\* get_current_user, get_current_active_user, require_module.
StatusOf(token) ==
    CASE ~Good(token, AccessLife) -> "401"
      [] Good(token, AccessLife) /\ ~active -> "400"
      [] Good(token, AccessLife) /\ active /\ ~Enabled -> "404"
      [] OTHER -> "200"

\* The server answers; only past these does a handler run.
Answer(r) ==
    LET status == StatusOf(fetch[r].token) IN
    /\ Go(r, "sent", "answered", [fetch[r] EXCEPT !.status = status])
    /\ ran' = [ran EXCEPT ![r] = IF status = "200" THEN @ + 1 ELSE @]
    /\ UNCHANGED <<serverVars, browser, leaving, signedIn, hitch>>

\* The network fails, before or after the server got the request: fetch() throws.
Lose(r) ==
    /\ Go(r, "sent", "idle", NoFetch)
    /\ ran' = [ran EXCEPT ![r] = IF StatusOf(fetch[r].token) = "200" THEN @ + 1 ELSE @]
    /\ hitch' = TRUE
    /\ UNCHANGED <<serverVars, browser, leaving, signedIn>>

\* Mutant: whatever the answer, it is refreshed and sent again.
MayRefreshAny(r) == ~fetch[r].again /\ browser.refresh # None

\* Mutant: a loop instead, for as long as the answer is a refusal.
MayRefreshLoop(r) == fetch[r].status # "200" /\ browser.refresh # None

MayRefresh(r) == fetch[r].status = "401" /\ ~fetch[r].again /\ browser.refresh # None

\* "Auto-refresh on 401": refresh() sends the refresh token of this moment.
Refresh(r) ==
    /\ MayRefresh(r)
    /\ Go(r, "answered", "refreshing", [fetch[r] EXCEPT !.token = browser.refresh])
    /\ UNCHANGED <<serverVars, browser, leaving, signedIn, hitch, ran>>

\* Otherwise request() returns or throws.
Return(r) ==
    /\ ~MayRefresh(r)
    /\ Go(r, "answered", "idle", NoFetch)
    /\ ran' = [ran EXCEPT ![r] = 0]
    /\ UNCHANGED <<serverVars, browser, leaving, signedIn, hitch>>

\* Mutant: refresh tokens are good for one use.
AnswerRefreshOnce(r) ==
    LET granted == /\ Good(fetch[r].token, RefreshLife) /\ active
                   /\ fetch[r].token = browser.refresh IN
    /\ Go(r, "refreshing", "refreshed",
          [fetch[r] EXCEPT !.tokens = IF granted THEN [access |-> Issue, refresh |-> Issue]
                                                 ELSE NoTokens])
    /\ UNCHANGED <<serverVars, browser, leaving, signedIn, hitch, ran>>

\* POST /auth/refresh: a new pair, or 401.
AnswerRefresh(r) ==
    LET granted == Good(fetch[r].token, RefreshLife) /\ active IN
    /\ Go(r, "refreshing", "refreshed",
          [fetch[r] EXCEPT !.tokens = IF granted THEN [access |-> Issue, refresh |-> Issue]
                                                 ELSE NoTokens])
    /\ UNCHANGED <<serverVars, browser, leaving, signedIn, hitch, ran>>

\* refresh() catches a failure of the network and returns false.
LoseRefresh(r) ==
    /\ Go(r, "refreshing", "refreshed", [fetch[r] EXCEPT !.tokens = NoTokens])
    /\ hitch' = TRUE
    /\ UNCHANGED <<serverVars, browser, leaving, signedIn, ran>>

\* setTokens, and the request is sent once more ...
Resend(r) ==
    LET tokens == fetch[r].tokens IN
    /\ tokens # NoTokens
    /\ browser' = tokens
    /\ Go(r, "refreshed", "sent", [NoFetch EXCEPT !.token = tokens.access, !.again = TRUE])
    /\ UNCHANGED <<serverVars, leaving, signedIn, hitch, ran>>

\* ... or clearTokens, and to /login.
GiveUp(r) ==
    /\ fetch[r].tokens = NoTokens
    /\ browser' = NoTokens /\ leaving' = TRUE
    /\ Go(r, "refreshed", "idle", NoFetch)
    /\ ran' = [ran EXCEPT ![r] = 0]
    /\ UNCHANGED <<serverVars, signedIn, hitch>>

\* The page is left, and whatever it waited for is forgotten.  A new page is signed in
\* if there are tokens.
Unload ==
    /\ leaving /\ leaving' = FALSE
    /\ pc' = [r \in Requests |-> "idle"] /\ fetch' = [r \in Requests |-> NoFetch]
    /\ signedIn' = (browser.access # None)
    /\ ran' = [r \in Requests |-> 0]
    /\ UNCHANGED <<serverVars, browser, hitch>>

\* handleLogout: what is in flight stays in flight.
SignOut ==
    /\ signedIn /\ signedIn' = FALSE
    /\ browser' = NoTokens
    /\ UNCHANGED <<serverVars, leaving, pc, fetch, hitch, ran>>

\* handleLogin, POST /auth/token
SignIn ==
    /\ ~signedIn /\ active /\ signedIn' = TRUE
    /\ browser' = [access |-> Issue, refresh |-> Issue]
    /\ UNCHANGED <<serverVars, leaving, pc, fetch, hitch, ran>>

-----------------------------------------------------------------------------

Step(r) == Answer(r) \/ Refresh(r) \/ Return(r) \/ AnswerRefresh(r) \/ Resend(r) \/ GiveUp(r)

Next ==
    \/ Tick \/ Restart \/ UpdateUser \/ Unload \/ SignOut \/ SignIn
    \/ \E enabled \in BOOLEAN : SetModule(enabled)
    \/ \E r \in Requests : Send(r) \/ SendFile(r) \/ Step(r) \/ Lose(r) \/ LoseRefresh(r)

\* The server answers what it gets, and the page goes on with the answer.
Spec == Init /\ [][Next]_vars /\ \A r \in Requests : WF_vars(Step(r))

-----------------------------------------------------------------------------
(* Properties *)

\* A request is sent again only if its handler did not run: for one call of request()
\* nothing is created or changed twice.
RanOnce == \A r \in Requests : ran[r] <= 1

\* Requests that are refused together refresh together, each with the refresh token of
\* its moment, and what is granted to one makes no other be refused: unless the account is
\* switched off, the network fails or the server changes its key, the tab loses its tokens
\* without signing out only through a request whose own refresh token has expired.  (That
\* may be an older token than the one the tab holds by then.)
LostByExpiry ==
    [][~hitch /\ browser # NoTokens /\ browser' = NoTokens /\ signedIn' = signedIn =>
         \E r \in Requests : /\ pc[r] = "refreshed" /\ pc'[r] = "idle"
                             /\ Expired(fetch[r].token)]_vars

\* Every request comes to an end: refreshing does not go round in circles.
EveryRequestEnds == \A r \in Requests : pc[r] # "idle" ~> pc[r] = "idle"

-----------------------------------------------------------------------------
(* The inductive invariant *)

\* The tab has both tokens or none.
Pair == {NoTokens} \cup [access : Token, refresh : Token]
Fetch == [token : Token \cup {None}, again : BOOLEAN,
          status : {None, "200", "400", "401", "404"}, tokens : Pair]

FetchOK ==
    /\ browser \in Pair
    /\ fetch \in [Requests -> Fetch]
    /\ \A r \in Requests : pc[r] \in {"refreshing", "refreshed"} => fetch[r].token # None

\* The handler of a request in flight has not run, unless the answer on its way says so.
NotRunYet ==
    \A r \in Requests :
        /\ pc[r] \in {"sent", "refreshing", "refreshed"} => ran[r] = 0
        /\ pc[r] = "answered" /\ fetch[r].status # "200" => ran[r] = 0

\* Without a hitch the account is on and every token is signed with the one key there was.
Signed(token) == token # None => token.key = 0
NoHitch ==
    ~hitch => /\ active /\ key = 0
              /\ Signed(browser.access) /\ Signed(browser.refresh)
              /\ \A r \in Requests : /\ Signed(fetch[r].token)
                                     /\ Signed(fetch[r].tokens.access)
                                     /\ Signed(fetch[r].tokens.refresh)

\* Then only a token that has expired is refused a refresh.
RefusedByExpiry ==
    ~hitch => \A r \in Requests : pc[r] = "refreshed" /\ fetch[r].tokens = NoTokens =>
                                    Expired(fetch[r].token)

IInv ==
    /\ TypeOK /\ FetchOK
    /\ RanOnce /\ NotRunYet
    /\ NoHitch /\ RefusedByExpiry
=============================================================================
