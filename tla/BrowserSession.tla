--------------------------- MODULE BrowserSession ---------------------------
(***************************************************************************)
(* The sign-in state of the browser tabs of one user and the refresh       *)
(* sessions the server keeps for them.                                     *)
(*                                                                         *)
(* The tabs of one application (the tenant dashboard or the platform       *)
(* console) share one localStorage key that holds a refresh token.  Every  *)
(* use of that token revokes its session on the server and starts another  *)
(* one, so a tab that lost a race or an answer is left with a dead token.  *)
(* A tab starts a refresh when it is loaded, when its timer fires, when it *)
(* becomes visible, when a request is answered 401, and after the second   *)
(* factor is confirmed; nothing orders these with respect to each other,   *)
(* to a sign-out, or to the other tabs.                                    *)
(*                                                                         *)
(* Sessions are numbered in the order the server starts them.  A call is   *)
(* one request of a tab with the code that awaits it; a call whose tab was *)
(* reloaded, or that the tab gave up, may still be served.  Clocks are     *)
(* left out: a timer that is armed, and a token that is held, may come due *)
(* at any moment.                                                          *)
(***************************************************************************)
EXTENDS Naturals, FiniteSets

CONSTANTS Apps,          \* the applications to consider
          Tabs,          \* the browser tabs that show the application
          Calls,         \* the requests under way at one time
          MaxSessions,   \* bound: refresh sessions the server ever starts
          MaxSignIns,    \* bound: sessions started by a sign-in
          MaxLoads,      \* bound: times a tab is loaded
          None

ASSUME BrowserSessionAssumption ==
  /\ Apps # {} /\ Apps \subseteq {"tenant", "platform"}
  /\ MaxSessions \in Nat /\ MaxSignIns \in Nat /\ MaxLoads \in Nat
  /\ None \notin Nat /\ None \notin Tabs

VARIABLES
  app,        \* the application the tabs show
  active,     \* the refresh sessions that are not revoked
  issued,     \* how many refresh sessions were ever started
  parent,     \* the session whose token was exchanged for this one
  killed,     \* the sessions a password change or reset revoked
  stored,     \* the token in localStorage, None when the key is absent
  delivered,  \* the tokens some tab put into localStorage
  tab,        \* the React state of each tab
  call,       \* the requests under way
  loads       \* how often a tab was loaded

server == <<active, issued, parent, killed>>
vars   == <<app, server, stored, delivered, tab, call, loads>>

Sid == 1..MaxSessions

\* token: an access token is held; user: the profile is loaded; timer: a
\* refresh is scheduled; totp: what the platform console believes about the
\* second factor
TabState == [status: {"anonymous", "authenticating", "authenticated"},
             token: BOOLEAN, user: BOOLEAN, timer: BOOLEAN, totp: BOOLEAN]
SignedOut == [status |-> "anonymous", token |-> FALSE, user |-> FALSE,
              timer |-> FALSE, totp |-> FALSE]

\* The kinds of call that present the stored token, and those that sign in.
\* "verify" is the sign-in that follows a second factor or a registration.
Refreshes == {"restore", "silent", "reissue"}
SignIns   == {"login", "verify"}
CallState == [kind: Refreshes \cup SignIns \cup {"none", "logout", "refetch"},
              tab: Tabs \cup {None},
              step: {"idle", "sent", "read", "granted", "refused", "me"},
              old: Sid \cup {None}, new: Sid \cup {None}, waits: BOOLEAN]
NoCall == [kind |-> "none", tab |-> None, step |-> "idle", old |-> None,
           new |-> None, waits |-> FALSE]

-----------------------------------------------------------------------------
\* Helpers

Free(c) == call[c].step = "idle"

Request(kind, t, old) ==
  [kind |-> kind, tab |-> t, step |-> "sent", old |-> old, new |-> None,
   waits |-> TRUE]

\* A 204 or a token pair reaches the tab only if the tab still waits for it.
Answered(c, step, new) ==
  call' = [call EXCEPT ![c] = IF @.waits
                              THEN [@ EXCEPT !.step = step, !.new = new]
                              ELSE NoCall]

\* The fetch is given up: what the server has not finished goes on alone.
GivenUp(c) == IF call[c].step \in {"sent", "read"}
              THEN [call[c] EXCEPT !.waits = FALSE]
              ELSE NoCall

\* A mutant: the tab is shown before its token is kept.
AuthenticatedFirst(t, totp) ==
  [tab[t] EXCEPT !.status = "authenticated", !.totp = totp]

Authenticated(t, totp) ==
  [tab[t] EXCEPT !.status = "authenticated", !.token = TRUE, !.totp = totp]

-----------------------------------------------------------------------------
\* Initially nobody is signed in; one tab has been opened.

Init ==
  /\ app \in Apps
  /\ active = {} /\ issued = 0 /\ killed = {}
  /\ parent = [i \in Sid |-> None]
  /\ stored = None /\ delivered = {}
  /\ tab = [t \in Tabs |-> SignedOut]
  /\ call = [c \in Calls |-> NoCall]
  /\ loads = 0

-----------------------------------------------------------------------------
\* The server

\* _issue_token_pair: a new session for the call, in place of the one whose
\* token it presented.
RotatedThenRevoked(old) == {}
Rotated(old) == (active \ {old}) \cup {issued + 1}

Issue(c, old) ==
  /\ issued < MaxSessions
  /\ issued' = issued + 1
  /\ parent' = [parent EXCEPT ![issued + 1] = old]
  /\ active' = Rotated(old)
  /\ Answered(c, "granted", issued + 1)

\* login, verify_login_2fa, verify_otp and complete_registration
ServeSignIn(c) ==
  /\ Cardinality({i \in 1..issued : parent[i] = None}) < MaxSignIns
  /\ call[c].kind \in SignIns /\ call[c].step = "sent"
  /\ Issue(c, None)
  /\ UNCHANGED <<app, killed, stored, delivered, tab, loads>>

\* A wrong password or code, or a disabled account
RefuseSignIn(c) ==
  /\ call[c].kind \in SignIns /\ call[c].step = "sent"
  /\ Answered(c, "refused", None)
  /\ UNCHANGED <<app, server, stored, delivered, tab, loads>>

\* refresh finds the session active; it takes no lock on it.
ReadSession(c) ==
  /\ call[c].kind \in Refreshes /\ call[c].step = "sent"
  /\ call[c].old \in active
  /\ call' = [call EXCEPT ![c].step = "read"]
  /\ UNCHANGED <<app, server, stored, delivered, tab, loads>>

\* refresh revokes what it read and starts the next session, all committed at
\* once.
RotateSession(c) ==
  /\ call[c].kind \in Refreshes /\ call[c].step = "read"
  /\ Issue(c, call[c].old)
  /\ UNCHANGED <<app, killed, stored, delivered, tab, loads>>

\* The session is revoked; or the account was deactivated, which no variable
\* tracks, and the transaction rolled back.
RefuseRefresh(c) ==
  /\ call[c].kind \in Refreshes
  /\ \/ call[c].step = "sent" /\ call[c].old \notin active
     \/ call[c].step = "read"
  /\ Answered(c, "refused", None)
  /\ UNCHANGED <<app, server, stored, delivered, tab, loads>>

ServeLogout(c) ==
  /\ call[c].kind = "logout"
  /\ active' = active \ {call[c].old}
  /\ call' = [call EXCEPT ![c] = NoCall]
  /\ UNCHANGED <<app, issued, parent, killed, stored, delivered, tab,
                 loads>>

\* A request nobody waits for may never have reached the server.
Vanish(c) ==
  /\ call[c].step = "sent" /\ ~call[c].waits
  /\ call' = [call EXCEPT ![c] = NoCall]
  /\ UNCHANGED <<app, server, stored, delivered, tab, loads>>

\* change_password and confirm_password_reset
RevokeAll ==
  /\ active # {}
  /\ active' = {} /\ killed' = killed \cup active
  /\ UNCHANGED <<app, issued, parent, stored, delivered, tab, call,
                 loads>>

-----------------------------------------------------------------------------
\* The tab: what starts a call

\* The page is loaded: the calls of the former page are lost with it, and the
\* restore effect presents the stored token, if there is one.
Load(t) ==
  /\ loads < MaxLoads /\ loads' = loads + 1
  /\ LET rest == [c \in Calls |-> IF call[c].tab = t THEN GivenUp(c)
                                                     ELSE call[c]]
     IN \/ /\ stored = None
           /\ tab' = [tab EXCEPT ![t] = SignedOut]
           /\ call' = rest
        \/ /\ stored # None
           /\ tab' = [tab EXCEPT ![t] = [SignedOut EXCEPT
                                           !.status = "authenticating"]]
           /\ \E c \in Calls :
                /\ rest[c] = NoCall
                /\ call' = [rest EXCEPT ![c] = Request("restore", t, stored)]
  /\ UNCHANGED <<app, server, stored, delivered>>

\* The stored token is presented; nothing is sent when there is none.
Present(kind, t) ==
  \/ stored = None /\ UNCHANGED call
  \/ /\ stored # None
     /\ \E c \in Calls :
          Free(c) /\ call' = [call EXCEPT ![c] = Request(kind, t, stored)]

\* performSilentRefresh
SilentRefresh(t) == Present("silent", t)

TimerFires(t) ==
  /\ tab[t].timer
  /\ tab' = [tab EXCEPT ![t].timer = FALSE]
  /\ SilentRefresh(t)
  /\ UNCHANGED <<app, server, stored, delivered, loads>>

\* The tab is shown again within a minute of its token's end, or after it.
BecomesVisible(t) ==
  /\ tab[t].token /\ SilentRefresh(t)
  /\ UNCHANGED <<app, server, stored, delivered, tab, loads>>

\* A request with the access token is answered 401; only the tenant store
\* registers a handler.  The handler's pause of 5 seconds is shorter than a
\* request may last, so it does not exclude a second refresh.
Unauthorized(t) ==
  /\ app = "tenant"
  /\ tab[t].token /\ SilentRefresh(t)
  /\ UNCHANGED <<app, server, stored, delivered, tab, loads>>

\* refreshSession; in the platform console confirm2fa, which records the
\* second factor first.
Reissue(t) ==
  /\ tab[t].token
  /\ tab' = [tab EXCEPT ![t].totp = @ \/ app = "platform"]
  /\ Present("reissue", t)
  /\ UNCHANGED <<app, server, stored, delivered, loads>>

\* login or completeLogin; the login page is open to a signed-in tab, too.
SignIn(t, kind) ==
  /\ kind = "verify" => app = "platform"   \* the tenant store makes no difference
  /\ \E c \in Calls :
       Free(c) /\ call' = [call EXCEPT ![c] = Request(kind, t, None)]
  /\ UNCHANGED <<app, server, stored, delivered, tab, loads>>

\* refetchUser
RefetchUser(t) ==
  /\ app = "tenant" /\ tab[t].token
  /\ \E c \in Calls :
       /\ Free(c)
       /\ call' = [call EXCEPT ![c] = [Request("refetch", t, None) EXCEPT
                                         !.step = "me"]]
  /\ UNCHANGED <<app, server, stored, delivered, tab, loads>>

\* logout forgets the token first and tells the server afterwards, without
\* minding the answer.
Logout(t) ==
  /\ tab[t].status = "authenticated"
  /\ stored' = None
  /\ tab' = [tab EXCEPT ![t] = SignedOut]
  /\ IF stored = None THEN UNCHANGED call
     ELSE \E c \in Calls :
            /\ Free(c)
            /\ call' = [call EXCEPT ![c] = [Request("logout", t, stored) EXCEPT
                                              !.waits = FALSE]]
  /\ UNCHANGED <<app, server, delivered, loads>>

-----------------------------------------------------------------------------
\* The tab: how a call ends

\* The flag the platform console keeps after a call: confirm2fa has set it
\* before its reissue.
TotpAfter(c) ==
  /\ app = "platform" /\ call[c].kind # "login"
  /\ call[c].kind = "reissue" => tab[call[c].tab].totp

KeepFirst(c) == IF stored = None THEN call[c].new ELSE stored
Keep(c) == call[c].new

\* applyTokens: the token is stored and the next refresh scheduled at once;
\* the tenant store then fetches the profile before it shows the session.
ApplyTokens(c) ==
  LET t == call[c].tab IN
  /\ call[c].step = "granted"
  /\ stored' = Keep(c) /\ delivered' = delivered \cup {call[c].new}
  /\ \/ /\ app = "tenant"
        /\ tab' = [tab EXCEPT ![t].timer = TRUE]
        /\ call' = [call EXCEPT ![c].step = "me"]
     \/ /\ app = "platform"
        /\ tab' = [tab EXCEPT ![t] =
                     [Authenticated(t, TotpAfter(c)) EXCEPT
                        !.timer = TRUE]]
        /\ call' = [call EXCEPT ![c] = NoCall]
  /\ UNCHANGED <<app, server, loads>>

\* /auth/me answers: token, status and user are set in one step.
ProfileArrives(c) ==
  LET t == call[c].tab IN
  /\ call[c].step = "me"
  /\ tab' = [tab EXCEPT ![t] =
               IF call[c].kind = "refetch" THEN [@ EXCEPT !.user = TRUE]
               ELSE [Authenticated(t, FALSE) EXCEPT !.user = TRUE]]
  /\ call' = [call EXCEPT ![c] = NoCall]
  /\ UNCHANGED <<app, server, stored, delivered, loads>>

\* /auth/me fails: the session stands, without a profile.
ProfileFails(c) ==
  LET t == call[c].tab IN
  /\ call[c].step = "me"
  /\ tab' = [tab EXCEPT ![t] = IF call[c].kind = "refetch" THEN @
                               ELSE Authenticated(t, FALSE)]
  /\ call' = [call EXCEPT ![c] = NoCall]
  /\ UNCHANGED <<app, server, stored, delivered, loads>>

\* The catch blocks: a silent refresh signs the tab out and forgets the stored
\* token whatever it is by now; a restore does the same to a tab that shows
\* nothing yet; a reissue or a sign-in only reports the error.
Fails(c) ==
  LET t == call[c].tab  k == call[c].kind IN
  /\ stored' = IF k \in {"silent", "restore"} THEN None ELSE stored
  /\ tab' = [tab EXCEPT ![t] = CASE k = "silent"  -> SignedOut
                                 [] k = "restore" -> [@ EXCEPT
                                                       !.status = "anonymous"]
                                 [] OTHER         -> @]
  /\ UNCHANGED <<app, server, delivered, loads>>

Refused(c) ==
  /\ call[c].step = "refused"
  /\ call' = [call EXCEPT ![c] = NoCall]
  /\ Fails(c)

\* A request may time out: apiFetch aborts it after 20 seconds.
TimesOut(c) == call[c].waits

\* The fetch is aborted or the connection lost, at whatever stage the request
\* is by then.
NoAnswer(c) ==
  /\ TimesOut(c)
  /\ call[c].step \in {"sent", "read", "granted", "refused"}
  /\ call' = [call EXCEPT ![c] = GivenUp(c)]
  /\ Fails(c)

-----------------------------------------------------------------------------
Server(c) == \/ ServeSignIn(c) \/ RefuseSignIn(c) \/ ReadSession(c)
             \/ RotateSession(c) \/ RefuseRefresh(c) \/ ServeLogout(c)
             \/ Vanish(c)

Settle(c) == \/ ApplyTokens(c) \/ ProfileArrives(c) \/ ProfileFails(c)
             \/ Refused(c) \/ NoAnswer(c)

Start(t) == \/ Load(t) \/ TimerFires(t) \/ BecomesVisible(t)
            \/ Unauthorized(t) \/ Reissue(t) \/ RefetchUser(t) \/ Logout(t)
            \/ \E k \in SignIns : SignIn(t, k)

Next == \/ \E c \in Calls : Server(c) \/ Settle(c)
        \/ \E t \in Tabs : Start(t)
        \/ RevokeAll

Spec == Init /\ [][Next]_vars

-----------------------------------------------------------------------------
\* Properties

TypeOK ==
  /\ app \in Apps
  /\ active \subseteq Sid /\ killed \subseteq Sid /\ delivered \subseteq Sid
  /\ issued \in 0..MaxSessions
  /\ parent \in [Sid -> Sid \cup {None}]
  /\ stored \in Sid \cup {None}
  /\ tab \in [Tabs -> TabState]
  /\ call \in [Calls -> CallState]
  /\ loads \in 0..MaxLoads

\* Exchanging a token kills it at once, its successor reaches the browser
\* later, and answers arrive in any order: the browser may be left with a dead
\* token in localStorage, but only when the successor was never stored (lost,
\* or still on its way), or after a password change; never because a stale
\* answer was stored over a newer one.
DeadKeyExplained ==
  stored # None /\ stored \notin active =>
    \/ stored \in killed
    \/ \E i \in Sid : parent[i] = stored /\ i \notin delivered

\* Whatever a tab puts into localStorage is alive on the server at that moment
\* (or was ended by a password change): no order of refreshes, sign-outs,
\* reloads and lost answers stores a token that was already used or signed out.
StoresLiveKey ==
  [][stored' # stored /\ stored' # None => stored' \in active' \cup killed']_vars

-----------------------------------------------------------------------------
\* The inductive invariant

\* Numbers are given out in order, and only stored tokens are ever presented.
Numbered ==
  /\ active \cup killed \cup delivered \subseteq 1..issued
  /\ stored # None => stored \in delivered
  /\ \A i \in Sid : parent[i] # None => i <= issued /\ parent[i] \in delivered
  /\ \A c \in Calls : call[c].old # None => call[c].old \in delivered

\* A token on its way to the browser is fresh: alive, not yet stored and
\* carried by one call.
Fresh(c) ==
  call[c].step = "granted" =>
    /\ call[c].new \in (active \cup killed) \ delivered
    /\ \A d \in Calls : d # c /\ call[d].step = "granted" =>
                          call[d].new # call[c].new

\* A sign-out never concerns the token that is stored.
LogoutIsPast(c) == call[c].kind = "logout" => call[c].old \notin {None, stored}

SessionInv ==
  /\ TypeOK /\ Numbered /\ DeadKeyExplained
  /\ \A c \in Calls : Fresh(c) /\ LogoutIsPast(c)
  /\ \A t \in Tabs : tab[t].status = "authenticated" => tab[t].token
=============================================================================
