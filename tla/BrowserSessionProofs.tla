------------------------ MODULE BrowserSessionProofs ------------------------
(***************************************************************************)
(* Proofs about BrowserSession for any number of tabs, calls and sessions: *)
(* the inductive invariant SessionInv, the reason for every dead key in    *)
(* localStorage, and that only live keys are put there.                    *)
(***************************************************************************)
EXTENDS BrowserSession, TLAPS

USE BrowserSessionAssumption

LEMMA InitSessionInv == Init => SessionInv
<1> SUFFICES ASSUME Init PROVE SessionInv
  OBVIOUS
<1>1. TypeOK
  BY DEF Init, TypeOK, TabState, SignedOut, CallState, NoCall, Sid
<1>2. Numbered /\ DeadKeyExplained
  BY DEF Init, Numbered, DeadKeyExplained, NoCall
<1>3. \A c \in Calls : Fresh(c) /\ LogoutIsPast(c)
  BY DEF Init, Fresh, LogoutIsPast, NoCall
<1>4. \A t \in Tabs : tab[t].status = "authenticated" => tab[t].token
  BY DEF Init, SignedOut
<1> QED
  BY <1>1, <1>2, <1>3, <1>4 DEF SessionInv

(* Facts about calls that several steps use.                               *)
LEMMA Calls1 ==
  ASSUME TypeOK
  PROVE  /\ NoCall \in CallState /\ SignedOut \in TabState
         /\ \A c \in Calls : call[c] \in CallState /\ GivenUp(c) \in CallState
         /\ \A t \in Tabs : tab[t] \in TabState
         /\ issued \in Nat /\ (issued < MaxSessions => issued + 1 \in Sid)
<1>1. NoCall \in CallState /\ SignedOut \in TabState
  BY DEF NoCall, CallState, SignedOut, TabState
<1>2. \A c \in Calls : call[c] \in CallState
  BY DEF TypeOK
<1>3. \A c \in Calls : GivenUp(c) \in CallState
  BY <1>1, <1>2 DEF GivenUp, CallState
<1>4. \A t \in Tabs : tab[t] \in TabState
  BY DEF TypeOK
<1>5. issued \in Nat /\ (issued < MaxSessions => issued + 1 \in Sid)
  BY DEF TypeOK, Sid
<1> QED
  BY <1>1, <1>2, <1>3, <1>4, <1>5

LEMMA RequestTyped ==
  ASSUME NEW t \in Tabs, NEW old \in Sid \cup {None},
         NEW kind \in Refreshes \cup SignIns \cup {"logout", "refetch"}
  PROVE  /\ Request(kind, t, old) \in CallState
         /\ [Request(kind, t, old) EXCEPT !.waits = FALSE] \in CallState
         /\ [Request(kind, t, old) EXCEPT !.step = "me"] \in CallState
BY DEF Request, CallState

(* A call that is answered keeps its type; every other call is untouched.  *)
LEMMA AnsweredTyped ==
  ASSUME TypeOK, NEW c \in Calls, NEW new \in Sid \cup {None},
         NEW step \in {"granted", "refused"}, Answered(c, step, new)
  PROVE  /\ call' \in [Calls -> CallState]
         /\ \A d \in Calls : d # c => call'[d] = call[d]
         /\ \/ call'[c] = NoCall
            \/ call'[c] = [call[c] EXCEPT !.step = step, !.new = new]
<1>1. [call[c] EXCEPT !.step = step, !.new = new] \in CallState
  BY Calls1 DEF CallState
<1> QED
  BY <1>1, Calls1 DEF Answered, TypeOK

(* The types.                                                              *)
LEMMA TypePreserved ==
  ASSUME SessionInv, [Next]_vars
  PROVE  TypeOK'
<1> USE Calls1
<1>0. TypeOK
  BY DEF SessionInv
<1>1. ASSUME NEW c \in Calls, NEW old \in Sid \cup {None}, Issue(c, old),
             UNCHANGED <<app, killed, stored, delivered, tab, loads>>
      PROVE  TypeOK'
  <2>1. issued + 1 \in Sid /\ issued' = issued + 1
    BY <1>0, <1>1 DEF Issue
  <2>2. issued' \in 0..MaxSessions
    BY <2>1 DEF Sid
  <2>3. call' \in [Calls -> CallState]
    BY <1>0, <1>1, <2>1, AnsweredTyped DEF Issue
  <2>4. parent' \in [Sid -> Sid \cup {None}] /\ active' \subseteq Sid
    BY <1>0, <1>1, <2>1 DEF Issue, Rotated, TypeOK
  <2> QED
    BY <1>0, <1>1, <2>2, <2>3, <2>4 DEF TypeOK
<1>2. ASSUME NEW c \in Calls, Server(c)
      PROVE  TypeOK'
  <2>1. CASE ServeSignIn(c)
    BY <1>0, <1>1, <2>1 DEF ServeSignIn
  <2>2. CASE RotateSession(c)
    BY <1>0, <1>1, <2>2 DEF RotateSession, CallState
  <2>3. CASE RefuseSignIn(c) \/ RefuseRefresh(c)
    <3>1. call' \in [Calls -> CallState]
      BY <1>0, <2>3, AnsweredTyped DEF RefuseSignIn, RefuseRefresh
    <3> QED
      BY <1>0, <2>3, <3>1 DEF RefuseSignIn, RefuseRefresh, TypeOK, server
  <2>4. CASE ReadSession(c)
    <3>1. [call[c] EXCEPT !.step = "read"] \in CallState
      BY <1>0 DEF CallState
    <3> QED
      BY <1>0, <2>4, <3>1 DEF ReadSession, TypeOK, server
  <2>5. CASE ServeLogout(c) \/ Vanish(c)
    BY <1>0, <2>5 DEF ServeLogout, Vanish, TypeOK, server
  <2> QED
    BY <1>2, <2>1, <2>2, <2>3, <2>4, <2>5 DEF Server
<1>3. ASSUME NEW c \in Calls, ApplyTokens(c)
      PROVE  TypeOK'
  <2>1. call[c].new \in Sid
    BY <1>0, <1>3 DEF ApplyTokens, SessionInv, Fresh, TypeOK
  <2>2. \A t \in Tabs, b \in BOOLEAN :
           /\ [Authenticated(t, b) EXCEPT !.timer = TRUE] \in TabState
           /\ [tab[t] EXCEPT !.timer = TRUE] \in TabState
    BY <1>0 DEF Authenticated, TabState
  <2>3. tab' \in [Tabs -> TabState]
    <3>1. TotpAfter(c) \in BOOLEAN
      BY DEF TotpAfter
    <3> QED
      BY <1>0, <1>3, <2>2, <3>1 DEF ApplyTokens, TypeOK
  <2>4. call' \in [Calls -> CallState]
    <3>1. [call[c] EXCEPT !.step = "me"] \in CallState
      BY <1>0 DEF CallState
    <3> QED
      BY <1>0, <1>3, <3>1 DEF ApplyTokens, TypeOK
  <2> QED
    BY <1>0, <1>3, <2>1, <2>3, <2>4 DEF ApplyTokens, Keep, TypeOK, server
<1>4. ASSUME NEW c \in Calls, ProfileArrives(c) \/ ProfileFails(c)
      PROVE  TypeOK'
  <2> DEFINE u == call[c].tab
  <2>1. u \in Tabs => /\ Authenticated(u, FALSE) \in TabState
                      /\ [Authenticated(u, FALSE) EXCEPT !.user = TRUE] \in TabState
                      /\ [tab[u] EXCEPT !.user = TRUE] \in TabState
    BY <1>0 DEF Authenticated, TabState
  <2>2. CASE ProfileArrives(c)
    <3> DEFINE r == IF call[c].kind = "refetch" THEN [tab[u] EXCEPT !.user = TRUE]
                    ELSE [Authenticated(u, FALSE) EXCEPT !.user = TRUE]
    <3>1. (u \in Tabs => r \in TabState) /\ tab' = [tab EXCEPT ![u] = r]
      BY <2>1, <2>2 DEF ProfileArrives
    <3> HIDE DEF r
    <3>2. tab' \in [Tabs -> TabState]
      <4>1. tab \in [Tabs -> TabState]
        BY <1>0 DEF TypeOK
      <4> QED
        BY <3>1, <4>1
    <3>3. /\ call' = [call EXCEPT ![c] = NoCall]
          /\ UNCHANGED <<app, server, stored, delivered, loads>>
      BY <2>2 DEF ProfileArrives
    <3> QED
      BY <1>0, <3>2, <3>3 DEF TypeOK, server
  <2>3. CASE ProfileFails(c)
    <3> DEFINE r == IF call[c].kind = "refetch" THEN tab[u]
                    ELSE Authenticated(u, FALSE)
    <3>1. (u \in Tabs => r \in TabState) /\ tab' = [tab EXCEPT ![u] = r]
      BY <1>0, <2>1, <2>3 DEF ProfileFails
    <3> HIDE DEF r
    <3>2. tab' \in [Tabs -> TabState]
      <4>1. tab \in [Tabs -> TabState]
        BY <1>0 DEF TypeOK
      <4> QED
        BY <3>1, <4>1
    <3>3. /\ call' = [call EXCEPT ![c] = NoCall]
          /\ UNCHANGED <<app, server, stored, delivered, loads>>
      BY <2>3 DEF ProfileFails
    <3> QED
      BY <1>0, <3>2, <3>3 DEF TypeOK, server
  <2> QED
    BY <1>4, <2>2, <2>3
<1>5. ASSUME NEW c \in Calls, Refused(c) \/ NoAnswer(c)
      PROVE  TypeOK'
  <2>1. \A t \in Tabs : [tab[t] EXCEPT !.status = "anonymous"] \in TabState
    BY <1>0 DEF TabState
  <2>2. tab' \in [Tabs -> TabState]
    BY <1>0, <1>5, <2>1 DEF Refused, NoAnswer, Fails, TypeOK
  <2> QED
    BY <1>0, <1>5, <2>2 DEF Refused, NoAnswer, Fails, TypeOK, server
<1>6. ASSUME NEW t \in Tabs, NEW kind \in Refreshes, Present(kind, t)
      PROVE  call' \in [Calls -> CallState]
  <2>1. Request(kind, t, stored) \in CallState
    BY <1>0, RequestTyped DEF TypeOK
  <2> QED
    BY <1>0, <1>6, <2>1 DEF Present, TypeOK
<1>7. ASSUME NEW t \in Tabs, Load(t)
      PROVE  TypeOK'
  <2> DEFINE rest == [c \in Calls |-> IF call[c].tab = t THEN GivenUp(c)
                                                        ELSE call[c]]
  <2>1. rest \in [Calls -> CallState]
    BY <1>0
  <2>2. \A c \in Calls : stored # None =>
           [rest EXCEPT ![c] = Request("restore", t, stored)]
              \in [Calls -> CallState]
    BY <1>0, <2>1, RequestTyped DEF TypeOK, Refreshes
  <2>3. call' \in [Calls -> CallState]
    BY <1>7, <2>1, <2>2 DEF Load
  <2>4. [SignedOut EXCEPT !.status = "authenticating"] \in TabState
    BY DEF SignedOut, TabState
  <2> QED
    BY <1>0, <1>7, <2>3, <2>4 DEF Load, TypeOK, server
<1>8. ASSUME NEW t \in Tabs, Start(t)
      PROVE  TypeOK'
  <2>1. CASE Load(t)
    BY <1>7, <2>1
  <2>2. CASE TimerFires(t) \/ BecomesVisible(t) \/ Unauthorized(t) \/ Reissue(t)
    <3>1. call' \in [Calls -> CallState]
      BY <1>6, <2>2 DEF TimerFires, BecomesVisible, Unauthorized, Reissue,
                        SilentRefresh, Refreshes
    <3>2. /\ [tab[t] EXCEPT !.timer = FALSE] \in TabState
          /\ [tab[t] EXCEPT !.totp = @ \/ app = "platform"] \in TabState
      BY <1>0 DEF TabState
    <3> QED
      BY <1>0, <2>2, <3>1, <3>2
      DEF TimerFires, BecomesVisible, Unauthorized, Reissue, TypeOK, server
  <2>3. ASSUME NEW k \in SignIns, SignIn(t, k)
        PROVE  TypeOK'
    <3>1. Request(k, t, None) \in CallState
      BY <2>3, RequestTyped
    <3> QED
      BY <1>0, <2>3, <3>1 DEF SignIn, TypeOK, server
  <2>4. CASE RefetchUser(t)
    <3>1. [Request("refetch", t, None) EXCEPT !.step = "me"] \in CallState
      BY RequestTyped
    <3> QED
      BY <1>0, <2>4, <3>1 DEF RefetchUser, TypeOK, server
  <2>5. CASE Logout(t)
    <3>1. call' \in [Calls -> CallState]
      <4>1. [Request("logout", t, stored) EXCEPT !.waits = FALSE] \in CallState
        BY <1>0, RequestTyped DEF TypeOK
      <4> QED
        BY <1>0, <2>5, <4>1 DEF Logout, TypeOK
    <3> QED
      BY <1>0, <2>5, <3>1 DEF Logout, TypeOK, server
  <2> QED
    BY <1>8, <2>1, <2>2, <2>3, <2>4, <2>5 DEF Start
<1>9. CASE RevokeAll
  BY <1>0, <1>9 DEF RevokeAll, TypeOK
<1>10. CASE UNCHANGED vars
  BY <1>0, <1>10 DEF vars, server, TypeOK
<1>11. ASSUME NEW c \in Calls, Settle(c)
       PROVE  TypeOK'
  BY <1>3, <1>4, <1>5, <1>11 DEF Settle
<1> QED
  BY <1>2, <1>8, <1>9, <1>10, <1>11 DEF Next

(* A step that leaves the server alone and stores nothing new keeps the    *)
(* invariant, if it presents only what was stored and keeps what is        *)
(* promised to calls and tabs.                                             *)
QuietCall(c) ==
  /\ call'[c].old # None => call'[c].old \in delivered
  /\ call'[c].step = "granted" =>
       call[c].step = "granted" /\ call'[c].new = call[c].new
  /\ call'[c].kind = "logout" => call'[c].old \notin {None, stored'}

TabShows(t) == tab[t].status = "authenticated" => tab[t].token

LEMMA QuietPreserves ==
  ASSUME SessionInv, TypeOK', UNCHANGED <<active, issued, parent, delivered>>,
         killed \subseteq killed', killed' \subseteq killed \cup active,
         stored' \in {stored, None},
         \A c \in Calls : QuietCall(c), \A t \in Tabs : TabShows(t)'
  PROVE  SessionInv'
<1>1. Numbered'
  BY DEF SessionInv, Numbered, QuietCall
<1>2. DeadKeyExplained'
  BY DEF SessionInv, DeadKeyExplained
<1>3. \A c \in Calls : Fresh(c)'
  BY DEF SessionInv, Fresh, QuietCall
<1>4. \A c \in Calls : LogoutIsPast(c)'
  BY DEF LogoutIsPast, QuietCall
<1> QED
  BY <1>1, <1>2, <1>3, <1>4 DEF SessionInv, TabShows

(* A call that keeps its place, is answered, given up or forgotten.        *)
LEMMA QuietlyEnds ==
  ASSUME SessionInv, NEW c \in Calls, stored' \in {stored, None},
         \/ call'[c] \in {call[c], NoCall, GivenUp(c)}
         \/ call'[c] = [call[c] EXCEPT !.step = "read"]
         \/ call'[c] = [call[c] EXCEPT !.step = "refused", !.new = None]
  PROVE  QuietCall(c)
<1>1. call[c] \in CallState /\ (call[c].old # None => call[c].old \in delivered)
  BY DEF SessionInv, TypeOK, Numbered
<1>2. call[c].kind = "logout" => call[c].old \notin {None, stored'}
  BY DEF SessionInv, LogoutIsPast
<1>3. CASE call'[c] = call[c]
  BY <1>1, <1>2, <1>3 DEF QuietCall
<1>4. CASE call'[c] = NoCall
  BY <1>4 DEF QuietCall, NoCall
<1>5. CASE call'[c] = [call[c] EXCEPT !.waits = FALSE]
  BY <1>1, <1>2, <1>5 DEF QuietCall, CallState
<1>6. CASE \/ call'[c] = [call[c] EXCEPT !.step = "read"]
           \/ call'[c] = [call[c] EXCEPT !.step = "refused", !.new = None]
  BY <1>1, <1>2, <1>6 DEF QuietCall, CallState
<1> QED
  BY <1>3, <1>4, <1>5, <1>6 DEF GivenUp

(* A call that starts presents the stored token, or none.                  *)
LEMMA QuietlyStarts ==
  ASSUME SessionInv, NEW c \in Calls, NEW t,
         NEW kind \in Refreshes \cup SignIns, NEW old \in {stored, None},
         call'[c] = Request(kind, t, old)
  PROVE  QuietCall(c)
<1>1. stored # None => stored \in delivered
  BY DEF SessionInv, Numbered
<1> QED
  BY <1>1 DEF QuietCall, Request, Refreshes, SignIns

LEMMA QuietlyAsksProfile ==
  ASSUME NEW c \in Calls, NEW t,
         call'[c] = [Request("refetch", t, None) EXCEPT !.step = "me"]
  PROVE  QuietCall(c)
BY DEF QuietCall, Request

LEMMA QuietlySignsOut ==
  ASSUME SessionInv, NEW c \in Calls, NEW t, stored # None, stored' = None,
         call'[c] = [Request("logout", t, stored) EXCEPT !.waits = FALSE]
  PROVE  QuietCall(c)
<1>1. stored \in delivered
  BY DEF SessionInv, Numbered
<1> QED
  BY <1>1 DEF QuietCall, Request

(* The steps that only read the server's sessions, or answer.              *)
LEMMA ServerQuiet ==
  ASSUME SessionInv, TypeOK', NEW c \in Calls,
         \/ RefuseSignIn(c) \/ ReadSession(c) \/ RefuseRefresh(c) \/ Vanish(c)
  PROVE  SessionInv'
<1>1. TypeOK
  BY DEF SessionInv
<1>2. /\ UNCHANGED <<active, issued, parent, killed, delivered, stored, tab>>
      /\ \A d \in Calls : \/ call'[d] \in {call[d], NoCall}
                         \/ call'[d] = [call[d] EXCEPT !.step = "read"]
                         \/ call'[d] = [call[d] EXCEPT !.step = "refused",
                                                       !.new = None]
  <2>1. CASE RefuseSignIn(c) \/ RefuseRefresh(c)
    <3>1. Answered(c, "refused", None)
      BY <2>1 DEF RefuseSignIn, RefuseRefresh
    <3>2. \A d \in Calls : \/ call'[d] \in {call[d], NoCall}
                           \/ call'[d] = [call[d] EXCEPT !.step = "refused",
                                                         !.new = None]
      BY <1>1, <3>1, AnsweredTyped
    <3> QED
      BY <2>1, <3>2 DEF RefuseSignIn, RefuseRefresh, server
  <2>2. CASE ReadSession(c)
    BY <1>1, <2>2 DEF ReadSession, server, TypeOK
  <2>3. CASE Vanish(c)
    BY <1>1, <2>3 DEF Vanish, server, TypeOK
  <2> QED
    BY <2>1, <2>2, <2>3
<1>3. \A d \in Calls : QuietCall(d)
  BY <1>2, QuietlyEnds
<1>4. \A t \in Tabs : TabShows(t)'
  BY <1>2 DEF SessionInv, TabShows
<1> QED
  BY <1>2, <1>3, <1>4, QuietPreserves

LEMMA SettleQuiet ==
  ASSUME SessionInv, TypeOK', NEW c \in Calls,
         ProfileArrives(c) \/ ProfileFails(c) \/ Refused(c) \/ NoAnswer(c)
  PROVE  SessionInv'
<1> DEFINE u == call[c].tab
<1>1. TypeOK /\ \A t \in Tabs : TabShows(t)
  BY DEF SessionInv, TabShows
<1>2. call \in [Calls -> CallState] /\ tab \in [Tabs -> TabState]
  BY <1>1 DEF TypeOK
<1>3. CASE ProfileArrives(c) \/ ProfileFails(c)
  <2>1. /\ UNCHANGED <<active, issued, parent, killed, delivered, stored>>
        /\ call' = [call EXCEPT ![c] = NoCall]
    BY <1>3 DEF ProfileArrives, ProfileFails, server
  <2>2. \A d \in Calls : QuietCall(d)
    BY <1>2, <2>1, QuietlyEnds
  <2>3. \A t \in Tabs : t # u => tab'[t] = tab[t]
    BY <1>2, <1>3 DEF ProfileArrives, ProfileFails
  <2>4. ASSUME NEW t \in Tabs, t = u PROVE TabShows(t)'
    <3>1. tab[t] \in TabState /\ TabShows(t)
      BY <1>1, <1>2
    <3>2. \/ tab'[t] \in {tab[t], [tab[t] EXCEPT !.user = TRUE]}
          \/ tab'[t] \in {Authenticated(t, FALSE),
                          [Authenticated(t, FALSE) EXCEPT !.user = TRUE]}
      BY <1>2, <1>3, <2>4 DEF ProfileArrives, ProfileFails
    <3> QED
      BY <3>1, <3>2 DEF TabShows, Authenticated, TabState
  <2>5. \A t \in Tabs : TabShows(t)'
    BY <1>1, <2>3, <2>4 DEF TabShows
  <2> QED
    BY <2>1, <2>2, <2>5, QuietPreserves
<1>4. CASE Refused(c) \/ NoAnswer(c)
  <2>1. /\ UNCHANGED <<active, issued, parent, killed, delivered>>
        /\ stored' \in {stored, None}
        /\ call' \in {[call EXCEPT ![c] = NoCall], [call EXCEPT ![c] = GivenUp(c)]}
    BY <1>4 DEF Refused, NoAnswer, Fails, server
  <2>2. \A d \in Calls : call'[d] \in {call[d], NoCall, GivenUp(d)}
    BY <1>2, <2>1
  <2>3. \A d \in Calls : QuietCall(d)
    BY <2>1, <2>2, QuietlyEnds
  <2>4. \A t \in Tabs : t # u => tab'[t] = tab[t]
    BY <1>2, <1>4 DEF Refused, NoAnswer, Fails
  <2>5. \A t \in Tabs : t = u => TabShows(t)'
    BY <1>1, <1>2, <1>4 DEF Refused, NoAnswer, Fails, SignedOut, TabShows, TabState
  <2>6. \A t \in Tabs : TabShows(t)'
    BY <1>1, <2>4, <2>5 DEF TabShows
  <2> QED
    BY <2>1, <2>3, <2>6, QuietPreserves
<1> QED
  BY <1>3, <1>4

LEMMA StartQuiet ==
  ASSUME SessionInv, TypeOK', NEW t \in Tabs, Start(t)
  PROVE  SessionInv'
<1>1. TypeOK /\ \A u \in Tabs : TabShows(u)
  BY DEF SessionInv, TabShows
<1>2. call \in [Calls -> CallState] /\ tab \in [Tabs -> TabState]
  BY <1>1 DEF TypeOK
<1>3. ASSUME NEW kind \in Refreshes, Present(kind, t), stored' = stored
      PROVE  \A d \in Calls : QuietCall(d)
  <2> SUFFICES ASSUME NEW d \in Calls PROVE QuietCall(d)
    OBVIOUS
  <2>1. call'[d] = call[d] \/ call'[d] = Request(kind, t, stored)
    BY <1>2, <1>3 DEF Present
  <2>2. CASE call'[d] = call[d]
    BY <1>3, <2>2, QuietlyEnds
  <2>3. CASE call'[d] = Request(kind, t, stored)
    BY <2>3, QuietlyStarts
  <2> QED
    BY <2>1, <2>2, <2>3
<1>4. CASE TimerFires(t) \/ BecomesVisible(t) \/ Unauthorized(t) \/ Reissue(t)
  <2>1. /\ UNCHANGED <<active, issued, parent, killed, delivered, stored>>
        /\ Present("silent", t) \/ Present("reissue", t)
    BY <1>4 DEF TimerFires, BecomesVisible, Unauthorized, Reissue,
                SilentRefresh, server
  <2>2. \A d \in Calls : QuietCall(d)
    BY <1>3, <2>1 DEF Refreshes
  <2>3. \A u \in Tabs : /\ tab'[u].status = tab[u].status
                       /\ tab'[u].token = tab[u].token
    BY <1>2, <1>4 DEF TimerFires, BecomesVisible, Unauthorized, Reissue, TabState
  <2> QED
    BY <1>1, <2>1, <2>2, <2>3, QuietPreserves DEF TabShows
<1>5. CASE Load(t)
  <2>1. UNCHANGED <<active, issued, parent, killed, delivered, stored>>
    BY <1>5 DEF Load, server
  <2>2. ASSUME NEW d \in Calls
        PROVE  call'[d] \in {call[d], GivenUp(d)} \/ call'[d] = Request("restore", t, stored)
    <3> DEFINE rest == [c \in Calls |-> IF call[c].tab = t THEN GivenUp(c)
                                                          ELSE call[c]]
    <3>1. \/ call' = rest
          \/ \E c \in Calls : call' = [rest EXCEPT ![c] = Request("restore", t, stored)]
      BY <1>5 DEF Load
    <3> QED
      BY <3>1
  <2>3. ASSUME NEW d \in Calls PROVE QuietCall(d)
    <3>1. CASE call'[d] = call[d] \/ call'[d] = GivenUp(d)
      BY <2>1, <3>1, QuietlyEnds
    <3>2. CASE call'[d] = Request("restore", t, stored)
      BY <3>2, QuietlyStarts DEF Refreshes
    <3> QED
      BY <2>2, <3>1, <3>2
  <2>4. \A u \in Tabs : TabShows(u)'
    BY <1>1, <1>2, <1>5 DEF Load, SignedOut, TabShows, TabState
  <2> QED
    BY <2>1, <2>3, <2>4, QuietPreserves
<1>6. CASE RefetchUser(t) \/ \E k \in SignIns : SignIn(t, k)
  <2>1. UNCHANGED <<active, issued, parent, killed, delivered, stored, tab>>
    BY <1>6 DEF RefetchUser, SignIn, server
  <2>2. ASSUME NEW d \in Calls, RefetchUser(t) PROVE QuietCall(d)
    <3>1. \/ call'[d] = call[d]
          \/ call'[d] = [Request("refetch", t, None) EXCEPT !.step = "me"]
      BY <1>2, <2>2 DEF RefetchUser
    <3> QED
      BY <2>1, <3>1, QuietlyEnds, QuietlyAsksProfile
  <2>3. ASSUME NEW d \in Calls, NEW k \in SignIns, SignIn(t, k) PROVE QuietCall(d)
    <3>1. call'[d] = call[d] \/ call'[d] = Request(k, t, None)
      BY <1>2, <2>3 DEF SignIn
    <3> QED
      BY <2>1, <3>1, QuietlyEnds, QuietlyStarts
  <2> QED
    BY <1>1, <1>6, <2>1, <2>2, <2>3, QuietPreserves DEF TabShows
<1>7. CASE Logout(t)
  <2>1. UNCHANGED <<active, issued, parent, killed, delivered>> /\ stored' = None
    BY <1>7 DEF Logout, server
  <2>2. \A d \in Calls :
           \/ call'[d] = call[d]
           \/ /\ call'[d] = [Request("logout", t, stored) EXCEPT !.waits = FALSE]
              /\ stored # None
    BY <1>2, <1>7 DEF Logout
  <2>3. ASSUME NEW d \in Calls PROVE QuietCall(d)
    <3>1. CASE call'[d] = call[d]
      BY <2>1, <3>1, QuietlyEnds
    <3>2. CASE call'[d] # call[d]
      BY <2>1, <2>2, <3>2, QuietlySignsOut
    <3> QED
      BY <3>1, <3>2
  <2>4. \A u \in Tabs : TabShows(u)'
    BY <1>1, <1>2, <1>7 DEF Logout, SignedOut, TabShows
  <2> QED
    BY <2>1, <2>3, <2>4, QuietPreserves
<1> QED
  BY <1>4, <1>5, <1>6, <1>7 DEF Start

(* The server starts a session: its token is fresh, and if it takes the    *)
(* place of the stored one, it explains why that one is dead.              *)
LEMMA IssueKeeps ==
  ASSUME SessionInv, TypeOK', NEW c \in Calls, NEW old, Issue(c, old),
         old = None \/ old = call[c].old, call[c].kind # "logout",
         UNCHANGED <<killed, stored, delivered, tab>>
  PROVE  SessionInv'
<1>1. /\ TypeOK /\ issued \in Nat /\ issued < MaxSessions
      /\ issued + 1 \in Sid /\ issued' = issued + 1
      /\ parent' = [parent EXCEPT ![issued + 1] = old]
      /\ active' = (active \ {old}) \cup {issued + 1}
  BY Calls1 DEF SessionInv, Issue, Rotated
<1>2. /\ issued + 1 \notin active \cup killed \cup delivered
      /\ old # None => old \in delivered
  BY <1>1 DEF SessionInv, Numbered, TypeOK, Sid
<1>3. /\ \A d \in Calls : d # c => call'[d] = call[d]
      /\ \/ call'[c] = NoCall
         \/ call'[c] = [call[c] EXCEPT !.step = "granted", !.new = issued + 1]
      /\ call[c] \in CallState
  BY <1>1, AnsweredTyped, Calls1 DEF Issue
<1>a. /\ call'[c].old \in {None, call[c].old} /\ call'[c].kind # "logout"
      /\ call'[c].step = "granted" => call'[c].new = issued + 1
  <2>1. CASE call'[c] = NoCall
    BY <2>1 DEF NoCall
  <2>2. CASE call'[c] = [call[c] EXCEPT !.step = "granted", !.new = issued + 1]
    BY <1>3, <2>2 DEF CallState
  <2> QED
    BY <1>3, <2>1, <2>2
<1>4. Numbered'
  <2>1. active' \cup killed' \cup delivered' \subseteq 1..issued'
    BY <1>1 DEF SessionInv, Numbered, Sid
  <2>2. \A i \in Sid : parent'[i] # None => i <= issued' /\ parent'[i] \in delivered
    BY <1>1, <1>2 DEF SessionInv, Numbered, TypeOK, Sid
  <2>3. \A d \in Calls : call'[d].old # None => call'[d].old \in delivered
    BY <1>3, <1>a DEF SessionInv, Numbered
  <2> QED
    BY <2>1, <2>2, <2>3 DEF SessionInv, Numbered
<1>5. DeadKeyExplained'
  <2>1. parent[issued + 1] = None
    BY <1>1 DEF SessionInv, Numbered
  <2> QED
    BY <1>1, <1>2, <2>1 DEF SessionInv, DeadKeyExplained, TypeOK
<1>6. \A d \in Calls : Fresh(d)'
  <2>1. \A d \in Calls : d # c /\ call[d].step = "granted" =>
           /\ call[d].new \in (active \cup killed) \ delivered
           /\ call[d].new # issued + 1
    BY <1>2 DEF SessionInv, Fresh
  <2>2. \A d \in Calls : d # c /\ call[d].step = "granted" => call[d].new # old
    BY <1>1, <1>2, <2>1 DEF SessionInv, Numbered
  <2>3. call'[c].step = "granted" => call'[c].new = issued + 1
    BY <1>a
  <2>4. ASSUME NEW d \in Calls, call'[d].step = "granted"
        PROVE  call'[d].new \in (active' \cup killed') \ delivered'
    BY <1>1, <1>2, <1>3, <2>1, <2>2, <2>3, <2>4
  <2>5. ASSUME NEW d \in Calls, NEW e \in Calls, d # e,
               call'[d].step = "granted", call'[e].step = "granted"
        PROVE  call'[e].new # call'[d].new
    BY <1>3, <2>1, <2>3, <2>5 DEF SessionInv, Fresh
  <2> QED
    BY <2>4, <2>5 DEF Fresh
<1>7. \A d \in Calls : LogoutIsPast(d)'
  BY <1>3, <1>a DEF SessionInv, LogoutIsPast
<1> QED
  BY <1>4, <1>5, <1>6, <1>7 DEF SessionInv

(* The token that arrives is stored: it is alive, and no call presents it  *)
(* yet.                                                                    *)
LEMMA ApplyKeeps ==
  ASSUME SessionInv, TypeOK', NEW c \in Calls, ApplyTokens(c)
  PROVE  SessionInv' /\ stored' \in active' \cup killed'
<1> DEFINE new == call[c].new  u == call[c].tab
<1>1. /\ TypeOK /\ new \in (active \cup killed) \ delivered
      /\ new # None /\ new \in Sid
  BY DEF SessionInv, ApplyTokens, Fresh, TypeOK, Sid
<1>2. /\ UNCHANGED <<active, issued, parent, killed>>
      /\ stored' = new /\ delivered' = delivered \cup {new}
  BY DEF ApplyTokens, Keep, server
<1>3. /\ \A d \in Calls : d # c => call'[d] = call[d]
      /\ call'[c] \in {NoCall, [call[c] EXCEPT !.step = "me"]}
      /\ call[c] \in CallState
  BY <1>1 DEF ApplyTokens, TypeOK
<1>4. Numbered'
  BY <1>1, <1>2, <1>3 DEF SessionInv, Numbered, NoCall, CallState
<1>5. DeadKeyExplained'
  BY <1>1, <1>2 DEF DeadKeyExplained
<1>6. \A d \in Calls : Fresh(d)'
  <2>1. call'[c].step # "granted"
    BY <1>3 DEF NoCall, CallState
  <2>2. \A d \in Calls : d # c /\ call[d].step = "granted" => call[d].new # new
    BY DEF SessionInv, Fresh, ApplyTokens
  <2> QED
    BY <1>2, <1>3, <2>1, <2>2 DEF SessionInv, Fresh
<1>7. \A d \in Calls : LogoutIsPast(d)'
  <2>1. \A d \in Calls : call[d].old # new
    BY <1>1 DEF SessionInv, Numbered
  <2>2. call'[c].kind = "logout" => call[c].kind = "logout" /\ call'[c].old = call[c].old
    BY <1>3 DEF NoCall, CallState
  <2> QED
    BY <1>2, <1>3, <2>1, <2>2 DEF SessionInv, LogoutIsPast
<1>8. \A t \in Tabs : TabShows(t)'
  <2>1. \A t \in Tabs : t # u => tab'[t] = tab[t]
    BY <1>1 DEF ApplyTokens, TypeOK
  <2>2. ASSUME NEW t \in Tabs, t = u PROVE TabShows(t)'
    <3>1. tab[t] \in TabState /\ TabShows(t)
      BY <1>1 DEF SessionInv, TabShows, TypeOK
    <3>2. \/ tab'[t] = [tab[t] EXCEPT !.timer = TRUE]
          \/ \E b : tab'[t] = [Authenticated(t, b) EXCEPT !.timer = TRUE]
      BY <1>1, <2>2 DEF ApplyTokens, TypeOK
    <3> QED
      BY <3>1, <3>2 DEF TabShows, Authenticated, TabState
  <2> QED
    BY <2>1, <2>2 DEF SessionInv, TabShows
<1> QED
  BY <1>1, <1>2, <1>4, <1>5, <1>6, <1>7, <1>8 DEF SessionInv, TabShows

LEMMA RevokeKeeps ==
  ASSUME SessionInv, TypeOK', NEW gone \in SUBSET active,
         active' = active \ gone,
         \/ killed' = killed \cup gone
         \/ killed' = killed /\ gone \subseteq delivered \ {stored},
         UNCHANGED <<issued, parent, stored, delivered, tab>>,
         \A c \in Calls : call'[c] \in {call[c], NoCall}
  PROVE  SessionInv'
<1>1. Numbered'
  BY DEF SessionInv, Numbered, NoCall
<1>2. DeadKeyExplained'
  BY DEF SessionInv, DeadKeyExplained
<1>3. \A c \in Calls : Fresh(c)'
  BY DEF SessionInv, Fresh, NoCall
<1>4. \A c \in Calls : LogoutIsPast(c)'
  BY DEF SessionInv, LogoutIsPast, NoCall
<1> QED
  BY <1>1, <1>2, <1>3, <1>4 DEF SessionInv

LEMMA NextSessionInv ==
  ASSUME SessionInv, [Next]_vars
  PROVE  /\ SessionInv'
         /\ stored' # None /\ stored' # stored => stored' \in active' \cup killed'
<1>1. TypeOK' /\ TypeOK
  BY TypePreserved DEF SessionInv
<1>2. ASSUME NEW c \in Calls, Server(c)
      PROVE  SessionInv' /\ stored' = stored
  <2>1. CASE ServeSignIn(c)
    BY <1>1, <2>1, IssueKeeps DEF ServeSignIn, SignIns
  <2>2. CASE RotateSession(c)
    <3>1. call[c].kind # "logout"
      BY <2>2 DEF RotateSession, Refreshes
    <3> QED
      BY <1>1, <2>2, <3>1, IssueKeeps DEF RotateSession
  <2>3. CASE RefuseSignIn(c) \/ ReadSession(c) \/ RefuseRefresh(c) \/ Vanish(c)
    BY <1>1, <2>3, ServerQuiet
       DEF RefuseSignIn, ReadSession, RefuseRefresh, Vanish
  <2>4. CASE ServeLogout(c)
    <3> DEFINE gone == active \cap {call[c].old}
    <3>1. gone \subseteq delivered \ {stored}
      BY <1>1, <2>4 DEF ServeLogout, SessionInv, Numbered, LogoutIsPast
    <3>2. active' = active \ gone /\ \A d \in Calls : call'[d] \in {call[d], NoCall}
      BY <1>1, <2>4 DEF ServeLogout, TypeOK
    <3> QED
      BY <1>1, <2>4, <3>1, <3>2, RevokeKeeps DEF ServeLogout
  <2> QED
    BY <1>2, <2>1, <2>2, <2>3, <2>4 DEF Server
<1>3. ASSUME NEW c \in Calls, Settle(c)
      PROVE  /\ SessionInv'
             /\ stored' # None /\ stored' # stored => stored' \in active' \cup killed'
  <2>1. CASE ApplyTokens(c)
    BY <1>1, <2>1, ApplyKeeps
  <2>2. CASE ProfileArrives(c) \/ ProfileFails(c) \/ Refused(c) \/ NoAnswer(c)
    BY <1>1, <2>2, SettleQuiet
       DEF ProfileArrives, ProfileFails, Refused, NoAnswer, Fails
  <2> QED
    BY <1>3, <2>1, <2>2 DEF Settle
<1>4. ASSUME NEW t \in Tabs, Start(t)
      PROVE  SessionInv' /\ stored' \in {stored, None}
  BY <1>1, <1>4, StartQuiet
     DEF Start, Load, TimerFires, BecomesVisible, Unauthorized, Reissue,
         RefetchUser, Logout, SignIn
<1>5. CASE RevokeAll
  <2>1. \A c \in Calls : call'[c] = call[c]
    BY <1>5 DEF RevokeAll
  <2> QED
    BY <1>1, <1>5, <2>1, RevokeKeeps DEF RevokeAll
<1>6. CASE UNCHANGED vars
  BY <1>6, <1>1 DEF vars, server, SessionInv, Numbered, DeadKeyExplained, Fresh,
                LogoutIsPast
<1> QED
  BY <1>2, <1>3, <1>4, <1>5, <1>6 DEF Next

-----------------------------------------------------------------------------
(* The inductive invariant holds: tokens are numbered and stored in order, *)
(* every token on its way is fresh, a signed-in tab holds a token.         *)
THEOREM SessionCorrect == Spec => []SessionInv
<1>1. SessionInv /\ [Next]_vars => SessionInv'
  BY NextSessionInv
<1> QED
  BY InitSessionInv, <1>1, PTL DEF Spec

(* A dead key in localStorage has a cause: a password change, or an        *)
(* exchange whose answer the browser has not stored.                       *)
THEOREM DeadKeysExplained == Spec => []DeadKeyExplained
<1>1. SessionInv => DeadKeyExplained
  BY DEF SessionInv
<1> QED
  BY SessionCorrect, <1>1, PTL

(* Whatever order answers arrive in, only a live token is stored.          *)
THEOREM LiveKeysStored == Spec => StoresLiveKey
<1>1. SessionInv /\ [Next]_vars =>
        [stored' # stored /\ stored' # None =>
           stored' \in active' \cup killed']_vars
  BY NextSessionInv
<1> QED
  BY SessionCorrect, <1>1, PTL DEF Spec, StoresLiveKey
=============================================================================
