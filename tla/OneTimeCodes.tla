---------------------------- MODULE OneTimeCodes ----------------------------
(***************************************************************************)
(* The six-digit codes: second factor at login, its setup, login by phone, *)
(* registration; for the users of a tenant and for the platform's admins.  *)
(*                                                                         *)
(* One code at a time waits in a Redis hash with a count of the guesses;   *)
(* asking for another replaces it, redeeming deletes it.  Reading the      *)
(* hash, counting a guess and deleting the hash are separate commands, and *)
(* requests of several tabs, or of one whose code input fires again while  *)
(* a check is under way, meet between them.  Some flows allow one send per *)
(* cooldown, a key of its own that is set before the code is.              *)
(***************************************************************************)
EXTENDS Naturals, FiniteSets

CONSTANTS Flow,          \* the flows to look at, descriptors as below
          Tab,
          MaxAttempts,   \* otp_max_attempts
          MaxCodes,      \* bound: codes sent
          MaxVerify      \* bound: checks under way at a time, and checks and
                         \* sends together

\* cools: the server allows one send per cooldown; lenient: the first send is
\* part of the login, which succeeds though the cooldown forbids it; blind: the
\* tab starts its own countdown as it asks, and is not told of a failure.
FlowType == [cools: BOOLEAN, lenient: BOOLEAN, blind: BOOLEAN]

ASSUME CodesAssumption ==
  /\ MaxAttempts \in Nat \ {0} /\ MaxCodes \in Nat
  /\ MaxVerify \in Nat \ {0}
  /\ Flow \subseteq FlowType

TwoFaVerify         == [cools |-> TRUE,  lenient |-> TRUE,  blind |-> FALSE]
PlatformTwoFaVerify == [cools |-> TRUE,  lenient |-> TRUE,  blind |-> FALSE]
TwoFactorSettings   == [cools |-> TRUE,  lenient |-> FALSE, blind |-> FALSE]
PlatformTwoFaSetup  == [cools |-> TRUE,  lenient |-> FALSE, blind |-> FALSE]
OtpVerify           == [cools |-> FALSE, lenient |-> FALSE, blind |-> TRUE]
RegisterVerify      == [cools |-> FALSE, lenient |-> FALSE, blind |-> TRUE]

ConsoleFlows == {TwoFaVerify, PlatformTwoFaVerify, TwoFactorSettings,
                 PlatformTwoFaSetup, OtpVerify, RegisterVerify}

VARIABLES
  flow,
  row,      \* the hash: is it there, its code (0: it has none), its count
  cooling,  \* the cooldown key is there
  issued,   \* the codes made so far
  dead,     \* the codes redeemed, replaced or expired
  torn,     \* a send failed after it started the cooldown, before its code
  tab,      \* each tab: where it is, and whether its countdown runs
  send,     \* its request for a code
  verify    \* the checks under way

codeVars == <<flow, row, cooling, issued, dead, torn, tab, send, verify>>

Codes    == 1..MaxCodes
Verifies == 1..MaxVerify
NoRow    == [there |-> FALSE, code |-> 0, count |-> 0]
NoVerify == [step |-> "none", tab |-> {}, code |-> 0, saw |-> 0, late |-> FALSE]

CodesInit ==
  /\ flow \in Flow
  /\ row = NoRow /\ cooling = FALSE /\ issued = 0
  /\ dead = {} /\ torn = FALSE
  /\ tab = [t \in Tab |-> [at |-> "start", wait |-> FALSE]]
  /\ send = [t \in Tab |-> "none"]
  /\ verify = [k \in Verifies |-> NoVerify]

-----------------------------------------------------------------------------
\* Asking for a code

\* Bound: one more request
MoreCodes == Cardinality({t \in Tab : send[t] # "none"})
               + Cardinality({k \in Verifies : verify[k] # NoVerify}) < MaxVerify

Sends(t, step) == /\ send' = [send EXCEPT ![t] = step]
                  /\ UNCHANGED <<flow, verify>>

\* The login, the phone or registration form, the button of the setup
AskCode(t) ==
  /\ tab[t].at = "start" /\ ~tab[t].wait /\ send[t] = "none"
  /\ MoreCodes /\ Sends(t, "sent")
  /\ UNCHANGED <<row, cooling, issued, dead, torn, tab>>

\* One request per tab: a second click while one is under way, which some of the
\* screens allow, is a click in another tab.
ResendCode(t) ==
  /\ tab[t].at = "code" /\ ~tab[t].wait /\ send[t] = "none"
  /\ MoreCodes /\ Sends(t, "sent")
  /\ tab' = [tab EXCEPT ![t].wait = flow.blind]
  /\ UNCHANGED <<row, cooling, issued, dead, torn>>

CountdownEnds(t) ==
  /\ tab[t].wait /\ tab' = [tab EXCEPT ![t].wait = FALSE]
  /\ UNCHANGED <<flow, row, cooling, issued, dead, torn, send, verify>>

\* SET NX: the first send starts the cooldown and the next are turned away,
\* but the login is not.
TryStartCooldown(t) ==
  /\ send[t] = "sent"
  /\ Sends(t, IF ~(flow.cools /\ cooling) THEN "allowed"
              ELSE IF flow.lenient /\ tab[t].at = "start" THEN "ok"
              ELSE "cooldown")
  /\ cooling' = flow.cools
  /\ UNCHANGED <<row, issued, dead, torn, tab>>

\* A new code overwrites the old one, its count and its time to live; then the
\* message goes out, or its channel fails.  HSET and EXPIRE are two commands,
\* taken as one: a hash that a crash left without its time to live is one that
\* is not seen to expire, which nothing here forbids.
SetCode(t) ==
  /\ send[t] = "allowed" /\ issued < MaxCodes
  /\ issued' = issued + 1
  /\ row' = [there |-> TRUE, code |-> issued', count |-> 0]
  /\ dead' = dead \cup ({row.code} \cap Codes)
  /\ torn' = FALSE
  /\ \E step \in {"ok", "none"} : Sends(t, step)
  /\ UNCHANGED <<cooling, tab>>

\* The account is unknown or the password wrong, Redis or the database away.
SendRefused(t) ==
  /\ send[t] \in {"sent", "allowed"} /\ Sends(t, "none")
  /\ torn' = (torn \/ send[t] = "allowed")
  /\ UNCHANGED <<row, cooling, issued, dead, tab>>

\* The tab goes on to the code, or is told to wait ...
SendAnswered(t) ==
  /\ send[t] \in {"ok", "cooldown"} /\ Sends(t, "none")
  /\ tab' = [tab EXCEPT ![t] =
               IF @.at = "in" THEN @
               ELSE IF @.at = "start" /\ send[t] = "ok"
                    THEN [at |-> "code", wait |-> TRUE]
               ELSE [at |-> @.at, wait |-> @.wait \/ flow.cools]]
  /\ UNCHANGED <<row, cooling, issued, dead, torn>>

\* ... or has given up, and shows an error.
SendGivenUp(t) ==
  /\ send[t] \in {"ok", "cooldown"} /\ Sends(t, "none")
  /\ UNCHANGED <<row, cooling, issued, dead, torn, tab>>

\* The cooldown is shorter than the life of a code.
CooldownEnds ==
  /\ cooling /\ cooling' = FALSE /\ torn' = FALSE
  /\ UNCHANGED <<flow, row, issued, dead, tab, send, verify>>

Expire ==
  /\ row.there /\ ~cooling
  /\ row' = NoRow /\ dead' = dead \cup ({row.code} \cap Codes)
  /\ UNCHANGED <<flow, cooling, issued, torn, tab, send, verify>>

-----------------------------------------------------------------------------
\* Entering a code

Checking(k, v) == /\ verify' = [verify EXCEPT ![k] = v]
                  /\ UNCHANGED <<flow, cooling, issued, torn, send>>

\* An error, for which the user may try again
Told(k) == Checking(k, NoVerify)

\* The sixth digit submits it, also while another check is under way: a code
\* that was made for this user, or another number (0).
Enter(t, c) ==
  /\ tab[t].at = "code" /\ c \in 0..issued /\ MoreCodes
  /\ \E k \in Verifies :
       /\ verify[k] = NoVerify /\ \A j \in Verifies : verify[j] = NoVerify => k <= j
       /\ Checking(k, [step |-> "sent", tab |-> {t}, code |-> c, saw |-> 0,
                       late |-> c \in dead])
  /\ UNCHANGED <<row, dead, tab>>

\* Mutant of ReadCode: the guesses are counted and not looked at.
ReadCodeUncounted(k) ==
  /\ verify[k].step = "sent"
  /\ IF row.there /\ row.code # 0
     THEN Checking(k, [verify[k] EXCEPT !.step = "read", !.saw = row.code])
     ELSE Told(k)
  /\ UNCHANGED <<row, dead, tab>>

\* No code, too many guesses; a count without a code is an error of the server.
ReadCode(k) ==
  /\ verify[k].step = "sent"
  /\ IF row.there /\ row.code # 0 /\ row.count < MaxAttempts
     THEN Checking(k, [verify[k] EXCEPT !.step = "read", !.saw = row.code])
     ELSE Told(k)
  /\ UNCHANGED <<row, dead, tab>>

\* The account is locked or gone.
VerifyRefused(k) ==
  /\ verify[k].step \in {"sent", "read"} /\ Told(k)
  /\ UNCHANGED <<row, dead, tab>>

\* Mutant of ConsumeCode: the hash is left to expire.
ConsumeCodeNever(k) ==
  /\ verify[k].step = "read" /\ verify[k].code = verify[k].saw
  /\ dead' = dead \cup {verify[k].saw}
  /\ \/ Checking(k, [verify[k] EXCEPT !.step = "yes"])
     \/ Told(k)
  /\ UNCHANGED <<row, tab>>

\* The code read matches: the hash is deleted, whatever it holds by now.  The
\* transaction that follows may fail.
ConsumeCode(k) ==
  /\ verify[k].step = "read" /\ verify[k].code = verify[k].saw
  /\ row' = NoRow
  /\ dead' = dead \cup {verify[k].saw} \cup ({row.code} \cap Codes)
  /\ \/ Checking(k, [verify[k] EXCEPT !.step = "yes"])
     \/ Told(k)
  /\ UNCHANGED tab

\* It does not: one more guess, also where the hash has gone meanwhile.
IncrementAttempt(k) ==
  /\ verify[k].step = "read" /\ verify[k].code # verify[k].saw
  /\ row' = [row EXCEPT !.there = TRUE, !.count = @ + 1]
  /\ Told(k)
  /\ UNCHANGED <<dead, tab>>

\* The tab goes on ...
VerifyAnswered(k) ==
  /\ verify[k].step = "yes" /\ Checking(k, NoVerify)
  /\ tab' = [t \in Tab |-> IF t \in verify[k].tab THEN [at |-> "in", wait |-> FALSE]
                           ELSE tab[t]]
  /\ UNCHANGED <<row, dead>>

\* ... or has given up, and its code is gone.
VerifyGivenUp(k) ==
  /\ verify[k].step = "yes" /\ Told(k)
  /\ UNCHANGED <<row, dead, tab>>

-----------------------------------------------------------------------------
CodesNext ==
  \/ \E t \in Tab :
       \/ AskCode(t) \/ ResendCode(t) \/ CountdownEnds(t)
       \/ TryStartCooldown(t) \/ SetCode(t) \/ SendRefused(t)
       \/ SendAnswered(t) \/ SendGivenUp(t)
       \/ \E c \in 0..MaxCodes : Enter(t, c)
  \/ CooldownEnds \/ Expire
  \/ \E k \in Verifies :
       \/ ReadCode(k) \/ VerifyRefused(k) \/ ConsumeCode(k)
       \/ IncrementAttempt(k) \/ VerifyAnswered(k) \/ VerifyGivenUp(k)

CodesSpec == CodesInit /\ [][CodesNext]_codeVars

-----------------------------------------------------------------------------
RowState    == [there: BOOLEAN, code: 0..MaxCodes, count: Nat]
TabState    == [at: {"start", "code", "in"}, wait: BOOLEAN]
VerifyState == [step: {"none", "sent", "read", "yes"}, tab: SUBSET Tab,
                code: 0..MaxCodes, saw: 0..MaxCodes, late: BOOLEAN]

CodesTypeOK ==
  /\ flow \in FlowType /\ row \in RowState
  /\ cooling \in BOOLEAN /\ torn \in BOOLEAN
  /\ issued \in 0..MaxCodes /\ dead \subseteq Codes
  /\ tab \in [Tab -> TabState]
  /\ send \in [Tab -> {"none", "sent", "allowed", "ok", "cooldown"}]
  /\ verify \in [Verifies -> VerifyState]

\* While the cooldown turns sends away, the code it was started for is there or
\* on its way, unless it was redeemed or its send was torn.
CooldownHasCode ==
  cooling => \/ row.code # 0 /\ row.code = issued
             \/ issued \in dead \/ torn
             \/ \E t \in Tab : send[t] = "allowed"

\* The code in the hash is none that was redeemed, replaced or expired.
HeldCodeIsLive ==
  /\ dead \subseteq 1..issued
  /\ row.code <= issued /\ row.code \notin dead

\* What a check under way goes by: the code it read was made, and one that was
\* dead when it was entered is not the code read.
GuessIsJudged(v) ==
  /\ v.step = "read" => v.saw \in 1..issued
  /\ v.late => v.code \in dead
  /\ v.step = "read" /\ v.late => v.saw # v.code
  /\ v.step = "yes" => ~v.late

Reading == {k \in Verifies : verify[k].step = "read"}

\* The guesses counted against a code, and those that read it and are about to
\* be counted, exceed the limit only by what can be under way at a time.
GuessesBounded == row.count + Cardinality(Reading) < MaxAttempts + MaxVerify

\* Sends, checks, redemptions and expiry of several tabs, each in single
\* commands, leave the hash, the cooldown and the count consistent.
CodesInv ==
  /\ CodesTypeOK /\ CooldownHasCode /\ HeldCodeIsLive
  /\ \A k \in Verifies : GuessIsJudged(verify[k])
  /\ GuessesBounded

\* A code that was redeemed, replaced or expired when it was entered is never
\* accepted, whatever is under way next to it.
NoLateRedemption == \A k \in Verifies : verify[k].step = "yes" => ~verify[k].late
=============================================================================
