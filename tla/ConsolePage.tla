---------------------------- MODULE ConsolePage ----------------------------
(***************************************************************************)
(* One page of the dashboard: a list that is loaded from the server and    *)
(* the operations the page offers on its rows.                             *)
(*                                                                         *)
(* Every page is written by hand, but from the same few pieces: a load     *)
(* function that an effect calls when the page is opened, when the page    *)
(* number, filter or period changes and whenever the access token is       *)
(* renewed; handlers that send one request and then reload, patch the      *)
(* list or leave it; forms and dialogs that hold what was typed; a busy    *)
(* flag that disables a button.  What each page makes of these pieces is   *)
(* a descriptor (module ConsoleTables); what the pieces do, in any order   *)
(* of clicks, answers, timeouts and writes of other people, is here.       *)
(*                                                                         *)
(* No request is ever cancelled and no answer is checked against what the  *)
(* page has become while it was under way.  Rows are stamped: a write      *)
(* gives the row the next stamp, and the list shows the stamps it read.    *)
(***************************************************************************)
EXTENDS Naturals, FiniteSets

CONSTANTS Page,         \* the descriptor of each page, by its name
          Row, Draft,   \* the rows there can be, and those only typed so far
          MaxLoad,      \* bound: loads under way at a time
          MaxCall,      \* bound: other requests under way at a time
          MaxEvents,    \* bound: clicks, turns of the page, renewals, timeouts
                        \* and writes of other people, taken together
          None

\* What starts a load; whether it clears the error and empties the list; what
\* its failure leaves: an error in place of the rows or above them, an empty
\* list, or nothing.
LoadType    == [follows: {"nothing", "query", "reset"},
                clears: BOOLEAN, blanks: BOOLEAN,
                fails: {"error", "notice", "empty", "silent"}]

\* What a handler has the server do ("save" creates what is new; "send" changes
\* nothing in the list), and whether a key of the table makes that unique.  On
\* success the form closes or not; on failure it stays or not, and the user is
\* told by a toast, by the error of the page (for some failures) or by that
\* error, cleared when the handler is called ("fresh").  With a tail, a second
\* request follows whose failure is reported like that of the first.  busy: one
\* flag, the id of one row, a flag of the form that goes when it is closed, one
\* flag per row, none.
HandlerType == [effect: {"create", "save", "change", "remove", "send"},
                unique: BOOLEAN, closes: BOOLEAN, keeps: BOOLEAN,
                tells: {"toast", "error", "fresh"}, tail: BOOLEAN,
                busy: {"flag", "slot", "form", "row", "none"},
                then: {"reload", "refresh", "first", "patch", "nothing"}]

\* Where its button is: in a form or dialog it opens or by itself, with the row
\* it is about or with the page; and whether the busy flag disables it.
ControlType == [opens: {"form", "dialog", "button"}, on: {"row", "page"},
                disabled: BOOLEAN]

\* The operations that may store something new.  A page has one of them at
\* most: the drafts are of one kind.
Creates(p) == {o \in DOMAIN p.does : p.does[o].effect \in {"create", "save"}}

\* Every handler that changes the list brings it up to date, and one that goes
\* back to page 1 has none next to it that loads the page it was clicked on.
Refreshes(p) ==
  \A o \in DOMAIN p.does :
    /\ p.does[o].then = "nothing" => p.does[o].effect = "send"
    /\ p.does[o].then = "patch" => p.does[o].effect # "send"
    /\ p.does[o].then = "first" =>
         \A q \in DOMAIN p.does : p.does[q].then \notin {"reload", "refresh"}

IsPage(p) == /\ p.load \in LoadType
             /\ p.does \in [DOMAIN p.does -> HandlerType]
             /\ p.offers \in [DOMAIN p.does -> ControlType]
             /\ None \notin DOMAIN p.does
             /\ \A o, q \in Creates(p) : o = q
             /\ Refreshes(p)

ASSUME PageAssumption ==
  /\ DOMAIN Page # {} /\ \A p \in DOMAIN Page : IsPage(Page[p])
  /\ MaxEvents \in Nat
  /\ MaxLoad \in Nat \ {0} /\ MaxCall \in Nat
  /\ Draft \subseteq Row /\ None \notin Row

VARIABLES
  page,       \* the page the user is on
  stamp,      \* the last write of each row on the server, 0 if it is not there
  clock,      \* the last stamp given out
  made,       \* how often each draft was stored
  told,       \* the stamp of the last own write the user saw confirmed
  query,      \* the page number and filter (or period) selected
  view,       \* what the list shows
  load, call, \* the requests under way
  open,       \* the form or dialog the user is in, and its row
  busy,       \* the row each busy flag was set for
  crossed,    \* requests were under way together that can undo each other
  doubts,     \* how often an operation on the row failed that may be done
  events      \* the events so far

server   == <<stamp, clock, made>>
pageVars == <<page, stamp, clock, made, told, query, view, load, call, open,
              busy, crossed, doubts, events>>

Loads == 1..MaxLoad
Calls == 1..MaxCall
Query == [number: 1..2, filter: 1..2]
Top   == [number |-> 1, filter |-> 1]
Op         == DOMAIN Page[page].does
LoadOf     == Page[page].load
Does(o)    == Page[page].does[o]
Offers(o)  == Page[page].offers[o]
Creating   == Creates(Page[page])

\* The rows there are at first; all of them where one is busy at a time.
Listed == IF \E o \in Op : Does(o).busy = "slot" THEN Row ELSE Row \ Draft

Blank  == [r \in Row |-> 0]
NoLoad == [query |-> Top, may |-> {}, owner |-> None]
NoForm == [op |-> None, row |-> None]
NoCall == [step |-> "idle", op |-> None, row |-> None, stamp |-> 0,
           query |-> Top, new |-> FALSE, form |-> FALSE, waits |-> FALSE]

IdleLoads  == {l \in Loads : load[l] = NoLoad}
IdleCalls  == {c \in Calls : call[c].step = "idle"}
Waiting    == {c \in Calls : call[c].waits}
CallsFor(o) == {c \in Waiting : call[c].op = o}
LoadsFor(o) == {l \in Loads : load[l].owner = o}
Quiet      == IdleLoads = Loads /\ Waiting = {}
Slot(S)    == CHOOSE i \in S : \A j \in S : i <= j

\* A dialog covers the page.
Modal == open.op # None /\ Offers(open.op).opens = "dialog"

\* Bound: n more loads can start, with one left for each answer to come
Room(n) == n + Cardinality(Waiting) <= Cardinality(IdleLoads)

\* Bound: one more event
Event == events < MaxEvents /\ events' = events + 1

-----------------------------------------------------------------------------
\* Loading the list

\* Mutant of Asked: the answer may come from a cache that holds what is shown.
AskedThroughCache(q, o) ==
  [query |-> q, may |-> {stamp, view.shows}, owner |-> o]

\* What the server held at any time since the load was sent, the answer may
\* carry.
Asked(q, o) == [query |-> q, may |-> {stamp}, owner |-> o]

\* load(q): the error goes where the page clears it, the rows stay.
StartLoad(q, o) ==
  /\ load' = [load EXCEPT ![Slot(IdleLoads)] = Asked(q, o)]
  /\ view' = [view EXCEPT !.error = @ /\ ~LoadOf.clears,
                          !.shows = IF LoadOf.blanks THEN Blank ELSE @]

\* The page is opened: its first load is under way.
PageInit ==
  /\ page \in DOMAIN Page
  /\ stamp = [r \in Row |-> IF r \in Listed THEN 1 ELSE 0]
  /\ clock = 1 /\ made = Blank /\ told = Blank
  /\ query = Top
  /\ view = [shows |-> Blank, query |-> Top, error |-> FALSE, last |-> "none"]
  /\ load = [l \in Loads |-> IF l = 1 THEN Asked(Top, None) ELSE NoLoad]
  /\ call = [c \in Calls |-> NoCall]
  /\ open = NoForm /\ busy = [o \in Op |-> None]
  /\ crossed = FALSE /\ doubts = Blank /\ events = 0

\* The user turns to another page of the list, or chooses a filter, search or
\* period, which sets the page number back in the same step; the effect loads.
TurnPage(n) ==
  /\ Event
  /\ ~Modal /\ LoadOf.follows # "nothing" /\ n # query.number /\ Room(1)
  /\ query' = [query EXCEPT !.number = n]
  /\ StartLoad(query', None)
  /\ crossed' = (crossed \/ ~Quiet)
  /\ UNCHANGED <<page, server, told, call, open, busy, doubts>>

\* Where an effect of its own goes back to page 1 for a new filter: nothing
\* more to do on page 1 ...
Refilter(f) ==
  /\ Event
  /\ ~Modal /\ LoadOf.follows = "reset" /\ f # query.filter
  /\ query.number = 1 /\ Room(1)
  /\ query' = [number |-> 1, filter |-> f]
  /\ StartLoad(query', None)
  /\ crossed' = (crossed \/ ~Quiet)
  /\ UNCHANGED <<page, server, told, call, open, busy, doubts>>

\* ... and elsewhere the new filter is loaded for the old page number first,
\* and then again.
RefilterTwice(f) ==
  /\ Event
  /\ ~Modal /\ LoadOf.follows = "reset" /\ f # query.filter
  /\ query.number # 1 /\ Room(2)
  /\ query' = [number |-> 1, filter |-> f]
  /\ LET l == Slot(IdleLoads)
         k == Slot(IdleLoads \ {l})
     IN load' = [load EXCEPT ![l] = Asked([query EXCEPT !.filter = f], None),
                             ![k] = Asked(query', None)]
  /\ view' = [view EXCEPT !.error = @ /\ ~LoadOf.clears,
                          !.shows = IF LoadOf.blanks THEN Blank ELSE @]
  /\ crossed' = TRUE
  /\ UNCHANGED <<page, server, told, call, open, busy, doubts>>

\* Mutant of Renew: the effect has the page and filter of the first render.
RenewStale ==
  /\ Event /\ Room(1) /\ StartLoad(Top, None)
  /\ crossed' = (crossed \/ IdleLoads # Loads)
  /\ UNCHANGED <<page, server, told, query, call, open, busy, doubts>>

\* The access token is renewed and the effects that depend on it run again.
Renew ==
  /\ Event /\ Room(1) /\ StartLoad(query, None)
  /\ crossed' = (crossed \/ IdleLoads # Loads)
  /\ UNCHANGED <<page, server, told, query, call, open, busy, doubts>>

\* The handler that awaited the load goes on to its finally.
Finish(o) == busy' = [p \in Op |-> IF p = o THEN None ELSE busy[p]]

LoadAnswered(l) ==
  /\ \E shows \in load[l].may :
       view' = [view EXCEPT !.shows = shows, !.query = load[l].query,
                            !.last = "ok"]
  /\ Finish(load[l].owner)
  /\ load' = [load EXCEPT ![l] = NoLoad]
  /\ UNCHANGED <<page, server, told, query, call, open, crossed, doubts,
                 events>>

\* Mutant of LoadFails: the handler that awaited the load has no finally.
LoadFailsInHandler(l) ==
  /\ l \notin IdleLoads
  /\ view' = [view EXCEPT !.last = "failed",
                          !.error = @ \/ LoadOf.fails \in {"error", "notice"},
                          !.shows = IF LoadOf.fails = "empty" THEN Blank
                                    ELSE @]
  /\ load' = [load EXCEPT ![l] = NoLoad]
  /\ UNCHANGED <<page, server, told, query, call, open, busy, crossed, doubts,
                 events>>

\* An error in place of the list, an empty list, or nothing at all
LoadFails(l) ==
  /\ l \notin IdleLoads
  /\ view' = [view EXCEPT !.last = "failed",
                          !.error = @ \/ LoadOf.fails \in {"error", "notice"},
                          !.shows = IF LoadOf.fails = "empty" THEN Blank
                                    ELSE @]
  /\ Finish(load[l].owner)
  /\ load' = [load EXCEPT ![l] = NoLoad]
  /\ UNCHANGED <<page, server, told, query, call, open, crossed, doubts,
                 events>>

-----------------------------------------------------------------------------
\* Forms, dialogs and buttons

\* What the user goes for: a draft never confirmed, or a row on the screen
New(r) == r \notin Listed /\ told[r] = 0
Hidden == view.error /\ LoadOf.fails = "error"
Target(o) ==
  {r \in Row : \/ o \in Creating /\ New(r) /\ (Offers(o).on = "page" \/ ~Hidden)
               \/ Does(o).effect # "create" /\ view.shows[r] > 0 /\ ~Hidden
               \/ o \notin Creating /\ Offers(o).on = "page" /\ r \in Listed}

Keep == UNCHANGED <<page, server, told, query, view, load, crossed, doubts>>

\* A form or dialog is opened.
Open(o, r) ==
  /\ open = NoForm /\ Offers(o).opens # "button" /\ r \in Target(o)
  /\ open' = [op |-> o, row |-> r]
  /\ Keep /\ UNCHANGED <<call, busy, events>>

\* The flag of a form that is closed goes with it.
Orphaned(o) == [c \in Calls |-> [call[c] EXCEPT !.form = @ /\ call[c].op # o]]

\* The form is folded, the dialog cancelled or its backdrop clicked: the busy
\* flag is not looked at.
Dismiss ==
  /\ open # NoForm /\ open' = NoForm
  /\ call' = Orphaned(open.op)
  /\ Keep /\ UNCHANGED <<busy, events>>

\* Mutant of Enabled: no button looks at its busy flag.
EnabledAlways(o, r) == TRUE

Enabled(o, r) ==
  Offers(o).disabled =>
    CASE Does(o).busy = "flag" -> busy[o] = None
      [] Does(o).busy = "slot" -> busy[o] # r
      [] Does(o).busy = "form" -> ~\E c \in CallsFor(o) : call[c].form
      [] Does(o).busy = "row"  -> ~\E c \in CallsFor(o) : call[c].row = r
      [] Does(o).busy = "none" -> TRUE

\* The handler is called: it sets its flag and sends the request.
Submit(o, r) ==
  /\ Event /\ Enabled(o, r) /\ IdleCalls # {} /\ Room(1)
  /\ busy' = IF Does(o).busy \in {"flag", "slot"} THEN [busy EXCEPT ![o] = r]
                                               ELSE busy
  /\ call' = [call EXCEPT ![Slot(IdleCalls)] =
                [step |-> "sent", op |-> o, row |-> r, stamp |-> 0,
                 query |-> query, new |-> o \in Creating /\ New(r),
                 form |-> Does(o).busy = "form", waits |-> TRUE]]
  /\ view' = [view EXCEPT !.error = @ /\ Does(o).tells # "fresh"]
  /\ UNCHANGED <<page, server, told, query, load, open, crossed, doubts>>

Click(o, r) ==
  /\ Offers(o).opens # "button" /\ open = [op |-> o, row |-> r]
  /\ Submit(o, r)

Press(o, r) ==
  /\ ~Modal /\ Offers(o).opens = "button" /\ r \in Target(o)
  /\ Submit(o, r)

-----------------------------------------------------------------------------
\* The server

\* What is created is unique where the table has a key for it; what is
\* changed must still be there.
Accepts(c) ==
  LET o == call[c].op
      r == call[c].row
  IN IF call[c].new THEN stamp[r] = 0 \/ ~Does(o).unique
     ELSE Does(o).effect = "send" \/ stamp[r] > 0

\* Loads under way may still miss the write, or bring it.
Seen == load' = [l \in Loads |-> IF l \in IdleLoads THEN NoLoad
                                 ELSE [load[l] EXCEPT !.may = @ \cup {stamp'}]]

Carried(c) == IF call[c].waits
              THEN [call[c] EXCEPT !.step = "done", !.stamp = clock']
              ELSE NoCall

ServeCall(c) ==
  LET o == call[c].op
      r == call[c].row
  IN /\ call[c].step = "sent" /\ Accepts(c)
     /\ clock' = IF Does(o).effect = "send" THEN clock ELSE clock + 1
     /\ stamp' = CASE Does(o).effect = "send"   -> stamp
                   [] Does(o).effect = "remove" -> [stamp EXCEPT ![r] = 0]
                   [] OTHER                     -> [stamp EXCEPT ![r] = clock']
     /\ made' = IF call[c].new THEN [made EXCEPT ![r] = @ + 1] ELSE made
     /\ call' = [call EXCEPT ![c] = Carried(c)]
     /\ crossed' = (crossed \/ ~call[c].waits)
     /\ Seen
     /\ UNCHANGED <<page, told, query, view, open, busy, doubts, events>>

\* A request nobody waits for any more may never reach the server.
Lost(c) ==
  /\ call[c].step = "sent" /\ ~call[c].waits
  /\ call' = [call EXCEPT ![c] = NoCall]
  /\ Keep /\ UNCHANGED <<open, busy, events>>

\* Somebody else changes a row.
Elsewhere(r) ==
  /\ Event /\ stamp[r] > 0
  /\ clock' = clock + 1 /\ stamp' = [stamp EXCEPT ![r] = clock']
  /\ Seen
  /\ UNCHANGED <<page, made, told, query, view, call, open, busy,
                 crossed, doubts>>

-----------------------------------------------------------------------------
\* The answer

\* Success: the user is told, the form is reset and folded whatever it is
\* open for by now.
Confirmed(c) ==
  LET o == call[c].op
  IN /\ call[c].step = "done" /\ call[c].waits
     /\ told' = IF Does(o).effect = "send" THEN told
                ELSE [told EXCEPT ![call[c].row] = call[c].stamp]
     /\ open' = IF Does(o).closes /\ open.op = o THEN NoForm ELSE open
     /\ LET rest == IF Does(o).closes THEN Orphaned(o) ELSE call
        IN call' = [rest EXCEPT ![c] = NoCall]
     /\ UNCHANGED <<page, server, doubts, events>>

\* The handler awaits load() for the page it was clicked on.
ThenReload(c) ==
  /\ Confirmed(c)
  /\ \/ Does(call[c].op).then = "reload"
     \/ Does(call[c].op).then = "first" /\ call[c].query.number = 1
  /\ StartLoad(call[c].query, call[c].op)
  /\ crossed' = (crossed \/ IdleLoads # Loads)
  /\ UNCHANGED <<query, busy>>

\* It starts load() and does not wait for it.
ThenRefresh(c) ==
  /\ Confirmed(c) /\ Does(call[c].op).then = "refresh"
  /\ StartLoad(call[c].query, None)
  /\ crossed' = (crossed \/ IdleLoads # Loads)
  /\ Finish(call[c].op)
  /\ UNCHANGED query

\* It goes back to page 1, and the effect loads that, unless the user is
\* there by now.
ThenFirst(c) ==
  /\ Confirmed(c) /\ Does(call[c].op).then = "first"
  /\ call[c].query.number # 1
  /\ query' = [query EXCEPT !.number = 1]
  /\ IF query' = query THEN UNCHANGED <<view, load>> ELSE StartLoad(query', None)
  /\ crossed' = (crossed \/ query' = query \/ IdleLoads # Loads)
  /\ Finish(call[c].op)

\* It puts the row of the answer into the list, in the place of the old one,
\* or takes it out.
ThenPatch(c) ==
  LET o == call[c].op
  IN /\ Confirmed(c) /\ Does(o).then = "patch"
     /\ view' = [view EXCEPT !.shows[call[c].row] =
                   IF \/ Does(o).effect = "remove"
                      \/ o \notin Creating /\ @ = 0
                   THEN 0 ELSE call[c].stamp]
     /\ crossed' = (crossed \/ IdleLoads # Loads)
     /\ Finish(o)
     /\ UNCHANGED <<query, load>>

ThenNothing(c) ==
  /\ Confirmed(c) /\ Does(call[c].op).then = "nothing"
  /\ Finish(call[c].op)
  /\ UNCHANGED <<query, view, load, crossed>>

\* Failure: a toast or an error, and the form stays as it was typed, or not.
Fails(c) ==
  LET o == call[c].op
  IN /\ open' = IF ~Does(o).keeps /\ open.op = o THEN NoForm ELSE open
     /\ \/ Does(o).tells # "fresh" /\ UNCHANGED <<view, crossed>>
        \/ /\ Does(o).tells # "toast"
           /\ view' = [view EXCEPT !.error = TRUE, !.last = "failed"]
           /\ crossed' = (crossed \/ IdleLoads # Loads)
     /\ Finish(o)
     /\ UNCHANGED <<page, server, told, query, load>>

\* The server refuses, or the request does not get there.
CallRefused(c) ==
  /\ call[c].step = "sent" /\ call[c].waits
  /\ Fails(c)
  /\ call' = [call EXCEPT ![c] = NoCall]
  /\ UNCHANGED <<doubts, events>>

Doubt(c) == Event /\ doubts' = [doubts EXCEPT ![call[c].row] = @ + 1]

\* The client aborts after its 20 seconds; the server may carry on.
GivesUp(c) ==
  /\ call[c].waits /\ Doubt(c) /\ Fails(c)
  /\ call' = [call EXCEPT ![c] = IF @.step = "sent"
                                 THEN [@ EXCEPT !.waits = FALSE, !.form = FALSE]
                                 ELSE NoCall]

\* The write is done and the second request fails.
TailFails(c) ==
  /\ call[c].step = "done" /\ Does(call[c].op).tail
  /\ Doubt(c) /\ Fails(c)
  /\ call' = [call EXCEPT ![c] = NoCall]

-----------------------------------------------------------------------------
CallEnds(c) == \/ CallRefused(c) \/ GivesUp(c) \/ TailFails(c)
               \/ ThenReload(c) \/ ThenRefresh(c) \/ ThenFirst(c)
               \/ ThenPatch(c) \/ ThenNothing(c)
LoadEnds(l) == LoadAnswered(l) \/ LoadFails(l)

PageNext ==
  \/ Renew
  \/ \E n \in 1..2 : TurnPage(n) \/ Refilter(n) \/ RefilterTwice(n)
  \/ \E l \in Loads : LoadEnds(l)
  \/ \E o \in Op, r \in Row : Open(o, r) \/ Click(o, r) \/ Press(o, r)
  \/ Dismiss
  \/ \E c \in Calls : ServeCall(c) \/ Lost(c) \/ CallEnds(c)
  \/ \E r \in Row : Elsewhere(r)

\* Every fetch is settled: by the answer, by a network error or by the
\* timeout of the client, and then its handler runs on.  No more is assumed
\* than that some answer comes as long as one is awaited.
PageFairness == WF_pageVars(\/ \E l \in Loads : LoadEnds(l)
                            \/ \E c \in Calls : CallEnds(c))

PageSpec == PageInit /\ [][PageNext]_pageVars /\ PageFairness

-----------------------------------------------------------------------------
LoadState == [query: Query, may: SUBSET [Row -> Nat], owner: Op \cup {None}]
CallState == [step: {"idle", "sent", "done"}, op: Op \cup {None},
              row: Row \cup {None}, stamp: Nat, query: Query,
              new: BOOLEAN, form: BOOLEAN, waits: BOOLEAN]
ViewState == [shows: [Row -> Nat], query: Query, error: BOOLEAN,
              last: {"none", "ok", "failed"}]

PageTypeOK ==
  /\ page \in DOMAIN Page
  /\ stamp \in [Row -> Nat] /\ clock \in Nat
  /\ made \in [Row -> Nat] /\ told \in [Row -> Nat]
  /\ query \in Query /\ view \in ViewState
  /\ load \in [Loads -> LoadState] /\ call \in [Calls -> CallState]
  /\ open \in [op: Op \cup {None}, row: Row \cup {None}]
  /\ busy \in [Op -> Row \cup {None}]
  /\ crossed \in BOOLEAN /\ doubts \in [Row -> Nat]
  /\ events \in 0..MaxEvents

\* A request under way is one of the page's; only one that is waited for is
\* kept after the server did it, and then it has left its stamp.
CallSound(c) ==
  /\ call[c] = NoCall \/ /\ call[c].step # "idle"
                         /\ call[c].op \in Op /\ call[c].row \in Row
  /\ call[c].new => call[c].op \in Creating
  /\ call[c].step = "done" =>
       call[c].waits /\ (Does(call[c].op).effect # "send" => call[c].stamp > 0)

\* An operation runs once at a time where its button is disabled by its flag.
Guarded(o) == Does(o).busy = "flag" /\ Offers(o).disabled

\* While such an operation waits for its request or for the load after it, and
\* only then, its flag is up; and it waits for one of them at a time.
FlagAgrees(o) ==
  /\ busy[o] # None <=> CallsFor(o) \cup LoadsFor(o) # {}
  /\ \A c, d \in CallsFor(o) : c = d
  /\ \A l, k \in LoadsFor(o) : l = k
  /\ CallsFor(o) = {} \/ LoadsFor(o) = {}

\* What is under way to store a draft, and whether the user waits for it
Storing(r)  == {c \in Calls : call[c].step = "sent" /\ call[c].new
                                /\ call[c].row = r}
AwaitsNew(r) == \E c \in Waiting : call[c].new /\ call[c].row = r

\* A draft was sent once for each doubt, and once more if the user waits for
\* it or was told it is there.
SentOnceADoubt(r) ==
  made[r] + Cardinality(Storing(r))
    <= doubts[r] + (IF told[r] # 0 \/ AwaitsNew(r) THEN 1 ELSE 0)

\* What the handlers set and clear in many places agrees.
PageInv ==
  /\ PageTypeOK
  /\ \A l \in Loads : load[l] = NoLoad \/ load[l].may # {}
  /\ \A c \in Calls : CallSound(c)
  /\ Cardinality(Waiting) <= Cardinality(IdleLoads)
  /\ \A o \in Op : Guarded(o) => FlagAgrees(o)
  /\ (\A o \in Creating : Guarded(o)) => \A r \in Row : SentOnceADoubt(r)

\* What is on the server was put there, and was not there before its stamp.
Stored(r) == r \in Listed \/ made[r] > 0

\* Rows the user has to do with: on the screen, told of, or the object of a
\* form or of a request
Met(r) == \/ r \in Listed
          \/ view.shows[r] > 0
          \/ told[r] # 0
          \/ open.row = r /\ open.op \notin Creating
          \/ \E c \in Calls : call[c].row = r /\ call[c].op \notin Creating

\* The stamps a request leaves, and those the user is told, are stamps the row
\* had; a row met was stored, and when removed, it is gone.
DoneAgrees(c) ==
  LET r == call[c].row
  IN call[c].step = "done" /\ Does(call[c].op).effect # "send" =>
       /\ Stored(r) /\ call[c].stamp <= clock
       /\ stamp[r] = 0 \/ call[c].stamp <= stamp[r]
       /\ Does(call[c].op).effect = "remove" /\ made[r] <= 1 => stamp[r] = 0

StampsAgree ==
  /\ \A r \in Row : /\ stamp[r] <= clock /\ told[r] <= clock
                    /\ stamp[r] = 0 \/ told[r] <= stamp[r]
                    /\ stamp[r] > 0 \/ Met(r) => Stored(r)
  /\ \A l \in Loads : \A shows \in load[l].may : \A r \in Row :
       shows[r] > 0 => Stored(r)
  /\ \A c \in Calls : /\ DoneAgrees(c)
                      /\ call[c].new => call[c].row \notin Listed

\* A list that has nothing older than what the user was told, and misses a row
\* the user has met only if it is gone.  A draft stored twice is two rows of
\* the server and one of the model: it may be gone and come again.
UpToDate(shows) ==
  \A r \in Row : IF shows[r] = 0 THEN Met(r) /\ made[r] <= 1 => stamp[r] = 0
                 ELSE shows[r] >= told[r]

\* The answer of this handler makes it load what was selected at the click.
Reloads(c) == \/ Does(call[c].op).then \in {"reload", "refresh"}
              \/ Does(call[c].op).then = "first" /\ call[c].query.number = 1

Cleared == LoadOf.clears => ~view.error

\* As long as no requests crossed: one load is under way at most, for what is
\* selected, and whatever it brings will be up to date; so is the list when no
\* load is, unless the last one failed.
ListAgrees ==
  /\ \A l, k \in Loads \ IdleLoads : l = k
  /\ \A l \in Loads \ IdleLoads :
       /\ load[l].query = query /\ Cleared
       /\ \A shows \in load[l].may : UpToDate(shows)
  /\ IdleLoads = Loads /\ view.last = "ok" =>
       view.query = query /\ Cleared /\ UpToDate(view.shows)
  /\ \A c \in Waiting : Reloads(c) => call[c].query = query

\* Nothing on the page is newer than the server, and until requests cross what
\* is on its way is for what the user selected and has all he was told.
ListInv == StampsAgree /\ (~crossed => ListAgrees)

\* The inductive invariant of a page: its buttons and its list are right about
\* what is under way.
PageListInv == PageInv /\ ListInv

\* What the user was told is done is in the list (or, removed, is not), once
\* nothing is under way and the last load did not fail, unless requests
\* crossed or the row was stored twice; and the list is the one selected, with
\* no stale error over it.
ReadsOwnWrites ==
  Quiet /\ ~crossed /\ view.last = "ok" =>
    /\ \A r \in Row : \/ view.shows[r] >= told[r]
                     \/ view.shows[r] = stamp[r]
                     \/ made[r] > 1
    /\ view.query = query
    /\ Cleared

\* A draft is stored more than once only if the user was left in doubt about
\* it: once for each attempt that failed though it may be done, and once more.
\* Holds for every guarded creation, with or without a key in the table.
RepeatedOnlyInDoubt ==
  (\A o \in Creating : Guarded(o)) => \A r \in Row : made[r] <= 1 + doubts[r]

\* Once the user stops, everything settles: whatever is lost, every handler
\* gets to its finally, and no button stays disabled.
PageSettles == <>[](Quiet /\ \A o \in Op : busy[o] = None)
=============================================================================
