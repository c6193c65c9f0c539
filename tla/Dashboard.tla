------------------------------ MODULE Dashboard ------------------------------
(***************************************************************************)
(* The web dashboard of a server process: how a change of the board comes  *)
(* to be seen on an open page.  A call commits its rows and later calls    *)
(* notify_waiters(); the bridge task passes the notification on to a       *)
(* bounded broadcast channel; the stream of /api/events turns it into an   *)
(* event on the wire; the page answers every event with a GET of the       *)
(* board.  Changes that notify nobody (claims, stuck items, calls of other *)
(* processes), lost connections, failed and overtaken answers are all      *)
(* possible.  What the board holds is the number of its changes.           *)
(***************************************************************************)
EXTENDS Naturals, FiniteSets

CONSTANTS
  Capacity,    \* of the broadcast channel (64 in the code)
  MaxWire,     \* events the connection holds before the stream has to wait
  Fetches,     \* requests for the board the page can have open at a time
  MaxChanges,  \* bound: changes of the board
  MaxDrops,    \* bound: connections lost
  MaxFails     \* bound: requests that fail

ASSUME DashboardAssumption ==
  /\ Capacity \in Nat \ {0}
  /\ MaxWire \in Nat \ {0}
  /\ MaxChanges \in Nat
  /\ MaxDrops \in Nat
  /\ MaxFails \in Nat

VARIABLES
  rev,       \* changes committed
  owed,      \* changes whose call is still to notify
  bridge,    \* "away" from its notification, "waiting" for it, or "woken"
  rx,        \* the page's receiver of the channel
  wire,      \* events sent and not yet heard
  page,      \* "loading", "connecting", "open", "backoff"
  fetch,     \* requests of the page: unused, asked, or the board in the answer
  view,      \* the board the page shows
  posting,   \* the change that a POST of the page made, until it is answered; 0: none
  drops, fails,
  expected   \* history: what the page has been promised to show

board == <<rev, owed>>
stream == <<bridge, rx, wire>>
browser == <<page, fetch, view, posting>>
faults == <<drops, fails>>
vars == <<board, stream, browser, faults, expected>>

Revs == 0 .. MaxChanges
None == [state |-> "none"]
Asked == [state |-> "asked"]
Seen(n) == [state |-> "seen", rev |-> n]

NoReceiver == [on |-> FALSE, pending |-> 0, lagged |-> FALSE]

TypeOK ==
  /\ rev \in Revs
  /\ owed \subseteq 1 .. rev
  /\ bridge \in {"away", "waiting", "woken"}
  /\ rx \in [on : BOOLEAN, pending : 0 .. Capacity, lagged : BOOLEAN]
  /\ wire \in 0 .. MaxWire
  /\ page \in {"loading", "connecting", "open", "backoff"}
  /\ fetch \in [Fetches -> {None, Asked} \cup {Seen(n) : n \in Revs}]
  /\ view \in Revs
  /\ posting \in Revs
  /\ drops \in 0 .. MaxDrops
  /\ fails \in 0 .. MaxFails
  /\ expected \in Revs

\* The page is loaded: its first request is under way.
Init ==
  /\ rev = 0 /\ owed = {}
  /\ bridge = "away" /\ rx = NoReceiver /\ wire = 0
  /\ page = "loading"
  /\ \E f \in Fetches : fetch = [g \in Fetches |-> IF g = f THEN Asked ELSE None]
  /\ view = 0 /\ posting = 0
  /\ drops = 0 /\ fails = 0
  /\ expected = 0

\* An excuse: the page need not show more than it does.
AtMost(n) == IF expected <= n THEN expected ELSE n

-----------------------------------------------------------------------------
(* The board *)

\* A call commits; a loud one is to notify, and the page may be the caller.
Change(loud, byPage) ==
  /\ rev < MaxChanges
  /\ byPage => page # "loading" /\ posting = 0
  /\ rev' = rev + 1
  /\ owed' = IF loud THEN owed \cup {rev + 1} ELSE owed
  /\ posting' = IF byPage THEN rev + 1 ELSE posting
  /\ UNCHANGED <<stream, page, fetch, view, faults, expected>>

\* notify_waiters(): only a registered bridge is woken.  A bridge that is
\* woken already sends after this change, one that is away misses it.
Announce(n) ==
  /\ n \in owed
  /\ owed' = owed \ {n}
  /\ bridge' = IF bridge = "waiting" THEN "woken" ELSE bridge
  /\ expected' = IF bridge # "away" /\ rx.on /\ expected < n THEN n ELSE expected
  /\ UNCHANGED <<rev, rx, wire, browser, faults>>

-----------------------------------------------------------------------------
(* The server *)

Register ==
  /\ bridge = "away"
  /\ bridge' = "waiting"
  /\ UNCHANGED <<board, rx, wire, browser, faults, expected>>

\* Mutant of Send: without a receiver the bridge ends.
SendOrEnd ==
  /\ bridge = "woken"
  /\ bridge' = IF rx.on THEN "away" ELSE "ended"
  /\ rx' = IF ~rx.on THEN rx
           ELSE IF rx.pending = Capacity THEN [rx EXCEPT !.lagged = TRUE]
           ELSE [rx EXCEPT !.pending = @ + 1]
  /\ UNCHANGED <<board, wire, browser, faults, expected>>

\* A full channel drops its oldest message and the receiver lags; without a
\* receiver send() fails, which is logged.
Send ==
  /\ bridge = "woken"
  /\ bridge' = "away"
  /\ rx' = IF ~rx.on THEN rx
           ELSE IF rx.pending = Capacity THEN [rx EXCEPT !.lagged = TRUE]
           ELSE [rx EXCEPT !.pending = @ + 1]
  /\ UNCHANGED <<board, wire, browser, faults, expected>>

\* Mutant of SkipLag: the receiver starts anew at the channel's end.
SkipLagToEnd ==
  /\ rx.lagged
  /\ rx' = [rx EXCEPT !.lagged = FALSE, !.pending = 0]
  /\ UNCHANGED <<board, bridge, wire, browser, faults, expected>>

\* The error of a lagging receiver is filtered out of the stream.
SkipLag ==
  /\ rx.lagged
  /\ rx' = [rx EXCEPT !.lagged = FALSE]
  /\ UNCHANGED <<board, bridge, wire, browser, faults, expected>>

Stream ==
  /\ ~rx.lagged /\ rx.pending > 0 /\ wire < MaxWire
  /\ rx' = [rx EXCEPT !.pending = @ - 1]
  /\ wire' = wire + 1
  /\ UNCHANGED <<board, bridge, browser, faults, expected>>

\* board_list() answers with the board as it is now.
Answer(f) ==
  /\ fetch[f] = Asked
  /\ fetch' = [fetch EXCEPT ![f] = Seen(rev)]
  /\ UNCHANGED <<board, stream, page, view, posting, faults, expected>>

\* The events handler subscribes.
Subscribe ==
  /\ page = "connecting"
  /\ page' = "open"
  /\ rx' = [NoReceiver EXCEPT !.on = TRUE]
  /\ UNCHANGED <<board, bridge, wire, fetch, view, posting, faults, expected>>

-----------------------------------------------------------------------------
(* The page *)

Ask == \E f \in Fetches : fetch[f] = None /\ fetch' = [fetch EXCEPT ![f] = Asked]

\* After its first answer, whatever it was, the page connects.
AfterFetch == page' = IF page = "loading" THEN "connecting" ELSE page

\* board_changed: get the board, also while an earlier answer is awaited.
Hear ==
  /\ wire > 0
  /\ wire' = wire - 1
  /\ Ask
  /\ UNCHANGED <<board, bridge, rx, page, view, posting, faults, expected>>

\* Answers are shown as they come, which need not be in the order of asking.
Show(f) ==
  /\ fetch[f].state = "seen"
  /\ view' = fetch[f].rev
  /\ expected' = IF view' < view THEN AtMost(view') ELSE expected
  /\ fetch' = [fetch EXCEPT ![f] = None]
  /\ AfterFetch
  /\ UNCHANGED <<board, stream, posting, faults>>

\* A failed request is logged and not tried again.
FetchFails(f) ==
  /\ fetch[f] # None
  /\ fails < MaxFails
  /\ fails' = fails + 1
  /\ fetch' = [fetch EXCEPT ![f] = None]
  /\ expected' = AtMost(view)
  /\ AfterFetch
  /\ UNCHANGED <<board, stream, view, posting, drops>>

\* submitPost() and claimItem() get the board when their POST has succeeded;
\* the server answers it after notify_waiters().
Posted ==
  /\ posting # 0 /\ posting \notin owed
  /\ posting' = 0
  /\ Ask
  /\ UNCHANGED <<board, stream, page, view, faults, expected>>

PostFails ==
  /\ posting # 0 /\ fails < MaxFails
  /\ posting' = 0
  /\ fails' = fails + 1
  /\ UNCHANGED <<board, stream, page, fetch, view, drops, expected>>

\* The connection is lost, with everything on its way.
Drop ==
  /\ page \in {"connecting", "open"}
  /\ drops < MaxDrops
  /\ drops' = drops + 1
  /\ page' = "backoff"
  /\ rx' = NoReceiver /\ wire' = 0
  /\ expected' = AtMost(view)
  /\ UNCHANGED <<board, bridge, fetch, view, posting, fails>>

\* After a delay the page connects again; it does not get the board.
Reconnect ==
  /\ page = "backoff"
  /\ page' = "connecting"
  /\ UNCHANGED <<board, stream, fetch, view, posting, faults, expected>>

-----------------------------------------------------------------------------

Next ==
  \/ \E loud, byPage \in BOOLEAN : Change(loud, byPage)
  \/ \E n \in owed : Announce(n)
  \/ Register \/ Send \/ SkipLag \/ Stream \/ Subscribe
  \/ \E f \in Fetches : Answer(f) \/ Show(f) \/ FetchFails(f)
  \/ Hear \/ Posted \/ PostFails \/ Drop \/ Reconnect

Spec == Init /\ [][Next]_vars

\* The bridge and the streams are tasks that are polled when they can go on,
\* the page is on screen, and the server answers.
Fairness ==
  /\ WF_vars(Register) /\ WF_vars(Send) /\ WF_vars(SkipLag) /\ WF_vars(Stream)
  /\ WF_vars(Subscribe) /\ WF_vars(Reconnect) /\ WF_vars(Hear) /\ WF_vars(Posted)
  /\ \A f \in Fetches : WF_vars(Answer(f)) /\ WF_vars(Show(f))

FairSpec == Spec /\ Fairness

-----------------------------------------------------------------------------
(* Properties *)

\* A request whose answer has, or will have, the promised changes.
Brings(r) == r = Asked \/ (r.state = "seen" /\ r.rev >= expected)

\* A change announced to a registered bridge while the page is subscribed is
\* on the page or on its way there, through a channel that overflows, a
\* receiver that lags and answers that cross (mod.rs:28, sse.rs:13).
RefreshOwed ==
  view < expected =>
    \/ bridge = "woken"
    \/ rx.pending > 0
    \/ wire > 0
    \/ \E f \in Fetches : Brings(fetch[f])

\* It comes to be seen, unless the connection or an answer is lost or an
\* older answer comes in last.
PageCatchesUp ==
  \A n \in 1 .. MaxChanges : expected >= n ~> view >= n \/ expected < n

\* SSE as real-time updates of the state: once nothing changes any more, the
\* page shows the board (docs/v0.2/ARCHITECTURE.md:766).
ShowsBoard == <>[](view = rev)

=============================================================================
