------------------------------ MODULE UiProofs ------------------------------
(***************************************************************************)
(* The front ends, for any capacities and numbers of changes, inputs and   *)
(* losses: a refresh that was promised to the page is never dropped; and   *)
(* the answers on the terminal are shown whole, in order, each below its   *)
(* question.                                                               *)
(***************************************************************************)
EXTENDS MCUi, SequenceTheorems, TLAPS

-----------------------------------------------------------------------------
(* The dashboard.                                                          *)
(*                                                                         *)
(* RefreshOwed is not inductive: Subscribe gives the page a new receiver,  *)
(* and would lose messages if the old one had any.  Sound adds what rules  *)
(* that out: a page that is owed something has a receiver, and only an     *)
(* open page has one; and nothing is promised that the board does not have *)
(* yet, so that any answer still to be given will do.                      *)


Sound ==
  /\ expected <= rev
  /\ rx.on => page = "open"
  /\ view < expected => rx.on

Inv == TypeOK /\ Sound /\ RefreshOwed

\* A request is unused, asked, or answered with a number of changes.
Requests == {None, Asked} \cup {Seen(n) : n \in Revs}

LEMMA RequestKinds ==
  ASSUME NEW r \in Requests
  PROVE  /\ r.state = "seen" => r.rev \in Revs
         /\ ~Brings(None)
  BY DEF Requests, None, Asked, Seen, Brings

\* An excuse leaves a promise of what is shown at most.
LEMMA Excuse ==
  ASSUME expected \in Revs, rev \in Revs, expected <= rev, NEW n \in Revs
  PROVE  AtMost(n) \in Revs /\ AtMost(n) <= n /\ AtMost(n) <= rev
  BY DashboardAssumption DEF AtMost, Revs

LEMMA InvInit == Init => Inv
<1> SUFFICES ASSUME Init PROVE Inv
  OBVIOUS
<1> USE DashboardAssumption DEF Init
<1>1. TypeOK
  <2>1. PICK f \in Fetches : fetch = [g \in Fetches |-> IF g = f THEN Asked ELSE None]
    OBVIOUS
  <2>2. fetch \in [Fetches -> {None, Asked} \cup {Seen(n) : n \in Revs}]
    BY <2>1
  <2>3. rx \in [on : BOOLEAN, pending : 0 .. Capacity, lagged : BOOLEAN]
    BY DEF NoReceiver
  <2>4. /\ rev \in Revs /\ view \in Revs /\ expected \in Revs
        /\ owed \subseteq 1 .. rev
    BY DEF Revs
  <2>5. wire \in 0 .. MaxWire /\ drops \in 0 .. MaxDrops /\ fails \in 0 .. MaxFails
    OBVIOUS
  <2> QED
    BY <2>2, <2>3, <2>4, <2>5 DEF TypeOK
<1>2. Sound /\ RefreshOwed
  BY DEF Sound, RefreshOwed, NoReceiver
<1> QED
  BY <1>1, <1>2 DEF Inv

\* Each step keeps the types, and what is promised stays owed.
LEMMA InvNext == Inv /\ [Next]_vars => Inv'
<1> SUFFICES ASSUME Inv, [Next]_vars PROVE Inv'
  OBVIOUS
<1> USE DashboardAssumption DEF Inv
<1>1. ASSUME NEW loud \in BOOLEAN, NEW byPage \in BOOLEAN, Change(loud, byPage) PROVE Inv'
  <2>1. TypeOK'
    BY <1>1 DEF Change, TypeOK, Revs, stream, faults
  <2>2. Sound' /\ RefreshOwed'
    BY <1>1 DEF Change, Sound, RefreshOwed, Brings, TypeOK, Revs, stream, faults
  <2> QED
    BY <2>1, <2>2
<1>2. ASSUME NEW n \in owed, Announce(n) PROVE Inv'
  <2>1. TypeOK'
    BY <1>2 DEF Announce, TypeOK, Revs, browser, faults
  <2>2. Sound'
    BY <1>2 DEF Announce, Sound, TypeOK, Revs, browser, faults
  <2>3. RefreshOwed'
    <3>1. CASE bridge # "away" /\ rx.on /\ expected < n
      BY <1>2, <3>1 DEF Announce, RefreshOwed, TypeOK
    <3>2. CASE ~(bridge # "away" /\ rx.on /\ expected < n)
      BY <1>2, <3>2 DEF Announce, RefreshOwed, Brings, browser
    <3> QED
      BY <3>1, <3>2
  <2> QED
    BY <2>1, <2>2, <2>3
<1>3. CASE Register
  BY <1>3 DEF Register, TypeOK, Sound, RefreshOwed, Brings, board, browser, faults
<1>4. CASE Send
  <2>1. rx' \in [on : BOOLEAN, pending : 0 .. Capacity, lagged : BOOLEAN] /\ rx'.on = rx.on
    <3>1. rx = [on |-> rx.on, pending |-> rx.pending, lagged |-> rx.lagged]
      BY DEF TypeOK
    <3>2. /\ rx.on \in BOOLEAN /\ rx.lagged \in BOOLEAN
          /\ rx.pending \in 0 .. Capacity
          /\ rx.pending # Capacity => rx.pending + 1 \in 0 .. Capacity
      BY DEF TypeOK
    <3> QED
      BY <1>4, <3>1, <3>2 DEF Send
  <2>2. rx.on => rx'.pending > 0
    BY <1>4 DEF Send, TypeOK
  <2> QED
    BY <1>4, <2>1, <2>2 DEF Send, TypeOK, Sound, RefreshOwed, board, browser, faults
<1>5. CASE SkipLag
  BY <1>5 DEF SkipLag, TypeOK, Sound, RefreshOwed, Brings, board, browser, faults
<1>6. CASE Stream
  BY <1>6 DEF Stream, TypeOK, Sound, RefreshOwed, board, browser, faults
<1>7. CASE Subscribe
  <2>1. rx' \in [on : BOOLEAN, pending : 0 .. Capacity, lagged : BOOLEAN]
    <3>1. rx' = [on |-> TRUE, pending |-> 0, lagged |-> FALSE]
      BY <1>7 DEF Subscribe, NoReceiver
    <3> QED
      BY <3>1
  <2>2. ~(view < expected)
    BY <1>7 DEF Subscribe, Sound
  <2> QED
    BY <1>7, <2>1, <2>2 DEF Subscribe, TypeOK, Sound, RefreshOwed, board, faults
<1>8. ASSUME NEW f \in Fetches, Answer(f) PROVE Inv'
  <2>1. TypeOK' /\ Sound'
    BY <1>8 DEF Answer, TypeOK, Sound, board, stream, faults
  <2>2. Brings(Seen(rev))'
    BY <1>8 DEF Answer, Sound, Brings, Seen, board
  <2>3. RefreshOwed'
    BY <1>8, <2>2 DEF Answer, TypeOK, RefreshOwed, Brings, board, stream
  <2> QED
    BY <2>1, <2>3
<1>9. ASSUME NEW f \in Fetches, Show(f) PROVE Inv'
  <2>1. view' \in Revs /\ expected' \in Revs /\ expected' <= rev
    BY <1>9, RequestKinds, Excuse DEF Show, TypeOK, Sound, Requests
  <2>2. TypeOK'
    BY <1>9, <2>1 DEF Show, AfterFetch, TypeOK, board, stream, faults
  <2>3. Sound'
    BY <1>9, <2>1 DEF Show, AfterFetch, TypeOK, Sound, Revs, AtMost, board, stream
  <2>4. RefreshOwed'
    <3>1. CASE view' < view
      BY <1>9, <2>1, <3>1 DEF Show, AtMost, RefreshOwed, TypeOK, Revs
    <3>2. CASE ~(view' < view)
      <4> SUFFICES ASSUME view' < expected PROVE RefreshOwed'
        BY <1>9, <3>2 DEF Show, RefreshOwed
      <4>1. view < expected /\ ~Brings(fetch[f])
        BY <1>9, <2>1, <3>2 DEF Show, Brings, TypeOK, Revs, Asked
      <4>2. \A g \in Fetches : Brings(fetch[g]) => fetch'[g] = fetch[g]
        BY <1>9, <4>1 DEF Show, TypeOK
      <4> QED
        BY <1>9, <3>2, <4>1, <4>2 DEF Show, RefreshOwed, Brings, stream
    <3> QED
      BY <3>1, <3>2
  <2> QED
    BY <2>2, <2>3, <2>4
<1>10. ASSUME NEW f \in Fetches, FetchFails(f) PROVE Inv'
  <2>1. expected' \in Revs /\ expected' <= rev /\ expected' <= view
    BY <1>10, Excuse DEF FetchFails, TypeOK, Sound
  <2> QED
    BY <1>10, <2>1 DEF FetchFails, AfterFetch, TypeOK, Sound, RefreshOwed, Revs, board, stream
<1>11. CASE Hear
  <2>1. PICK f \in Fetches : fetch[f] = None /\ fetch' = [fetch EXCEPT ![f] = Asked]
    BY <1>11 DEF Hear, Ask
  <2>2. TypeOK' /\ Sound'
    BY <1>11, <2>1 DEF Hear, TypeOK, Sound, board, faults
  <2>3. RefreshOwed'
    BY <1>11, <2>1 DEF Hear, TypeOK, RefreshOwed, Brings
  <2> QED
    BY <2>2, <2>3
<1>12. CASE Posted
  <2>1. PICK f \in Fetches : fetch[f] = None /\ fetch' = [fetch EXCEPT ![f] = Asked]
    BY <1>12 DEF Posted, Ask
  <2>2. TypeOK' /\ Sound'
    BY <1>12, <2>1 DEF Posted, TypeOK, Sound, Revs, board, stream, faults
  <2>3. RefreshOwed'
    BY <1>12, <2>1 DEF Posted, TypeOK, RefreshOwed, Brings
  <2> QED
    BY <2>2, <2>3
<1>13. CASE PostFails
  <2>1. fails + 1 \in 0 .. MaxFails
    BY <1>13 DEF PostFails, TypeOK
  <2>2. TypeOK' /\ Sound'
    BY <1>13, <2>1 DEF PostFails, TypeOK, Sound, Revs, board, stream
  <2>3. RefreshOwed'
    BY <1>13 DEF PostFails, RefreshOwed, Brings, stream
  <2> QED
    BY <2>2, <2>3
<1>14. CASE Drop
  <2>1. expected' \in Revs /\ expected' <= rev /\ expected' <= view
    BY <1>14, Excuse DEF Drop, TypeOK, Sound
  <2> QED
    BY <1>14, <2>1 DEF Drop, NoReceiver, TypeOK, Sound, RefreshOwed, Revs, board
<1>15. CASE Reconnect
  BY <1>15 DEF Reconnect, TypeOK, Sound, RefreshOwed, Brings, board, stream, faults
<1>16. CASE UNCHANGED vars
  BY <1>16 DEF vars, board, stream, browser, faults, TypeOK, Sound, RefreshOwed, Brings
<1> QED
  BY <1>1, <1>2, <1>3, <1>4, <1>5, <1>6, <1>7, <1>8, <1>9, <1>10, <1>11, <1>12, <1>13,
     <1>14, <1>15, <1>16 DEF Next

\* Types of the bridge, the channel, the connection and the page (web/mod.rs, sse.rs).
THEOREM TypeCorrect == Spec => []TypeOK
<1>1. Inv => TypeOK
  BY DEF Inv
<1> QED
  BY <1>1, InvInit, InvNext, PTL DEF Spec

\* A change announced to the bridge for a subscribed page is on the page or on
\* its way: no overflow, lag or crossing of answers drops it (sse.rs:13).
THEOREM RefreshKept == Spec => []RefreshOwed
<1>1. Inv => RefreshOwed
  BY DEF Inv
<1> QED
  BY <1>1, InvInit, InvNext, PTL DEF Spec

-----------------------------------------------------------------------------
(* The terminal.                                                           *)
(*                                                                         *)
(* One reply task at most is at work while the loop goes on, all that is   *)
(* in the channel is its own, in order, and ends with Done; what it has    *)
(* sent and is not in the channel is on screen.                            *)

InChannel(n) == \E k \in DOMAIN replies : replies[k].input = n

Working(n) == reply[n] \in {"call", "stream", "ending"} \/ InChannel(n)

Ended(n) == IF reply[n] = "gone" THEN 1 ELSE 0

\* The pieces of answer n in the channel, and those that left it.
Left(n) == IF InChannel(n) THEN Len(replies) - Ended(n) ELSE 0
Taken(n) == produced[n] - Left(n)

Queued(n) ==
  \A k \in DOMAIN replies :
    replies[k] = IF k = Len(replies) /\ reply[n] = "gone" THEN Terminal!Done(n)
                 ELSE Terminal!Piece(n, Taken(n) + k)

TaskInv ==
  \A n \in Terminal!Inputs :
    /\ reply[n] # "none" => n <= entered
    /\ reply[n] = "none" => produced[n] = 0
    /\ loop /\ Working(n) =>
         busy /\ reply[n] # "none" /\ \A m \in Terminal!Inputs : Working(m) => m = n
    /\ InChannel(n) => loop /\ Taken(n) \in 0 .. produced[n] /\ Queued(n)

\* Line u is question n, and what the agent says below it is the answer to it.
Asks(u, n) ==
  /\ lines[u] = Terminal!User(n)
  /\ \A i \in u + 1 .. Len(lines) : lines[i].who = "agent" =>
       \A k \in DOMAIN lines[i].pieces : lines[i].pieces[k].input = n

PiecesOnly ==
  \A i \in DOMAIN lines : lines[i].who = "agent" =>
    \A k \in DOMAIN lines[i].pieces : lines[i].pieces[k].piece # 0

ScreenInv ==
  /\ PiecesOnly
  /\ loop => \A n \in Terminal!Inputs :
       /\ Working(n) => \E u \in DOMAIN lines : Asks(u, n)
       /\ Terminal!Shown(n) = 1 .. Taken(n)

ChatInv ==
  Terminal!TypeOK /\ TaskInv /\ ScreenInv /\ Terminal!BelowQuestions /\ Terminal!InOrder

\* What a line and a message are.
LEMMA LineKinds ==
  ASSUME Terminal!TypeOK
  PROVE  /\ lines \in Seq(Terminal!Lines) /\ Len(lines) \in Nat \ {0}
         /\ DOMAIN lines = 1 .. Len(lines)
         /\ \A i \in DOMAIN lines : lines[i].who = "agent" =>
              /\ lines[i].pieces \in Seq(Terminal!Messages)
              /\ DOMAIN lines[i].pieces = 1 .. Len(lines[i].pieces)
              /\ Len(lines[i].pieces) \in Nat
              /\ \A k \in DOMAIN lines[i].pieces :
                   lines[i].pieces[k] = Terminal!Piece(lines[i].pieces[k].input, lines[i].pieces[k].piece)
  <1>1. lines \in Seq(Terminal!Lines) /\ lines # <<>>
    BY DEF Terminal!TypeOK
  <1>2. ASSUME NEW i \in DOMAIN lines, lines[i].who = "agent"
        PROVE  lines[i].pieces \in Seq(Terminal!Messages)
    BY <1>1, <1>2 DEF Terminal!Lines, Terminal!System
  <1>3. ASSUME NEW s \in Seq(Terminal!Messages), NEW k \in DOMAIN s
        PROVE  s[k] = Terminal!Piece(s[k].input, s[k].piece)
    <2>1. s[k] \in Terminal!Messages
      BY <1>3
    <2> QED
      BY <2>1 DEF Terminal!Messages, Terminal!Piece
  <1> QED
    BY <1>1, <1>2, <1>3

\* Typed lines go on below what is there, and add nothing of the agent's.
Typed ==
  /\ Terminal!TypeOK /\ Len(lines') \in Nat /\ Len(lines') > Len(lines)
  /\ DOMAIN lines' = 1 .. Len(lines')
  /\ lines' \in Seq(Terminal!Lines) /\ lines' # <<>>
  /\ \A i \in 1 .. Len(lines) : lines'[i] = lines[i]
  /\ lines'[Len(lines) + 1] = Terminal!User(entered + 1)
  /\ \A i \in DOMAIN lines' : i > Len(lines) => lines'[i].who # "agent"
  /\ loop /\ entered + 1 \in Terminal!Inputs /\ entered' = entered + 1

LEMMA SubmitTypes ==
  ASSUME Terminal!TypeOK, NEW after \in {<<>>, <<Terminal!System>>}, Terminal!Submit(after)
  PROVE  Typed
<1> DEFINE user == Terminal!User(entered + 1)
<1>1. lines \in Seq(Terminal!Lines) /\ Len(lines) \in Nat \ {0} /\ DOMAIN lines = 1 .. Len(lines)
  BY LineKinds
<1>2. /\ loop /\ entered \in Nat /\ entered + 1 \in Terminal!Inputs /\ entered' = entered + 1
      /\ lines' = Append(lines, user) \o after
  BY ChatAssumption DEF Terminal!Submit, Terminal!TypeOK, Terminal!Inputs
<1>3. user \in Terminal!Lines /\ Terminal!System \in Terminal!Lines
      /\ user.who = "user" /\ Terminal!System.who = "system"
  BY <1>2 DEF Terminal!Lines, Terminal!User, Terminal!System
<1> HIDE DEF user
<1>4. /\ Append(lines, user) \in Seq(Terminal!Lines)
      /\ Len(Append(lines, user)) = Len(lines) + 1
      /\ \A i \in 1 .. Len(lines) : Append(lines, user)[i] = lines[i]
      /\ Append(lines, user)[Len(lines) + 1] = user
  BY <1>1, <1>3
<1>5. CASE after = <<>>
  <2>1. lines' = Append(lines, user)
    BY <1>2, <1>4, <1>5
  <2>2. /\ lines' \in Seq(Terminal!Lines)
        /\ Len(lines') = Len(lines) + 1
        /\ \A i \in 1 .. Len(lines) : lines'[i] = lines[i]
        /\ lines'[Len(lines) + 1] = user
    BY <1>4, <2>1
  <2>3. DOMAIN lines' = 1 .. Len(lines) + 1 /\ lines' # <<>>
    BY <1>1, <2>2
  <2>4. \A i \in DOMAIN lines' : i > Len(lines) => lines'[i].who # "agent"
    BY <1>1, <1>3, <2>2, <2>3
  <2> QED
    BY <1>1, <1>2, <2>2, <2>3, <2>4 DEF Typed, user
<1>6. CASE after = <<Terminal!System>>
  <2>1. lines' = Append(Append(lines, user), Terminal!System)
    BY <1>2, <1>4, <1>6
  <2>2. /\ lines' \in Seq(Terminal!Lines)
        /\ Len(lines') = Len(lines) + 2
        /\ DOMAIN lines' = 1 .. Len(lines) + 2
        /\ lines' # <<>>
        /\ \A i \in 1 .. Len(lines) + 1 : lines'[i] = Append(lines, user)[i]
        /\ lines'[Len(lines) + 2] = Terminal!System
    BY <1>1, <1>3, <1>4, <2>1
  <2> QED
    BY <1>1, <1>2, <1>3, <1>4, <2>2 DEF Typed, user
<1> QED
  BY <1>5, <1>6

\* Hence the agent's lines are those that were there.
LEMMA TypedKeeps ==
  ASSUME Typed
  PROVE  /\ \A i \in DOMAIN lines' : lines'[i].who = "agent" => i \in DOMAIN lines /\ lines'[i] = lines[i]
         /\ DOMAIN lines \subseteq DOMAIN lines'
         /\ \A n : Terminal!Shown(n)' = Terminal!Shown(n)
         /\ Terminal!BelowQuestions => Terminal!BelowQuestions'
         /\ Terminal!InOrder => Terminal!InOrder'
         /\ PiecesOnly => PiecesOnly'
         /\ \A n : \A u \in DOMAIN lines : Asks(u, n) => Asks(u, n)'
<1>1. /\ DOMAIN lines = 1 .. Len(lines) /\ Len(lines) \in Nat
      /\ \A i \in DOMAIN lines' : lines'[i].who = "agent" => i \in DOMAIN lines /\ lines'[i] = lines[i]
      /\ \A i \in DOMAIN lines : i \in DOMAIN lines' /\ lines'[i] = lines[i]
  BY LineKinds DEF Typed
<1>2. \A n : Terminal!Shown(n)' = Terminal!Shown(n)
  BY <1>1 DEF Terminal!Shown
<1>3. ASSUME Terminal!BelowQuestions PROVE Terminal!BelowQuestions'
  <2> SUFFICES ASSUME NEW i \in DOMAIN lines', lines'[i].who = "agent"
               PROVE  \E j \in 1 .. (i - 1) :
                        /\ lines'[j].who = "user"
                        /\ \A k \in DOMAIN lines'[i].pieces : lines'[i].pieces[k].input = lines'[j].input
    BY DEF Terminal!BelowQuestions
  <2>1. i \in DOMAIN lines /\ lines'[i] = lines[i]
    BY <1>1
  <2>2. PICK j \in 1 .. (i - 1) :
          /\ lines[j].who = "user"
          /\ \A k \in DOMAIN lines[i].pieces : lines[i].pieces[k].input = lines[j].input
    BY <1>3, <2>1 DEF Terminal!BelowQuestions
  <2>3. lines'[j] = lines[j]
    BY <1>1, <2>1
  <2> QED
    BY <2>1, <2>2, <2>3
<1>4. Terminal!InOrder => Terminal!InOrder'
  BY <1>1 DEF Terminal!InOrder
<1>5. PiecesOnly => PiecesOnly'
  BY <1>1 DEF PiecesOnly
<1>6. ASSUME NEW u \in DOMAIN lines, NEW n, Asks(u, n) PROVE Asks(u, n)'
  <2>1. lines'[u] = Terminal!User(n)
    BY <1>1, <1>6 DEF Asks
  <2>2. ASSUME NEW i \in u + 1 .. Len(lines'), lines'[i].who = "agent"
        PROVE  \A k \in DOMAIN lines'[i].pieces : lines'[i].pieces[k].input = n
    <3>1. i \in DOMAIN lines'
      BY <1>1, <2>2 DEF Typed
    <3>2. i \in u + 1 .. Len(lines) /\ lines'[i] = lines[i]
      BY <1>1, <2>2, <3>1
    <3> QED
      BY <1>6, <2>2, <3>2 DEF Asks
  <2> QED
    BY <2>1, <2>2 DEF Asks
<1> QED
  BY <1>1, <1>2, <1>3, <1>4, <1>5, <1>6

\* A text comes below the last line, or at its end.
ShowsAt(m, q, r) ==
  /\ Terminal!TypeOK /\ Len(lines') = q /\ DOMAIN lines' = 1 .. q
  /\ lines' \in Seq(Terminal!Lines) /\ lines' # <<>>
  /\ q \in {Len(lines), Len(lines) + 1} /\ q \in Nat \ {0}
  /\ r \in Nat \ {0}
  /\ lines'[q].who = "agent" /\ lines'[q].pieces[r] = m
  /\ DOMAIN lines'[q].pieces = 1 .. r
  /\ \A i \in 1 .. q - 1 : i \in DOMAIN lines /\ lines'[i] = lines[i]
  /\ \A k \in 1 .. r - 1 : /\ q \in DOMAIN lines /\ lines[q].who = "agent"
                           /\ k \in DOMAIN lines[q].pieces
                           /\ lines'[q].pieces[k] = lines[q].pieces[k]
  /\ \A i \in DOMAIN lines : i < q \/ (i = q /\ lines[q].who = "agent" /\ DOMAIN lines[q].pieces = 1 .. r - 1)

LEMMA AgentExcept ==
  ASSUME NEW old, NEW new
  PROVE  [Terminal!Agent(old) EXCEPT !.pieces = new] = Terminal!Agent(new)
BY DEF Terminal!Agent

LEMMA LastPlace ==
  ASSUME NEW n \in Nat \ {0}
  PROVE  n \in 1 .. n /\ \A i \in 1 .. n - 1 : i \in 1 .. n /\ i # n
OBVIOUS

LEMMA AppendShows ==
  ASSUME Terminal!TypeOK, NEW m \in Terminal!Messages, lines' = Terminal!AppendAgentText(m)
  PROVE  \E q, r : ShowsAt(m, q, r)
<1> DEFINE len == Len(lines)
<1>1. lines \in Seq(Terminal!Lines) /\ len \in Nat \ {0} /\ DOMAIN lines = 1 .. len
  BY LineKinds
<1>2. \A s \in Seq(Terminal!Messages) : Terminal!Agent(s) \in Terminal!Lines
  BY DEF Terminal!Agent, Terminal!Lines
<1>3. CASE lines[len].who = "agent"
  <2> DEFINE old == lines[len].pieces
  <2>1. old \in Seq(Terminal!Messages) /\ lines[len] = Terminal!Agent(old)
    <3>1. lines[len] \in [who : {"agent"}, pieces : Seq(Terminal!Messages)]
      BY <1>1, <1>3 DEF Terminal!Lines, Terminal!System
    <3> QED
      BY <3>1 DEF Terminal!Agent
  <2>2. Terminal!Last(lines) = lines[len]
    BY DEF Terminal!Last
  <2>3. lines' = [lines EXCEPT ![len].pieces = Append(@, m)]
    BY <1>3, <2>2 DEF Terminal!AppendAgentText
  <2> HIDE DEF old
  <2>4. lines' = [lines EXCEPT ![len] = Terminal!Agent(Append(old, m))]
    <3>1. [lines[len] EXCEPT !.pieces = Append(old, m)] = Terminal!Agent(Append(old, m))
      BY <2>1, AgentExcept
    <3>2. lines' = [lines EXCEPT ![len] = [lines[len] EXCEPT !.pieces = Append(old, m)]]
      BY <2>3 DEF old
    <3> QED
      BY <3>1, <3>2
  <2>5. /\ Append(old, m) \in Seq(Terminal!Messages)
        /\ Len(Append(old, m)) = Len(old) + 1
        /\ Len(old) \in Nat /\ DOMAIN old = 1 .. Len(old)
        /\ DOMAIN Append(old, m) = 1 .. Len(old) + 1
        /\ Append(old, m)[Len(old) + 1] = m
        /\ \A k \in 1 .. Len(old) : Append(old, m)[k] = old[k]
    BY <2>1
  <2>6. /\ lines' \in Seq(Terminal!Lines) /\ Len(lines') = len /\ DOMAIN lines' = 1 .. len
        /\ lines' # <<>>
        /\ lines'[len] = Terminal!Agent(Append(old, m))
        /\ \A i \in 1 .. len - 1 : lines'[i] = lines[i]
    <3> DEFINE line == Terminal!Agent(Append(old, m))
    <3>0. Append(old, m) \in Seq(Terminal!Messages)
      BY <2>5
    <3>1. line \in Terminal!Lines /\ len \in 1 .. Len(lines)
      <4>1. line \in Terminal!Lines
        BY <1>2, <3>0
      <4> QED
        BY <1>1, <4>1, LastPlace
    <3> HIDE DEF line
    <3>2. /\ [lines EXCEPT ![len] = line] \in Seq(Terminal!Lines)
          /\ Len([lines EXCEPT ![len] = line]) = len
          /\ \A j \in 1 .. len : [lines EXCEPT ![len] = line][j] = IF j = len THEN line ELSE lines[j]
      BY <1>1, <3>1, ExceptSeq
    <3>3. lines' = [lines EXCEPT ![len] = line]
      BY <2>4 DEF line
    <3>4. lines' \in Seq(Terminal!Lines) /\ Len(lines') = len /\ DOMAIN lines' = 1 .. len
      BY <3>2, <3>3
    <3>5. lines'[len] = line /\ \A i \in 1 .. len - 1 : lines'[i] = lines[i]
      <4>1. len \in 1 .. len /\ \A i \in 1 .. len - 1 : i \in 1 .. len /\ i # len
        BY <1>1, LastPlace
      <4> QED
        BY <3>2, <3>3, <4>1
    <3> QED
      BY <1>1, <3>4, <3>5 DEF line
  <2>7. lines'[len].who = "agent" /\ lines'[len].pieces = Append(old, m)
    BY <2>6 DEF Terminal!Agent
  <2>8. lines[len].who = "agent" /\ lines[len].pieces = old
    BY <1>3 DEF old
  <2> QED
    <3> DEFINE r == Len(old) + 1
    <3>1. r \in Nat \ {0} /\ 1 .. r - 1 = 1 .. Len(old) /\ 1 .. Len(old) + 1 = 1 .. r
      BY <2>5
    <3>2. /\ lines'[len].pieces[r] = m /\ DOMAIN lines'[len].pieces = 1 .. r
          /\ DOMAIN lines[len].pieces = 1 .. r - 1
      BY <2>5, <2>7, <2>8, <3>1
    <3>3. \A k \in 1 .. r - 1 : /\ len \in DOMAIN lines /\ lines[len].who = "agent"
                                /\ k \in DOMAIN lines[len].pieces
                                /\ lines'[len].pieces[k] = lines[len].pieces[k]
      <4>1. len \in DOMAIN lines
        BY <1>1
      <4> QED
        BY <2>5, <2>7, <2>8, <3>1, <4>1
    <3>4. /\ \A i \in 1 .. len - 1 : i \in DOMAIN lines /\ lines'[i] = lines[i]
          /\ \A i \in DOMAIN lines : i < len \/ i = len
      BY <1>1, <2>6
    <3> HIDE DEF r
    <3>5. ShowsAt(m, len, r)
      BY <1>1, <2>6, <2>7, <2>8, <3>1, <3>2, <3>3, <3>4 DEF ShowsAt
    <3> QED
      BY <3>5 DEF r
<1>4. CASE lines[len].who # "agent"
  <2>1. Terminal!Last(lines) = lines[len]
    BY DEF Terminal!Last
  <2>2. lines' = Append(lines, Terminal!Agent(<<m>>))
    BY <1>4, <2>1 DEF Terminal!AppendAgentText
  <2>3. /\ lines' \in Seq(Terminal!Lines) /\ Len(lines') = len + 1 /\ DOMAIN lines' = 1 .. len + 1
        /\ lines' # <<>>
        /\ lines'[len + 1] = Terminal!Agent(<<m>>)
        /\ \A i \in 1 .. len : lines'[i] = lines[i]
    <3> DEFINE line == Terminal!Agent(<<m>>)
    <3>0. <<m>> \in Seq(Terminal!Messages)
      OBVIOUS
    <3>1. line \in Terminal!Lines
      BY <1>2, <3>0
    <3> HIDE DEF line
    <3>2. /\ Append(lines, line) \in Seq(Terminal!Lines) /\ Append(lines, line) # <<>>
          /\ Len(Append(lines, line)) = len + 1
          /\ \A i \in 1 .. len : Append(lines, line)[i] = lines[i]
          /\ Append(lines, line)[len + 1] = line
      BY <1>1, <3>1, AppendProperties
    <3>3. lines' = Append(lines, line)
      BY <2>2 DEF line
    <3>4. lines' \in Seq(Terminal!Lines) /\ lines' # <<>> /\ Len(lines') = len + 1
      BY <3>2, <3>3
    <3>5. DOMAIN lines' = 1 .. len + 1
      BY <3>4
    <3> QED
      BY <3>2, <3>3, <3>4, <3>5 DEF line
  <2>4. /\ lines'[len + 1].who = "agent" /\ lines'[len + 1].pieces = <<m>>
        /\ Len(<<m>>) = 1 /\ <<m>>[1] = m /\ DOMAIN <<m>> = 1 .. 1
    BY <2>3 DEF Terminal!Agent
  <2> QED
    <3>1. ShowsAt(m, len + 1, 1)
      BY <1>1, <2>3, <2>4 DEF ShowsAt
    <3> QED
      BY <3>1
<1> QED
  BY <1>3, <1>4

\* What a new text does to what is on screen.
LEMMA ShowsPlaces ==
  ASSUME NEW m, NEW q, NEW r, ShowsAt(m, q, r), NEW i \in DOMAIN lines', lines'[i].who = "agent",
         NEW k \in DOMAIN lines'[i].pieces
  PROVE  \/ i = q /\ k = r /\ lines'[i].pieces[k] = m
         \/ /\ i \in DOMAIN lines /\ lines[i].who = "agent" /\ k \in DOMAIN lines[i].pieces
            /\ lines'[i].pieces[k] = lines[i].pieces[k]
            /\ i # q \/ k # r
<1>1. /\ i \in 1 .. q /\ q \in Nat \ {0} /\ r \in Nat \ {0}
      /\ lines'[q].pieces[r] = m
      /\ i = q => k \in 1 .. r
  BY DEF ShowsAt
<1>2. CASE i = q /\ k = r
  BY <1>1, <1>2
<1>3. CASE i = q /\ k # r
  <2>1. k \in 1 .. r - 1
    BY <1>1, <1>3
  <2>2. /\ q \in DOMAIN lines /\ lines[q].who = "agent"
        /\ k \in DOMAIN lines[q].pieces
        /\ lines'[q].pieces[k] = lines[q].pieces[k]
    BY <2>1 DEF ShowsAt
  <2> QED
    BY <1>3, <2>2
<1>4. CASE i # q
  <2>1. i \in 1 .. q - 1
    BY <1>1, <1>4
  <2>2. i \in DOMAIN lines /\ lines'[i] = lines[i]
    BY <2>1 DEF ShowsAt
  <2> QED
    BY <1>4, <2>2
<1> QED
  BY <1>2, <1>3, <1>4

LEMMA ShowsKeeps ==
  ASSUME NEW m, NEW q, NEW r, ShowsAt(m, q, r), NEW i \in DOMAIN lines, lines[i].who = "agent",
         NEW k \in DOMAIN lines[i].pieces
  PROVE  /\ i \in DOMAIN lines' /\ lines'[i].who = "agent" /\ k \in DOMAIN lines'[i].pieces
         /\ lines'[i].pieces[k] = lines[i].pieces[k]
<1>1. /\ q \in Nat /\ r \in Nat /\ i \in Nat \ {0}
      /\ i < q \/ (i = q /\ DOMAIN lines[q].pieces = 1 .. r - 1)
      /\ DOMAIN lines' = 1 .. q
  <2>1. Terminal!TypeOK
    BY DEF ShowsAt
  <2>2. i \in Nat \ {0}
    BY <2>1, LineKinds
  <2> QED
    BY <2>2 DEF ShowsAt
<1>2. CASE i < q
  <2>1. i \in 1 .. q - 1
    BY <1>1, <1>2
  <2>2. lines'[i] = lines[i]
    BY <2>1 DEF ShowsAt
  <2> QED
    BY <1>1, <1>2, <2>1, <2>2
<1>3. CASE i = q /\ DOMAIN lines[q].pieces = 1 .. r - 1
  <2>1. lines'[q].pieces[k] = lines[q].pieces[k]
    BY <1>3 DEF ShowsAt
  <2>2. lines'[q].who = "agent" /\ k \in 1 .. r /\ DOMAIN lines'[q].pieces = 1 .. r
    BY <1>1, <1>3 DEF ShowsAt
  <2> QED
    BY <1>1, <1>3, <2>1, <2>2
<1> QED
  BY <1>1, <1>2, <1>3

LEMMA ShowsScreen ==
  ASSUME NEW n \in Terminal!Inputs, NEW c \in 1 .. MaxPieces, NEW u \in DOMAIN lines,
         NEW q, NEW r, ShowsAt(Terminal!Piece(n, c), q, r), Asks(u, n), PiecesOnly, c \in Nat \ {0},
         Terminal!BelowQuestions, Terminal!InOrder,
         Terminal!Shown(n) = 1 .. (c - 1)
  PROVE  /\ PiecesOnly' /\ Terminal!BelowQuestions' /\ Terminal!InOrder'
         /\ u \in DOMAIN lines' /\ Asks(u, n)'
         /\ Terminal!Shown(n)' = 1 .. c
         /\ \A m \in Terminal!Inputs : m # n => Terminal!Shown(m)' = Terminal!Shown(m)
<1> DEFINE m == Terminal!Piece(n, c)
<1>1. m.input = n /\ m.piece = c /\ (\A a, b : Terminal!Piece(a, b) = m <=> a = n /\ b = c)
  BY DEF Terminal!Piece
<1>2. ShowsAt(m, q, r)
  OBVIOUS
<1>3. PiecesOnly'
  BY <1>1, <1>2, ShowsPlaces DEF PiecesOnly
<1>4. \A d \in 1 .. MaxPieces, a \in Terminal!Inputs :
        d \in Terminal!Shown(a)' <=> (d \in Terminal!Shown(a) \/ (a = n /\ d = c))
  <2> SUFFICES ASSUME NEW d \in 1 .. MaxPieces, NEW a \in Terminal!Inputs
               PROVE  d \in Terminal!Shown(a)' <=> (d \in Terminal!Shown(a) \/ (a = n /\ d = c))
    OBVIOUS
  <2>1. ASSUME d \in Terminal!Shown(a)' PROVE d \in Terminal!Shown(a) \/ (a = n /\ d = c)
    <3>1. PICK i \in DOMAIN lines' :
            lines'[i].who = "agent" /\ \E k \in DOMAIN lines'[i].pieces : lines'[i].pieces[k] = Terminal!Piece(a, d)
      BY <2>1 DEF Terminal!Shown, Terminal!Piece
    <3>2. PICK k \in DOMAIN lines'[i].pieces : lines'[i].pieces[k] = Terminal!Piece(a, d)
      BY <3>1
    <3>3. \/ lines'[i].pieces[k] = m
          \/ /\ i \in DOMAIN lines /\ lines[i].who = "agent" /\ k \in DOMAIN lines[i].pieces
             /\ lines'[i].pieces[k] = lines[i].pieces[k]
      BY <1>2, <3>1, ShowsPlaces
    <3> QED
      BY <1>1, <3>2, <3>3 DEF Terminal!Shown
  <2>2. ASSUME d \in Terminal!Shown(a) PROVE d \in Terminal!Shown(a)'
    <3>1. PICK i \in DOMAIN lines :
            lines[i].who = "agent" /\ \E k \in DOMAIN lines[i].pieces : lines[i].pieces[k] = Terminal!Piece(a, d)
      BY <2>2 DEF Terminal!Shown
    <3>2. PICK k \in DOMAIN lines[i].pieces : lines[i].pieces[k] = Terminal!Piece(a, d)
      BY <3>1
    <3>3. /\ i \in DOMAIN lines' /\ lines'[i].who = "agent" /\ k \in DOMAIN lines'[i].pieces
          /\ lines'[i].pieces[k] = lines[i].pieces[k]
      BY <1>2, <3>1, ShowsKeeps
    <3> QED
      BY <3>2, <3>3 DEF Terminal!Shown, Terminal!Piece
  <2>3. c \in Terminal!Shown(n)'
    <3>1. q \in DOMAIN lines' /\ lines'[q].who = "agent"
          /\ r \in DOMAIN lines'[q].pieces /\ lines'[q].pieces[r] = m
      BY <1>2 DEF ShowsAt
    <3> QED
      BY <3>1 DEF Terminal!Shown, Terminal!Piece
  <2> QED
    BY <2>1, <2>2, <2>3
<1>5. \A a : Terminal!Shown(a)' \subseteq 1 .. MaxPieces /\ Terminal!Shown(a) \subseteq 1 .. MaxPieces
  BY DEF Terminal!Shown
<1>6. /\ Terminal!Shown(n)' = 1 .. c
      /\ \A a \in Terminal!Inputs : a # n => Terminal!Shown(a)' = Terminal!Shown(a)
  <2>1. c \in 1 .. MaxPieces /\ c \in Nat /\ MaxPieces \in Nat
    BY ChatAssumption
  <2>2. \A d \in 1 .. MaxPieces : d \in Terminal!Shown(n)' <=> d \in 1 .. c
    BY <1>4, <2>1
  <2>3. Terminal!Shown(n)' = 1 .. c
    <3>1. Terminal!Shown(n)' \subseteq 1 .. MaxPieces /\ 1 .. c \subseteq 1 .. MaxPieces
      BY <1>5, <2>1
    <3> QED
      BY <2>2, <3>1
  <2>4. ASSUME NEW a \in Terminal!Inputs, a # n PROVE Terminal!Shown(a)' = Terminal!Shown(a)
    BY <1>4, <1>5, <2>4
  <2> QED
    BY <2>3, <2>4
<1>7. /\ u \in 1 .. (q - 1) /\ u \in DOMAIN lines' /\ lines'[u] = Terminal!User(n)
      /\ u \in Nat /\ Len(lines) \in Nat /\ DOMAIN lines = 1 .. Len(lines)
  <2>1. lines[u].who = "user"
    BY DEF Asks, Terminal!User
  <2>2. u < q
    BY <1>2, <2>1 DEF ShowsAt
  <2>3. /\ lines[u] = Terminal!User(n) /\ Terminal!TypeOK /\ q \in Nat /\ DOMAIN lines' = 1 .. q
        /\ \A i \in 1 .. q - 1 : lines'[i] = lines[i]
    BY <1>2 DEF ShowsAt, Asks
  <2>4. Len(lines) \in Nat /\ DOMAIN lines = 1 .. Len(lines)
    BY <2>3, LineKinds
  <2>5. u \in Nat /\ u \in 1 .. (q - 1) /\ u \in 1 .. q
    BY <2>2, <2>3, <2>4
  <2> QED
    BY <2>3, <2>4, <2>5
<1>8. ASSUME NEW i \in u + 1 .. Len(lines'), lines'[i].who = "agent", NEW k \in DOMAIN lines'[i].pieces
      PROVE  lines'[i].pieces[k].input = n
  <2>1. i \in DOMAIN lines'
    <3>1. Len(lines') = q /\ DOMAIN lines' = 1 .. q /\ q \in Nat
      BY <1>2 DEF ShowsAt
    <3> QED
      BY <1>7, <1>8, <3>1
  <2>2. CASE lines'[i].pieces[k] = m
    BY <1>1, <2>2
  <2>3. CASE lines'[i].pieces[k] # m
    <3>1. /\ i \in DOMAIN lines /\ lines[i].who = "agent" /\ k \in DOMAIN lines[i].pieces
          /\ lines'[i].pieces[k] = lines[i].pieces[k]
      BY <1>2, <1>8, <2>1, <2>3, ShowsPlaces
    <3>2. i \in u + 1 .. Len(lines)
      BY <1>7, <1>8, <3>1
    <3> QED
      BY <3>1, <3>2 DEF Asks
  <2> QED
    BY <2>2, <2>3
<1>9. Asks(u, n)'
  <2>1. lines'[u] = Terminal!User(n)
    BY <1>7
  <2> QED
    BY <1>8, <2>1 DEF Asks
<1>10. Terminal!BelowQuestions'
  <2> SUFFICES ASSUME NEW i \in DOMAIN lines', lines'[i].who = "agent"
               PROVE  \E j \in 1 .. (i - 1) :
                        /\ lines'[j].who = "user"
                        /\ \A k \in DOMAIN lines'[i].pieces : lines'[i].pieces[k].input = lines'[j].input
    BY DEF Terminal!BelowQuestions
  <2>1. CASE i = q
    <3>1. lines'[u].who = "user" /\ lines'[u].input = n
      BY <1>7 DEF Terminal!User
    <3>2. i \in u + 1 .. Len(lines')
      <4>1. Len(lines') = q /\ q \in Nat
        BY <1>2 DEF ShowsAt
      <4> QED
        BY <1>7, <2>1, <4>1
    <3> QED
      BY <1>7, <1>8, <2>1, <3>1, <3>2
  <2>2. CASE i # q
    <3>1. i \in 1 .. q - 1 /\ i \in DOMAIN lines /\ lines'[i] = lines[i]
      BY <1>2, <2>2 DEF ShowsAt
    <3>2. PICK j \in 1 .. (i - 1) :
            /\ lines[j].who = "user"
            /\ \A k \in DOMAIN lines[i].pieces : lines[i].pieces[k].input = lines[j].input
      BY <3>1 DEF Terminal!BelowQuestions
    <3>3. lines'[j] = lines[j]
      <4>1. j \in 1 .. q - 1
        BY <3>1, <1>2 DEF ShowsAt
      <4> QED
        BY <4>1, <1>2 DEF ShowsAt
    <3> QED
      BY <3>1, <3>2, <3>3
  <2> QED
    BY <2>1, <2>2
<1>11. Terminal!InOrder'
  <2> SUFFICES ASSUME NEW i \in DOMAIN lines', NEW j \in DOMAIN lines',
                      lines'[i].who = "agent", lines'[j].who = "agent",
                      NEW k \in DOMAIN lines'[i].pieces, NEW l \in DOMAIN lines'[j].pieces,
                      i < j \/ (i = j /\ k < l),
                      lines'[i].pieces[k].input = lines'[j].pieces[l].input
               PROVE  lines'[i].pieces[k].piece < lines'[j].pieces[l].piece
    BY DEF Terminal!InOrder
  <2>1. i <= q /\ j <= q /\ q \in Nat /\ i \in Nat /\ j \in Nat
    BY <1>2 DEF ShowsAt
  <2>2. /\ i = q => k \in Nat /\ k <= r /\ r \in Nat
        /\ j = q => l \in Nat /\ l <= r /\ r \in Nat
    BY <1>2 DEF ShowsAt
  <2>3. ~(i = q /\ k = r)
    BY <2>1, <2>2
  <2>4. /\ i \in DOMAIN lines /\ lines[i].who = "agent" /\ k \in DOMAIN lines[i].pieces
        /\ lines'[i].pieces[k] = lines[i].pieces[k]
    BY <1>2, <2>3, ShowsPlaces
  <2>5. CASE j = q /\ l = r
    <3>1. lines'[j].pieces[l] = m
      BY <1>2, <2>5 DEF ShowsAt
    <3>2. /\ lines[i].pieces \in Seq(Terminal!Messages)
          /\ lines[i].pieces[k] = Terminal!Piece(n, lines[i].pieces[k].piece)
      <4>1. Terminal!TypeOK
        BY <1>2 DEF ShowsAt
      <4> QED
        BY <1>1, <2>4, <3>1, <4>1, LineKinds
    <3>3. lines[i].pieces[k] \in Terminal!Messages /\ lines[i].pieces[k].piece # 0
      BY <2>4, <3>2 DEF PiecesOnly
    <3>4. lines[i].pieces[k].piece \in 1 .. MaxPieces
      BY <3>3, ChatAssumption DEF Terminal!Messages
    <3>5. lines[i].pieces[k].piece \in Terminal!Shown(n)
      BY <2>4, <3>2, <3>4 DEF Terminal!Shown
    <3> QED
      BY <1>1, <2>4, <3>1, <3>5
  <2>6. CASE ~(j = q /\ l = r)
    <3>1. /\ j \in DOMAIN lines /\ lines[j].who = "agent" /\ l \in DOMAIN lines[j].pieces
          /\ lines'[j].pieces[l] = lines[j].pieces[l]
      BY <1>2, <2>6, ShowsPlaces
    <3> QED
      BY <2>4, <3>1 DEF Terminal!InOrder
  <2> QED
    BY <2>5, <2>6
<1> QED
  BY <1>3, <1>6, <1>7, <1>9, <1>10, <1>11

\* The state of the task and of the channel.
LEMMA TaskTypes ==
  ASSUME Terminal!TypeOK
  PROVE  /\ Len(replies) \in Nat /\ DOMAIN replies = 1 .. Len(replies)
         /\ \A n : InChannel(n) => Len(replies) # 0
         /\ \A k \in DOMAIN replies :
              /\ replies[k] \in Terminal!Messages
              /\ replies[k].input \in Terminal!Inputs /\ InChannel(replies[k].input)
         /\ \A n \in Terminal!Inputs :
              /\ produced[n] \in Nat /\ Ended(n) \in {0, 1} /\ n \in Nat
              /\ Left(n) \in Int /\ Taken(n) = produced[n] - Left(n)
<1>1. replies \in Seq(Terminal!Messages)
  BY DEF Terminal!TypeOK
<1>2. Len(replies) \in Nat /\ DOMAIN replies = 1 .. Len(replies)
  BY <1>1
<1>3. \A k \in DOMAIN replies :
        /\ replies[k] \in Terminal!Messages
        /\ replies[k].input \in Terminal!Inputs /\ InChannel(replies[k].input)
  <2> SUFFICES ASSUME NEW k \in DOMAIN replies
               PROVE  /\ replies[k] \in Terminal!Messages
                      /\ replies[k].input \in Terminal!Inputs /\ InChannel(replies[k].input)
    OBVIOUS
  <2>1. replies[k] \in Terminal!Messages
    BY <1>1
  <2>2. InChannel(replies[k].input)
    BY DEF InChannel
  <2> QED
    BY <2>1, <2>2 DEF Terminal!Messages
<1>4. \A n \in Terminal!Inputs : produced[n] \in Nat /\ n \in Nat
  BY ChatAssumption DEF Terminal!TypeOK, Terminal!Inputs
<1>5. \A n : InChannel(n) => Len(replies) # 0
  BY <1>2 DEF InChannel
<1> QED
  BY <1>2, <1>3, <1>4, <1>5 DEF Ended, Left, Taken

\* While the loop goes on, whoever sends finds its own messages in the channel alone.
LEMMA Alone ==
  ASSUME Terminal!TypeOK, TaskInv, loop, NEW n \in Terminal!Inputs, Working(n)
  PROVE  /\ busy /\ reply[n] # "none"
         /\ \A m \in Terminal!Inputs : m # n => ~Working(m) /\ ~InChannel(m) /\ Taken(m) = produced[m]
         /\ \A k \in DOMAIN replies : replies[k].input = n
         /\ InChannel(n) <=> replies # <<>>
         /\ Left(n) \in Nat /\ Taken(n) \in 0 .. produced[n] /\ Queued(n)
<1>1. busy /\ reply[n] # "none" /\ \A m \in Terminal!Inputs : Working(m) => m = n
  BY DEF TaskInv
<1>2. \A m \in Terminal!Inputs : m # n => ~Working(m) /\ ~InChannel(m) /\ Taken(m) = produced[m]
  BY <1>1, TaskTypes DEF Working, Taken, Left
<1>3. \A k \in DOMAIN replies : replies[k].input = n
  BY <1>2, TaskTypes
<1>4. InChannel(n) <=> replies # <<>>
  <2>1. replies \in Seq(Terminal!Messages)
    BY DEF Terminal!TypeOK
  <2>2. replies # <<>> => 1 \in DOMAIN replies
    BY <2>1
  <2> QED
    BY <1>3, <2>1, <2>2 DEF InChannel
<1>5. CASE InChannel(n)
  <2>1. Taken(n) \in 0 .. produced[n] /\ Queued(n)
    BY <1>5 DEF TaskInv
  <2>2. Left(n) = produced[n] - Taken(n)
    BY TaskTypes
  <2> QED
    BY <1>1, <1>2, <1>3, <1>4, <2>1, <2>2, TaskTypes
<1>6. CASE ~InChannel(n)
  <2>1. Left(n) = 0 /\ Taken(n) = produced[n]
    BY <1>6, TaskTypes DEF Left
  <2>2. Queued(n)
    BY <1>4, <1>6, TaskTypes DEF Queued, InChannel
  <2> QED
    BY <1>1, <1>2, <1>3, <1>4, <2>1, <2>2, TaskTypes
<1> QED
  BY <1>5, <1>6

\* What AnswersApart says of the channel follows from what is queued.
LEMMA SentPieces ==
  ASSUME Terminal!TypeOK, TaskInv, loop, NEW n \in Terminal!Inputs
  PROVE  /\ Taken(n) \in 0 .. produced[n]
         /\ Terminal!Sent(n) = (Taken(n) + 1) .. produced[n]
<1>1. /\ Len(replies) \in Nat /\ DOMAIN replies = 1 .. Len(replies)
      /\ produced[n] \in 0 .. MaxPieces /\ produced[n] \in Nat /\ MaxPieces \in Nat
  BY TaskTypes, ChatAssumption DEF Terminal!TypeOK
<1>2. \A a, b, c, d : Terminal!Piece(a, b) = Terminal!Piece(c, d) <=> a = c /\ b = d
  BY DEF Terminal!Piece
<1>3. CASE InChannel(n)
  <2>1. Taken(n) \in 0 .. produced[n] /\ Queued(n) /\ Left(n) = Len(replies) - Ended(n)
        /\ Taken(n) = produced[n] - Left(n) /\ Ended(n) = IF reply[n] = "gone" THEN 1 ELSE 0
    BY <1>3, TaskTypes, Alone DEF Working, Left, Ended
  <2>2. \A k \in 1 .. Len(replies) : replies[k] = IF k = Len(replies) /\ reply[n] = "gone" THEN Terminal!Piece(n, 0)
                                                  ELSE Terminal!Piece(n, Taken(n) + k)
    BY <1>1, <2>1 DEF Queued, Terminal!Done, Terminal!Piece
  <2>3. ASSUME NEW c \in 1 .. MaxPieces, c \in Terminal!Sent(n)
        PROVE  c \in (Taken(n) + 1) .. produced[n]
    <3>1. PICK k \in 1 .. Len(replies) : replies[k] = Terminal!Piece(n, c)
      BY <1>1, <2>3 DEF Terminal!Sent
    <3>2. ~(k = Len(replies) /\ reply[n] = "gone") /\ c = Taken(n) + k
      BY <1>2, <2>2, <3>1
    <3> QED
      BY <1>1, <2>1, <3>2
  <2>4. ASSUME NEW c \in (Taken(n) + 1) .. produced[n] PROVE c \in Terminal!Sent(n)
    <3> DEFINE k == c - Taken(n)
    <3>0. /\ Taken(n) \in Nat /\ c \in Nat /\ c <= produced[n] /\ c > Taken(n)
          /\ Left(n) \in Int /\ Left(n) = produced[n] - Taken(n)
          /\ Ended(n) \in Nat /\ Left(n) = Len(replies) - Ended(n)
          /\ reply[n] = "gone" => Ended(n) = 1
      BY <1>1, <2>1, <2>4, TaskTypes
    <3>1. k \in 1 .. Len(replies) /\ ~(k = Len(replies) /\ reply[n] = "gone") /\ c \in 1 .. MaxPieces
          /\ Taken(n) + k = c
      <4>1. k \in Nat /\ k >= 1 /\ Taken(n) + k = c /\ k <= Len(replies) - Ended(n)
        BY <1>1, <3>0
      <4>2. c \in 1 .. MaxPieces
        BY <1>1, <3>0
      <4> QED
        BY <1>1, <3>0, <4>1, <4>2
    <3>2. replies[k] = Terminal!Piece(n, c)
      BY <2>2, <3>1
    <3> QED
      BY <1>1, <3>1, <3>2 DEF Terminal!Sent
  <2>5. Terminal!Sent(n) \subseteq 1 .. MaxPieces
    BY DEF Terminal!Sent
  <2> QED
    BY <2>1, <2>3, <2>4, <2>5
<1>4. CASE ~InChannel(n)
  <2>1. Taken(n) = produced[n]
    BY <1>4, TaskTypes DEF Taken, Left
  <2>2. Terminal!Sent(n) = {}
    BY <1>4 DEF Terminal!Sent, InChannel, Terminal!Piece
  <2> QED
    BY <1>1, <2>1, <2>2
<1> QED
  BY <1>3, <1>4

LEMMA ChatInvImplies == ChatInv => AnswersApart
<1> SUFFICES ASSUME ChatInv PROVE AnswersApart
  OBVIOUS
<1>1. ASSUME loop, NEW n \in Terminal!Inputs
      PROVE  \E s \in 0 .. produced[n] :
               Terminal!Shown(n) = 1 .. s /\ Terminal!Sent(n) = (s + 1) .. produced[n]
  <2>1. Terminal!Shown(n) = 1 .. Taken(n)
    BY <1>1 DEF ChatInv, ScreenInv
  <2> QED
    BY <1>1, <2>1, SentPieces DEF ChatInv
<1> QED
  BY <1>1 DEF ChatInv, AnswersApart, Terminal!AnswersApart

LEMMA ChatInit == Terminal!Init => ChatInv
<1> SUFFICES ASSUME Terminal!Init PROVE ChatInv
  OBVIOUS
<1>1. /\ lines = <<Terminal!System>> /\ DOMAIN lines = {1} /\ lines[1] = Terminal!System
      /\ Terminal!System.who = "system"
  <2>1. lines = <<Terminal!System>>
    BY DEF Terminal!Init
  <2>2. DOMAIN <<Terminal!System>> = 1 .. 1
    OBVIOUS
  <2> QED
    BY <2>1, <2>2 DEF Terminal!System
<1>2. replies = <<>> /\ DOMAIN replies = {} /\ Len(replies) = 0
  BY DEF Terminal!Init
<1>3. Terminal!TypeOK
  <2>1. <<Terminal!System>> \in Seq({Terminal!System})
    OBVIOUS
  <2>2. lines \in Seq(Terminal!Lines) /\ lines # <<>>
    <3>1. Terminal!System \in Terminal!Lines
      BY DEF Terminal!Lines
    <3>2. <<Terminal!System>> \in Seq(Terminal!Lines) /\ <<Terminal!System>> # <<>>
      BY <3>1
    <3> QED
      BY <1>1, <3>2
  <2>3. replies \in Seq(Terminal!Messages) /\ Len(replies) <= ChatCapacity
    BY <1>2, ChatAssumption DEF Terminal!Init
  <2>4. /\ reply \in [Terminal!Inputs -> {"none", "call", "stream", "ending", "gone"}]
        /\ produced \in [Terminal!Inputs -> 0 .. MaxPieces]
    BY ChatAssumption DEF Terminal!Init
  <2>5. entered \in 0 .. MaxInputs
    BY ChatAssumption DEF Terminal!Init
  <2>6. busy \in BOOLEAN /\ quit \in BOOLEAN /\ loop \in BOOLEAN
    BY Zenon DEF Terminal!Init
  <2> QED
    BY <2>2, <2>3, <2>4, <2>5, <2>6 DEF Terminal!TypeOK
<1>4. \A n \in Terminal!Inputs : ~InChannel(n) /\ reply[n] = "none" /\ produced[n] = 0
                                 /\ ~Working(n) /\ Left(n) = 0 /\ Taken(n) = 0
  BY <1>2 DEF Terminal!Init, InChannel, Working, Left, Taken
<1>5. TaskInv
  BY <1>4 DEF TaskInv
<1>6. \A n : Terminal!Shown(n) = {}
  BY <1>1 DEF Terminal!Shown
<1>7. ScreenInv
  <2>1. PiecesOnly
    BY <1>1 DEF PiecesOnly
  <2>2. \A n \in Terminal!Inputs : ~Working(n) /\ Terminal!Shown(n) = 1 .. Taken(n)
    BY <1>4, <1>6
  <2> QED
    BY <2>1, <2>2 DEF ScreenInv
<1>8. Terminal!BelowQuestions /\ Terminal!InOrder
  BY <1>1 DEF Terminal!BelowQuestions, Terminal!InOrder
<1> QED
  BY <1>3, <1>5, <1>7, <1>8 DEF ChatInv

-----------------------------------------------------------------------------
(* The steps of the terminal.                                              *)

\* Nobody's task and message change.
TasksKeep == UNCHANGED <<reply, produced, replies>>

LEMMA TasksKept ==
  ASSUME TasksKeep
  PROVE  \A n : /\ InChannel(n)' = InChannel(n) /\ Working(n)' = Working(n)
                /\ Left(n)' = Left(n) /\ Taken(n)' = Taken(n) /\ Queued(n)' = Queued(n)
BY DEF TasksKeep, InChannel, Working, Left, Taken, Queued, Ended

\* A line is typed that asks nothing.
LEMMA TypedInv ==
  ASSUME ChatInv, Typed, TasksKeep, UNCHANGED <<busy, loop>>, quit' \in BOOLEAN
  PROVE  ChatInv'
<1>1. Terminal!TypeOK'
  <2>1. entered' \in 0 .. MaxInputs
    BY ChatAssumption DEF Typed, Terminal!Inputs
  <2> QED
    BY <2>1 DEF ChatInv, Typed, TasksKeep, Terminal!TypeOK
<1>2. TaskInv'
  <2>1. entered \in Nat /\ entered' = entered + 1 /\ \A n \in Terminal!Inputs : n \in Nat
    BY TaskTypes DEF ChatInv, Typed, Terminal!TypeOK
  <2> QED
    BY <2>1, TasksKept DEF ChatInv, TaskInv, TasksKeep
<1>3. ScreenInv'
  <2>1. PiecesOnly'
    BY TypedKeeps DEF ChatInv, ScreenInv
  <2>2. ASSUME loop', NEW n \in Terminal!Inputs
        PROVE  /\ Working(n)' => \E u \in DOMAIN lines' : Asks(u, n)'
               /\ Terminal!Shown(n)' = 1 .. Taken(n)'
    <3>1. Terminal!Shown(n)' = 1 .. Taken(n)'
      BY <2>2, TypedKeeps, TasksKept DEF ChatInv, ScreenInv
    <3>2. ASSUME Working(n)' PROVE \E u \in DOMAIN lines' : Asks(u, n)'
      <4>1. PICK u \in DOMAIN lines : Asks(u, n)
        BY <2>2, <3>2, TasksKept DEF ChatInv, ScreenInv
      <4> QED
        BY <4>1, TypedKeeps
    <3> QED
      BY <3>1, <3>2
  <2> QED
    BY <2>1, <2>2 DEF ScreenInv
<1> QED
  BY <1>1, <1>2, <1>3, TypedKeeps DEF ChatInv

\* A question is asked.
LEMMA AskInv ==
  ASSUME ChatInv, Terminal!Ask
  PROVE  ChatInv'
<1> DEFINE a == entered + 1
<1>1. /\ Typed /\ ~busy /\ busy' /\ busy' = TRUE
      /\ reply' = [reply EXCEPT ![a] = "call"]
      /\ UNCHANGED <<quit, loop, produced, replies>>
      /\ lines' = Append(lines, Terminal!User(a)) \o <<>>
  BY SubmitTypes DEF Terminal!Ask, ChatInv, Terminal!Submit
<1>2. /\ a \in Terminal!Inputs /\ entered \in Nat /\ entered' = a /\ loop
      /\ \A n \in Terminal!Inputs : n \in Nat
      /\ reply \in [Terminal!Inputs -> {"none", "call", "stream", "ending", "gone"}]
  BY <1>1, TaskTypes DEF Typed, ChatInv, Terminal!TypeOK
<1>3. \A n \in Terminal!Inputs : ~Working(n) /\ ~InChannel(n)
  BY <1>1, <1>2 DEF ChatInv, TaskInv, Working
<1>4. reply[a] = "none" /\ produced[a] = 0
  BY <1>2 DEF ChatInv, TaskInv
<1>5. /\ \A n : InChannel(n)' = InChannel(n)
      /\ \A n \in Terminal!Inputs : n # a => reply'[n] = reply[n]
      /\ reply'[a] = "call"
  BY <1>1, <1>2 DEF InChannel
<1>6. /\ \A n \in Terminal!Inputs : Left(n)' = Left(n) /\ Taken(n)' = Taken(n)
      /\ \A n \in Terminal!Inputs : Working(n)' <=> n = a
  BY <1>1, <1>3, <1>5 DEF Left, Taken, Working
<1>7. Terminal!TypeOK'
  <2>1. entered' \in 0 .. MaxInputs
    BY <1>2, ChatAssumption DEF Terminal!Inputs
  <2> QED
    BY <1>1, <1>2, <2>1 DEF ChatInv, Typed, Terminal!TypeOK
<1>8. TaskInv'
  BY <1>1, <1>2, <1>3, <1>4, <1>5, <1>6 DEF ChatInv, TaskInv
<1>9. \E u \in DOMAIN lines' : lines'[u] = Terminal!User(a) /\ \A i \in u + 1 .. Len(lines') : FALSE
  <2>1. lines \in Seq(Terminal!Lines) /\ Terminal!User(a) \in Terminal!Lines /\ Len(lines) \in Nat
    BY <1>2, LineKinds DEF ChatInv, Terminal!User, Terminal!Lines
  <2>2. Append(lines, Terminal!User(a)) \o <<>> = Append(lines, Terminal!User(a))
    BY <2>1
  <2>3. Len(lines') = Len(lines) + 1
    BY <1>1, <2>1, <2>2
  <2>4. lines'[Len(lines) + 1] = Terminal!User(a) /\ DOMAIN lines' = 1 .. Len(lines')
    BY <1>1 DEF Typed
  <2>5. \A i \in (Len(lines) + 1) + 1 .. Len(lines') : FALSE
    BY <2>1, <2>3
  <2> QED
    BY <2>1, <2>3, <2>4, <2>5
<1>10. ScreenInv'
  <2>1. PiecesOnly'
    BY <1>1, TypedKeeps DEF ChatInv, ScreenInv
  <2>2. \A n \in Terminal!Inputs : Terminal!Shown(n)' = 1 .. Taken(n)'
    BY <1>1, <1>2, <1>6, TypedKeeps DEF ChatInv, ScreenInv
  <2>3. \A n \in Terminal!Inputs : Working(n)' => \E u \in DOMAIN lines' : Asks(u, n)'
    <3> SUFFICES ASSUME NEW n \in Terminal!Inputs, Working(n)'
                 PROVE  \E u \in DOMAIN lines' : Asks(u, n)'
      OBVIOUS
    <3>1. PICK u \in DOMAIN lines' : lines'[u] = Terminal!User(a) /\ \A i \in u + 1 .. Len(lines') : FALSE
      BY <1>9
    <3>2. n = a
      BY <1>6
    <3> QED
      BY <3>1, <3>2 DEF Asks
  <2> QED
    BY <2>1, <2>2, <2>3 DEF ScreenInv
<1> QED
  BY <1>1, <1>7, <1>8, <1>10, TypedKeeps DEF ChatInv

\* The loop ends.
LEMMA LeaveInv ==
  ASSUME ChatInv, Terminal!Leave
  PROVE  ChatInv'
<1>1. /\ ~loop' /\ loop' = FALSE /\ replies' = <<>> /\ DOMAIN replies' = {}
      /\ UNCHANGED <<lines, entered, busy, reply, produced>>
      /\ quit' \in {quit, TRUE}
  <2>1. /\ replies' = <<>> /\ DOMAIN <<>> = {}
        /\ UNCHANGED <<lines, entered, busy, reply, produced>>
    BY DEF Terminal!Leave, Terminal!tasks
  <2>2. ~loop' /\ loop' = FALSE /\ quit' \in {quit, TRUE}
    BY Zenon DEF Terminal!Leave
  <2> QED
    BY <2>1, <2>2
<1>2. Terminal!TypeOK'
  <2>1. replies' \in Seq(Terminal!Messages) /\ Len(replies') <= ChatCapacity
    BY <1>1, ChatAssumption
  <2>2. quit' \in BOOLEAN /\ loop' \in BOOLEAN
    BY <1>1, Zenon DEF ChatInv, Terminal!TypeOK
  <2> QED
    BY <1>1, <2>1, <2>2 DEF ChatInv, Terminal!TypeOK
<1>3. TaskInv'
  <2>1. \A n : ~InChannel(n)'
    BY <1>1 DEF InChannel
  <2> QED
    BY <1>1, <2>1 DEF ChatInv, TaskInv
<1>4. ScreenInv'
  BY <1>1 DEF ChatInv, ScreenInv, PiecesOnly
<1>5. Terminal!BelowQuestions' /\ Terminal!InOrder'
  BY <1>1 DEF ChatInv, Terminal!BelowQuestions, Terminal!InOrder
<1> QED
  BY <1>2, <1>3, <1>4, <1>5 DEF ChatInv

\* The head of the channel.
LEMMA HeadOfQueue ==
  ASSUME ChatInv, loop, replies # <<>>
  PROVE  LET m == Head(replies)
             n == m.input
         IN  /\ m = replies[1] /\ n \in Terminal!Inputs /\ Working(n) /\ InChannel(n)
             /\ m = Terminal!Done(n) => reply[n] = "gone" /\ Len(replies) = 1
             /\ m # Terminal!Done(n) =>
                  /\ m = Terminal!Piece(n, Taken(n) + 1)
                  /\ Taken(n) + 1 \in 1 .. MaxPieces /\ Taken(n) + 1 <= produced[n]
                  /\ Len(replies) = 1 => reply[n] # "gone"
<1> DEFINE m == replies[1]
           n == m.input
<1>1. replies \in Seq(Terminal!Messages) /\ Len(replies) \in Nat \ {0} /\ 1 \in DOMAIN replies
      /\ Head(replies) = m
  BY DEF ChatInv, Terminal!TypeOK
<1>2. n \in Terminal!Inputs /\ InChannel(n) /\ Working(n)
  BY <1>1, TaskTypes DEF ChatInv, Working
<1>3. Queued(n) /\ Taken(n) \in 0 .. produced[n]
  BY <1>2, Alone DEF ChatInv
<1>4. produced[n] \in Nat /\ produced[n] <= MaxPieces /\ Taken(n) \in Nat /\ MaxPieces \in Nat
      /\ Taken(n) = produced[n] - Left(n) /\ Left(n) = Len(replies) - Ended(n)
      /\ (reply[n] # "gone" => Ended(n) = 0) /\ (reply[n] = "gone" => Ended(n) = 1)
  BY <1>2, <1>3, ChatAssumption, TaskTypes DEF ChatInv, Terminal!TypeOK, Left, Ended
<1>5. m = IF 1 = Len(replies) /\ reply[n] = "gone" THEN Terminal!Done(n)
          ELSE Terminal!Piece(n, Taken(n) + 1)
  BY <1>1, <1>3 DEF Queued
<1>6. Terminal!Piece(n, Taken(n) + 1) # Terminal!Done(n)
  BY <1>4 DEF Terminal!Piece, Terminal!Done
<1>7. CASE 1 = Len(replies) /\ reply[n] = "gone"
  BY <1>1, <1>2, <1>5, <1>7
<1>8. CASE ~(1 = Len(replies) /\ reply[n] = "gone")
  <2>1. m = Terminal!Piece(n, Taken(n) + 1)
    BY <1>5, <1>8
  <2>2. Left(n) >= 1
    <3>1. CASE reply[n] = "gone"
      <4>1. Left(n) = Len(replies) - 1 /\ Len(replies) # 1
        BY <1>4, <1>8, <3>1
      <4>2. Len(replies) \in Nat /\ Len(replies) >= 1
        BY <1>1
      <4> QED
        BY <4>1, <4>2
    <3>2. CASE reply[n] # "gone"
      <4>1. Left(n) = Len(replies) - 0
        BY <1>4, <3>2
      <4>2. Len(replies) \in Nat /\ Len(replies) >= 1
        BY <1>1
      <4> QED
        BY <4>1, <4>2
    <3> QED
      BY <3>1, <3>2
  <2>3. Taken(n) + 1 \in 1 .. MaxPieces /\ Taken(n) + 1 <= produced[n]
    BY <1>4, <2>2, TaskTypes, <1>2 DEF ChatInv
  <2> QED
    BY <1>1, <1>2, <1>6, <1>8, <2>1, <2>3
<1> QED
  BY <1>7, <1>8

\* What the loop takes from the channel leaves the rest queued.
LEMMA TakenOff ==
  ASSUME ChatInv, loop, replies # <<>>, NEW n \in Terminal!Inputs, Head(replies).input = n,
         replies' = Tail(replies), UNCHANGED <<reply, produced>>
  PROVE  /\ Head(replies) # Terminal!Done(n) => Taken(n)' = Taken(n) + 1 /\ (InChannel(n)' => Queued(n)')
         /\ Head(replies) = Terminal!Done(n) => ~InChannel(n)' /\ Taken(n)' = Taken(n) /\ ~Working(n)'
         /\ \A m \in Terminal!Inputs : m # n => ~InChannel(m)' /\ ~Working(m)' /\ Taken(m)' = Taken(m)
         /\ replies' \in Seq(Terminal!Messages) /\ Len(replies') <= ChatCapacity
         /\ InChannel(n)' => Taken(n)' \in 0 .. produced'[n]
<1> DEFINE len == Len(replies)
<1>1. /\ replies \in Seq(Terminal!Messages) /\ len \in Nat \ {0} /\ len <= ChatCapacity
      /\ replies' \in Seq(Terminal!Messages) /\ Len(replies') = len - 1
      /\ \A k \in 1 .. len - 1 : replies'[k] = replies[k + 1]
      /\ DOMAIN replies' = 1 .. len - 1 /\ DOMAIN replies = 1 .. len
  BY DEF ChatInv, Terminal!TypeOK
<1>2. /\ Working(n) /\ InChannel(n) /\ Queued(n) /\ Taken(n) \in 0 .. produced[n]
      /\ \A k \in 1 .. len : replies[k].input = n
      /\ \A m \in Terminal!Inputs : m # n => ~Working(m) /\ ~InChannel(m)
      /\ Head(replies) = Terminal!Done(n) => reply[n] = "gone" /\ len = 1
      /\ Head(replies) # Terminal!Done(n) =>
                  /\ Taken(n) + 1 <= produced[n]
                  /\ len = 1 => reply[n] # "gone"
  <2>1. Working(n) /\ InChannel(n)
    BY HeadOfQueue
  <2> QED
    BY <1>1, <2>1, HeadOfQueue, Alone DEF ChatInv
<1>3. /\ \A k \in 1 .. len - 1 : replies'[k].input = n
      /\ InChannel(n)' <=> len # 1
      /\ \A m \in Terminal!Inputs : m # n => ~InChannel(m)' /\ ~Working(m)'
  <2>1. \A k \in 1 .. len - 1 : replies'[k].input = n
    BY <1>1, <1>2
  <2>2. InChannel(n)' <=> len # 1
    <3>1. len # 1 => 1 \in 1 .. len - 1
      BY <1>1
    <3>2. len = 1 => 1 .. len - 1 = {}
      OBVIOUS
    <3> QED
      BY <1>1, <2>1, <3>1, <3>2 DEF InChannel
  <2>3. ASSUME NEW m \in Terminal!Inputs, m # n PROVE ~InChannel(m)' /\ ~Working(m)'
    <3>1. ~InChannel(m)'
      BY <1>1, <2>1, <2>3 DEF InChannel
    <3> QED
      BY <1>2, <2>3, <3>1 DEF Working
  <2> QED
    BY <2>1, <2>2, <2>3
<1>4. \A m \in Terminal!Inputs : Ended(m)' = Ended(m)
  BY DEF Ended
<1>5. \A m \in Terminal!Inputs : m # n => Taken(m)' = Taken(m)
  BY <1>2, <1>3 DEF Taken, Left
<1>6. /\ Left(n) = len - Ended(n) /\ Taken(n) = produced[n] - Left(n) /\ produced[n] \in Nat
      /\ Ended(n) \in {0, 1} /\ Ended(n) = IF reply[n] = "gone" THEN 1 ELSE 0
      /\ Taken(n)' = produced[n] - Left(n)' /\ Left(n)' = IF len # 1 THEN len - 1 - Ended(n) ELSE 0
  <2>1. /\ Left(n) = len - Ended(n) /\ Taken(n) = produced[n] - Left(n) /\ produced[n] \in Nat
        /\ Ended(n) \in {0, 1}
    BY <1>2, TaskTypes DEF ChatInv, Left
  <2>2. Taken(n)' = produced[n] - Left(n)'
    BY DEF Taken
  <2>3. Left(n)' = IF len # 1 THEN len - 1 - Ended(n) ELSE 0
    BY <1>1, <1>3, <1>4 DEF Left
  <2> QED
    BY <2>1, <2>2, <2>3 DEF Ended
<1>7. ASSUME Head(replies) = Terminal!Done(n)
      PROVE  ~InChannel(n)' /\ Taken(n)' = Taken(n) /\ ~Working(n)'
  <2>1. reply[n] = "gone" /\ len = 1 /\ ~InChannel(n)'
    BY <1>2, <1>3, <1>7
  <2>2. Left(n) = 0 /\ Left(n)' = 0
    BY <1>6, <2>1
  <2>3. Taken(n)' = Taken(n)
    BY <1>6, <2>2
  <2> QED
    BY <2>1, <2>3 DEF Working
<1>8. ASSUME Head(replies) # Terminal!Done(n)
      PROVE  Taken(n)' = Taken(n) + 1
  <2>1. len \in Nat /\ Ended(n) \in {0, 1} /\ Left(n) = len - Ended(n)
    BY <1>1, <1>6
  <2>2. Left(n)' = Left(n) - 1 /\ Left(n) \in Int
    <3>1. CASE len = 1
      <4>1. Ended(n) = 0
        BY <1>2, <1>6, <1>8, <3>1
      <4>2. Left(n)' = 0
        BY <1>6, <3>1
      <4>3. Left(n) = 1
        BY <2>1, <3>1, <4>1
      <4> QED
        BY <4>2, <4>3
    <3>2. CASE len # 1
      <4>1. Left(n)' = len - 1 - Ended(n)
        BY <1>6, <3>2
      <4> QED
        BY <2>1, <4>1
    <3> QED
      BY <3>1, <3>2
  <2> QED
    BY <1>6, <2>2
<1>9. ASSUME Head(replies) # Terminal!Done(n), NEW k \in 1 .. len - 1
      PROVE  replies'[k] = IF k = len - 1 /\ reply[n] = "gone" THEN Terminal!Done(n)
                           ELSE Terminal!Piece(n, Taken(n)' + k)
  <2>1. replies[k + 1] = IF k + 1 = len /\ reply[n] = "gone" THEN Terminal!Done(n)
                         ELSE Terminal!Piece(n, Taken(n) + (k + 1))
    <3>1. k + 1 \in DOMAIN replies
      BY <1>1
    <3> QED
      BY <1>2, <3>1 DEF Queued
  <2>2. Taken(n) + (k + 1) = Taken(n)' + k /\ (k + 1 = len <=> k = len - 1)
    BY <1>1, <1>2, <1>8, <1>9
  <2> QED
    BY <1>1, <2>1, <2>2
<1>10. Head(replies) # Terminal!Done(n) => Queued(n)'
  BY <1>1, <1>9 DEF Queued
<1>11. Len(replies') <= ChatCapacity
  BY <1>1, ChatAssumption
<1>12. InChannel(n)' => Taken(n)' \in 0 .. produced'[n]
  BY <1>2, <1>6, <1>7, <1>8
<1> QED
  BY <1>1, <1>3, <1>5, <1>7, <1>8, <1>10, <1>11, <1>12

\* The loop takes a message: a text comes below its question, Done ends the answer.
LEMMA ReceiveInv ==
  ASSUME ChatInv, Terminal!Receive
  PROVE  ChatInv'
<1>0. PICK m, n : m = Head(replies) /\ n = m.input
  OBVIOUS
<1>1. /\ loop /\ replies # <<>> /\ replies' = Tail(replies)
      /\ UNCHANGED <<entered, quit, loop, reply, produced>>
      /\ IF m = Terminal!Done(n) THEN busy' = FALSE /\ UNCHANGED lines
         ELSE lines' = Terminal!AppendAgentText(m) /\ UNCHANGED busy
  BY <1>0 DEF Terminal!Receive, Terminal!tasks
<1>2. /\ n \in Terminal!Inputs /\ Working(n) /\ InChannel(n)
      /\ m # Terminal!Done(n) =>
                  /\ m = Terminal!Piece(n, Taken(n) + 1)
                  /\ Taken(n) + 1 \in 1 .. MaxPieces
  BY <1>0, <1>1, HeadOfQueue
<1>3. /\ m # Terminal!Done(n) => Taken(n)' = Taken(n) + 1 /\ (InChannel(n)' => Queued(n)')
      /\ m = Terminal!Done(n) => ~InChannel(n)' /\ Taken(n)' = Taken(n) /\ ~Working(n)'
      /\ \A l \in Terminal!Inputs : l # n => ~InChannel(l)' /\ ~Working(l)' /\ Taken(l)' = Taken(l)
      /\ replies' \in Seq(Terminal!Messages) /\ Len(replies') <= ChatCapacity
      /\ InChannel(n)' => Taken(n)' \in 0 .. produced'[n]
  BY <1>0, <1>1, <1>2, TakenOff
<1>4. busy /\ reply[n] # "none"
  BY <1>1, <1>2, Alone DEF ChatInv
<1>5. CASE m = Terminal!Done(n)
  <2>1. busy' = FALSE /\ UNCHANGED lines
    BY <1>1, <1>5
  <2>2. \A l \in Terminal!Inputs : ~InChannel(l)' /\ ~Working(l)' /\ Taken(l)' = Taken(l)
    BY <1>3, <1>5
  <2>3. Terminal!TypeOK'
    BY <1>1, <1>3, <2>1 DEF ChatInv, Terminal!TypeOK
  <2>4. TaskInv'
    BY <1>1, <2>2 DEF ChatInv, TaskInv
  <2>5. ScreenInv'
    BY <1>1, <2>1, <2>2 DEF ChatInv, ScreenInv, PiecesOnly, Terminal!Shown
  <2>6. Terminal!BelowQuestions' /\ Terminal!InOrder'
    BY <2>1 DEF ChatInv, Terminal!BelowQuestions, Terminal!InOrder
  <2> QED
    BY <2>3, <2>4, <2>5, <2>6 DEF ChatInv
<1>6. CASE m # Terminal!Done(n)
  <2>1. lines' = Terminal!AppendAgentText(m) /\ UNCHANGED busy
    BY <1>1, <1>6
  <2>2. m \in Terminal!Messages
    <3>1. replies \in Seq(Terminal!Messages) /\ replies # <<>>
      BY <1>1 DEF ChatInv, Terminal!TypeOK
    <3> QED
      BY <1>0, <3>1
  <2>3. PICK q, r : ShowsAt(m, q, r)
    BY <2>1, <2>2, AppendShows DEF ChatInv
  <2>4. PICK u \in DOMAIN lines : Asks(u, n)
    BY <1>1, <1>2 DEF ChatInv, ScreenInv
  <2>0. PICK c : c = Taken(n) + 1
    OBVIOUS
  <2>5. /\ m = Terminal!Piece(n, c) /\ c \in 1 .. MaxPieces /\ c \in Nat \ {0}
        /\ Taken(n) \in Nat /\ c - 1 = Taken(n)
    <3>1. Taken(n) \in 0 .. produced[n] /\ produced[n] \in Nat
      BY <1>1, <1>2, Alone, TaskTypes DEF ChatInv
    <3> QED
      BY <1>2, <1>6, <2>0, <3>1
  <2>6. Terminal!Shown(n) = 1 .. (c - 1)
    BY <1>1, <1>2, <2>5 DEF ChatInv, ScreenInv
  <2>7. Taken(n)' = c
    BY <1>3, <1>6, <2>0
  <2>8. /\ PiecesOnly' /\ Terminal!BelowQuestions' /\ Terminal!InOrder'
        /\ u \in DOMAIN lines' /\ Asks(u, n)'
        /\ Terminal!Shown(n)' = 1 .. c
        /\ \A l \in Terminal!Inputs : l # n => Terminal!Shown(l)' = Terminal!Shown(l)
    BY <1>2, <2>3, <2>4, <2>5, <2>6, ShowsScreen DEF ChatInv, ScreenInv
  <2>9. Terminal!TypeOK'
    BY <1>1, <1>3, <2>1, <2>3 DEF ShowsAt, Terminal!TypeOK
  <2>10. TaskInv'
    <3> SUFFICES ASSUME NEW l \in Terminal!Inputs
                 PROVE  /\ reply'[l] # "none" => l <= entered'
                        /\ reply'[l] = "none" => produced'[l] = 0
                        /\ loop' /\ Working(l)' =>
                             busy' /\ reply'[l] # "none" /\ \A k \in Terminal!Inputs : Working(k)' => k = l
                        /\ InChannel(l)' => loop' /\ Taken(l)' \in 0 .. produced'[l] /\ Queued(l)'
      BY DEF TaskInv
    <3>1. /\ reply'[l] # "none" => l <= entered'
          /\ reply'[l] = "none" => produced'[l] = 0
      BY <1>1 DEF ChatInv, TaskInv
    <3>2. CASE l = n
      BY <1>1, <1>3, <1>4, <1>6, <2>1, <3>1, <3>2
    <3>3. CASE l # n
      BY <1>3, <3>1, <3>3
    <3> QED
      BY <3>2, <3>3
  <2>11. ScreenInv'
    <3>1. \A l \in Terminal!Inputs : Terminal!Shown(l)' = 1 .. Taken(l)'
      BY <1>1, <1>3, <2>7, <2>8 DEF ChatInv, ScreenInv
    <3>2. \A l \in Terminal!Inputs : Working(l)' => \E v \in DOMAIN lines' : Asks(v, l)'
      <4> SUFFICES ASSUME NEW l \in Terminal!Inputs, Working(l)'
                   PROVE  \E v \in DOMAIN lines' : Asks(v, l)'
        OBVIOUS
      <4>1. l = n
        BY <1>3
      <4> QED
        BY <2>8, <4>1
    <3> QED
      BY <2>8, <3>1, <3>2 DEF ScreenInv
  <2> QED
    BY <2>8, <2>9, <2>10, <2>11 DEF ChatInv
<1> QED
  BY <1>5, <1>6

\* A reply task changes nothing on screen.
LEMMA ScreenKept ==
  ASSUME UNCHANGED lines
  PROVE  /\ \A n : Terminal!Shown(n)' = Terminal!Shown(n) /\ \A u : Asks(u, n)' = Asks(u, n)
         /\ PiecesOnly' = PiecesOnly
         /\ Terminal!BelowQuestions' = Terminal!BelowQuestions /\ Terminal!InOrder' = Terminal!InOrder
BY DEF Terminal!Shown, Asks, PiecesOnly, Terminal!BelowQuestions, Terminal!InOrder

\* What each step of a reply task has to show: that its own messages stay queued.
TaskStep(n, s, p) ==
  /\ UNCHANGED <<lines, entered, busy, quit, loop>>
  /\ reply' = [reply EXCEPT ![n] = s] /\ s \in {"stream", "ending", "gone"}
  /\ produced' = [produced EXCEPT ![n] = p] /\ p \in 0 .. MaxPieces
  /\ reply[n] \in {"call", "stream", "ending"}
  /\ replies' \in Seq(Terminal!Messages) /\ Len(replies') <= ChatCapacity
  /\ \A k \in DOMAIN replies' : replies'[k].input = n
  /\ loop => Taken(n)' = Taken(n) /\ (InChannel(n)' => Taken(n)' \in 0 .. p /\ Queued(n)')
  /\ ~loop => replies' = <<>>

LEMMA TaskStepInv ==
  ASSUME ChatInv, NEW n \in Terminal!Inputs, NEW s, NEW p, TaskStep(n, s, p)
  PROVE  ChatInv'
<1>1. /\ UNCHANGED <<lines, entered, busy, quit, loop>>
      /\ reply \in [Terminal!Inputs -> {"none", "call", "stream", "ending", "gone"}]
      /\ produced \in [Terminal!Inputs -> 0 .. MaxPieces]
      /\ reply' = [reply EXCEPT ![n] = s] /\ s \in {"stream", "ending", "gone"}
      /\ produced' = [produced EXCEPT ![n] = p] /\ p \in 0 .. MaxPieces
      /\ reply'[n] = s /\ produced'[n] = p /\ Working(n)
  BY DEF ChatInv, Terminal!TypeOK, TaskStep, Working
<1>2. Terminal!TypeOK'
  <2>1. /\ reply' \in [Terminal!Inputs -> {"none", "call", "stream", "ending", "gone"}]
        /\ produced' \in [Terminal!Inputs -> 0 .. MaxPieces]
    BY <1>1
  <2> QED
    BY <1>1, <2>1 DEF ChatInv, TaskStep, Terminal!TypeOK
<1>3. \A l \in Terminal!Inputs : l # n =>
        /\ reply'[l] = reply[l] /\ produced'[l] = produced[l]
        /\ ~InChannel(l)' /\ Left(l)' = 0 /\ Taken(l)' = produced[l]
  <2> SUFFICES ASSUME NEW l \in Terminal!Inputs, l # n
               PROVE  /\ reply'[l] = reply[l] /\ produced'[l] = produced[l]
                      /\ ~InChannel(l)' /\ Left(l)' = 0 /\ Taken(l)' = produced[l]
    OBVIOUS
  <2>1. reply'[l] = reply[l] /\ produced'[l] = produced[l]
    BY <1>1
  <2>2. ~InChannel(l)'
    BY DEF InChannel, TaskStep
  <2>3. Left(l)' = 0
    BY <2>2 DEF Left
  <2>4. produced[l] \in Nat
    BY TaskTypes DEF ChatInv
  <2> QED
    BY <2>1, <2>2, <2>3, <2>4 DEF Taken
<1>4. /\ reply[n] # "none" /\ n <= entered
  BY DEF TaskStep, ChatInv, TaskInv
<1>5. CASE ~loop
  <2>1. \A l : ~InChannel(l)'
    BY <1>5 DEF TaskStep, InChannel
  <2>2. TaskInv'
    <3> SUFFICES ASSUME NEW l \in Terminal!Inputs
                 PROVE  /\ reply'[l] # "none" => l <= entered'
                        /\ reply'[l] = "none" => produced'[l] = 0
      BY <1>1, <1>5, <2>1 DEF TaskInv
    <3>1. CASE l = n
      BY <1>1, <1>4, <3>1
    <3>2. CASE l # n
      BY <1>1, <1>3, <3>2 DEF ChatInv, TaskInv
    <3> QED
      BY <3>1, <3>2
  <2>3. ScreenInv'
    BY <1>1, <1>5, ScreenKept DEF ChatInv, ScreenInv
  <2> QED
    BY <1>1, <1>2, <2>2, <2>3, ScreenKept DEF ChatInv
<1>6. CASE loop
  <2>1. /\ busy /\ \A l \in Terminal!Inputs : l # n => ~Working(l) /\ Taken(l) = produced[l]
    BY <1>1, <1>6, Alone DEF ChatInv
  <2>2. \A l \in Terminal!Inputs : l # n => ~Working(l)'
    BY <1>3, <2>1 DEF Working
  <2>3. TaskInv'
    <3> SUFFICES ASSUME NEW l \in Terminal!Inputs
                 PROVE  /\ reply'[l] # "none" => l <= entered'
                        /\ reply'[l] = "none" => produced'[l] = 0
                        /\ loop' /\ Working(l)' =>
                             busy' /\ reply'[l] # "none" /\ \A k \in Terminal!Inputs : Working(k)' => k = l
                        /\ InChannel(l)' => loop' /\ Taken(l)' \in 0 .. produced'[l] /\ Queued(l)'
      BY DEF TaskInv
    <3>1. CASE l = n
      <4>1. InChannel(n)' => Taken(n)' \in 0 .. p /\ Queued(n)'
        BY <1>6 DEF TaskStep
      <4> QED
        BY <1>1, <1>4, <1>6, <2>1, <2>2, <3>1, <4>1
    <3>2. CASE l # n
      <4>1. /\ reply[l] # "none" => l <= entered
            /\ reply[l] = "none" => produced[l] = 0
        BY DEF ChatInv, TaskInv
      <4> QED
        BY <1>1, <1>3, <2>2, <3>2, <4>1
    <3> QED
      BY <3>1, <3>2
  <2>4. \A l \in Terminal!Inputs : Taken(l)' = Taken(l)
    BY <1>3, <1>6, <2>1 DEF TaskStep
  <2>5. \A l \in Terminal!Inputs : Working(l)' => Working(l)
    BY <1>1, <2>2
  <2>6. ScreenInv'
    <3>1. PiecesOnly'
      BY <1>1, ScreenKept DEF ChatInv, ScreenInv
    <3>2. ASSUME NEW l \in Terminal!Inputs
          PROVE  /\ Working(l)' => \E u \in DOMAIN lines' : Asks(u, l)'
                 /\ Terminal!Shown(l)' = 1 .. Taken(l)'
      <4>1. /\ Working(l) => \E u \in DOMAIN lines : Asks(u, l)
            /\ Terminal!Shown(l) = 1 .. Taken(l)
        BY <1>6 DEF ChatInv, ScreenInv
      <4> QED
        BY <1>1, <2>4, <2>5, <4>1, ScreenKept
    <3> QED
      BY <3>1, <3>2 DEF ScreenInv
  <2> QED
    BY <1>1, <1>2, <2>3, <2>6, ScreenKept DEF ChatInv
<1> QED
  BY <1>5, <1>6

\* Steps that send nothing.
LEMMA SilentStep ==
  ASSUME ChatInv, NEW n \in Terminal!Inputs, Terminal!Answers(n) \/ Terminal!StreamEnds(n)
  PROVE  ChatInv'
<1> DEFINE s == IF reply[n] = "call" THEN "stream" ELSE "ending"
<1>1. /\ reply[n] \in {"call", "stream"} /\ reply' = [reply EXCEPT ![n] = s]
      /\ UNCHANGED <<lines, entered, busy, quit, loop, produced, replies>>
  BY DEF Terminal!Answers, Terminal!StreamEnds, Terminal!Becomes, Terminal!app
<1>2. PICK t, p : t = s /\ p = produced[n]
  OBVIOUS
<1>3. /\ reply \in [Terminal!Inputs -> {"none", "call", "stream", "ending", "gone"}]
      /\ produced \in [Terminal!Inputs -> 0 .. MaxPieces]
      /\ replies \in Seq(Terminal!Messages) /\ Len(replies) <= ChatCapacity
  BY DEF ChatInv, Terminal!TypeOK
<1>4. reply'[n] \in {"stream", "ending"} /\ produced' = [produced EXCEPT ![n] = p] /\ p \in 0 .. MaxPieces
  BY <1>1, <1>2, <1>3
<1>5. Ended(n)' = Ended(n) /\ InChannel(n)' = InChannel(n)
  BY <1>1, <1>4 DEF Ended, InChannel
<1>6. Left(n)' = Left(n) /\ Taken(n)' = Taken(n)
  BY <1>1, <1>5 DEF Left, Taken
<1>7. Queued(n)' <=> Queued(n)
  BY <1>1, <1>4, <1>6 DEF Queued
<1>8. \A k \in DOMAIN replies : replies[k].input = n
  <2>1. CASE loop
    BY <1>1, <2>1, Alone DEF ChatInv, Working
  <2>2. CASE ~loop
    BY <2>2, TaskTypes DEF ChatInv, TaskInv
  <2> QED
    BY <2>1, <2>2
<1>9. ~loop => replies = <<>>
  BY <1>3, TaskTypes DEF ChatInv, TaskInv
<1>10. loop => Taken(n) \in 0 .. p /\ Queued(n)
  BY <1>1, <1>2, Alone DEF ChatInv, Working
<1>11. TaskStep(n, t, p)
  BY <1>1, <1>2, <1>3, <1>4, <1>5, <1>6, <1>7, <1>8, <1>9, <1>10 DEF TaskStep
<1> QED
  BY <1>11, TaskStepInv

\* A message sent is the last in the channel, if the loop still goes on.
LEMMA Sending ==
  ASSUME ChatInv, NEW n \in Terminal!Inputs, reply[n] \in {"call", "stream", "ending"},
         NEW m \in Terminal!Messages, m.input = n, Terminal!SendMsg(m)
  PROVE  /\ replies' \in Seq(Terminal!Messages) /\ Len(replies') <= ChatCapacity
         /\ \A k \in DOMAIN replies' : replies'[k].input = n
         /\ ~loop => replies' = <<>>
         /\ loop => /\ InChannel(n)' /\ Len(replies') = Len(replies) + 1
                    /\ DOMAIN replies' = 1 .. Len(replies) + 1
                    /\ Left(n) = Len(replies) /\ Len(replies) \in Nat
                    /\ \A k \in 1 .. Len(replies) : replies'[k] = Terminal!Piece(n, Taken(n) + k)
                    /\ replies'[Len(replies) + 1] = m
                    /\ Taken(n) \in 0 .. produced[n]
<1>1. replies \in Seq(Terminal!Messages) /\ Len(replies) \in Nat /\ Len(replies) <= ChatCapacity
      /\ DOMAIN replies = 1 .. Len(replies) /\ Working(n) /\ ChatCapacity \in Nat
  BY ChatAssumption DEF ChatInv, Terminal!TypeOK, Working
<1>2. CASE ~loop
  <2>1. replies' = replies
    BY <1>2 DEF Terminal!SendMsg
  <2>2. DOMAIN replies = {}
    BY <1>2, TaskTypes DEF ChatInv, TaskInv
  <2>3. replies = <<>>
    BY <1>1, <2>2
  <2> QED
    BY <1>1, <1>2, <2>1, <2>2, <2>3
<1>3. CASE loop
  <2>1. /\ \A k \in DOMAIN replies : replies[k].input = n
        /\ InChannel(n) <=> replies # <<>>
        /\ Taken(n) \in 0 .. produced[n] /\ Queued(n)
    BY <1>1, <1>3, Alone DEF ChatInv
  <2>2. replies' = Append(replies, m) /\ Len(replies) < ChatCapacity
    BY <1>3 DEF Terminal!SendMsg
  <2>3. /\ replies' \in Seq(Terminal!Messages) /\ Len(replies') = Len(replies) + 1
        /\ \A k \in 1 .. Len(replies) : replies'[k] = replies[k]
        /\ replies'[Len(replies) + 1] = m
    BY <1>1, <2>2, AppendProperties
  <2>4. DOMAIN replies' = 1 .. Len(replies) + 1
    BY <1>1, <2>3
  <2>5. \A k \in DOMAIN replies' : replies'[k].input = n
    BY <1>1, <2>1, <2>3, <2>4
  <2>6. InChannel(n)'
    <3>1. Len(replies) + 1 \in DOMAIN replies'
      BY <1>1, <2>4
    <3> QED
      BY <2>5, <3>1 DEF InChannel
  <2>7. Left(n) = Len(replies)
    <3>1. replies = <<>> => Len(replies) = 0
      OBVIOUS
    <3>2. Ended(n) = 0
      BY DEF Ended
    <3>3. CASE InChannel(n)
      BY <1>1, <3>2, <3>3 DEF Left
    <3>4. CASE ~InChannel(n)
      BY <2>1, <3>1, <3>4 DEF Left
    <3> QED
      BY <3>3, <3>4
  <2>8. \A k \in 1 .. Len(replies) : replies'[k] = Terminal!Piece(n, Taken(n) + k)
    BY <1>1, <2>1, <2>3 DEF Queued
  <2> QED
    BY <1>1, <1>3, <2>1, <2>2, <2>3, <2>4, <2>5, <2>6, <2>7, <2>8
<1> QED
  BY <1>2, <1>3

\* A text is sent.
LEMMA TextStep ==
  ASSUME ChatInv, NEW n \in Terminal!Inputs, Terminal!CallFails(n) \/ Terminal!NextText(n)
  PROVE  ChatInv'
<1>1. /\ reply[n] \in {"call", "stream"}
      /\ Terminal!SendText(n) /\ UNCHANGED <<lines, entered, busy, quit, loop>>
  BY DEF Terminal!CallFails, Terminal!NextText, Terminal!app
<1>2. PICK s \in {"stream", "ending"} : reply' = [reply EXCEPT ![n] = s]
  <2>1. CASE UNCHANGED reply /\ reply[n] = "stream"
    <3>1. reply' = [reply EXCEPT ![n] = "stream"]
      BY <2>1 DEF ChatInv, Terminal!TypeOK
    <3> QED
      BY <3>1
  <2>2. CASE Terminal!Becomes(n, "ending")
    BY <2>2 DEF Terminal!Becomes
  <2> QED
    BY <2>1, <2>2 DEF Terminal!CallFails, Terminal!NextText
<1>3. PICK p : p = produced[n] + 1
  OBVIOUS
<1>4. /\ reply \in [Terminal!Inputs -> {"none", "call", "stream", "ending", "gone"}]
      /\ produced \in [Terminal!Inputs -> 0 .. MaxPieces]
  BY DEF ChatInv, Terminal!TypeOK
<1>5. /\ produced[n] \in Nat /\ produced[n] + 1 = p /\ p \in 0 .. MaxPieces /\ p \in Nat
      /\ produced' = [produced EXCEPT ![n] = p] /\ produced'[n] = p
      /\ Terminal!SendMsg(Terminal!Piece(n, p))
  BY <1>1, <1>3, <1>4, ChatAssumption DEF Terminal!SendText
<1>6. Terminal!Piece(n, p) \in Terminal!Messages /\ Terminal!Piece(n, p).input = n
  BY <1>5 DEF Terminal!Piece, Terminal!Messages
<1>7. PICK m \in Terminal!Messages : m = Terminal!Piece(n, p)
  BY <1>6
<1>8. /\ replies' \in Seq(Terminal!Messages) /\ Len(replies') <= ChatCapacity
      /\ \A k \in DOMAIN replies' : replies'[k].input = n
      /\ ~loop => replies' = <<>>
      /\ loop => /\ InChannel(n)' /\ Len(replies') = Len(replies) + 1
                 /\ DOMAIN replies' = 1 .. Len(replies) + 1
                 /\ Left(n) = Len(replies) /\ Len(replies) \in Nat
                 /\ \A k \in 1 .. Len(replies) : replies'[k] = Terminal!Piece(n, Taken(n) + k)
                 /\ replies'[Len(replies) + 1] = m
                 /\ Taken(n) \in 0 .. produced[n]
  BY <1>1, <1>5, <1>6, <1>7, Sending
<1>9. reply'[n] = s
  BY <1>2, <1>4
<1>10. ASSUME loop PROVE Taken(n)' = Taken(n) /\ Taken(n)' \in 0 .. p /\ Queued(n)'
  <2>1. Left(n)' = Len(replies) + 1
    BY <1>8, <1>9, <1>10 DEF Left, Ended
  <2>2. Taken(n) = produced[n] - Len(replies) /\ Taken(n)' = p - (Len(replies) + 1)
    BY <1>5, <1>8, <1>10, <2>1 DEF Taken
  <2>3. Taken(n)' = Taken(n) /\ Taken(n)' \in 0 .. p /\ Taken(n) + (Len(replies) + 1) = p
    <3>1. Len(replies) \in Nat /\ Taken(n) \in 0 .. produced[n]
      BY <1>8, <1>10
    <3> QED
      BY <1>5, <2>2, <3>1
  <2>4. \A k \in DOMAIN replies' : replies'[k] = Terminal!Piece(n, Taken(n)' + k)
    <3> SUFFICES ASSUME NEW k \in 1 .. Len(replies) + 1
                 PROVE  replies'[k] = Terminal!Piece(n, Taken(n)' + k)
      BY <1>8, <1>10
    <3>1. k \in 1 .. Len(replies) \/ k = Len(replies) + 1
      BY <1>8, <1>10
    <3> QED
      BY <1>7, <1>8, <1>10, <2>3, <3>1
  <2> QED
    BY <1>9, <2>3, <2>4 DEF Queued
<1>11. TaskStep(n, s, p)
  BY <1>1, <1>2, <1>5, <1>8, <1>10 DEF TaskStep
<1> QED
  BY <1>11, TaskStepInv

\* The task ends with Done.
LEMMA DoneStep ==
  ASSUME ChatInv, NEW n \in Terminal!Inputs, Terminal!SendDone(n)
  PROVE  ChatInv'
<1>1. /\ reply[n] = "ending" /\ Terminal!SendMsg(Terminal!Done(n))
      /\ reply' = [reply EXCEPT ![n] = "gone"]
      /\ UNCHANGED <<lines, entered, busy, quit, loop, produced>>
  BY DEF Terminal!SendDone, Terminal!Becomes, Terminal!app
<1>3. PICK p : p = produced[n]
  OBVIOUS
<1>4. /\ reply \in [Terminal!Inputs -> {"none", "call", "stream", "ending", "gone"}]
      /\ produced \in [Terminal!Inputs -> 0 .. MaxPieces]
  BY DEF ChatInv, Terminal!TypeOK
<1>5. /\ p \in 0 .. MaxPieces /\ p \in Nat
      /\ produced' = [produced EXCEPT ![n] = p] /\ produced'[n] = p /\ reply'[n] = "gone"
  BY <1>1, <1>3, <1>4, ChatAssumption
<1>6. Terminal!Done(n) \in Terminal!Messages /\ Terminal!Done(n).input = n
  BY ChatAssumption DEF Terminal!Done, Terminal!Messages
<1>7. PICK m \in Terminal!Messages : m = Terminal!Done(n)
  BY <1>6
<1>8. /\ replies' \in Seq(Terminal!Messages) /\ Len(replies') <= ChatCapacity
      /\ \A k \in DOMAIN replies' : replies'[k].input = n
      /\ ~loop => replies' = <<>>
      /\ loop => /\ InChannel(n)' /\ Len(replies') = Len(replies) + 1
                 /\ DOMAIN replies' = 1 .. Len(replies) + 1
                 /\ Left(n) = Len(replies) /\ Len(replies) \in Nat
                 /\ \A k \in 1 .. Len(replies) : replies'[k] = Terminal!Piece(n, Taken(n) + k)
                 /\ replies'[Len(replies) + 1] = m
                 /\ Taken(n) \in 0 .. produced[n]
  BY <1>1, <1>6, <1>7, Sending
<1>10. ASSUME loop PROVE Taken(n)' = Taken(n) /\ Taken(n)' \in 0 .. p /\ Queued(n)'
  <2>1. Left(n)' = Len(replies)
    BY <1>5, <1>8, <1>10 DEF Left, Ended
  <2>2. Taken(n)' = Taken(n)
    BY <1>1, <1>8, <1>10, <2>1 DEF Taken
  <2>3. \A k \in 1 .. Len(replies) + 1 :
          replies'[k] = IF k = Len(replies) + 1 THEN Terminal!Done(n) ELSE Terminal!Piece(n, Taken(n)' + k)
    <3> SUFFICES ASSUME NEW k \in 1 .. Len(replies) + 1
                 PROVE  replies'[k] = IF k = Len(replies) + 1 THEN Terminal!Done(n)
                                      ELSE Terminal!Piece(n, Taken(n)' + k)
      OBVIOUS
    <3>1. k \in 1 .. Len(replies) \/ k = Len(replies) + 1
      BY <1>8, <1>10
    <3>2. \A i \in 1 .. Len(replies) : i # Len(replies) + 1
      BY <1>8, <1>10
    <3> QED
      BY <1>7, <1>8, <1>10, <2>2, <3>1, <3>2
  <2> QED
    BY <1>3, <1>5, <1>8, <1>10, <2>2, <2>3 DEF Queued
<1>11. TaskStep(n, "gone", p)
  BY <1>1, <1>5, <1>8, <1>10 DEF TaskStep
<1> QED
  BY <1>11, TaskStepInv

LEMMA ChatNext == ChatInv /\ [Terminal!Next]_Terminal!vars => ChatInv'
<1> SUFFICES ASSUME ChatInv, [Terminal!Next]_Terminal!vars PROVE ChatInv'
  OBVIOUS
<1>1. ASSUME Terminal!Command \/ Terminal!QuitCommand \/ Terminal!AskInVain PROVE ChatInv'
  <2>1. PICK after \in {<<>>, <<Terminal!System>>} : Terminal!Submit(after)
    BY <1>1 DEF Terminal!Command, Terminal!QuitCommand, Terminal!AskInVain
  <2>2. Typed
    BY <2>1, SubmitTypes DEF ChatInv
  <2>3. TasksKeep /\ UNCHANGED <<busy, loop>>
    BY <1>1 DEF Terminal!Command, Terminal!QuitCommand, Terminal!AskInVain, Terminal!tasks, TasksKeep
  <2>4. quit' \in BOOLEAN
    <3>1. quit \in BOOLEAN
      BY DEF ChatInv, Terminal!TypeOK
    <3> QED
      BY <1>1, <3>1, Zenon DEF Terminal!Command, Terminal!QuitCommand, Terminal!AskInVain
  <2> QED
    BY <2>2, <2>3, <2>4, TypedInv
<1>2. ASSUME NEW n \in Terminal!Inputs, Terminal!ReplyStep(n) PROVE ChatInv'
  BY <1>2, SilentStep, TextStep, DoneStep DEF Terminal!ReplyStep
<1>3. ASSUME UNCHANGED Terminal!vars PROVE ChatInv'
  <2>1. UNCHANGED <<lines, entered, busy, quit, loop, reply, produced, replies>>
    BY <1>3 DEF Terminal!vars, Terminal!app, Terminal!tasks
  <2>2. Terminal!TypeOK'
    BY <2>1 DEF ChatInv, Terminal!TypeOK
  <2>3. \A n : /\ InChannel(n)' = InChannel(n) /\ Working(n)' = Working(n)
               /\ Taken(n)' = Taken(n) /\ Queued(n)' = Queued(n)
    BY <2>1, TasksKept DEF TasksKeep
  <2>4. TaskInv'
    BY <2>1, <2>3 DEF ChatInv, TaskInv
  <2>5. ScreenInv'
    BY <2>1, <2>3, ScreenKept DEF ChatInv, ScreenInv
  <2> QED
    BY <2>1, <2>2, <2>4, <2>5, ScreenKept DEF ChatInv
<1> QED
  BY <1>1, <1>2, <1>3, AskInv, LeaveInv, ReceiveInv DEF Terminal!Next

\* The lines on screen, the tasks and the channel keep their types, for any number of
\* inputs and texts and any capacity of the channel.
THEOREM ChatTypes == Terminal!Spec => []Terminal!TypeOK
<1>1. ChatInv => Terminal!TypeOK
  BY DEF ChatInv
<1> QED
  BY <1>1, ChatInit, ChatNext, PTL DEF Terminal!Spec

\* send_to_agent() and append_agent_text(): every text of an answer is on screen once,
\* in order, below its question, in lines of its own, or still in the channel.
THEOREM AnswersShown == Terminal!Spec => []AnswersApart
BY ChatInit, ChatNext, ChatInvImplies, PTL DEF Terminal!Spec
=============================================================================
