-------------------------------- MODULE Chat --------------------------------
(***************************************************************************)
(* The chat of the terminal front end: the event loop of run_tui(), which  *)
(* alone writes the lines on screen, and for every question a task that    *)
(* reads the agent's answer and sends it through a bounded channel.  The   *)
(* loop handles one key or message at a time; tasks go on in between, and  *)
(* after the loop has ended.  Texts are numbers: the input a line shows,   *)
(* and the input and position of a piece of an answer.                     *)
(***************************************************************************)
EXTENDS Naturals, SequencesExt

CONSTANTS
  Capacity,   \* of the agent channel (100 in the code), not 0
  MaxInputs,  \* bound: lines entered
  MaxPieces   \* bound: texts of one answer, not 0

Inputs == 1 .. MaxInputs

VARIABLES
  lines,     \* app.chat.lines
  entered,   \* inputs submitted
  busy,      \* app.agent_busy
  quit,      \* app.should_quit
  open,      \* the event loop goes on
  reply,     \* the reply task of an input: "none", "call", "stream", "ending", "gone"
  produced,  \* pieces it has sent
  channel

app == <<lines, entered, busy, quit, open>>
tasks == <<reply, produced>>
vars == <<app, tasks, channel>>

User(n) == [who |-> "user", input |-> n]
System == [who |-> "system"]
Agent(pieces) == [who |-> "agent", pieces |-> pieces]

Piece(n, k) == [input |-> n, piece |-> k]
Done(n) == [input |-> n, piece |-> 0]

Messages == [input : Inputs, piece : 0 .. MaxPieces]

Lines == {System} \cup [who : {"user"}, input : Inputs] \cup [who : {"agent"}, pieces : Seq(Messages)]

TypeOK ==
  /\ lines \in Seq(Lines) /\ lines # <<>>
  /\ entered \in 0 .. MaxInputs
  /\ busy \in BOOLEAN /\ quit \in BOOLEAN /\ open \in BOOLEAN
  /\ reply \in [Inputs -> {"none", "call", "stream", "ending", "gone"}]
  /\ produced \in [Inputs -> 0 .. MaxPieces]
  /\ channel \in Seq(Messages) /\ Len(channel) <= Capacity

Init ==
  /\ lines = <<System>> /\ entered = 0
  /\ busy = FALSE /\ quit = FALSE /\ open = TRUE
  /\ reply = [n \in Inputs |-> "none"]
  /\ produced = [n \in Inputs |-> 0]
  /\ channel = <<>>

-----------------------------------------------------------------------------
(* The event loop: keys *)

\* Enter, with more than blanks in the input: the line goes to the chat first.
Submit(after) ==
  /\ open /\ entered < MaxInputs
  /\ entered' = entered + 1
  /\ lines' = Append(lines, User(entered + 1)) \o after

\* /board and /task: an answer of the board, or none when listing fails.
Command ==
  /\ \E after \in {<<>>, <<System>>} : Submit(after)
  /\ UNCHANGED <<busy, quit, open, tasks, channel>>

\* /quit: a flag.
QuitCommand ==
  /\ Submit(<<>>)
  /\ quit' = TRUE
  /\ UNCHANGED <<busy, open, tasks, channel>>

\* Mutant of Ask: also while an answer is awaited.
AskAnyway ==
  /\ Submit(<<>>)
  /\ busy' = TRUE
  /\ reply' = [reply EXCEPT ![entered + 1] = "call"]
  /\ UNCHANGED <<quit, open, produced, channel>>

\* A question: a task of its own fetches the answer.
Ask ==
  /\ ~busy
  /\ Submit(<<>>)
  /\ busy' = TRUE
  /\ reply' = [reply EXCEPT ![entered + 1] = "call"]
  /\ UNCHANGED <<quit, open, produced, channel>>

AskInVain ==
  /\ busy
  /\ Submit(<<System>>)
  /\ UNCHANGED <<busy, quit, open, tasks, channel>>

\* Ctrl+C, or the terminal is gone: the receiver is dropped.
Leave ==
  /\ open
  /\ open' = FALSE
  /\ quit' \in {quit, TRUE}
  /\ channel' = <<>>
  /\ UNCHANGED <<lines, entered, busy, tasks>>

-----------------------------------------------------------------------------
(* The event loop: messages of the agent *)

\* A text goes on with the last line if that is the agent's.
AppendAgentText(m) ==
  IF Last(lines).who = "agent"
  THEN [lines EXCEPT ![Len(lines)].pieces = Append(@, m)]
  ELSE Append(lines, Agent(<<m>>))

Receive ==
  /\ open /\ channel # <<>>
  /\ channel' = Tail(channel)
  /\ LET m == Head(channel) IN
     IF m = Done(m.input)
     THEN busy' = FALSE /\ UNCHANGED lines
     ELSE lines' = AppendAgentText(m) /\ UNCHANGED busy
  /\ UNCHANGED <<entered, quit, open, tasks>>

-----------------------------------------------------------------------------
(* The reply task of input n *)

\* It waits for room; when the loop has ended the message is lost.
SendMsg(m) ==
  IF open THEN Len(channel) < Capacity /\ channel' = Append(channel, m)
          ELSE UNCHANGED channel

SendText(n) ==
  /\ produced[n] < MaxPieces
  /\ SendMsg(Piece(n, produced[n] + 1))
  /\ produced' = [produced EXCEPT ![n] = @ + 1]

Becomes(n, stage) == reply' = [reply EXCEPT ![n] = stage]

Answers(n) ==
  /\ reply[n] = "call"
  /\ Becomes(n, "stream")
  /\ UNCHANGED <<app, produced, channel>>

\* Mutant of CallFails: the error is told and the task returns.
CallFailsForGood(n) ==
  /\ reply[n] = "call"
  /\ SendText(n)
  /\ Becomes(n, "gone")
  /\ UNCHANGED app

CallFails(n) ==
  /\ reply[n] = "call"
  /\ SendText(n)
  /\ Becomes(n, "ending")
  /\ UNCHANGED app

\* A text of the answer, or an error, which ends it.
NextText(n) ==
  /\ reply[n] = "stream"
  /\ SendText(n)
  /\ UNCHANGED reply \/ Becomes(n, "ending")
  /\ UNCHANGED app

StreamEnds(n) ==
  /\ reply[n] = "stream"
  /\ Becomes(n, "ending")
  /\ UNCHANGED <<app, produced, channel>>

SendDone(n) ==
  /\ reply[n] = "ending"
  /\ SendMsg(Done(n))
  /\ Becomes(n, "gone")
  /\ UNCHANGED <<app, produced>>

ReplyStep(n) == Answers(n) \/ CallFails(n) \/ NextText(n) \/ StreamEnds(n) \/ SendDone(n)

-----------------------------------------------------------------------------

Next ==
  \/ Command \/ QuitCommand \/ Ask \/ AskInVain \/ Leave
  \/ Receive
  \/ \E n \in Inputs : ReplyStep(n)

Spec == Init /\ [][Next]_vars

\* The loop takes what is in its channel, and the agent's answer goes on and ends.
Fairness ==
  /\ WF_vars(Receive)
  /\ \A n \in Inputs : WF_vars(ReplyStep(n))

FairSpec == Spec /\ Fairness

-----------------------------------------------------------------------------
(* Properties *)

\* The pieces of answer n on screen, and in the channel.
Shown(n) ==
  {c \in 1 .. MaxPieces : \E i \in DOMAIN lines :
     lines[i].who = "agent" /\ \E k \in DOMAIN lines[i].pieces : lines[i].pieces[k] = Piece(n, c)}
Sent(n) == {c \in 1 .. MaxPieces : \E k \in DOMAIN channel : channel[k] = Piece(n, c)}

\* No line of the agent mixes two answers, and each is below its question.
BelowQuestions ==
  \A i \in DOMAIN lines : lines[i].who = "agent" =>
    \E j \in 1 .. (i - 1) :
      /\ lines[j].who = "user"
      /\ \A k \in DOMAIN lines[i].pieces : lines[i].pieces[k].input = lines[j].input

\* The pieces of an answer are on screen in order, and each once.
InOrder ==
  \A i, j \in DOMAIN lines : lines[i].who = "agent" /\ lines[j].who = "agent" =>
    \A k \in DOMAIN lines[i].pieces, l \in DOMAIN lines[j].pieces :
      i < j \/ (i = j /\ k < l) =>
        LET a == lines[i].pieces[k]
            b == lines[j].pieces[l]
        IN  a.input = b.input => a.piece < b.piece

\* Every piece of an answer is shown once, in order, below its question, and no
\* line mixes two answers, whatever is entered while they come (chat.rs:22).  What the
\* task has produced is on screen, and the rest in the channel.
AnswersApart ==
  /\ BelowQuestions /\ InOrder
  /\ open => \A n \in Inputs : \E s \in 0 .. produced[n] :
       Shown(n) = 1 .. s /\ Sent(n) = (s + 1) .. produced[n]

\* A question is over some time, on every path of its task (rigs.rs:51).
BusyEnds == busy ~> (~busy \/ ~open)

\* /quit asks the loop to end (keys.rs:14, commands.rs:70).
QuitLeaves == quit ~> ~open

=============================================================================
