------------------------------- MODULE Console -------------------------------
(***************************************************************************)
(* The paravirtual console of a sandbox and the two programs that talk     *)
(* over it: the host's exec loop (vm.rs) and the guest's init.  Everything *)
(* runs on one thread: the guest runs inside vcpu.run(), may leave it      *)
(* between any two of its memory accesses, and a device handler then runs  *)
(* to its end.  Queues are those of Ring.  The guest's kernel driver is    *)
(* not in the repository; it is modelled from what the device, the exec    *)
(* loop and init rely on.                                                  *)
(*                                                                         *)
(* A line of JSON is two chunks, the second with the newline; a receive    *)
(* buffer has room for Room chunks, and a guest's write carries one.       *)
(***************************************************************************)
EXTENDS Ring, FiniteSets, SequencesExt

CONSTANTS
  Execs,      \* bound: commands sent to one virtual machine
  Room,       \* chunks that fit a receive buffer
  MaxTries,   \* bound: times init tries to open the port (20 in the code)
  Resets      \* bound: times the pool resets the machine

ASSUME ConsoleAssumption ==
  /\ Execs \in Nat \ {0}
  /\ Room \in Nat \ {0}
  /\ MaxTries \in Nat \ {0}
  /\ Resets \in Nat

VARIABLES
  queue,    \* the four rings, and which descriptors the driver owns
  noKick,   \* used.flags: the device asked not to be notified
  buf,      \* what the guest's buffers hold, by queue and descriptor
  dev,      \* VirtioConsole
  guest,    \* kernel driver and init
  host,     \* the exec loop
  snap      \* the snapshot every machine starts from

vars == <<queue, noKick, buf, dev, guest, host, snap>>

RX == 0
TX == 1
CRX == 2
CTX == 3
Queues == {RX, TX, CRX, CTX}

Cmds == 1 .. Execs
Chunk(c, e) == [cmd |-> c, end |-> e]
Line(c) == <<Chunk(c, FALSE), Chunk(c, TRUE)>>

-----------------------------------------------------------------------------
(* VirtioConsole: its fields beside the queues, and its handlers.          *)

NewDevice == [intr |-> FALSE, out |-> <<>>, in |-> <<>>, rxPending |-> FALSE, ctrl |-> <<>>]

Contents(q) == [i \in 1 .. Pending(queue[q]) |-> buf[q][Offered(queue[q])[i]]]

\* What DEVICE_READY and PORT_READY are answered with; other events are not.
Reply(event) ==
  CASE event = "DEVICE_READY" -> <<"PORT_ADD">>
    [] event = "PORT_READY"   -> <<"PORT_OPEN">>
    [] OTHER                  -> <<>>

\* A state of device, queues and buffers, as the handlers pass it on.
Now == [dev |-> dev, queue |-> queue, buf |-> buf]

ProcessTx(s) ==
  IF ~s.queue[TX].ready THEN s
  ELSE [s EXCEPT !.dev.out = @ \o Contents(TX),
                 !.dev.intr = TRUE,
                 !.queue[TX] = Serve(@, Pending(@))]

ProcessCtrlTx(s) ==
  IF ~s.queue[CTX].ready THEN s
  ELSE [s EXCEPT !.dev.ctrl = @ \o FlattenSeq([i \in 1 .. Pending(s.queue[CTX]) |-> Reply(Contents(CTX)[i])]),
                 !.dev.intr = @ \/ Pending(s.queue[CTX]) > 0,
                 !.queue[CTX] = Serve(@, Pending(@))]

\* As many messages as the driver left buffers for.
DeliverCtrlRx(s) ==
  LET q == s.queue[CRX]
      n == IF q.ready THEN Cardinality(DOMAIN s.dev.ctrl \cap (1 .. Pending(q))) ELSE 0
  IN  [s EXCEPT !.dev.ctrl = SubSeq(@, n + 1, Len(@)),
                !.dev.intr = @ \/ n > 0,
                !.buf[CRX] = [d \in Desc |->
                                IF \E i \in 1 .. n : Offered(q)[i] = d
                                THEN s.dev.ctrl[CHOOSE i \in 1 .. n : Offered(q)[i] = d]
                                ELSE @[d]],
                !.queue[CRX] = Serve(@, n)]

\* Mutant of DeliverRx: the input is cleared and not drained by what fitted.
DeliverRxClearing(s) ==
  LET t == DeliverCtrlRx(s)
      q == t.queue[RX]
      n == Min({Room, Len(t.dev.in)})
  IN  IF ~t.dev.rxPending \/ t.dev.in = <<>> \/ ~HasOffer(q) THEN t
      ELSE [t EXCEPT !.buf[RX][FirstOffer(q)] = SubSeq(t.dev.in, 1, n),
                     !.dev.in = <<>>,
                     !.dev.rxPending = FALSE,
                     !.dev.intr = TRUE,
                     !.queue[RX] = Serve(@, 1)]

\* Mutant of DeliverRx: the interrupt is forgotten.
DeliverRxSilently(s) ==
  LET t == DeliverCtrlRx(s)
      q == t.queue[RX]
      n == Min({Room, Len(t.dev.in)})
  IN  IF ~t.dev.rxPending \/ t.dev.in = <<>> \/ ~HasOffer(q) THEN t
      ELSE [t EXCEPT !.buf[RX][FirstOffer(q)] = SubSeq(t.dev.in, 1, n),
                     !.dev.in = SubSeq(@, n + 1, Len(@)),
                     !.dev.rxPending = n < Len(t.dev.in),
                     !.queue[RX] = Serve(@, 1)]

\* Ctrl messages first, then at most one receive buffer.
DeliverRx(s) ==
  LET t == DeliverCtrlRx(s)
      q == t.queue[RX]
      n == Min({Room, Len(t.dev.in)})
  IN  IF ~t.dev.rxPending \/ t.dev.in = <<>> \/ ~HasOffer(q) THEN t
      ELSE [t EXCEPT !.buf[RX][FirstOffer(q)] = SubSeq(t.dev.in, 1, n),
                     !.dev.in = SubSeq(@, n + 1, Len(@)),
                     !.dev.rxPending = n < Len(t.dev.in),
                     !.dev.intr = TRUE,
                     !.queue[RX] = Serve(@, 1)]

\* Mutant of PollTx: with notifications suppressed nobody looks at the queue.
PollTxOnKickOnly(s) == s

PollTx(s) == IF HasOffer(s.queue[TX]) THEN ProcessTx(s) ELSE s

ProcessNotify(s, q) ==
  CASE q = TX  -> ProcessTx(s)
    [] q = CTX -> ProcessCtrlTx(s)
    [] OTHER   -> s

PushInput(d, line) == [d EXCEPT !.in = @ \o line, !.rxPending = TRUE]

\* Where read_line() cuts: the end of the first whole line, or 0.
LineEnd(out) == IF \E i \in DOMAIN out : out[i].end THEN Min({i \in DOMAIN out : out[i].end}) ELSE 0

Put(s) == dev' = s.dev /\ queue' = s.queue /\ buf' = s.buf

-----------------------------------------------------------------------------
(* The guest.  todo lists the buffers its driver is about to offer, step   *)
(* is how far it is with the first of them; the driver holds its lock, and *)
(* takes no interrupt, until the list is empty.                            *)

Empty == <<>>
Offer(q, what) == [q |-> q, what |-> what]
Refill(q) == [d \in 1 .. Size |-> Offer(q, Empty)]

Running == host.phase \in {"boot", "exec", "settle"}
Ready   == Running /\ guest.todo = <<>>

\* Reset, queue set-up and DRIVER_OK; buffers for ctrl messages, then hello.
Probe ==
  /\ Running
  /\ guest.phase = "probe"
  /\ dev' = [dev EXCEPT !.intr = FALSE, !.ctrl = <<>>]
  /\ queue' = [q \in Queues |-> [ResetRing EXCEPT !.ready = TRUE]]
  /\ guest' = [guest EXCEPT !.phase = "open", !.todo = Append(Refill(CRX), Offer(CTX, "DEVICE_READY"))]
  /\ UNCHANGED <<noKick, buf, host, snap>>

\* Any of the driver's free descriptors.
FreeOne(r) == CHOOSE d \in Desc : d \in r.free

WriteSlot ==
  /\ Running
  /\ guest.todo # <<>>
  /\ guest.step = "slot"
  /\ LET o == Head(guest.todo) IN
       /\ queue[o.q].free # {}
       /\ queue' = [queue EXCEPT ![o.q] = Stage(@, FreeOne(@))]
       /\ buf' = [buf EXCEPT ![o.q][FreeOne(queue[o.q])] = o.what]
  /\ guest' = [guest EXCEPT !.step = "index"]
  /\ UNCHANGED <<noKick, dev, host, snap>>

WriteIndex ==
  /\ Running
  /\ guest.step = "index"
  /\ queue' = [queue EXCEPT ![Head(guest.todo).q] = Expose(@)]
  /\ guest' = [guest EXCEPT !.step = "kick"]
  /\ UNCHANGED <<noKick, buf, dev, host, snap>>

\* A write to QUEUE_NOTIFY, unless the device asked for none; while booting the
\* exit handler also delivers ctrl messages.
Kick ==
  /\ Running
  /\ guest.step = "kick"
  /\ LET q == Head(guest.todo).q
         s == ProcessNotify(Now, q)
     IN  /\ IF noKick[q] THEN UNCHANGED <<dev, queue, buf>>
            ELSE Put(IF host.phase = "boot" THEN DeliverCtrlRx(s) ELSE s)
         /\ guest' = IF q = CTX THEN [guest EXCEPT !.step = "spin"]
                     ELSE [guest EXCEPT !.step = "slot", !.todo = Tail(@)]
  /\ UNCHANGED <<noKick, host, snap>>

\* The driver spins until a ctrl message of its own is returned.
Spin ==
  /\ Running
  /\ guest.step = "spin"
  /\ queue[CTX].lastUsed # queue[CTX].usedIdx
  /\ queue' = [queue EXCEPT ![CTX] = Collect(@)]
  /\ guest' = [guest EXCEPT !.step = "slot", !.todo = Tail(@)]
  /\ UNCHANGED <<noKick, buf, dev, host, snap>>

\* The interrupt handler: reads and acknowledges the status, then looks at the queues.
TakeIrq ==
  /\ Ready
  /\ dev.intr
  /\ dev' = [dev EXCEPT !.intr = FALSE]
  /\ guest' = [guest EXCEPT !.irq = TRUE]
  /\ UNCHANGED <<noKick, queue, buf, host, snap>>

HasUsed(q) == queue[q].lastUsed # queue[q].usedIdx

HandleIrq ==
  /\ Ready
  /\ guest.irq
  /\ guest' = [guest EXCEPT !.irq = FALSE, !.awake = @ \/ HasUsed(RX), !.work = @ \/ HasUsed(CRX)]
  /\ UNCHANGED <<noKick, queue, buf, dev, host, snap>>

\* The work item that reads ctrl messages and gives each buffer back.
ControlWork ==
  /\ Ready
  /\ guest.work
  /\ IF ~HasUsed(CRX) THEN guest' = [guest EXCEPT !.work = FALSE] /\ UNCHANGED queue
     ELSE LET event == buf[CRX][Oldest(queue[CRX])]
              again == <<Offer(CRX, Empty)>>
          IN  /\ queue' = [queue EXCEPT ![CRX] = Collect(@)]
              /\ guest' = CASE event = "PORT_ADD"  -> [guest EXCEPT !.todo = again \o Refill(RX) \o <<Offer(CTX, "PORT_READY")>>]
                            [] event = "PORT_OPEN" -> [guest EXCEPT !.todo = again, !.connected = TRUE]
                            [] OTHER               -> [guest EXCEPT !.todo = again]
  /\ UNCHANGED <<noKick, buf, dev, host, snap>>

\* init: up to MaxTries attempts to open the port, then the marker on the serial
\* port either way; without the port it serves the serial port instead.
OpenPort ==
  /\ Ready
  /\ guest.phase = "open"
  /\ guest' = IF guest.connected THEN [guest EXCEPT !.phase = "marker", !.todo = <<Offer(CTX, "PORT_OPEN")>>]
              ELSE IF guest.tries + 1 = MaxTries THEN [guest EXCEPT !.phase = "nomarker", !.tries = MaxTries]
              ELSE [guest EXCEPT !.tries = @ + 1]
  /\ UNCHANGED <<noKick, queue, buf, dev, host, snap>>

HasLine == \E i \in DOMAIN guest.inbox : guest.inbox[i].end
AtRead  == Ready /\ guest.phase = "loop" /\ guest.awake /\ ~HasLine /\ guest.outbox = <<>>

\* run_loop(): a read blocks until there is a buffer, empties it and offers it again.
ReadBuffer ==
  /\ AtRead
  /\ HasUsed(RX)
  /\ queue' = [queue EXCEPT ![RX] = Collect(@)]
  /\ guest' = [guest EXCEPT !.inbox = @ \o buf[RX][Oldest(queue[RX])], !.todo = <<Offer(RX, Empty)>>]
  /\ UNCHANGED <<noKick, buf, dev, host, snap>>

FallAsleep ==
  /\ AtRead
  /\ ~HasUsed(RX)
  /\ guest' = [guest EXCEPT !.awake = FALSE]
  /\ UNCHANGED <<noKick, queue, buf, dev, host, snap>>

\* One line in, one line out, whatever the request was.
ProcessRequest ==
  /\ Ready
  /\ HasLine
  /\ guest.outbox = <<>>
  /\ LET n == LineEnd(guest.inbox) IN
       guest' = [guest EXCEPT !.outbox = Line(guest.inbox[n].cmd), !.inbox = SubSeq(@, n + 1, Len(@))]
  /\ UNCHANGED <<noKick, queue, buf, dev, host, snap>>

\* write_all(): takes back what the device has read, waits for a free buffer.
ReclaimTx ==
  /\ Ready
  /\ guest.outbox # <<>>
  /\ HasUsed(TX)
  /\ queue' = [queue EXCEPT ![TX] = Collect(@)]
  /\ UNCHANGED <<noKick, buf, dev, guest, host, snap>>

WriteBuffer ==
  /\ Ready
  /\ guest.outbox # <<>>
  /\ queue[TX].free # {}
  /\ guest' = [guest EXCEPT !.todo = <<Offer(TX, Head(guest.outbox))>>, !.outbox = Tail(@)]
  /\ UNCHANGED <<noKick, queue, buf, dev, host, snap>>

Guest == Probe \/ WriteSlot \/ WriteIndex \/ Kick \/ Spin \/ TakeIrq \/ HandleIrq \/ ControlWork
           \/ OpenPort \/ ReadBuffer \/ FallAsleep \/ ProcessRequest \/ ReclaimTx \/ WriteBuffer

-----------------------------------------------------------------------------
(* The host: ensure_snapshot(), fork_from(), reset() and exec().           *)

\* run_until_snapshot_marker() stops the booted machine at the marker, and the
\* registers, the queues and the memory are saved; not the interrupt status.
TakeSnapshot ==
  /\ host.phase = "boot"
  /\ guest.phase \in {"marker", "nomarker"}
  /\ guest.todo = <<>>
  /\ snap' = [queue |-> queue, buf |-> buf,
              guest |-> [guest EXCEPT !.phase = IF @ = "marker" THEN "loop" ELSE "uart"]]
  /\ host' = [host EXCEPT !.phase = "saved"]
  /\ UNCHANGED <<queue, noKick, buf, dev, guest>>

\* Mutant of Restore: the device keeps its input and output.
RestoreKeepingDevice ==
  /\ queue' = snap.queue
  /\ buf' = snap.buf
  /\ guest' = snap.guest
  /\ dev' = [dev EXCEPT !.intr = FALSE, !.ctrl = <<>>]
  /\ noKick' = [q \in Queues |-> q \in {RX, TX} /\ snap.queue[q].ready]
  /\ UNCHANGED snap

\* A machine with the memory, registers and queue positions of the snapshot, a
\* new device, and notifications of the two data queues suppressed.
Restore ==
  /\ queue' = snap.queue
  /\ buf' = snap.buf
  /\ guest' = snap.guest
  /\ dev' = NewDevice
  /\ noKick' = [q \in Queues |-> q \in {RX, TX} /\ snap.queue[q].ready]
  /\ UNCHANGED snap

Fork ==
  /\ host.phase = "saved"
  /\ Restore
  /\ host' = [host EXCEPT !.phase = "idle", !.base = host.cmd]

Reset ==
  /\ host.phase = "idle"
  /\ host.resets < Resets
  /\ Restore
  /\ host' = [host EXCEPT !.resets = @ + 1, !.late = FALSE, !.result = 0, !.base = host.cmd]

\* send_cmd_json(), and the first turn of run_exec_loop().
Exec ==
  /\ host.phase = "idle"
  /\ host.cmd < Execs
  /\ Put(DeliverRx([Now EXCEPT !.dev = PushInput(dev, Line(host.cmd + 1))]))
  /\ host' = [host EXCEPT !.phase = "exec", !.cmd = @ + 1, !.result = 0]
  /\ UNCHANGED <<noKick, guest, snap>>

\* After every exit of the guest: poll the transmit queue, look for a line that
\* is a result, and if there is none deliver input before the guest goes on.
ExecTurn ==
  /\ host.phase = "exec"
  /\ LET s == PollTx(Now)
         n == LineEnd(s.dev.out)
     IN  IF n > 0
         THEN /\ Put([s EXCEPT !.dev.out = SubSeq(@, n + 1, Len(@))])
              /\ host' = [host EXCEPT !.phase = "settle", !.result = s.dev.out[n].cmd, !.base = s.dev.out[n].cmd]
         ELSE Put(DeliverRx(s)) /\ UNCHANGED host
  /\ UNCHANGED <<noKick, guest, snap>>

\* settle(): lets the guest run until it has offered a receive buffer again.
Settle ==
  /\ host.phase = "settle"
  /\ Put(PollTx(Now))
  /\ host' = IF HasOffer(queue[RX]) THEN [host EXCEPT !.phase = "idle"] ELSE host
  /\ UNCHANGED <<noKick, guest, snap>>

\* 10,000 steps went by without a buffer.
SettleGivesUp ==
  /\ host.phase = "settle"
  /\ ~HasOffer(queue[RX])
  /\ host' = [host EXCEPT !.phase = "idle"]
  /\ UNCHANGED <<queue, noKick, buf, dev, guest, snap>>

\* The caller gets an error; what was sent stays sent.
Timeout ==
  /\ host.phase = "exec"
  /\ host' = [host EXCEPT !.phase = "idle", !.late = TRUE]
  /\ UNCHANGED <<queue, noKick, buf, dev, guest, snap>>

-----------------------------------------------------------------------------
Init ==
  /\ queue = [q \in Queues |-> ResetRing]
  /\ noKick = [q \in Queues |-> FALSE]
  /\ buf = [q \in Queues |-> [d \in Desc |-> Empty]]
  /\ dev = NewDevice
  /\ guest = [phase |-> "probe", todo |-> <<>>, step |-> "slot", irq |-> FALSE, work |-> FALSE, awake |-> TRUE,
              connected |-> FALSE, tries |-> 0, inbox |-> <<>>, outbox |-> <<>>]
  /\ host = [phase |-> "boot", cmd |-> 0, result |-> 0, base |-> 0, late |-> FALSE, resets |-> 0]
  /\ snap = [queue |-> queue, buf |-> buf, guest |-> guest]

Next == Guest \/ TakeSnapshot \/ Fork \/ Reset \/ Exec \/ ExecTurn \/ Settle \/ SettleGivesUp \/ Timeout

Spec == Init /\ [][Next]_vars

-----------------------------------------------------------------------------
Chunks == [cmd : Cmds, end : BOOLEAN]
Events == {"DEVICE_READY", "PORT_READY", "PORT_OPEN", "PORT_ADD"}

TypeOK ==
  /\ \A q \in Queues : queue[q] \in Rings
  /\ noKick \in [Queues -> BOOLEAN]
  /\ dev.out \in Seq(Chunks) /\ dev.in \in Seq(Chunks)
  /\ dev.ctrl \in Seq(Events)
  /\ guest.inbox \in Seq(Chunks) /\ guest.outbox \in Seq(Chunks)
  /\ host.cmd \in 0 .. Execs /\ host.result \in 0 .. Execs

\* The chunks on their way, the oldest answer first and the newest input last.
\* The driver writes one chunk at a time; from WriteIndex on it is in the queue.
Unsent ==
  IF guest.todo # <<>> /\ guest.step \in {"slot", "index"} /\ Head(guest.todo).q = TX
  THEN <<Head(guest.todo).what>> ELSE <<>>
InFlight ==
  dev.out \o Contents(TX) \o Unsent \o guest.outbox
    \o guest.inbox \o FlattenSeq([i \in DOMAIN Returned(queue[RX]) |-> buf[RX][Returned(queue[RX])[i]]]) \o dev.in

\* Between the first byte pushed and the last line read nothing is lost, repeated
\* or overtaken: on the way are the lines not yet answered, in order, whatever
\* was cut into buffers, timed out or left over by an earlier command.
StreamIntact ==
  host.phase \notin {"boot", "saved"} =>
    InFlight = FlattenSeq([k \in 1 .. host.cmd - host.base |-> Line(host.base + k)])

\* exec() returns the answer to its own command, unless an earlier command to the
\* same machine timed out and its answer was still to come.
AnswerIsOwn == host.result # 0 /\ ~host.late => host.result = host.cmd

\* A guest that waits for input while there is some has an interrupt coming,
\* although the snapshot keeps no interrupt status.
SleeperIsWoken ==
  guest.phase = "loop" /\ ~guest.awake /\ HasUsed(RX) => dev.intr \/ guest.irq

\* Each queue takes only steps of Fifo, whatever the handlers serve at a time,
\* until the machine is replaced by the snapshot.
Queued(q) == INSTANCE Fifo WITH Buffers <- Desc, offered <- Offered(queue[q]), returned <- Returned(queue[q])
QueuesAreFifos ==
  [][Fork \/ Reset \/ \A q \in Queues : [Queued(q)!Next]_<<Offered(queue[q]), Returned(queue[q])>>]_vars

\* The machine and the exec loop go on; a time-out is never needed.
FairSpec == Spec /\ WF_vars(Guest) /\ WF_vars(ExecTurn) /\ WF_vars(Settle) /\ WF_vars(TakeSnapshot) /\ WF_vars(Fork)

\* A command to a guest that serves the console is answered.
ExecEnds == (host.phase = "exec" /\ guest.phase = "loop") ~> host.phase # "exec"
=============================================================================
