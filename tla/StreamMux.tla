----------------------------- MODULE StreamMux ------------------------------
(***************************************************************************)
(* Multiplexed byte streams with credit windows over one pipe pair, between *)
(* a guest and its gateway (bookclerk-plugin-sdk/src/mux.rs): both ends run *)
(* this code.  Each end has a reader task, a writer task and the owners of  *)
(* its streams, on several threads; atomics and short critical sections are *)
(* steps.  The two places where a stream publishes something before its own *)
(* bookkeeping follows (poll_write, queue_close) can be preempted there.    *)
(*                                                                         *)
(* A byte has no content and ids are never reused, as next_id hands them    *)
(* out (so that no open is deferred and a generation is its id).  Wake      *)
(* tokens are idempotent: one stands for any number in the control queue.   *)
(***************************************************************************)
EXTENDS Integers, Sequences, FiniteSets, Functions

CONSTANTS
    MuxOpener,      \* [stream -> the end that opens it]
    MuxBytes,       \* [end -> [stream -> bytes its owner wants to write]]
    MuxWindow,      \* INITIAL_WINDOW and MAX_BUFFERED_PER_STREAM
    MuxAggregate,   \* what other streams leave of MAX_AGGREGATE_BUFFERED
    MuxLive,        \* MAX_LIVE_STREAMS
    MuxQueue,       \* WRITER_DATA_QUEUE
    MuxPipe,        \* bound: frames in the pipe before a write blocks
    MuxMaxPreempts  \* bound: preemptions inside poll_write and queue_close

MuxEnds == {"client", "server"}
MuxStreams == DOMAIN MuxOpener

ASSUME MuxAssumption ==
    /\ MuxStreams # {} /\ MuxOpener \in [MuxStreams -> MuxEnds]
    /\ MuxBytes \in [MuxEnds -> [MuxStreams -> Nat]]
    /\ {MuxWindow, MuxAggregate, MuxLive, MuxQueue, MuxPipe} \subseteq Nat \ {0}
    /\ MuxMaxPreempts \in Nat

VARIABLES
    muxAt,       \* [end -> [stream -> the owner's MuxStream and its slot]]
    muxBook,     \* [end -> [stream -> what the writer still has to do for it]]
    muxData,     \* [end -> outbound Data queue]
    muxControl,  \* [end -> control queue: a wake, refused streams]
    muxWriter,   \* [end -> local state of the writer task]
    muxPipe,     \* [end -> frames from that end to the other]
    muxCut,      \* history: <<end, stream>> cut by the aggregate cap
    muxPreempts

muxVars == <<muxAt, muxBook, muxData, muxControl, muxWriter, muxPipe, muxCut, muxPreempts>>

MuxPeer(e) == CHOOSE f \in MuxEnds : f # e

\* `own`: what the owner is doing; left, sent, got: bytes to write, accepted, read.
MuxNoStream == [own |-> "none", left |-> 0, sent |-> 0, got |-> 0, n |-> 0, slot |-> FALSE,
                credit |-> 0, flight |-> 0, buf |-> 0, open |-> FALSE, gone |-> FALSE, eof |-> FALSE]

\* opens, ready: PendingOpen and LocalGen; creditHold, grant, live: CreditHold;
\* hold: CloseHold; want, flag: close_pending and close_flag; creditDone,
\* closeDone: the BookRecord.
MuxNoBook == [opens |-> FALSE, ready |-> TRUE, creditHold |-> FALSE, grant |-> 0, live |-> FALSE,
              queued |-> 0, want |-> FALSE, hold |-> FALSE, flag |-> FALSE,
              creditDone |-> TRUE, closeDone |-> TRUE]

MuxInit ==
    /\ muxAt = [e \in MuxEnds |-> [s \in MuxStreams |-> MuxNoStream]]
    /\ muxBook = [e \in MuxEnds |-> [s \in MuxStreams |-> MuxNoBook]]
    /\ muxData = [e \in MuxEnds |-> <<>>]
    /\ muxControl = [e \in MuxEnds |-> [wake |-> FALSE, refused |-> {}]]
    /\ muxWriter = [e \in MuxEnds |-> [pc |-> "flush", s |-> CHOOSE s \in MuxStreams : TRUE]]
    /\ muxPipe = [e \in MuxEnds |-> <<>>]
    /\ muxCut = {} /\ muxPreempts = 0

MuxRecorded(e, s) == ~(muxBook[e][s].creditDone /\ muxBook[e][s].closeDone)
MuxBuffered(e) == SumFunction([s \in MuxStreams |-> muxAt[e][s].buf])
MuxWake(e) == muxControl' = [muxControl EXCEPT ![e].wake = TRUE]
MuxMayPreempt == muxPreempts < MuxMaxPreempts /\ muxPreempts' = muxPreempts + 1
-----------------------------------------------------------------------------
(* Admission: try_insert, Mux::open *)

\* Live slots, credit holds, close holds and records are each below the cap.
MuxAdmits(e) ==
    /\ Cardinality({s \in MuxStreams : muxAt[e][s].slot}) < MuxLive
    /\ Cardinality({s \in MuxStreams : MuxRecorded(e, s)}) < MuxLive
    /\ Cardinality({s \in MuxStreams : muxBook[e][s].creditHold}) < MuxLive
    /\ Cardinality({s \in MuxStreams : muxBook[e][s].hold}) < MuxLive

MuxInserted(e, s) == [MuxNoStream EXCEPT !.own = "open", !.left = MuxBytes[e][s], !.slot = TRUE,
                                      !.credit = MuxWindow, !.open = TRUE]
MuxRecord(local) == [MuxNoBook EXCEPT !.opens = local, !.ready = ~local, !.creditHold = TRUE,
                                      !.live = TRUE, !.creditDone = FALSE, !.closeDone = FALSE]

MuxOpen(e, s) ==
    /\ muxAt[e][s].own = "none" /\ MuxOpener[s] = e
    /\ IF MuxAdmits(e)
       THEN /\ muxAt' = [muxAt EXCEPT ![e][s] = MuxInserted(e, s)]
            /\ muxBook' = [muxBook EXCEPT ![e][s] = MuxRecord(TRUE)]
            /\ MuxWake(e)
       ELSE /\ muxAt' = [muxAt EXCEPT ![e][s].own = "dropped"]
            /\ UNCHANGED <<muxBook, muxControl>>
    /\ UNCHANGED <<muxData, muxWriter, muxPipe, muxCut, muxPreempts>>
-----------------------------------------------------------------------------
(* The owner of a stream: poll_write, poll_read, poll_shutdown, drop *)

\* The credit is taken and the bytes are counted as in flight.
MuxAccepted(a, n) == [a EXCEPT !.left = @ - n, !.sent = @ + n, !.credit = @ - n, !.flight = @ + n]

\* The frame is queued first; it is accepted afterwards.
MuxWrite(e, s) == \E n \in 1..muxAt[e][s].left :
    /\ muxAt[e][s].own = "open" /\ ~muxAt[e][s].gone /\ ~muxAt[e][s].eof
    /\ n <= muxAt[e][s].credit /\ Len(muxData[e]) < MuxQueue
    /\ muxBook' = [muxBook EXCEPT ![e][s].queued = @ + 1]
    /\ muxData' = [muxData EXCEPT ![e] = Append(@, [s |-> s, n |-> n])]
    /\ \/ /\ muxAt' = [muxAt EXCEPT ![e][s] = MuxAccepted(@, n)]
          /\ UNCHANGED muxPreempts
       \/ /\ MuxMayPreempt
          /\ muxAt' = [muxAt EXCEPT ![e][s] = [@ EXCEPT !.own = "writing", !.n = n]]
    /\ UNCHANGED <<muxControl, muxWriter, muxPipe, muxCut>>

MuxWritten(e, s) ==
    LET a == muxAt[e][s] IN
    /\ a.own = "writing"
    /\ muxAt' = [muxAt EXCEPT ![e][s] = MuxAccepted([a EXCEPT !.own = "open", !.n = 0], a.n)]
    /\ UNCHANGED <<muxBook, muxData, muxControl, muxWriter, muxPipe, muxCut, muxPreempts>>

\* The peer closed: further writes fail and the owner gives up on them.
MuxBroken(e, s) ==
    /\ muxAt[e][s].own = "open" /\ muxAt[e][s].left > 0
    /\ muxAt[e][s].gone \/ muxAt[e][s].eof
    /\ muxAt' = [muxAt EXCEPT ![e][s].left = 0]
    /\ UNCHANGED <<muxBook, muxData, muxControl, muxWriter, muxPipe, muxCut, muxPreempts>>

MuxReading(e, s) == muxAt[e][s].own \in {"open", "shutdown", "closed"}

\* Faulty: bytes are granted again when the stream has read everything.
MuxConsumedTwice(e, s, n) == muxBook' = [muxBook EXCEPT ![e][s].grant =
    @ + IF n = muxAt[e][s].buf THEN MuxWindow ELSE n]

\* note_consumed, grant_window
MuxConsumed(e, s, n) == muxBook' = [muxBook EXCEPT ![e][s].grant = @ + n]

MuxReceive(e, s) ==
    /\ MuxReading(e, s)
    /\ \E n \in 1..muxAt[e][s].buf :
          /\ muxAt' = [muxAt EXCEPT ![e][s] = [muxAt[e][s] EXCEPT !.buf = @ - n, !.got = @ + n]]
          /\ MuxConsumed(e, s, n)
    /\ MuxWake(e)
    /\ UNCHANGED <<muxData, muxWriter, muxPipe, muxCut, muxPreempts>>

MuxEof(e, s) ==
    /\ MuxReading(e, s) /\ muxAt[e][s].buf = 0 /\ ~muxAt[e][s].open /\ ~muxAt[e][s].eof
    /\ muxAt' = [muxAt EXCEPT ![e][s].eof = TRUE]
    /\ UNCHANGED <<muxBook, muxData, muxControl, muxWriter, muxPipe, muxCut, muxPreempts>>

\* queue_close: close_pending is set, then the hold is pushed and the writer woken.
MuxQueueClose(e, s, at) ==
    \/ /\ muxAt' = [muxAt EXCEPT ![e][s] = at]
       /\ muxBook' = [muxBook EXCEPT ![e][s] = [@ EXCEPT !.want = TRUE, !.hold = TRUE, !.live = at.slot]]
       /\ MuxWake(e) /\ UNCHANGED muxPreempts
    \/ /\ MuxMayPreempt
       /\ muxAt' = [muxAt EXCEPT ![e][s] = [at EXCEPT !.own = IF at.slot THEN "closing" ELSE "dropping"]]
       /\ muxBook' = [muxBook EXCEPT ![e][s] = [@ EXCEPT !.want = TRUE, !.live = at.slot]]
       /\ UNCHANGED muxControl

MuxHeld(e, s) ==
    /\ muxAt[e][s].own \in {"closing", "dropping"}
    /\ muxAt' = [muxAt EXCEPT ![e][s].own = IF @ = "closing" THEN "shutdown" ELSE "dropped"]
    /\ muxBook' = [muxBook EXCEPT ![e][s].hold = TRUE]
    /\ MuxWake(e)
    /\ UNCHANGED <<muxData, muxWriter, muxPipe, muxCut, muxPreempts>>

MuxShutdown(e, s) ==
    /\ muxAt[e][s].own = "open" /\ muxAt[e][s].left = 0
    /\ MuxQueueClose(e, s, [muxAt[e][s] EXCEPT !.own = "shutdown"])
    /\ UNCHANGED <<muxData, muxWriter, muxPipe, muxCut>>

\* poll_shutdown is ready: all accepted frames and the Close were written.
MuxShutdownEnds(e, s) ==
    /\ muxAt[e][s].own = "shutdown"
    /\ muxBook[e][s].queued = 0 /\ muxBook[e][s].flag
    /\ muxAt' = [muxAt EXCEPT ![e][s].own = "closed"]
    /\ UNCHANGED <<muxBook, muxData, muxControl, muxWriter, muxPipe, muxCut, muxPreempts>>

\* Unread bytes leave the aggregate, the slot goes, the credit hold may end.
MuxReleased(e, s) == [MuxNoStream EXCEPT !.own = "dropped", !.sent = muxAt[e][s].sent]

\* Faulty: a stream that has queued its Close before is dropped without a wake.
MuxDropQuiet(e, s) ==
    /\ \/ muxAt[e][s].own = "open" /\ MuxQueueClose(e, s, MuxReleased(e, s))
       \/ /\ muxAt[e][s].own \in {"shutdown", "closed"}
          /\ muxAt' = [muxAt EXCEPT ![e][s] = MuxReleased(e, s)]
          /\ muxBook' = [muxBook EXCEPT ![e][s].live = FALSE]
          /\ UNCHANGED <<muxControl, muxPreempts>>
    /\ UNCHANGED <<muxData, muxWriter, muxPipe, muxCut>>

\* Drop queues a Close unless poll_shutdown did, and wakes the writer anyway.
MuxDrop(e, s) ==
    /\ \/ muxAt[e][s].own = "open" /\ MuxQueueClose(e, s, MuxReleased(e, s))
       \/ /\ muxAt[e][s].own \in {"shutdown", "closed"}
          /\ muxAt' = [muxAt EXCEPT ![e][s] = MuxReleased(e, s)]
          /\ muxBook' = [muxBook EXCEPT ![e][s].live = FALSE]
          /\ MuxWake(e) /\ UNCHANGED muxPreempts
    /\ UNCHANGED <<muxData, muxWriter, muxPipe, muxCut>>
-----------------------------------------------------------------------------
(* writer_task *)

MuxRoom(e) == Len(muxPipe[e]) < MuxPipe
MuxSend(e, type, s, n) == muxPipe' = [muxPipe EXCEPT ![e] = Append(@, [t |-> type, s |-> s, n |-> n])]

\* write_one_pending_open
MuxWriteOpen(e, s) ==
    /\ muxWriter[e].pc = "flush" /\ muxBook[e][s].opens /\ MuxRoom(e)
    /\ MuxSend(e, "open", s, 0)
    /\ muxBook' = [muxBook EXCEPT ![e][s] = [@ EXCEPT !.opens = FALSE, !.ready = TRUE]]
    /\ UNCHANGED <<muxAt, muxData, muxControl, muxWriter, muxCut, muxPreempts>>

\* mark_book: a record ends with its two parts.
MuxMark(b) == IF b.creditDone /\ b.closeDone THEN MuxNoBook ELSE b

\* take_credits, finish_emitting_credit: the coalesced credit of a stream; a
\* hold whose stream is gone ends when it has nothing left to grant.
MuxHasCredit(e, s) ==
    LET b == muxBook[e][s] IN b.creditHold /\ b.ready /\ (b.grant > 0 \/ ~b.live)

MuxWriteCredit(e, s) ==
    LET b == muxBook[e][s] IN
    /\ muxWriter[e].pc = "flush" /\ MuxHasCredit(e, s)
    /\ IF b.grant > 0 THEN MuxRoom(e) /\ MuxSend(e, "window", s, b.grant) ELSE UNCHANGED muxPipe
    /\ muxBook' = [muxBook EXCEPT ![e][s] = MuxMark([b EXCEPT !.grant = 0, !.creditHold = b.live,
                                                               !.creditDone = ~b.live])]
    /\ UNCHANGED <<muxAt, muxData, muxControl, muxWriter, muxCut, muxPreempts>>

\* Faulty: the Close does not wait for the frames accepted before it.
MuxCloseReadyAlways(e, s) ==
    LET b == muxBook[e][s] IN b.hold /\ b.ready

\* take_ready_closes: a hold whose Close waits for no frame, or was written.
MuxCloseReady(e, s) ==
    LET b == muxBook[e][s] IN b.hold /\ b.ready /\ (b.want => b.queued = 0)

\* A hold found without close_pending is removed before note_close_written
\* looks for it, so that only the other path sets its flag.
MuxWriteClose(e, s) ==
    LET b == muxBook[e][s] IN
    /\ muxWriter[e].pc = "flush" /\ MuxCloseReady(e, s)
    /\ IF b.want THEN MuxRoom(e) /\ MuxSend(e, "close", s, 0) ELSE UNCHANGED muxPipe
    /\ muxBook' = [muxBook EXCEPT ![e][s] = MuxMark([b EXCEPT !.want = FALSE, !.hold = FALSE,
                                                               !.closeDone = TRUE, !.flag = @ \/ b.want])]
    /\ UNCHANGED <<muxAt, muxData, muxControl, muxWriter, muxCut, muxPreempts>>

\* Nothing to flush: wait for control or data.
MuxFlushed(e) ==
    /\ muxWriter[e].pc = "flush"
    /\ \A s \in MuxStreams :
          ~muxBook[e][s].opens /\ ~MuxHasCredit(e, s) /\ ~MuxCloseReady(e, s)
    /\ muxWriter' = [muxWriter EXCEPT ![e].pc = "select"]
    /\ UNCHANGED <<muxAt, muxBook, muxData, muxControl, muxPipe, muxCut, muxPreempts>>

\* write_out_data: the last accepted frame of a closing stream is followed by
\* its Close.
MuxEmit(e, d) ==
    LET b == muxBook[e][d.s]  last == b.queued = 1 /\ b.want IN
    /\ MuxRoom(e) /\ MuxSend(e, "data", d.s, d.n)
    /\ muxBook' = [muxBook EXCEPT ![e][d.s] = [b EXCEPT !.queued = @ - 1, !.want = @ /\ ~last]]
    /\ muxWriter' = [muxWriter EXCEPT ![e] = [pc |-> IF last THEN "close" ELSE "flush", s |-> d.s]]

\* Control before data.  A frame stays queued until it is written, where the
\* code holds one more.
MuxSelect(e) ==
    /\ muxWriter[e].pc = "select"
    /\ \/ /\ muxControl[e].wake
          /\ muxControl' = [muxControl EXCEPT ![e].wake = FALSE]
          /\ muxWriter' = [muxWriter EXCEPT ![e].pc = "flush"]
          /\ UNCHANGED <<muxBook, muxData, muxPipe>>
       \/ /\ \E s \in muxControl[e].refused :
                /\ MuxRoom(e) /\ MuxSend(e, "close", s, 0)
                /\ muxControl' = [muxControl EXCEPT ![e].refused = @ \ {s}]
          /\ muxWriter' = [muxWriter EXCEPT ![e].pc = "flush"]
          /\ UNCHANGED <<muxBook, muxData>>
       \/ /\ muxControl[e] = [wake |-> FALSE, refused |-> {}] /\ muxData[e] # <<>>
          /\ MuxEmit(e, Head(muxData[e]))
          /\ muxData' = [muxData EXCEPT ![e] = Tail(@)]
          /\ UNCHANGED muxControl
    /\ UNCHANGED <<muxAt, muxCut, muxPreempts>>

\* note_close_written sets the flag of a hold that is in the list by now.
MuxEmitClose(e) ==
    LET s == muxWriter[e].s IN
    /\ muxWriter[e].pc = "close" /\ MuxRoom(e)
    /\ MuxSend(e, "close", s, 0)
    /\ muxBook' = [muxBook EXCEPT ![e][s].flag = @ \/ muxBook[e][s].hold]
    /\ muxWriter' = [muxWriter EXCEPT ![e].pc = "flush"]
    /\ UNCHANGED <<muxAt, muxData, muxControl, muxCut, muxPreempts>>
-----------------------------------------------------------------------------
(* reader_task *)

\* close_peer: inbound delivery ends, the slot stays until the owner drops it.
MuxClosedPeer(e, s) ==
    muxAt' = IF muxAt[e][s].slot THEN [muxAt EXCEPT ![e][s] = [@ EXCEPT !.gone = TRUE, !.open = FALSE]] ELSE muxAt

MuxFits(e, s, n) ==
    muxAt[e][s].buf + n <= MuxWindow /\ MuxBuffered(e) + n <= MuxAggregate

\* grant_send_credit: never more than is in flight.
MuxGranted(a, n) ==
    LET take == IF a.flight < n THEN a.flight ELSE n
    IN  [a EXCEPT !.flight = @ - take,
                  !.credit = IF @ + take < MuxWindow THEN @ + take ELSE MuxWindow]

MuxRead(e) ==
    LET p == MuxPeer(e) f == Head(muxPipe[p]) s == f.s a == muxAt[e][s] IN
    /\ muxPipe[p] # <<>>
    /\ muxPipe' = [muxPipe EXCEPT ![p] = Tail(@)]
    /\ \/ /\ f.t = "open" /\ MuxAdmits(e)
          /\ muxAt' = [muxAt EXCEPT ![e][s] = MuxInserted(e, s)]
          /\ muxBook' = [muxBook EXCEPT ![e][s] = MuxRecord(FALSE)]
          /\ UNCHANGED <<muxControl, muxCut>>
       \/ /\ f.t = "open" /\ ~MuxAdmits(e)
          /\ muxControl' = [muxControl EXCEPT ![e].refused = @ \cup {s}]
          /\ UNCHANGED <<muxAt, muxBook, muxCut>>
       \/ /\ f.t = "data" /\ a.slot /\ a.open /\ MuxFits(e, s, f.n)
          /\ muxAt' = [muxAt EXCEPT ![e][s].buf = @ + f.n]
          /\ UNCHANGED <<muxBook, muxControl, muxCut>>
       \/ /\ f.t = "data" /\ ~(a.slot /\ a.open /\ MuxFits(e, s, f.n))
          /\ MuxClosedPeer(e, s)
          /\ muxCut' = IF a.slot /\ a.open THEN muxCut \cup {<<e, s>>} ELSE muxCut
          /\ UNCHANGED <<muxBook, muxControl>>
       \/ /\ f.t = "close"
          /\ MuxClosedPeer(e, s)
          /\ UNCHANGED <<muxBook, muxControl, muxCut>>
       \/ /\ f.t = "window"
          /\ muxAt' = IF a.slot THEN [muxAt EXCEPT ![e][s] = MuxGranted(a, f.n)] ELSE muxAt
          /\ UNCHANGED <<muxBook, muxControl, muxCut>>
    /\ UNCHANGED <<muxData, muxWriter, muxPreempts>>

MuxWriterStep(e) ==
    \/ MuxFlushed(e) \/ MuxSelect(e) \/ MuxEmitClose(e)
    \/ \E s \in MuxStreams : MuxWriteOpen(e, s) \/ MuxWriteCredit(e, s) \/ MuxWriteClose(e, s)

MuxOwnerStep(e, s) ==
    \/ MuxOpen(e, s) \/ MuxWrite(e, s) \/ MuxWritten(e, s) \/ MuxBroken(e, s) \/ MuxReceive(e, s)
    \/ MuxEof(e, s) \/ MuxShutdown(e, s) \/ MuxHeld(e, s) \/ MuxShutdownEnds(e, s)

\* The owner is done with the stream in both directions.
MuxLeave(e, s) == muxAt[e][s].own = "closed" /\ muxAt[e][s].eof /\ MuxDrop(e, s)

MuxNext == \E e \in MuxEnds :
    \/ MuxWriterStep(e) \/ MuxRead(e)
    \/ \E s \in MuxStreams : MuxOwnerStep(e, s) \/ MuxDrop(e, s)

MuxSpec == MuxInit /\ [][MuxNext]_muxVars

\* Both tasks of an end run, and owners go on: they write what they have, read
\* to the end, shut down and leave.
MuxFairness == \A e \in MuxEnds :
    /\ WF_muxVars(MuxWriterStep(e)) /\ WF_muxVars(MuxRead(e))
    /\ \A s \in MuxStreams : WF_muxVars(MuxOwnerStep(e, s) \/ MuxLeave(e, s))
-----------------------------------------------------------------------------
(* Properties *)

MuxFrameTypes == {"open", "data", "close", "window"}
MuxFrame == [t : MuxFrameTypes, s : MuxStreams, n : Nat]
MuxAtType ==
    [own : {"none", "open", "writing", "closing", "shutdown", "closed", "dropping", "dropped"},
     left : Nat, sent : Nat, got : Nat, n : 0..MuxWindow, slot : BOOLEAN,
     credit : 0..MuxWindow, flight : 0..MuxWindow, buf : 0..MuxWindow,
     open : BOOLEAN, gone : BOOLEAN, eof : BOOLEAN]
MuxBookType ==
    [opens : BOOLEAN, ready : BOOLEAN, creditHold : BOOLEAN, grant : 0..MuxWindow, live : BOOLEAN,
     queued : 0..MuxQueue, want : BOOLEAN, hold : BOOLEAN, flag : BOOLEAN,
     creditDone : BOOLEAN, closeDone : BOOLEAN]

MuxTypeOK ==
    /\ muxAt \in [MuxEnds -> [MuxStreams -> MuxAtType]]
    /\ muxBook \in [MuxEnds -> [MuxStreams -> MuxBookType]]
    /\ muxData \in [MuxEnds -> Seq([s : MuxStreams, n : 1..MuxWindow])]
    /\ \A e \in MuxEnds : Len(muxData[e]) <= MuxQueue
    /\ muxControl \in [MuxEnds -> [wake : BOOLEAN, refused : SUBSET MuxStreams]]
    /\ muxWriter \in [MuxEnds -> [pc : {"flush", "select", "close"}, s : MuxStreams]]
    /\ muxPipe \in [MuxEnds -> Seq(MuxFrame)]
    /\ muxCut \subseteq MuxEnds \X MuxStreams /\ muxPreempts \in 0..MuxMaxPreempts

\* Bytes of stream s in frames of one type.
MuxBytesIn(frames, t, s) ==
    SumFunction([i \in DOMAIN frames |-> IF frames[i].t = t /\ frames[i].s = s THEN frames[i].n ELSE 0])
MuxBytesQueued(e, s) ==
    SumFunction([i \in DOMAIN muxData[e] |-> IF muxData[e][i].s = s THEN muxData[e][i].n ELSE 0])

\* Bytes from e to its peer, wherever they or the credit for them are.
MuxOnWay(e, s) == MuxBytesQueued(e, s) + MuxBytesIn(muxPipe[e], "data", s)
MuxCredits(e, s) ==
    LET p == MuxPeer(e)
    IN  muxAt[e][s].credit + MuxOnWay(e, s)
        + muxAt[p][s].buf + muxBook[p][s].grant + MuxBytesIn(muxPipe[p], "window", s)

\* The window of a stream is a constant: what the sender may still send, what is
\* on its way, what the receiver has not read and what it has not yet granted
\* back add up to INITIAL_WINDOW, so that no credit is lost by coalescing and
\* none is invented.  A preemption in poll_write can only lose some.
MuxCreditConserved ==
    \A e \in MuxEnds, s \in MuxStreams :
        muxAt[e][s].slot /\ muxAt[MuxPeer(e)][s].slot /\ muxAt[MuxPeer(e)][s].open
        => IF muxPreempts = 0 THEN MuxCredits(e, s) = MuxWindow
           ELSE MuxCredits(e, s) <= MuxWindow + muxAt[e][s].n

\* The end of a stream is not a truncation: whoever reads EOF has read every
\* byte that its peer's writes accepted ("`Close` is written only after Data
\* already accepted for that same stream"), unless the aggregate cap cut it.
MuxEofAfterAll ==
    \A e \in MuxEnds, s \in MuxStreams :
        muxAt[e][s].eof /\ <<e, s>> \notin muxCut => muxAt[e][s].got = muxAt[MuxPeer(e)][s].sent

\* Every stream comes to its end and gives its admission back: no write waits
\* for credit that was lost, no shutdown for a flag that nobody sets, and no
\* record keeps a slot of the cap after its stream was dropped - unless a thread
\* was preempted in one of the two windows.
MuxRetires ==
    <>[](muxPreempts = 0 => \A e \in MuxEnds, s \in MuxStreams : ~MuxRecorded(e, s) /\ ~muxAt[e][s].slot)

(* The inductive invariant: what holds of each stream at each end *)

MuxEnded == {"closing", "shutdown", "closed", "dropping", "dropped"}
MuxFramesQueued(e, s) == SumFunction([i \in DOMAIN muxData[e] |-> IF muxData[e][i].s = s THEN 1 ELSE 0])

\* What a pipe holds of a stream, and in which order.
MuxHas(e, t, s) == \E i \in DOMAIN muxPipe[e] : muxPipe[e][i].t = t /\ muxPipe[e][i].s = s
MuxSilent(e, s) == \A t \in MuxFrameTypes : ~MuxHas(e, t, s)
MuxOpenFirst(e, s) == \A i, k \in DOMAIN muxPipe[e] :
    muxPipe[e][k].t = "open" /\ muxPipe[e][k].s = s /\ muxPipe[e][i].s = s => k <= i
MuxCloseLast(e, s) == \A i, k \in DOMAIN muxPipe[e] :
    muxPipe[e][k].t = "data" /\ muxPipe[e][i].t = "close" /\ muxPipe[e][k].s = s /\ muxPipe[e][i].s = s => k < i

\* The peer has not yet seen the Open of a stream.
MuxComing(s) == muxBook[MuxOpener[s]][s].opens \/ MuxHas(MuxOpener[s], "open", s)
\* An end takes the bytes of a stream, or will when it reads the Open.
MuxAccepts(e, s) == \/ muxAt[e][s].slot /\ muxAt[e][s].open
                    \/ MuxComing(s) /\ MuxOpener[s] # e

\* A slot goes with its owner, a live credit hold and the whole window; what has
\* no slot keeps only the number of bytes it sent.
MuxSlot(e, s) ==
    LET a == muxAt[e][s]  b == muxBook[e][s] IN
    /\ a.slot <=> a.own \in {"open", "writing", "closing", "shutdown", "closed"}
    /\ a.slot => a.credit + a.flight = MuxWindow /\ b.live /\ ~b.creditDone
    /\ b.creditDone => b.grant = 0
    /\ ~a.slot => /\ a.left = 0 /\ a.got = 0 /\ a.credit = 0 /\ a.flight = 0 /\ a.buf = 0
                  /\ ~a.open /\ ~a.gone
    /\ IF a.own = "writing" THEN a.n <= a.credit /\ a.n <= a.left /\ muxPreempts > 0 ELSE a.n = 0
    /\ a.eof => a.slot /\ ~a.open /\ a.buf = 0

\* A stream that ends queues no more frames, the Close is owed until the last
\* one, and no data follows a Close.
MuxClosing(e, s) ==
    LET a == muxAt[e][s]  b == muxBook[e][s] IN
    /\ b.queued = MuxFramesQueued(e, s)
    /\ b.want \/ b.hold => a.own \in MuxEnded
    /\ b.closeDone => a.own \in MuxEnded \cup {"none"} /\ ~b.want
    /\ a.own \in MuxEnded /\ ~b.want => b.queued = 0
    /\ muxWriter[e] = [pc |-> "close", s |-> s] => a.own \in MuxEnded /\ ~b.want /\ ~b.opens
    /\ MuxHas(e, "close", s) => a.own \in MuxEnded \cup {"none"} /\ ~b.want
    /\ MuxCloseLast(e, s)

\* A stream that an end has not seen has left no trace there, and its opener has
\* nothing from it.
MuxFresh(e, s) ==
    LET p == MuxPeer(e) IN
    muxAt[e][s].own = "none" =>
        /\ muxAt[e][s].sent = 0 /\ muxBook[e][s] = MuxNoBook
        /\ \A t \in {"open", "data", "window"} : ~MuxHas(e, t, s)
        /\ muxAt[p][s].buf = 0 /\ muxAt[p][s].got = 0 /\ muxBook[p][s].grant = 0
        /\ ~MuxHas(p, "window", s)
        /\ MuxOpener[s] = e => /\ muxAt[p][s].own = "none" /\ s \notin muxControl[p].refused
                               /\ MuxSilent(e, s) /\ MuxSilent(p, s)

\* The Open is the first frame of its stream, and until it is read the peer says
\* nothing.
MuxOpening(s) ==
    LET o == MuxOpener[s]  p == MuxPeer(o) IN
    /\ ~muxBook[p][s].opens /\ ~MuxHas(p, "open", s) /\ s \notin muxControl[o].refused
    /\ muxBook[o][s].opens => /\ ~muxBook[o][s].ready /\ MuxSilent(o, s)
                              /\ muxControl[o].wake \/ muxWriter[o].pc # "select"
    /\ MuxOpenFirst(o, s)
    /\ MuxComing(s) => /\ muxAt[p][s].own = "none" /\ s \notin muxControl[p].refused /\ MuxSilent(p, s)
                       /\ muxAt[o][s].slot => muxAt[o][s].open
    /\ s \in muxControl[p].refused => muxAt[p][s].own = "none"

\* Bytes that were accepted are on their way or delivered while the receiver
\* takes them; after a Close all of them were delivered.
MuxDelivers(e, s) ==
    LET p == MuxPeer(e)  a == muxAt[e][s] IN
    /\ MuxAccepts(e, s) => a.got + a.buf + MuxOnWay(p, s) = muxAt[p][s].sent + muxAt[p][s].n
    /\ a.slot /\ ~a.open /\ <<e, s>> \notin muxCut =>
           /\ a.got + a.buf = muxAt[p][s].sent /\ MuxOnWay(p, s) = 0
           /\ muxAt[p][s].own \in MuxEnded \cup {"none"}

\* Credit is never invented, and lost only by a preemption, a Close or a cut.
MuxCreditKept(e, s) ==
    /\ MuxCredits(e, s) <= MuxWindow + muxAt[e][s].n
    /\ muxPreempts = 0 /\ muxAt[e][s].slot /\ MuxAccepts(MuxPeer(e), s) => MuxCredits(e, s) = MuxWindow

MuxStreamInv(s) ==
    /\ MuxOpening(s)
    /\ \A e \in MuxEnds : /\ MuxSlot(e, s) /\ MuxClosing(e, s) /\ MuxFresh(e, s)
                          /\ MuxDelivers(e, s) /\ MuxCreditKept(e, s)

MuxInv == MuxTypeOK /\ \A s \in MuxStreams : MuxStreamInv(s)
=============================================================================
