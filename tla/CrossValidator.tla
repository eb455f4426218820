--------------------------- MODULE CrossValidator ---------------------------
(***************************************************************************)
(* me_pipeline's market-data threads with the cross-validator among them:  *)
(* a second requester at the simulator's snapshot server, and a reader of  *)
(* the consumer's OrderBook that is held back only by its wait for a       *)
(* sequence number.  Its exceptions are caught by nobody, so a send that   *)
(* is refused ends the process, and every thread with it.                  *)
(***************************************************************************)
EXTENDS MarketData

VARIABLES
  xPc, xBroken,        \* xBroken: its REQ socket still awaits an old answer
  xAsked, xReply,      \* its request and the answer to it
  up                   \* the process runs

xVars == <<xPc, xBroken, xAsked, xReply, up>>
pipeVars == <<feedVars, xVars>>

\* last_l2_seq_applied: nothing stores to it.
LastApplied == 0

\* One turn of the simulator answers one request, of whichever requester.
ServeSubscriber ==
  /\ Poll \/ PollAtBound
  /\ request # "none" \/ ~xAsked
  /\ UNCHANGED xVars

ServeValidator ==
  /\ xAsked
  /\ BeginTurn \/ (simPc = "poll" /\ ~(seqno + MaxEdits < MaxSeq) /\ UNCHANGED simVars)
  /\ xReply' = Answer("L2") /\ xAsked' = FALSE
  /\ UNCHANGED <<linkVars, subVars, localVars, ringVars, consumerVars, stop, books, missed,
                 xPc, xBroken, up>>

\* send on the REQ socket: encode_snap_req and the first half of the loop.
XAsk ==
  /\ up /\ xPc = "ask"
  /\ IF xBroken THEN up' = FALSE /\ UNCHANGED <<xPc, xAsked, xReply>>
     ELSE xPc' = "recv" /\ xAsked' = TRUE /\ xReply' = NoReply /\ UNCHANGED up
  /\ UNCHANGED <<feedVars, xBroken>>

XReceive ==
  /\ up /\ xPc = "recv" /\ xReply # NoReply
  /\ xPc' = "wait"
  /\ UNCHANGED <<feedVars, xBroken, xAsked, xReply, up>>

\* Mutant: the receive never gives up without an answer.
XNeverTimesOut == FALSE

XMayTimeOut == SimStalls \/ simPc = "dead"

XTimeout ==
  /\ up /\ xPc = "recv" /\ xReply = NoReply
  /\ XMayTimeOut
  /\ xPc' = "ask" /\ xBroken' = TRUE
  /\ UNCHANGED <<feedVars, xAsked, xReply, up>>

\* The wait, and once it is over the comparison and the pause.
Reads == LastApplied >= xReply.seq
XWait ==
  /\ up /\ xPc = "wait"
  /\ xPc' = IF Reads THEN "ask" ELSE "wait"
  /\ UNCHANGED <<feedVars, xBroken, xAsked, xReply, up>>

XStop ==
  /\ up /\ xPc \in {"ask", "wait"} /\ stop
  /\ xPc' = "done"
  /\ UNCHANGED <<feedVars, xBroken, xAsked, xReply, up>>

PipeInit ==
  /\ FeedInit
  /\ xPc = "ask" /\ xBroken = FALSE /\ xAsked = FALSE /\ xReply = NoReply
  /\ up = TRUE

InProcess(A) == up /\ A /\ UNCHANGED xVars

PipeSimulator == ServeSubscriber \/ ServeValidator \/ (SimStep /\ UNCHANGED xVars)
PipeSubscriber == InProcess(Subscriber)
PipeConsumer == InProcess(Consume)
Validator == XAsk \/ XReceive \/ XTimeout \/ XWait

PipeNext ==
  \/ PipeSimulator \/ (SimDies /\ UNCHANGED xVars)
  \/ PipeSubscriber \/ PipeConsumer \/ Validator \/ XStop
  \/ InProcess(StopSub) \/ InProcess(StopConsumer) \/ InProcess(RaiseStop)

PipeSpec == PipeInit /\ [][PipeNext]_pipeVars

\* Every thread runs; a loop that is told to stop sees it in the end, the
\* subscriber's even if it gets round only now and then.
FairPipeSpec ==
  /\ PipeSpec
  /\ WF_pipeVars(PipeSimulator) /\ WF_pipeVars(PipeSubscriber)
  /\ WF_pipeVars(PipeConsumer) /\ WF_pipeVars(Validator)
  /\ WF_pipeVars(XStop) /\ WF_pipeVars(InProcess(StopConsumer))
  /\ SF_pipeVars(InProcess(StopSub))

-----------------------------------------------------------------------------
(* Properties *)

\* When nothing is lost, the subscriber reaches every sequence number the
\* simulator gives out, although the validator's requests compete with its own
\* and the simulator may be killed in between, unless it is told to stop first,
\* its constructor gave up, or the validator has ended the process.
CatchesUp ==
  \A n \in 2 * Seeded .. MaxSeq - 1 :
    (seqno = n) ~> (lastL2 >= n \/ stop \/ subPc = "dead" \/ ~up)

\* After the stop every thread of the process leaves its loop: out of a snapshot
\* that nobody will answer, and out of a wait that would not end.
ShutsDown ==
  stop ~> (~up \/ (subPc \in {"done", "dead"} /\ consumerPc = "done" /\ xPc = "done"))

\* The validator waits until the consumer has applied the number of the snapshot,
\* and no longer.
WaitEnds ==
  (up /\ xPc = "wait" /\ obSeq >= xReply.seq) ~> (xPc # "wait" \/ ~up)
=============================================================================
