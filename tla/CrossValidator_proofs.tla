------------------------ MODULE CrossValidator_proofs ------------------------
(***************************************************************************)
(* The cross-validator leaves the feed as it was, for every bound and      *)
(* every size of book, wire, ring and snapshot: it competes for the        *)
(* snapshot server, it may end the process at any send, but every          *)
(* invariant of the feed without it holds of the feed with it.             *)
(***************************************************************************)
EXTENDS CrossValidator, MarketData_proofs

\* Answering the validator is no more to the feed than the begin of a turn.
LEMMA ServingKeepsFeed == ASSUME FeedInv, ServeValidator PROVE FeedInv'
<1>1. /\ [SimNext]_simVars /\ UNCHANGED <<book, seqno>>
      /\ UNCHANGED <<linkVars, subVars, localVars, ringVars, consumerVars, books, missed>>
  BY DEF ServeValidator, BeginTurn, SimNext, simVars
<1>2. SimInv'
  BY <1>1, SimStepKeeps DEF FeedInv
<1>3. UNCHANGED <<wire, reply, subPc, local, lastL2, localTop, lastL1, mdRing, ob,
                  invariantsFail, obSeq>>
  BY <1>1 DEF linkVars, subVars, localVars, ringVars, consumerVars
<1>4. BooksOK' /\ LinksTruthful' /\ ReplyTruthful' /\ LocalOK'
  BY <1>1, <1>3 DEF FeedInv, BooksOK, LinksTruthful, ReplyTruthful, LocalOK
<1>5. missed' = {} => ConsumerOK'
  BY <1>1, <1>3 DEF FeedInv, ConsumerOK
<1> QED BY <1>1, <1>2, <1>4, <1>5 DEF FeedInv

LEMMA PipeFeedKeeps == ASSUME FeedInv, [PipeNext]_pipeVars PROVE FeedInv'
<1>1. CASE ServeValidator
  BY <1>1, ServingKeepsFeed
<1>2. CASE ~ServeValidator
  <2>1. [FeedNext]_feedVars
    BY <1>2 DEF PipeNext, PipeSimulator, ServeSubscriber, PipeSubscriber, PipeConsumer, InProcess,
                Validator, XAsk, XReceive, XTimeout, XWait, XStop, FeedNext, Simulator, pipeVars
  <2> QED BY <2>1, FeedStepKeeps
<1> QED BY <1>1, <1>2

\* With the validator among the threads, too, the subscriber's book and quote
\* and, until a delta is lost, the consumer's book are the simulator's.
THEOREM ValidatorDisturbsNothing ==
  PipeSpec => [](LocalWithinSim /\ QuoteIsSims /\ BookWithinSim /\ HealthyUntilLoss)
<1>1. PipeInit => FeedInv
  BY FeedInitKeeps DEF PipeInit
<1>2. FeedInv /\ [PipeNext]_pipeVars => FeedInv'
  BY PipeFeedKeeps
<1>3. FeedInv => LocalWithinSim /\ QuoteIsSims /\ BookWithinSim /\ HealthyUntilLoss
  BY DEF FeedInv, LocalOK, ConsumerOK, Tracks, LocalWithinSim, QuoteIsSims, BookWithinSim,
         HealthyUntilLoss
<1> QED BY <1>1, <1>2, <1>3, PTL DEF PipeSpec
=============================================================================
