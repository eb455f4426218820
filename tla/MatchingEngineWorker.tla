------------------------ MODULE MatchingEngineWorker ------------------------
(***************************************************************************)
(* The order path of me_pipeline: the main thread submits commands through *)
(* the OrderRing, watches the ExecRing for a while, raises the stop flag   *)
(* and joins; the worker thread runs an EngineBook whose sink pushes every *)
(* ExecReport to the ExecRing and ignores a refusal.                       *)
(*                                                                         *)
(* The rings are bounded FIFOs (SpscRing implements BoundedFifo).  Because *)
(* the worker's view of the ExecRing's tail may be stale, its push can be  *)
(* refused for slots that are free already: `unseen' counts the pops it    *)
(* has not seen.  A try_pop that finds nothing is a pass round the loop.   *)
(***************************************************************************)
EXTENDS EngineBook

CONSTANTS
  Scripts,     \* what the main thread may submit: sequences of commands
  OrderCap, ExecCap

Command ==
  [kind : {"new"}, order : Orders]
  \cup [kind : {"cancel"}, order_id : OrderId]
  \cup [kind : {"replace"}, order_id : OrderId, price : PriceTicks, qty : NewQtys]

ASSUME WorkerAssumption ==
  /\ Scripts \subseteq Seq(Command)
  /\ OrderCap \in Nat \ {0} /\ ExecCap \in Nat \ {0}

VARIABLES
  script,      \* what the main thread still has to submit
  main,        \* "submit", "observe", "joining", "done"
  stop,
  orderRing, execRing, unseen,
  worker,      \* "poll", "pop", "run", "exited"
  pending,     \* reports of the engine's last step not yet pushed
  view         \* history: the leaves in the last New or Trade report of each
               \* id that the main thread printed (none at first)

engineVars == vars
mainVars == <<script, main, stop, view>>
ringsVars == <<orderRing, execRing, unseen>>
workerVars == <<worker, pending>>
pipelineVars == <<engineVars, mainVars, ringsVars, workerVars>>

-----------------------------------------------------------------------------
(* The main thread *)

\* A refused push is ignored: the command is lost.
Submit ==
  /\ main = "submit"
  /\ script # <<>>
  /\ orderRing' = IF Len(orderRing) < OrderCap THEN Append(orderRing, Head(script))
                  ELSE orderRing
  /\ script' = Tail(script)
  /\ UNCHANGED <<main, stop, view, execRing, unseen, workerVars, engineVars>>

Submitted ==
  /\ main = "submit"
  /\ script = <<>>
  /\ main' = "observe"
  /\ UNCHANGED <<script, stop, view, ringsVars, workerVars, engineVars>>

ShowReport ==
  /\ main = "observe"
  /\ execRing # <<>>
  /\ execRing' = Tail(execRing)
  /\ unseen' = unseen + 1
  /\ LET er == Head(execRing)
     IN  view' = IF er.exec_type \in {"New", "Trade"}
                   THEN [view EXCEPT ![er.order_id] = {er.leaves_qty}]
                   ELSE view
  /\ UNCHANGED <<script, main, stop, orderRing, workerVars, engineVars>>

\* The five seconds are over, whatever is left in the ring.
RaiseStop ==
  /\ main = "observe"
  /\ stop' = TRUE
  /\ main' = "joining"
  /\ UNCHANGED <<script, view, ringsVars, workerVars, engineVars>>

Join ==
  /\ main = "joining"
  /\ worker = "exited"
  /\ main' = "done"
  /\ UNCHANGED <<script, stop, view, ringsVars, workerVars, engineVars>>

-----------------------------------------------------------------------------
(* The worker thread *)

Exit ==
  /\ worker = "poll"
  /\ stop
  /\ worker' = "exited"
  /\ UNCHANGED <<pending, mainVars, ringsVars, engineVars>>

\* The load of stop is relaxed: it may still return the old FALSE.
Continue ==
  /\ worker = "poll"
  /\ worker' = "pop"
  /\ UNCHANGED <<pending, mainVars, ringsVars, engineVars>>

PopNothing ==
  /\ worker = "pop"
  /\ orderRing = <<>>
  /\ worker' = "poll"
  /\ UNCHANGED <<pending, mainVars, ringsVars, engineVars>>

Dispatch(cmd) ==
  CASE cmd.kind = "new"     -> OnNew(cmd.order)
    [] cmd.kind = "cancel"  -> \/ OnCancel(cmd.order_id)
                               \/ Crash(cmd.order_id)
                               \/ Ignore(cmd.order_id)
    [] cmd.kind = "replace" -> \/ OnReplace(cmd.order_id, cmd.price, cmd.qty)
                               \/ Crash(cmd.order_id)
                               \/ Ignore(cmd.order_id)

PopCommand ==
  /\ worker = "pop"
  /\ orderRing # <<>>
  /\ Dispatch(Head(orderRing))
  /\ orderRing' = Tail(orderRing)
  /\ pending' = out'
  /\ worker' = "run"
  /\ UNCHANGED <<mainVars, execRing, unseen>>

\* Mutant: the ring takes one report more than it has slots.
PushReportLate ==
  /\ pending # <<>>
  /\ unseen' \in 0 .. unseen
  /\ execRing' = IF Len(execRing) + unseen' <= ExecCap THEN Append(execRing, Head(pending))
                 ELSE execRing
  /\ pending' = Tail(pending)
  /\ UNCHANGED <<orderRing, mainVars, worker, engineVars>>

\* (void)exec_ring.try_push(er): kept, or dropped if the ring looks full.
PushReport ==
  /\ pending # <<>>
  /\ unseen' \in 0 .. unseen
  /\ execRing' = IF Len(execRing) + unseen' < ExecCap THEN Append(execRing, Head(pending))
                 ELSE execRing
  /\ pending' = Tail(pending)
  /\ UNCHANGED <<orderRing, mainVars, worker, engineVars>>

EngineStep ==
  /\ worker = "run"
  /\ pending = <<>>
  /\ Handler
  /\ pending' = out'
  /\ UNCHANGED <<worker, mainVars, ringsVars>>

HandlerDone ==
  /\ worker = "run"
  /\ pending = <<>>
  /\ pc = "idle"
  /\ worker' = "poll"
  /\ UNCHANGED <<pending, mainVars, ringsVars, engineVars>>

-----------------------------------------------------------------------------

PipelineInit ==
  /\ Init
  /\ script \in Scripts
  /\ main = "submit" /\ stop = FALSE
  /\ orderRing = <<>> /\ execRing = <<>> /\ unseen = 0
  /\ worker = "poll" /\ pending = <<>>
  /\ view = [id \in OrderId |-> {}]

Main == Submit \/ Submitted \/ ShowReport \/ RaiseStop \/ Join
Worker == Continue \/ PopNothing \/ PopCommand \/ PushReport \/ EngineStep \/ HandlerDone

\* A crash of the engine takes the main thread with it.
PipelineNext == pc # "crashed" /\ (Main \/ Worker \/ Exit)

PipelineSpec == PipelineInit /\ [][PipelineNext]_pipelineVars

\* Both threads run, the five seconds end, and the store to stop is seen in the
\* end although the loop may miss it a while.
FairPipelineSpec ==
  /\ PipelineSpec
  /\ WF_pipelineVars(pc # "crashed" /\ (Submit \/ Submitted \/ Join))
  /\ WF_pipelineVars(pc # "crashed" /\ RaiseStop)
  /\ WF_pipelineVars(pc # "crashed" /\ Worker)
  /\ SF_pipelineVars(pc # "crashed" /\ Exit)

-----------------------------------------------------------------------------
(* Properties *)

\* Types; besides, the rings are never over-full, also when the worker counts
\* slots as taken that are free already, and the worker looks at the stop flag
\* and at the ring only between handlers, with every report pushed or dropped.
PipelineTypeOK ==
  /\ script \in Seq(Command) /\ orderRing \in Seq(Command)
  /\ execRing \in Seq(ExecReport) /\ pending \in Seq(ExecReport)
  /\ main \in {"submit", "observe", "joining", "done"}
  /\ stop <=> main \in {"joining", "done"}
  /\ worker \in {"poll", "pop", "run", "exited"}
  /\ view \in [OrderId -> SUBSET Qty]
  /\ \A id \in OrderId : \A v, w \in view[id] : v = w
  /\ unseen \in Nat
  /\ Len(orderRing) <= OrderCap /\ Len(execRing) + unseen <= ExecCap
  /\ worker # "run" => pc = "idle" /\ pending = <<>>

ReplaceTargets ==
  {id \in OrderId : \E sc \in Scripts : \E i \in DOMAIN sc :
                     sc[i].kind = "replace" /\ sc[i].order_id = id}

\* What the main thread learns is never out of date with what it learned: the
\* reports of an order that nobody replaces arrive in the order they were made,
\* so a trade leaves less than was left before, even when other reports were
\* dropped on the way.  (For scripts in which no replace has a stale index: such a
\* one enters another order again, with its own quantity.)
ViewShrinks ==
  [][\A id \in OrderId \ ReplaceTargets :
       (view[id] # {} /\ view'[id] # view[id]) =>
         \A old \in view[id], new \in view'[id] : new < old]_pipelineVars

\* When the main thread has seen that nothing is left of an order, the engine
\* holds nothing of it, however far the main thread lags behind.
CompletedIsGone ==
  \A id \in OrderId : view[id] = {0} =>
    \A s \in Side, p \in PriceTicks : \A i \in DOMAIN queue[s][p] :
      queue[s][p][i].ord.order_id # id

\* The pipeline shuts down: the worker leaves its loop and is joined, unless the
\* engine crashes.
Terminates == <>(main = "done" \/ pc = "crashed")
=============================================================================
