---------------------------- MODULE EngineSession ----------------------------
(***************************************************************************)
(* A trading session: clients who number their orders 1, 2, 3 ... and see  *)
(* only what the engine publishes.  The engine is EngineBook unchanged;    *)
(* the variables added here are history, computed from the commands that   *)
(* went in and the ExecReports that came out.                              *)
(***************************************************************************)
EXTENDS EngineBook, FiniteSetsExt

CONSTANTS
  Commands,      \* the commands clients may send besides NEW
  EditedPrices,  \* bound: the prices in use in a session with such commands
  MaxAccepted    \* bound on what is accepted under one id before a replace

\* What can be seen of an order from outside.
SeenOrder == [id : OrderId, side : Side, px : PriceTicks, leaves : Qty, limit : BOOLEAN]

ASSUME CommandsAssumption ==
  /\ NoNode \notin SeenOrder
  /\ Commands \subseteq {"cancel", "replace"}
  /\ EditedPrices \subseteq PriceTicks
  /\ MaxAccepted \in Nat

VARIABLES
  commands,   \* those that are sent in this session
  nextId,     \* the number of the next order
  asked,      \* the quantity last requested under each id
  accepted,   \* the quantity published as New under each id
  executed,   \* the quantity published as traded under each id
  canceled    \* ids published as Canceled

history == <<commands, nextId, asked, accepted, executed, canceled>>
sessionVars == <<vars, history>>

ReportsOf(id, type) ==
  {i \in DOMAIN out' : out'[i].order_id = id /\ out'[i].exec_type = type}

Observe ==
  /\ accepted' = [id \in OrderId |->
       accepted[id] + MapThenSumSet(LAMBDA i : out'[i].leaves_qty, ReportsOf(id, "New"))]
  /\ executed' = [id \in OrderId |->
       executed[id] + MapThenSumSet(LAMBDA i : out'[i].last_qty, ReportsOf(id, "Trade"))]
  /\ canceled' = canceled \cup {id \in OrderId : ReportsOf(id, "Canceled") # {}}

SendNew(o) ==
  /\ o.order_id = nextId
  /\ commands = {} \/ o.price \in EditedPrices
  /\ OnNew(o)
  /\ nextId' = nextId + 1
  /\ asked' = [asked EXCEPT ![o.order_id] = o.qty]

SendCancel(id) ==
  /\ "cancel" \in commands
  /\ OnCancel(id) \/ Crash(id)
  /\ UNCHANGED <<nextId, asked>>

SendReplace(id, px, qty) ==
  /\ "replace" \in commands
  /\ \A i \in OrderId : accepted[i] <= MaxAccepted
  /\ \/ OnReplace(id, px, qty) /\ asked' = [asked EXCEPT ![id] = qty]
     \/ Crash(id) /\ UNCHANGED asked
  /\ UNCHANGED nextId

SessionInit ==
  /\ Init
  /\ commands \in SUBSET Commands
  /\ nextId = 1
  /\ asked = [id \in OrderId |-> 0]
  /\ accepted = [id \in OrderId |-> 0]
  /\ executed = [id \in OrderId |-> 0]
  /\ canceled = {}

SessionNext ==
  /\ \/ \E o \in Orders : SendNew(o)
     \/ \E id \in OrderId : \/ SendCancel(id)
                            \/ \E px \in EditedPrices, qty \in NewQtys : SendReplace(id, px, qty)
     \/ Handler /\ UNCHANGED <<nextId, asked>>
  /\ Observe
  /\ UNCHANGED commands

SessionSpec == SessionInit /\ [][SessionNext]_sessionVars

-----------------------------------------------------------------------------
(* Properties *)

NodesOf(id) ==
  UNION {{<<s, p, i>> : i \in {i \in DOMAIN queue[s][p] : queue[s][p][i].ord.order_id = id}} :
           s \in Side, p \in PriceTicks}

Open(id) ==
  MapThenSumSet(LAMBDA at : queue[at[1]][at[2]][at[3]].leaves, NodesOf(id))
  + (IF taker # NoNode /\ taker.ord.order_id = id THEN taker.leaves ELSE 0)

\* Time priority, as the clients can see it: when a fill has just been
\* published, every order left at that price is younger than the maker (or is
\* the maker).
TimePriority ==
  (Len(out) = 2) =>
    LET s == Opposite(taker.ord.side)
    IN  \A i \in DOMAIN queue[s][out[2].last_px] :
          queue[s][out[2].last_px][i].ord.order_id >= out[2].order_id

\* What PriceTimeBook sees of the engine.
Seen(n) == [id |-> n.ord.order_id, side |-> n.ord.side, px |-> n.ord.price,
            leaves |-> n.leaves, limit |-> ~IsMarket(n.ord)]

SeenResting ==
  UNION {{Seen(queue[s][p][i]) : i \in DOMAIN queue[s][p]} : s \in Side, p \in PriceTicks}
SeenActive == IF taker = NoNode THEN NoNode ELSE Seen(taker)
SeenTrade ==
  IF Len(out) # 2 THEN NoNode
  ELSE [taker |-> out[1].order_id, maker |-> out[2].order_id, px |-> out[2].last_px,
        qty |-> out[2].last_qty, left |-> out[2].leaves_qty]

PT == INSTANCE PriceTimeBook WITH
        None <- NoNode, resting <- SeenResting, active <- SeenActive, trade <- SeenTrade

\* on_new by itself is a price-time priority book, whatever mixture of sizes,
\* limit and market orders sweeps its levels: every trade it publishes is with
\* the best and oldest crossing order for all that both have, and nothing else
\* enters, leaves or changes the book.
ImplementsPriceTime ==
  /\ commands = {} => PT!Init
  /\ [][commands = {} => [PT!Next]_(PT!bookVars)]_sessionVars

\* Without replaces the leaves_qty of every Trade report is what its order asked
\* for less all that was published as traded under its id: cancels, even those
\* that take the wrong order out, do not disturb the accounts.
LeavesReported ==
  "replace" \notin commands =>
    \A i \in DOMAIN out :
      out[i].exec_type = "Trade" =>
        out[i].leaves_qty + executed[out[i].order_id] = asked[out[i].order_id]

\* Nothing trades, and nothing rests, that was not published as New first: this
\* survives stale indices, cancels of the wrong order and replaces.
AcceptedCovers == \A id \in OrderId : executed[id] + Open(id) <= accepted[id]

\* Clients get what they asked for: once an order was published as Canceled it
\* trades no more, and at no time more than the NEW or the replace that was last
\* sent under its id requested.
TradesAsRequested ==
  [][\A id \in OrderId :
       executed'[id] > executed[id] =>
         id \notin canceled /\ executed'[id] <= asked[id]]_sessionVars
=============================================================================
