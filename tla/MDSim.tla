-------------------------------- MODULE MDSim --------------------------------
(***************************************************************************)
(* The market-data simulator: its book of aggregated levels, the sequence  *)
(* number that counts every edit, the L2 delta it publishes for each edit  *)
(* and the L1 message it publishes when the top has changed.               *)
(*                                                                         *)
(* A level is its quantity, 0 for none; order_count is a function of the   *)
(* quantity and is left out.  The mid price is a random walk: an edit may  *)
(* aim at any tick of Aims.  The tick size is 1.                           *)
(***************************************************************************)
EXTENDS Integers, Sequences, FiniteSets

CONSTANTS
  MaxTick,     \* greatest price
  MaxLevelQty, \* greatest quantity of a level
  Mid, Seeded, \* the first book: Seeded levels on each side of Mid
  Aims,        \* ticks that the edits of a turn may aim at
  MaxEdits,    \* edits in one turn of the loop (3 in the program)
  MaxSeq       \* bound on the sequence number

ASSUME SimAssumption ==
  /\ MaxTick \in Nat /\ MaxLevelQty \in Nat \ {0} /\ MaxEdits \in Nat \ {0} /\ MaxSeq \in Nat
  /\ Aims \subseteq 1 .. MaxTick
  /\ Mid \in Nat /\ Seeded \in Nat \ {0} /\ Seeded < Mid /\ Mid + Seeded <= MaxTick

Side == {"Bid", "Ask"}
Tick == 1 .. MaxTick
Level == 0 .. MaxLevelQty
NoPrice == 0

EmptyBook == [s \in Side |-> [p \in Tick |-> 0]]
Levels(b, s) == {p \in Tick : b[s][p] > 0}
AtLeastAsGood(s, p, r) == IF s = "Bid" THEN p >= r ELSE p <= r

\* tob(): the best price of a side, kNoPrice when it is empty.
Best(b, s) ==
  IF Levels(b, s) = {} THEN NoPrice
  ELSE CHOOSE p \in Levels(b, s) : \A r \in Levels(b, s) : AtLeastAsGood(s, p, r)
Top(b) == [s \in Side |-> [px |-> Best(b, s),
                           qty |-> IF Levels(b, s) = {} THEN 0 ELSE b[s][Best(b, s)]]]
NoTop == Top(EmptyBook)

\* top_levels: the best `depth' levels of each side.
TopLevels(b, depth) ==
  [s \in Side |-> [p \in Tick |->
     IF Cardinality({r \in Levels(b, s) : r # p /\ AtLeastAsGood(s, r, p)}) < depth
       THEN b[s][p] ELSE 0]]

Upsert(b, s, p, q) == [b EXCEPT ![s][p] = q]

L2Delta(s, p, q, seq) == [kind |-> "L2", side |-> s, px |-> p, qty |-> q, seq |-> seq]
L1Quote(top, seq)     == [kind |-> "L1", top |-> top, seq |-> seq]

VARIABLES
  book, seqno,
  simPc, edits,   \* place in the loop, edits left in this turn
  lastTop,        \* last_l1
  sent            \* what the last step published

simVars == <<book, seqno, simPc, edits, lastTop, sent>>

\* The book main() builds before its loop: Seeded levels on each side.
SeedBook ==
  [s \in Side |-> [p \in Tick |->
     IF s = "Bid" THEN IF p \in Mid - Seeded .. Mid - 1 THEN 1 ELSE 0
     ELSE IF p \in Mid + 1 .. Mid + Seeded THEN 1 ELSE 0]]

SimInit ==
  /\ book = SeedBook /\ seqno = 2 * Seeded
  /\ simPc = "poll" /\ edits = 0
  /\ lastTop = NoTop
  /\ sent = <<>>

\* One turn of the loop begins; whoever composes the simulator serves a
\* snapshot request in the same step.
BeginTurn ==
  /\ simPc = "poll"
  /\ seqno + MaxEdits < MaxSeq
  /\ edits' \in 1 .. MaxEdits
  /\ simPc' = "edit"
  /\ sent' = <<>>
  /\ UNCHANGED <<book, seqno, lastTop>>

\* Mutant: only bids are clamped.
ClampBidsOnly(s, px) ==
  IF s = "Bid" /\ Best(book, "Ask") # NoPrice /\ px >= Best(book, "Ask") - 1
    THEN Best(book, "Ask") - 1 ELSE px

\* The clamp: a bid is put below the best ask, an ask above the best bid.
Clamp(s, px) ==
  IF s = "Bid"
    THEN IF Best(book, "Ask") # NoPrice /\ px >= Best(book, "Ask") - 1
           THEN Best(book, "Ask") - 1 ELSE px
    ELSE IF Best(book, "Bid") # NoPrice /\ px <= Best(book, "Bid") + 1
           THEN Best(book, "Bid") + 1 ELSE px

\* Mutant: the loop makes one edit too many.
EditsLeftOrNone == edits >= 0

EditsLeft == edits > 0

\* The bound Tick on prices cuts off the edits that would leave it.
Edit(s, aim, qty) ==
  /\ simPc = "edit"
  /\ EditsLeft
  /\ LET px == Clamp(s, aim)
     IN  /\ px \in Tick
         /\ book' = Upsert(book, s, px, qty)
         /\ seqno' = seqno + 1
         /\ sent' = <<L2Delta(s, px, qty, seqno + 1)>>
  /\ edits' = edits - 1
  /\ UNCHANGED <<simPc, lastTop>>

Crossed(b) ==
  /\ Levels(b, "Bid") # {} /\ Levels(b, "Ask") # {}
  /\ Best(b, "Bid") >= Best(b, "Ask")

\* repair_cross_and_emit: an ask is added above the best bid; the asks at or
\* below the bid stay.
Repair ==
  /\ simPc = "edit" /\ edits = 0
  /\ IF Crossed(book)
       THEN LET px == Best(book, "Bid") + 1
                q  == Top(book)["Ask"].qty
            IN  /\ px \in Tick
                /\ book' = Upsert(book, "Ask", px, q)
                /\ seqno' = seqno + 1
                /\ sent' = <<L2Delta("Ask", px, q, seqno + 1)>>
       ELSE sent' = <<>> /\ UNCHANGED <<book, seqno>>
  /\ simPc' = "quote"
  /\ UNCHANGED <<edits, lastTop>>

Quote ==
  /\ simPc = "quote"
  /\ lastTop' = Top(book)
  /\ sent' = IF Top(book) # lastTop THEN <<L1Quote(Top(book), seqno)>> ELSE <<>>
  /\ simPc' = "poll"
  /\ UNCHANGED <<book, seqno, edits>>

\* The process is killed.
Die ==
  /\ simPc # "dead"
  /\ simPc' = "dead"
  /\ sent' = <<>>
  /\ UNCHANGED <<book, seqno, edits, lastTop>>

SimWork == (\E s \in Side, aim \in Aims, q \in Level : Edit(s, aim, q)) \/ Repair \/ Quote

SimNext == BeginTurn \/ SimWork \/ Die

SimSpec == SimInit /\ [][SimNext]_simVars

-----------------------------------------------------------------------------
(* Properties *)

\* Type correctness.
SimTypeOK ==
  /\ book \in [Side -> [Tick -> Level]]
  /\ seqno \in Nat
  /\ simPc \in {"poll", "edit", "quote", "dead"}
  /\ edits \in 0 .. MaxEdits

\* Every bid is below every ask after each single edit, so no subscriber that
\* stops between two deltas sees a crossed book, and the repair, which would not
\* uncross anything, never runs.
SimUncrossed == \A b \in Levels(book, "Bid"), a \in Levels(book, "Ask") : b < a
=============================================================================
