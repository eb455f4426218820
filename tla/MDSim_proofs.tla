----------------------------- MODULE MDSim_proofs -----------------------------
(***************************************************************************)
(* Proofs about the simulator, for every tick range, seeded book, number   *)
(* of edits in a turn and random walk: its types, and that its book is     *)
(* never crossed.                                                          *)
(***************************************************************************)
EXTENDS MDSim, NaturalsInduction, WellFoundedInduction, TLAPS

\* SimUncrossed is inductive together with the types: the clamp keeps an edit
\* off the other side, and the repair finds nothing to do.
SimInv == SimTypeOK /\ SimUncrossed

-----------------------------------------------------------------------------
(* The best price of a side *)

\* A set of ticks that is not empty has a least and a greatest element.
LEMMA TicksHaveExtremes ==
  ASSUME NEW T \in SUBSET Tick, T # {}
  PROVE  /\ \E p \in T : \A r \in T : p <= r
         /\ \E p \in T : \A r \in T : p >= r
<1>1. T \subseteq Nat /\ MaxTick \in Nat /\ \A p \in T : MaxTick - p \in Nat
  BY SimAssumption DEF Tick
<1>2. ASSUME NEW U, U \subseteq Nat, U # {}
      PROVE  \E p \in U : \A r \in U : p <= r
  <2>1. PICK p \in U : \A r \in U : <<r, p>> \notin OpToRel(<, Nat)
    BY <1>2, NatLessThanWellFounded, WFMin
  <2>2. \A r \in U : ~(r < p)
    BY <2>1, <1>2 DEF OpToRel
  <2> QED BY <2>2, <1>2
<1>3. \E p \in T : \A r \in T : p >= r
  <2> DEFINE U == {MaxTick - p : p \in T}
  <2>1. U \subseteq Nat /\ U # {}
    BY <1>1
  <2>2. PICK u \in U : \A v \in U : u <= v
    <3> HIDE DEF U
    <3> QED BY <2>1, <1>2
  <2>3. PICK p \in T : u = MaxTick - p
    OBVIOUS
  <2>4. ASSUME NEW r \in T PROVE p >= r
    <3>1. u <= MaxTick - r
      BY <2>2
    <3> QED BY <3>1, <2>3, <1>1
  <2> QED BY <2>4
<1> QED BY <1>1, <1>2, <1>3

\* tob(): the price at begin() of a side that is not empty is its best.
LEMMA BestIsBest ==
  ASSUME NEW b, NEW s \in Side, Levels(b, s) # {}
  PROVE  /\ Best(b, s) \in Levels(b, s)
         /\ \A r \in Levels(b, s) : AtLeastAsGood(s, Best(b, s), r)
<1>1. Levels(b, s) \in SUBSET Tick
  BY DEF Levels
<1>2. \E p \in Levels(b, s) : \A r \in Levels(b, s) : AtLeastAsGood(s, p, r)
  BY <1>1, TicksHaveExtremes DEF AtLeastAsGood
<1> QED BY <1>2 DEF Best

\* tob() says kNoPrice of an empty side only.
LEMMA NoBest ==
  ASSUME NEW b, NEW s \in Side, Best(b, s) = NoPrice
  PROVE  Levels(b, s) = {}
BY BestIsBest, SimAssumption DEF NoPrice, Levels, Tick

\* A price that was clamped crosses nothing on the other side.
LEMMA ClampClears ==
  ASSUME NEW s \in Side, NEW aim \in Aims
  PROVE  /\ s = "Bid" => \A a \in Levels(book, "Ask") : Clamp(s, aim) < a
         /\ s = "Ask" => \A b \in Levels(book, "Bid") : b < Clamp(s, aim)
<1>1. aim \in Int /\ \A t \in Side : Levels(book, t) \subseteq Int
  BY SimAssumption DEF Tick, Levels
<1>2. CASE s = "Bid"
  <2>1. SUFFICES ASSUME NEW a \in Levels(book, "Ask") PROVE Clamp(s, aim) < a
    BY <1>2
  <2>2. /\ Best(book, "Ask") # NoPrice /\ Best(book, "Ask") \in Int
        /\ Best(book, "Ask") <= a /\ a \in Int
    BY <1>1, BestIsBest, NoBest DEF Side, AtLeastAsGood
  <2> QED BY <1>1, <1>2, <2>2 DEF Clamp
<1>3. CASE s = "Ask"
  <2>1. SUFFICES ASSUME NEW b \in Levels(book, "Bid") PROVE b < Clamp(s, aim)
    BY <1>3
  <2>2. /\ Best(book, "Bid") # NoPrice /\ Best(book, "Bid") \in Int
        /\ Best(book, "Bid") >= b /\ b \in Int
    BY <1>1, BestIsBest, NoBest DEF Side, AtLeastAsGood
  <2> QED BY <1>1, <1>3, <2>2 DEF Clamp
<1> QED BY <1>2, <1>3 DEF Side

-----------------------------------------------------------------------------
(* The steps *)

\* upsert_level at a clamped price.
LEMMA EditKeeps ==
  ASSUME SimInv, NEW s \in Side, NEW aim \in Aims, NEW q \in Level, Edit(s, aim, q)
  PROVE  SimInv'
<1> DEFINE px == Clamp(s, aim)
<1>1. /\ px \in Tick /\ book \in [Side -> [Tick -> Level]]
      /\ book' = [book EXCEPT ![s][px] = q]
  BY DEF Edit, Upsert, SimInv, SimTypeOK
<1>2. SimTypeOK'
  <2>1. book' \in [Side -> [Tick -> Level]]
    <3> HIDE DEF px
    <3> QED BY <1>1
  <2>2. seqno' \in Nat /\ edits' \in 0 .. MaxEdits /\ simPc' = simPc
    BY SimAssumption DEF Edit, EditsLeft, SimInv, SimTypeOK
  <2> QED BY <2>1, <2>2 DEF SimInv, SimTypeOK
<1>3. \A t \in Side : \A p \in Levels(book', t) : p \in Levels(book, t) \/ (t = s /\ p = px)
  <2> HIDE DEF px
  <2> QED BY <1>1 DEF Levels
<1>4. SimUncrossed'
  <2>1. /\ \A b \in Levels(book, "Bid"), a \in Levels(book, "Ask") : b < a
        /\ s = "Bid" => \A a \in Levels(book, "Ask") : px < a
        /\ s = "Ask" => \A b \in Levels(book, "Bid") : b < px
    BY ClampClears DEF SimInv, SimUncrossed
  <2> HIDE DEF px
  <2> QED BY <1>3, <2>1 DEF SimUncrossed, Side
<1> QED BY <1>2, <1>4 DEF SimInv

\* tob() of an uncrossed book is not crossed.
LEMMA UncrossedNotCrossed == ASSUME SimInv PROVE ~Crossed(book)
<1> SUFFICES ASSUME Crossed(book) PROVE FALSE
  OBVIOUS
<1>1. /\ Best(book, "Bid") \in Levels(book, "Bid") /\ Best(book, "Ask") \in Levels(book, "Ask")
      /\ Best(book, "Bid") >= Best(book, "Ask")
  BY BestIsBest DEF Crossed, Side
<1>2. Best(book, "Bid") < Best(book, "Ask")
  BY <1>1 DEF SimInv, SimUncrossed
<1>3. Best(book, "Bid") \in Int /\ Best(book, "Ask") \in Int
  BY <1>1 DEF Levels, Tick
<1> QED BY <1>1, <1>2, <1>3

\* repair_cross_and_emit leaves an uncrossed book alone.
LEMMA RepairIdle == ASSUME SimInv, Repair PROVE SimInv'
<1>1. book' = book /\ seqno' = seqno /\ edits' = edits /\ simPc' = "quote"
  BY UncrossedNotCrossed DEF Repair
<1> QED BY <1>1 DEF SimInv, SimTypeOK, SimUncrossed

LEMMA SimStepKeeps == ASSUME SimInv, [SimNext]_simVars PROVE SimInv'
<1>1. CASE BeginTurn
  <2>1. /\ book' = book /\ seqno' = seqno /\ simPc' = "edit"
        /\ edits' \in 0 .. MaxEdits
    BY <1>1, SimAssumption DEF BeginTurn
  <2> QED BY <2>1 DEF SimInv, SimTypeOK, SimUncrossed
<1>2. ASSUME NEW s \in Side, NEW aim \in Aims, NEW q \in Level, Edit(s, aim, q)
      PROVE  SimInv'
  BY <1>2, EditKeeps
<1>3. CASE Repair
  BY <1>3, RepairIdle
<1>4. CASE Quote
  BY <1>4 DEF Quote, SimInv, SimTypeOK, SimUncrossed
<1>5. CASE Die
  BY <1>5 DEF Die, SimInv, SimTypeOK, SimUncrossed
<1>6. CASE UNCHANGED simVars
  BY <1>6 DEF simVars, SimInv, SimTypeOK, SimUncrossed
<1> QED BY <1>1, <1>2, <1>3, <1>4, <1>5, <1>6 DEF SimNext, SimWork

LEMMA SimInitKeeps == SimInit => SimInv
<1> SUFFICES ASSUME SimInit PROVE SimInv
  OBVIOUS
<1>1. SimTypeOK
  <2>1. book = SeedBook /\ seqno = 2 * Seeded /\ simPc = "poll" /\ edits = 0
    BY DEF SimInit
  <2>2. SeedBook \in [Side -> [Tick -> Level]]
    BY SimAssumption DEF SeedBook, Level
  <2> QED BY <2>1, <2>2, SimAssumption DEF SimTypeOK
<1>2. SimUncrossed
  <2> SUFFICES ASSUME NEW b \in Levels(SeedBook, "Bid"), NEW a \in Levels(SeedBook, "Ask")
               PROVE  b < a
    BY DEF SimInit, SimUncrossed
  <2>1. b \in Mid - Seeded .. Mid - 1 /\ a \in Mid + 1 .. Mid + Seeded
    BY DEF SeedBook, Levels, Side
  <2> QED BY <2>1, SimAssumption
<1> QED BY <1>1, <1>2 DEF SimInv

-----------------------------------------------------------------------------

\* The inductive invariant holds in every reachable state of the simulator.
THEOREM SimInvariance == SimSpec => []SimInv
<1> QED BY SimInitKeeps, SimStepKeeps, PTL DEF SimSpec

\* Type correctness of the simulator's loop; a turn never makes more edits than
\* it drew.
THEOREM SimTypeCorrect == SimSpec => []SimTypeOK
<1>1. SimInv => SimTypeOK
  BY DEF SimInv
<1> QED BY <1>1, SimInvariance, PTL

\* Whatever the random walk aims at, no single delta crosses the book, and so
\* repair_cross_and_emit never has anything to repair.
THEOREM SimNeverCrossed == SimSpec => []SimUncrossed
<1>1. SimInv => SimUncrossed
  BY DEF SimInv
<1> QED BY <1>1, SimInvariance, PTL
=============================================================================
