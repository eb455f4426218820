----------------------------- MODULE BoundedFifo -----------------------------
(***************************************************************************)
(* What the pipeline expects of a ring: a queue of at most Capacity items, *)
(* handed over in the order they were pushed, none lost, none twice.  An   *)
(* attempt that is refused (try_push on a full ring, try_pop on an empty   *)
(* one) changes nothing.                                                   *)
(***************************************************************************)
EXTENDS Naturals, Sequences

CONSTANTS Item, Capacity, NoItem

VARIABLES
  items,   \* in the ring, oldest first
  got      \* what the last try_pop that succeeded handed over

fifoVars == <<items, got>>

FifoInit == items = <<>> /\ got = NoItem

Push(v) ==
  /\ Len(items) < Capacity
  /\ items' = Append(items, v)
  /\ UNCHANGED got

Pop ==
  /\ items # <<>>
  /\ items' = Tail(items)
  /\ got' = Head(items)

FifoNext == (\E v \in Item : Push(v)) \/ Pop

FifoSpec == FifoInit /\ [][FifoNext]_fifoVars
=============================================================================
