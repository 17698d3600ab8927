--------------------------- MODULE DnlSteadyLoad ----------------------------
(***************************************************************************)
(* The Dead Nonce List under a steady load: the same number of Nonces dies *)
(* in every mark interval, and events run on time.  How long an entry has  *)
(* been in the list when it is evicted is the number of MARKs behind it.   *)
(***************************************************************************)
EXTENDS DeadNonceList

CONSTANT Rate             \* possible numbers of Nonces per mark interval

VARIABLES
  rate,                   \* the load, fixed in a behaviour
  left                    \* Nonces still to be added in this mark interval

steadyVars == <<queue, capacity, counts, markIn, adjustIn, recent, rate, left>>

SteadyAdd ==
  /\ left > 0 /\ markIn > 0 /\ adjustIn > 0
  /\ left' = left - 1
  /\ \E p \in Pair : add(p)
  /\ UNCHANGED rate

SteadyEvent == (mark \/ adjustCapacity) /\ UNCHANGED <<rate, left>>

SteadyTick ==
  /\ left = 0 /\ markIn > 0 /\ adjustIn > 0
  /\ Tick
  /\ left' = rate
  /\ UNCHANGED rate

SteadyInit == Init /\ rate \in Rate /\ left = rate

SteadyNext == SteadyAdd \/ SteadyEvent \/ SteadyTick

\* The load goes on and the event loop runs, so some step is always taken.
SteadySpec == SteadyInit /\ [][SteadyNext]_steadyVars /\ WF_steadyVars(SteadyNext)

----------------------------------------------------------------------------

\* dead-nonce-list.hpp: "The capacity is adjusted so that every Entry is expected
\* to be kept for m_lifetime."  Under a steady load there is a time from which on
\* the entry the next add evicts has all but one of the expected MARKs behind it,
\* unless the capacity has reached its maximum.
EventuallyKeptForLifetime ==
  <>[](Len(queue) >= capacity /\ Head(queue) # MARK /\ capacity < MAX_CAPACITY
         => countMarks(queue) >= EXPECTED_MARK_COUNT - 1)

=============================================================================
