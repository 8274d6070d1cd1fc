--------------------------- MODULE OperationLease ---------------------------
(***************************************************************************)
(* What the operation registry promises, without saying how: an operation  *)
(* id is a lease.  A call obtains the id while nobody holds it, or is      *)
(* turned away, and gives it back once.  Nobody takes it from the holder.  *)
(***************************************************************************)
CONSTANTS Ids,     \* operation ids chosen by the renderer
          Calls,   \* invocations of a cancellable command
          Nobody   \* the id is free

VARIABLES holder,  \* [Ids -> Calls \cup {Nobody}]
          stage    \* [Calls -> {"new", "holding", "done"}]

leaseVars == <<holder, stage>>

LeaseInit ==
  /\ holder = [i \in Ids |-> Nobody]
  /\ stage = [c \in Calls |-> "new"]

Acquire(c, i) ==
  /\ stage[c] = "new"
  /\ holder[i] = Nobody
  /\ holder' = [holder EXCEPT ![i] = c]
  /\ stage' = [stage EXCEPT ![c] = "holding"]

TurnedAway(c) ==
  /\ stage[c] = "new"
  /\ stage' = [stage EXCEPT ![c] = "done"]
  /\ UNCHANGED holder

Release(c, i) ==
  /\ stage[c] = "holding"
  /\ holder[i] = c
  /\ holder' = [holder EXCEPT ![i] = Nobody]
  /\ stage' = [stage EXCEPT ![c] = "done"]

LeaseNext ==
  \E c \in Calls : \/ TurnedAway(c)
                   \/ \E i \in Ids : Acquire(c, i) \/ Release(c, i)

LeaseSpec == LeaseInit /\ [][LeaseNext]_leaseVars
=============================================================================
