------------------------------- MODULE Lease -------------------------------
(***************************************************************************)
(* What claiming with attempt ids promises, without workers, statuses or    *)
(* SQL: at any time one attempt holds an execution, only the holder can     *)
(* leave a draft result, and what is settled as the result is the draft of  *)
(* the attempt that settles it.                                             *)
(***************************************************************************)
EXTENDS Naturals

CONSTANT Exec

VARIABLES holder,    \* holder[e]: the attempt that holds e, 0 if nobody does
          draft,     \* draft[e]: the attempt whose result is stored, 0 if none
          settled,   \* settled[e]: the attempt whose result was handed on, 0 if none
          fresh      \* attempts up to this one have been issued

leaseVars == <<holder, draft, settled, fresh>>

LeaseInit ==
  /\ holder  = [e \in Exec |-> 0]
  /\ draft   = [e \in Exec |-> 0]
  /\ settled = [e \in Exec |-> 0]
  /\ fresh   = 0

\* A free execution goes to an attempt nobody has held before.
Acquire(e) ==
  /\ holder[e] = 0
  /\ fresh' = fresh + 1
  /\ holder' = [holder EXCEPT ![e] = fresh + 1]
  /\ UNCHANGED <<draft, settled>>

\* The holder stores its result.
Write(e) ==
  /\ holder[e] # 0
  /\ draft' = [draft EXCEPT ![e] = holder[e]]
  /\ UNCHANGED <<holder, settled, fresh>>

\* The holder hands its result on and gives the execution up.
Settle(e) ==
  /\ holder[e] # 0
  /\ draft[e] = holder[e]
  /\ settled' = [settled EXCEPT ![e] = holder[e]]
  /\ holder'  = [holder EXCEPT ![e] = 0]
  /\ UNCHANGED <<draft, fresh>>

\* The execution is given up with nothing to hand on (failed, suspended,
\* taken away), or what was settled is withdrawn because it runs again.
Release(e) ==
  /\ holder'  = [holder EXCEPT ![e] = 0]
  /\ settled' = [settled EXCEPT ![e] = 0]
  /\ UNCHANGED <<draft, fresh>>

LeaseNext == \E e \in Exec : Acquire(e) \/ Write(e) \/ Settle(e) \/ Release(e)

LeaseSpec == LeaseInit /\ [][LeaseNext]_leaseVars
=============================================================================
