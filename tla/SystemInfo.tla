----------------------------- MODULE SystemInfo -----------------------------
(***************************************************************************)
(* The ledger of class systemInfo (Scheduler-host/system.py): how many of  *)
(* the machine's cores the scheduler believes to be in use.  The methods   *)
(* are operators on the value u of cores_used; the scheduler decides under *)
(* which lock, and in how many steps, it applies them.                     *)
(***************************************************************************)
EXTENDS Integers

CONSTANT Cores    \* multiprocessing.cpu_count()

ASSUME CoresAssumption == Cores \in Nat \ {0}

\* Faulty variants (see README, "Mutants").
check_one_more(u) == Cores - u + 1
apply_nothing(u, parallelism) == u

check_resources(u) == Cores - u

\* A request for more than what is free is refused and changes nothing; the
\* callers ignore the Boolean the method returns.  (not_control is FALSE.)
apply_resources(u, parallelism) ==
    IF parallelism > check_resources(u) THEN u ELSE u + parallelism

\* The amount is not validated: a negative one takes cores.
free_resources(u, parallelism) == u - parallelism

\* system_occupation() > 100
over_occupied(u) == u > Cores
=============================================================================
