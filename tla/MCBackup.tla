------------------------------ MODULE MCBackup ------------------------------
(* Two replicas: the scheduler's jobs over two days with a fault; jobs and  *)
(* "Back up now" with a fault; two restores with a sign-in, a read of the   *)
(* flag and a fault; and a job with a restore in its midst.  A fault is a   *)
(* crash or a throw.                                                        *)
EXTENDS Backup

Jobs(ticks, manual) ==
  [enabled |-> TRUE, ticks |-> ticks, manual |-> manual, restores |-> 0, reads |-> 0, logins |-> 0, faults |-> 1]

Restores(on, restores, aside, faults) ==
  [enabled |-> on, ticks |-> 0, manual |-> 0, restores |-> restores, reads |-> aside, logins |-> aside, faults |-> faults]

MCMixes == {Jobs(2, 0), Jobs(1, 1), Restores(FALSE, 2, 1, 1), Restores(TRUE, 1, 0, 0)}

=============================================================================
