-------------------------- MODULE SupervisedWorker --------------------------
(***************************************************************************)
(* What the boot handshake and the supervisor loop promise: the kernel     *)
(* takes the worker for online only after the worker has booted since the  *)
(* last time it was started, a restart throws that evidence away, and a    *)
(* supervisor that has given up stays so.                                  *)
(***************************************************************************)
VARIABLES phase,   \* the supervisor: "booting" the worker, "online", "halted"
          booted   \* has the worker booted since it was last started?

vars == <<phase, booted>>

Init == phase = "booting" /\ booted = FALSE

WorkerBoots == ~booted /\ booted' = TRUE /\ UNCHANGED phase

Accept  == phase = "booting" /\ booted /\ phase' = "online" /\ UNCHANGED booted

Restart == phase = "online" /\ phase' = "booting" /\ booted' = FALSE

Halt    == phase # "halted" /\ phase' = "halted" /\ UNCHANGED booted

Next == WorkerBoots \/ Accept \/ Restart \/ Halt

Spec == Init /\ [][Next]_vars
=============================================================================
