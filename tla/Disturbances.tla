----------------------------- MODULE Disturbances -----------------------------
(***************************************************************************)
(* What may go wrong in an instance, and how often: the failures that every *)
(* controller of the provider has to live with.                             *)
(***************************************************************************)
EXTENDS Naturals

CONSTANTS
  Environment,      \* what the surroundings may do in this instance
  MaxFaults         \* bound on the disturbances counted in faults

VARIABLE faults     \* disturbances so far

\* A disturbance of the given kind, counted.
Fault(kind) ==
  /\ kind \in Environment
  /\ faults < MaxFaults
  /\ faults' = faults + 1

\* What comes back from a call to the API server: an answer, an error from a call
\* that was not executed, or an error (a timeout) from one that was.
Outcomes == {"ok", "error", "lost"}

Outcome(o) ==
  \/ o = "ok" /\ UNCHANGED faults
  \/ o = "error" /\ Fault("apiError")
  \/ o = "lost" /\ Fault("lostReply")

=============================================================================
