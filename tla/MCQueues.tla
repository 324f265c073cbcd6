------------------------------ MODULE MCQueues ------------------------------
(* The two job queues that processes drain from listings of their own: the  *)
(* agent team's and managed hosting's.  A behaviour is the agent team's, or *)
(* hosting's: with two sweeps that overlap, beside a kill-switch call, or   *)
(* with sweeps one at a time, beside that call and a meter tick.            *)
EXTENDS AgentQueue, TLC

VARIABLES
  part,
  status, killSwitch, ref, services, made, hostingJobs, ops, req, sweep, meter, switch

agentVars == vars
hostingVars == <<status, killSwitch, ref, services, made, hostingJobs, ops, req, sweep,
                 meter, switch>>

(* Calls throw and processes die at any step.                               *)
H == INSTANCE HostingProvisioning WITH
  Requests <- {"request"}, Kinds <- {"provision", "scale", "teardown"},
  Sweeps <- Processors, Meters <- {"meter"}, Switches <- {"switch"}, BackendFails <- TRUE,
  Faults <- TRUE, MaxServices <- 2, jobs <- hostingJobs

MCInit == part \in {"agents", "sweeps", "ticks"} /\ Init /\ H!Init

MCNext ==
  \/ /\ part = "agents"
     /\ Next
     /\ UNCHANGED <<part, hostingVars>>
  \/ /\ part = "sweeps"
     /\ H!Next
     /\ UNCHANGED <<part, agentVars, meter>>
  \/ /\ part = "ticks"
     /\ H!Next
     /\ Cardinality({s \in Processors : sweep'[s].at # "idle"}) <= 1
     /\ UNCHANGED <<part, agentVars>>

MCSpec == MCInit /\ [][MCNext]_<<part, agentVars, hostingVars>>

(* No definition tells one processor, or one sweep, from another.           *)
Symmetry == Permutations(Processors)

-----------------------------------------------------------------------------
(* Both keep the types of their state; above all no hosting job is written  *)
(* with more attempts than the ceiling.                                     *)
TypesOK == TypeOK /\ H!TypeOK
=============================================================================
