----------------------------- MODULE Provisioning -----------------------------
(***************************************************************************)
(* What the operator promises about the provisioning of one resource, said *)
(* without caches, requests, retries and records: which job works on it,   *)
(* whether it has a virtual machine, and who may let go of it when.        *)
(*                                                                         *)
(* The promise has conditions: the controller finds the record of the last *)
(* job when it starts to work, a cancelled job has stopped, and nobody has *)
(* taken the resource over.  Once one of them fails, nothing is promised.  *)
(*                                                                         *)
(* Module ComputeInstanceHistory shows that ComputeInstance implements it. *)
(***************************************************************************)

VARIABLES
  work,    \* what works on the resource: "none", "provision", "deprovision"
  vm,      \* the virtual machine exists
  stage,   \* "serving", then "leaving", then "clean"
  held,    \* the controller holds the resource: "no", then "yes", then "over"
  sound    \* the conditions of the promise have held so far

vars == <<work, vm, stage, held, sound>>

Init ==
  work = "none" /\ vm = FALSE /\ stage = "serving" /\ held = "no" /\ sound = TRUE

(* The controller takes hold of the resource, or finds it deleted. *)
Hold == held = "no" /\ held' \in {"yes", "over"} /\ UNCHANGED <<work, vm, stage>>

StartProvision ==
  /\ held = "yes" /\ work = "none" /\ stage = "serving"
  /\ work' = "provision"
  /\ UNCHANGED <<vm, stage, held>>

CreateVM == work = "provision" /\ vm' = TRUE /\ UNCHANGED <<work, stage, held>>

(* A job ends, whatever it has got done. *)
End == work # "none" /\ work' = "none" /\ UNCHANGED <<vm, stage, held>>

(* Once this has begun nothing is provisioned any more. *)
StartDeprovision ==
  /\ held = "yes" /\ work = "none" /\ stage = "serving"
  /\ work' = "deprovision" /\ stage' = "leaving"
  /\ UNCHANGED <<vm, held>>

DeprovisionDone ==
  /\ work = "deprovision"
  /\ work' = "none" /\ vm' = FALSE /\ stage' = "clean"
  /\ UNCHANGED held

Release ==
  /\ held = "yes" /\ stage = "clean"
  /\ held' = "over"
  /\ UNCHANGED <<work, vm, stage>>

Promised ==
  \/ Hold \/ StartProvision \/ CreateVM \/ End
  \/ StartDeprovision \/ DeprovisionDone \/ Release

(* A condition fails, now or before. *)
Fail == sound' = FALSE

Next == (sound /\ Promised /\ UNCHANGED sound) \/ Fail

Spec == Init /\ [][Next]_vars

=============================================================================
