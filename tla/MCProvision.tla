---------------------------- MODULE MCProvision ----------------------------
(***************************************************************************)
(* Provision on small instances: every request there is, with a wait that  *)
(* fits a Duration of three bits and one that does not, or calls that      *)
(* compete for a name with everything a create can do.                     *)
(***************************************************************************)
EXTENDS Provision, TLC

EveryRequest ==
  {r \in [tool : {"create", "clone"}, name : Names, source : Names,
            distribution : BOOLEAN, sized : BOOLEAN, key : BOOLEAN, seconds : {1, 5}] :
     \/ r.tool = "create" /\ r.source = r.name
     \/ r.tool = "clone" /\ ~r.distribution /\ ~r.sized /\ ~r.key /\ r.seconds = 1}

AName == CHOOSE n \in Names : TRUE

(* Creates that compete for one name, with CPUs and a key to set so that   *)
(* no command is left out, and clones of that VM to other names.           *)
FullRequests ==
  {r \in EveryRequest :
     /\ r.seconds = 1
     /\ r.source = AName
     /\ r.tool = "create" => r.sized /\ r.key /\ ~r.distribution
     /\ r.tool = "clone" => r.name # AName}

Symmetries == Permutations(Creations) \cup Permutations(VMs)
=============================================================================
