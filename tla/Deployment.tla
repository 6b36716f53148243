----------------------------- MODULE Deployment -----------------------------
(***************************************************************************)
(* From upstream's files to a running server: an image is built, then      *)
(* containers of it come and go, and a server that runs asks for its       *)
(* memory.                                                                 *)
(***************************************************************************)
EXTENDS ImageBuild, ContainerBoot, CgroupMemory

vars == <<buildVars, bootVars, memoryVars>>

TypeOK == BuildTypeOK /\ BootTypeOK

Init == BuildInit /\ BootInit /\ MemoryInit

(* Memory does not depend on what became of earlier containers: it is      *)
(* asked for in the first one, once, before anything else happens in it.   *)
AsksForMemory == /\ boot = "serving" /\ mounted /\ created = 1 /\ saved = {}
                 /\ cgroup = FirstCgroup

Next == \/ ~image /\ BuildNext /\ UNCHANGED <<bootVars, memoryVars>>
        \/ image /\ BootNext /\ ForgetMemory /\ UNCHANGED buildVars
        \/ AsksForMemory /\ GetMemoryInfo /\ UNCHANGED <<buildVars, bootVars>>

Spec == Init /\ [][Next]_vars
=============================================================================
