---------------------------- MODULE ContainerBoot ----------------------------
(***************************************************************************)
(* A container of the image (patch 0001).  All persistent state lives in   *)
(* /homey/user, which must be a mounted volume: whatever is written there  *)
(* without one goes into the container's own layer, survives a restart of  *)
(* the container and is gone when the container is replaced.  stdio-log is *)
(* preloaded, then index.mts checks for the directory and starts daemons,  *)
(* which create directories of their own under it.                         *)
(***************************************************************************)
EXTENDS Naturals

CONSTANTS MaxContainers  \* bound: containers created one after the other

ASSUME ContainersAssumption == MaxContainers \in Nat

VARIABLES boot,      \* where the process of the container is
          mounted,   \* a volume is mounted at /homey/user
          logDir,    \* where the log goes: see LogDirs
          inLayer,   \* /homey/user exists in the container's own layer
          saved,     \* where state has been saved: subset of {"volume", "layer"}
          lost,      \* history: state was in a layer that has been removed
          misled,    \* history: an explicit log directory was under /homey/user
          created    \* containers so far

bootVars == <<boot, mounted, logDir, inLayer, saved, lost, misled, created>>

(* The default is under /homey/user; HOMEY_LOG_PATH or HOMEY_LOG_DIR may   *)
(* name a directory there as well, or one elsewhere.                       *)
LogDirs == {"default", "underUser", "elsewhere"}

BootTypeOK ==
  /\ boot \in {"none", "down", "preloaded", "checked", "serving"}
  /\ mounted \in BOOLEAN /\ logDir \in LogDirs
  /\ inLayer \in BOOLEAN
  /\ saved \subseteq {"volume", "layer"}
  /\ lost \in BOOLEAN /\ misled \in BOOLEAN
  /\ created \in 0 .. MaxContainers

BootInit ==
  /\ boot = "none" /\ mounted = FALSE /\ logDir = "default"
  /\ inLayer = FALSE
  /\ saved = {} /\ lost = FALSE /\ misled = FALSE /\ created = 0

UserPathExists == mounted \/ inLayer

-----------------------------------------------------------------------------
CreateContainer ==
  /\ boot = "none" /\ created < MaxContainers
  /\ created' = created + 1
  /\ boot' = "down"
  /\ mounted' \in BOOLEAN /\ logDir' \in LogDirs
  /\ misled' = FALSE
  /\ UNCHANGED <<inLayer, saved, lost>>

\* Mutant: the log's directory is made before anything is checked.
MakesAnyLogDir == TRUE

(* stdio-log.mts makes its directory, unless it is the default one and     *)
(* /homey/user is missing.                                                 *)
MakesLogDir == logDir # "default" \/ UserPathExists

Preload ==
  /\ boot = "down"
  /\ boot' = "preloaded"
  /\ inLayer' = (inLayer \/ (MakesLogDir /\ logDir # "elsewhere" /\ ~mounted))
  /\ misled' = (misled \/ (logDir = "underUser" /\ ~mounted))
  /\ UNCHANGED <<mounted, logDir, saved, lost, created>>

CheckMount ==
  /\ boot = "preloaded"
  /\ boot' = IF UserPathExists THEN "checked" ELSE "down"
  /\ UNCHANGED <<mounted, logDir, inLayer, saved, lost, misled, created>>

StartDaemons ==
  /\ boot = "checked"
  /\ boot' = "serving"
  /\ inLayer' = (inLayer \/ ~mounted)
  /\ UNCHANGED <<mounted, logDir, saved, lost, misled, created>>

SaveState ==
  /\ boot = "serving"
  /\ saved' = saved \cup {IF mounted THEN "volume" ELSE "layer"}
  /\ UNCHANGED <<boot, mounted, logDir, inLayer, lost, misled, created>>

(* Any process ends; the restart policy starts the container again. *)
Stop ==
  /\ boot \notin {"none", "down"}
  /\ boot' = "down"
  /\ UNCHANGED <<mounted, logDir, inLayer, saved, lost, misled, created>>

ReplaceContainer ==
  /\ boot = "down"
  /\ boot' = "none"
  /\ inLayer' = FALSE
  /\ lost' = (lost \/ ("layer" \in saved /\ ~misled))
  /\ saved' = saved \ {"layer"}
  /\ UNCHANGED <<mounted, logDir, misled, created>>

BootNext == \/ CreateContainer \/ Preload \/ CheckMount \/ StartDaemons
            \/ SaveState \/ Stop \/ ReplaceContainer

-----------------------------------------------------------------------------
(* Replacing a container loses no state: a server without a volume never   *)
(* comes so far as to save any, in no sequence of boots, restarts and      *)
(* replacements, unless someone set a log directory under /homey/user by   *)
(* hand, which creates the directory the check looks for.                  *)
NoStateIsLost == ~lost

=============================================================================
