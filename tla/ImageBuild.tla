----------------------------- MODULE ImageBuild -----------------------------
(***************************************************************************)
(* How the image comes about: patches, then apply.mjs of the zigbee-ember  *)
(* enhancement, in one step of the Dockerfile; beside it npm's postinstall *)
(* check of zigbee-herdsman.  Upstream may have drifted in any file.  A    *)
(* build may be interrupted; it starts again from upstream's tree, while   *)
(* apply.mjs run by hand starts again on the tree it left.                 *)
(***************************************************************************)
EXTENDS Naturals

CONSTANTS Others,  \* hashed files other than System.mts and ManagerZigbee.mts
          MaxRuns  \* bound: runs of apply.mjs

ASSUME BuildAssumption == MaxRuns \in Nat \ {0} /\ "ManagerZigbeeBridge" \notin Others

VARIABLES upstream,  \* hashed file -> its contents before apply.mjs
          herdsman,  \* the installed zigbee-herdsman
          tree,      \* file -> its contents
          anchors,   \* replacement -> how often its anchor occurs
          applied,   \* history: replacement -> how often it was made
          stage,     \* where apply.mjs is
          runs,      \* runs of apply.mjs so far
          fresh,     \* this run started from upstream's tree
          image      \* the image exists

buildVars == <<upstream, herdsman, tree, anchors, applied, stage, runs, fresh, image>>

Hashed == Others \cup {"System", "ManagerZigbee"}
Edits == {"configKeys", "importConfig", "hasZigbee"}

(* What follows a replacement. *)
After == [configKeys |-> "importConfig", importConfig |-> "hasZigbee", hasZigbee |-> "copyBridge"]

BuildTypeOK ==
  /\ upstream \in [Hashed -> {"pinned", "drifted"}]
  /\ herdsman \in {"pinned", "drifted"}
  /\ tree \in [Hashed \cup {"ManagerZigbeeBridge"} ->
                 {"pinned", "drifted", "edited", "selector", "absent"}]
  /\ anchors \in [Edits -> 0 .. 2]
  /\ applied \in [Edits -> Nat]
  /\ stage \in {"verify", "copyBridge", "copySelector", "done", "failed"} \cup Edits
  /\ runs \in 1 .. MaxRuns
  /\ fresh \in BOOLEAN /\ image \in BOOLEAN

Upstream == [f \in Hashed \cup {"ManagerZigbeeBridge"} |->
               IF f \in Hashed THEN upstream[f] ELSE "absent"]

(* A pinned System.mts has each of its anchors once; config.mts is not     *)
(* hashed and may hold its anchor any number of times.                     *)
BuildInit ==
  /\ upstream \in [Hashed -> {"pinned", "drifted"}]
  /\ herdsman \in {"pinned", "drifted"}
  /\ tree = Upstream
  /\ anchors \in {a \in [Edits -> 0 .. 2] :
                    upstream["System"] = "pinned" => a["importConfig"] = 1 /\ a["hasZigbee"] = 1}
  /\ applied = [e \in Edits |-> 0]
  /\ stage = "verify"
  /\ runs = 1
  /\ fresh = TRUE
  /\ image = FALSE

-----------------------------------------------------------------------------
(* apply.mjs, in its order. *)

\* Mutant: only the file that is edited is verified.
VerifyEdited ==
  /\ stage = "verify"
  /\ stage' = IF tree["System"] = "pinned" THEN "configKeys" ELSE "failed"
  /\ UNCHANGED <<upstream, herdsman, tree, anchors, applied, runs, fresh, image>>

Verify ==
  /\ stage = "verify"
  /\ stage' = IF \A f \in Hashed : tree[f] = "pinned" THEN "configKeys" ELSE "failed"
  /\ UNCHANGED <<upstream, herdsman, tree, anchors, applied, runs, fresh, image>>

\* Mutant: replaces the first anchor there is, without counting them.
ReplaceFirst(e) ==
  /\ stage = e
  /\ stage' = After[e]
  /\ applied' = [applied EXCEPT ![e] = @ + 1]
  /\ anchors' = [anchors EXCEPT ![e] = @ - 1]
  /\ tree' = IF e = "configKeys" THEN tree ELSE [tree EXCEPT !["System"] = "edited"]
  /\ UNCHANGED <<upstream, herdsman, runs, fresh, image>>

(* A replacement wants its anchor exactly once.  The text put in place of  *)
(* the first two still contains their anchors.                             *)
ReplaceExact(e) ==
  /\ stage = e
  /\ IF anchors[e] # 1
       THEN stage' = "failed" /\ UNCHANGED <<tree, anchors, applied>>
       ELSE /\ stage' = After[e]
            /\ applied' = [applied EXCEPT ![e] = @ + 1]
            /\ anchors' = IF e = "hasZigbee" THEN [anchors EXCEPT ![e] = 0] ELSE anchors
            /\ tree' = IF e = "configKeys" THEN tree ELSE [tree EXCEPT !["System"] = "edited"]
  /\ UNCHANGED <<upstream, herdsman, runs, fresh, image>>

(* COPYFILE_EXCL: upstream's manager is kept once. *)
CopyBridge ==
  /\ stage = "copyBridge"
  /\ IF tree["ManagerZigbeeBridge"] # "absent"
       THEN stage' = "failed" /\ UNCHANGED tree
       ELSE /\ stage' = "copySelector"
            /\ tree' = [tree EXCEPT !["ManagerZigbeeBridge"] = tree["ManagerZigbee"]]
  /\ UNCHANGED <<upstream, herdsman, anchors, applied, runs, fresh, image>>

CopySelector ==
  /\ stage = "copySelector"
  /\ stage' = "done"
  /\ tree' = [tree EXCEPT !["ManagerZigbee"] = "selector"]
  /\ UNCHANGED <<upstream, herdsman, anchors, applied, runs, fresh, image>>

-----------------------------------------------------------------------------
(* Around it. *)

Interrupt ==
  /\ stage \notin {"done", "failed"}
  /\ stage' = "failed"
  /\ UNCHANGED <<upstream, herdsman, tree, anchors, applied, runs, fresh, image>>

RunAgainByHand ==
  /\ stage \in {"done", "failed"} /\ ~image /\ runs < MaxRuns
  /\ stage' = "verify" /\ runs' = runs + 1 /\ fresh' = FALSE
  /\ UNCHANGED <<upstream, herdsman, tree, anchors, applied, image>>

CheckHerdsman == herdsman = "pinned"

\* Mutant: a build goes on with the tree a failed one left.
ShipAnyTree ==
  /\ stage = "done" /\ CheckHerdsman
  /\ ~image /\ image' = TRUE
  /\ UNCHANGED <<upstream, herdsman, tree, anchors, applied, stage, runs, fresh>>

(* The image takes the tree of a step that ran through from upstream's     *)
(* files, and the modules of an npm install that its postinstall let pass. *)
Ship ==
  /\ stage = "done" /\ fresh /\ CheckHerdsman
  /\ ~image /\ image' = TRUE
  /\ UNCHANGED <<upstream, herdsman, tree, anchors, applied, stage, runs, fresh>>

BuildNext == \/ Verify \/ (\E e \in Edits : ReplaceExact(e))
             \/ CopyBridge \/ CopySelector
             \/ Interrupt \/ RunAgainByHand \/ Ship

-----------------------------------------------------------------------------
(* Nothing is changed in a tree upstream has drifted from, in any of the   *)
(* hashed files, in any run; and what is kept as the Bridge manager is     *)
(* upstream's and never the selector, which would import itself.           *)
OnlyPinnedIsChanged ==
  /\ (\E e \in Edits : applied[e] > 0) \/ tree["ManagerZigbeeBridge"] # "absent" =>
       \A f \in Hashed : upstream[f] = "pinned"
  /\ tree["ManagerZigbeeBridge"] \in {"absent", "pinned"}

(* An image holds the whole overlay, each replacement made once, over a    *)
(* herdsman the driver was written against: a failed or interrupted build  *)
(* leaves none, and no image is made of a tree patched twice.              *)
ImageIsWhole ==
  image => /\ \A e \in Edits : applied[e] = 1
           /\ tree["ManagerZigbee"] = "selector"
           /\ tree["ManagerZigbeeBridge"] = "pinned"
           /\ herdsman = "pinned"

=============================================================================
