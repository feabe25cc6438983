------------------------------- MODULE Images --------------------------------
(***************************************************************************)
(* The operator's images: `infra image set` records which image a role     *)
(* uses, `infra image prune` plans the deletion of old ones and            *)
(* `infra image prune --apply` performs the newest plan after observing    *)
(* everything again (operator.py and openstack.py).  Meanwhile images are  *)
(* published and servers come and go; both are outside the operator's      *)
(* lock.  One operation of the infrastructure scope is open at a time and  *)
(* is ended only by its own command.  The images are those of one role,    *)
(* complete, numbered in the order of their publication.                   *)
(***************************************************************************)
EXTENDS Naturals, FiniteSets

CONSTANTS
  MaxImage,        \* images ever published
  FirstImages,     \* those published before
  Retain,          \* retain_newest
  MaxImageOps,     \* bound on the commands that begin an operation
  MaxImageMoves,   \* bound on publications and on servers that come and go
  MaxImageCuts     \* bound on interruptions and failing calls

ASSUME ImageConstants == FirstImages \in 1..MaxImage /\ Retain \in Nat \ {0}

VARIABLES
  iimages,    \* images at the provider
  iused,      \* images of servers
  iraced,     \* images a server took between their last check and deletion
  iselected,  \* images selected in operator state
  iplan,      \* the newest accepted plan
  irow,       \* the newest operation of the scope
  irec,       \* the running apply is a recovery
  ipc, iops, imoves, icuts

imageVars == <<iimages, iused, iraced, iselected, iplan, irow, irec, ipc, iops, imoves, icuts>>
imageCloud == <<iimages, iused, iraced, imoves, irec>>

Image == 1..MaxImage
NoPlan == [images |-> {}, selected |-> {}, used |-> {}, inventory |-> {}, made |-> FALSE]
ImageRow(k, i, p) == [kind |-> k, image |-> i, plan |-> p, phase |-> "validated",
                      state |-> "open", deleted |-> {}, pending |-> 0]
ImageOpen == irow.state = "open"

ImageInit ==
  /\ iimages = 1..FirstImages /\ iused \in {{}, {1}} /\ iraced = {} /\ iselected = {}
  /\ iplan = NoPlan /\ irow = [ImageRow("none", 0, NoPlan) EXCEPT !.state = "none"]
  /\ irec = FALSE /\ ipc = "idle" /\ iops = 0 /\ imoves = 0 /\ icuts = 0

IStep(l, next) == ipc = l /\ ipc' = next
ImageSpend == icuts < MaxImageCuts /\ icuts' = icuts + 1
IPhase(p) == irow' = [irow EXCEPT !.phase = p]
IEnd(l, st) ==
  /\ IStep(l, "idle") /\ irow' = [irow EXCEPT !.state = st]
  /\ UNCHANGED <<imageCloud, iselected, iplan, iops>>
IGo(l, next) == IStep(l, next) /\ UNCHANGED <<imageCloud, iselected, iplan, irow, iops, icuts>>

\* A command begins when no operation of the scope is open.
ImageBegin(row, next) ==
  /\ iops < MaxImageOps /\ iops' = iops + 1 /\ irow' = row /\ ipc' = next

(***************************************************************************)
(* infra image set.                                                        *)
(***************************************************************************)
SetImage(i) ==
  /\ ipc = "idle" /\ ~ImageOpen /\ ImageBegin(ImageRow("set", i, NoPlan), "select")
  /\ UNCHANGED <<imageCloud, iselected, iplan, icuts>>

\* The image must exist, complete and of the role; a failure ends the operation.
select_image ==
  /\ ipc = "select"
  /\ \/ /\ irow.image \in iimages /\ IStep("select", "put") /\ IPhase("selection_observed")
        /\ UNCHANGED <<imageCloud, iselected, iplan, iops, icuts>>
     \/ IEnd("select", "failed") /\ UNCHANGED icuts

\* The role has one selection; a new one replaces it.
put_image_selection ==
  /\ IStep("put", "put_done") /\ iselected' = {irow.image} /\ IPhase("selection_recorded")
  /\ UNCHANGED <<imageCloud, iplan, iops, icuts>>

EndSet == IEnd("put_done", "succeeded") /\ UNCHANGED icuts

RepeatSet ==
  /\ ipc = "idle" /\ ImageOpen /\ irow.kind = "set"
  /\ \/ /\ irow.phase = "validated" /\ ipc' = "select"
        /\ irow' = ImageRow("set", irow.image, NoPlan)
     \/ irow.phase # "validated" /\ ipc' = "put" /\ UNCHANGED irow
  /\ UNCHANGED <<imageCloud, iselected, iplan, iops, icuts>>

(***************************************************************************)
(* infra image prune.                                                      *)
(***************************************************************************)
Newest(S) == {i \in S : Cardinality({j \in S : j > i}) < Retain}

Protected == iselected \cup iused \cup Newest(iimages)
plan_image_prune ==
  [images |-> iimages \ Protected, selected |-> iselected, used |-> iused,
   inventory |-> iimages, made |-> TRUE]

\* The plan is recorded with the operation and accepted when that ends.
PlanPrune ==
  /\ ipc = "idle" /\ ~ImageOpen /\ ImageBegin(ImageRow("plan", 0, plan_image_prune), "plan")
  /\ UNCHANGED <<imageCloud, iselected, iplan, icuts>>
EndPlan ==
  /\ IStep("plan", "idle") /\ iplan' = irow.plan
  /\ irow' = [irow EXCEPT !.state = "succeeded"]
  /\ UNCHANGED <<imageCloud, iselected, iops, icuts>>
RepeatPlan ==
  /\ ipc = "idle" /\ ImageOpen /\ irow.kind = "plan" /\ ipc' = "plan"
  /\ UNCHANGED <<imageCloud, iselected, iplan, irow, iops, icuts>>

ApplyPrune ==
  /\ ipc = "idle" /\ ~ImageOpen /\ iplan.made
  /\ ImageBegin(ImageRow("apply", 0, iplan), "apply") /\ irec' = FALSE
  /\ UNCHANGED <<iimages, iused, iraced, imoves, iselected, iplan, icuts>>

\* The plan would be applied as it was made.
apply_image_prune_stale == ipc = "apply" /\ IGo("apply", "next")

\* The plan may have expired, and everything it was made from must be the same.
apply_image_prune ==
  /\ ipc = "apply"
  /\ \/ plan_image_prune = irow.plan /\ IGo("apply", "next")
     \/ IEnd("apply", "failed") /\ UNCHANGED icuts

(***************************************************************************)
(* Deleting the planned images, in order.                                  *)
(***************************************************************************)
Remaining == irow.plan.images \ irow.deleted

NextImage ==
  /\ ipc = "next"
  /\ \/ /\ Remaining # {} /\ IStep("next", "check")
        /\ irow' = [irow EXCEPT !.phase = "image_deleting",
                      !.pending = CHOOSE i \in Remaining : \A j \in Remaining : i <= j]
        /\ UNCHANGED <<imageCloud, iselected, iplan, iops, icuts>>
     \/ Remaining = {} /\ IGo("next", "prune_done")

\* RecoveryRequired records the phase as ambiguous and any other failure ends
\* the operation; a recovery leaves it open either way.
PruneUnsure(l) ==
  /\ IStep(l, "idle") /\ IF irec THEN UNCHANGED irow ELSE IPhase("ambiguous")
  /\ UNCHANGED <<iused, iraced, imoves, irec, iselected, iplan, iops>>
PruneFails(l) ==
  /\ IStep(l, "idle") /\ irow' = IF irec THEN irow ELSE [irow EXCEPT !.state = "failed"]
  /\ UNCHANGED <<iused, iraced, imoves, irec, iselected, iplan, iops>>

\* The image must not be a server's now, and unchanged.  Drift after the first
\* deletion needs recovery.
CheckUnused ==
  /\ ipc = "check"
  /\ \/ irow.pending \notin iused /\ IGo("check", "delete")
     \/ /\ irow.pending \in iused /\ UNCHANGED <<iimages, icuts>>
        /\ IF irow.deleted = {} THEN PruneFails("check") ELSE PruneUnsure("check")
     \/ PruneFails("check") /\ ImageSpend /\ UNCHANGED iimages

\* Deleted and seen to be gone; or not known, the image deleted or not; or the
\* listing that follows fails, which is no RecoveryRequired.
DeleteImage ==
  /\ ipc = "delete"
  /\ \/ /\ IStep("delete", "next") /\ iimages' = iimages \ {irow.pending}
        /\ irow' = [irow EXCEPT !.phase = "image_deleted",
                      !.deleted = @ \cup {irow.pending}, !.pending = 0]
        /\ UNCHANGED <<iused, iraced, imoves, irec, iselected, iplan, iops, icuts>>
     \/ /\ PruneUnsure("delete") \/ PruneFails("delete")
        /\ ImageSpend /\ iimages' \in {iimages, iimages \ {irow.pending}}

EndPrune == IEnd("prune_done", "succeeded") /\ UNCHANGED icuts

\* What was confirmed, and the pending image if it is gone, count as deleted;
\* everything else must be as it was when the plan was made.
Gone == irow.deleted \cup (IF irow.pending \in {0} \cup iimages THEN {} ELSE {irow.pending})
_reconciled_prune_deletions ==
  /\ iselected = irow.plan.selected /\ iused = irow.plan.used
  /\ iimages = irow.plan.inventory \ Gone

\* An apply that had only been validated is ended and begun anew.
RepeatApply ==
  /\ ipc = "idle" /\ ImageOpen /\ irow.kind = "apply"
  /\ \/ /\ irow.phase = "validated" /\ irow' = ImageRow("apply", 0, iplan)
        /\ ipc' = "apply" /\ irec' = FALSE
     \/ irow.phase # "validated" /\ ipc' = "recover" /\ irec' = TRUE /\ UNCHANGED irow
  /\ UNCHANGED <<iimages, iused, iraced, imoves, iselected, iplan, iops, icuts>>

recover_image_prune ==
  /\ ipc = "recover"
  /\ \/ /\ _reconciled_prune_deletions /\ IStep("recover", "next")
        /\ irow' = [irow EXCEPT !.deleted = Gone]
        /\ UNCHANGED <<imageCloud, iselected, iplan, iops, icuts>>
     \/ ~_reconciled_prune_deletions /\ IGo("recover", "idle")

(***************************************************************************)
(* Others, and interruptions.                                              *)
(***************************************************************************)
PublishImage ==
  /\ imoves < MaxImageMoves /\ imoves' = imoves + 1
  /\ \E i \in Image \ (1..FirstImages) :
       /\ \A j \in iimages : j < i
       /\ i - 1 \in iimages /\ iimages' = iimages \cup {i}
  /\ UNCHANGED <<iused, iraced, irec, iselected, iplan, irow, ipc, iops, icuts>>

\* The controller creates a worker or a builder from an image, or removes the
\* last server of one.
ServerFromImage(i) ==
  /\ i \in iimages \ iused /\ imoves < MaxImageMoves /\ imoves' = imoves + 1
  /\ iused' = iused \cup {i}
  /\ iraced' = IF ipc = "delete" /\ irow.pending = i THEN iraced \cup {i} ELSE iraced
  /\ UNCHANGED <<iimages, irec, iselected, iplan, irow, ipc, iops, icuts>>
ServerGone(i) ==
  /\ i \in iused /\ imoves < MaxImageMoves /\ imoves' = imoves + 1
  /\ iused' = iused \ {i} /\ iraced' = iraced \ {i}
  /\ UNCHANGED <<iimages, irec, iselected, iplan, irow, ipc, iops, icuts>>

ImageCut ==
  /\ ipc # "idle" /\ ImageSpend /\ ipc' = "idle"
  /\ UNCHANGED <<imageCloud, iselected, iplan, irow, iops>>

ImageBody ==
  \/ select_image \/ put_image_selection \/ EndSet \/ EndPlan \/ apply_image_prune
  \/ NextImage \/ CheckUnused \/ DeleteImage \/ EndPrune \/ recover_image_prune
ImageRepeat == RepeatSet \/ RepeatPlan \/ RepeatApply
ImageNext ==
  \/ \E i \in Image : SetImage(i) \/ ServerFromImage(i) \/ ServerGone(i)
  \/ PlanPrune \/ ApplyPrune \/ PublishImage
  \/ ImageBody \/ ImageRepeat \/ ImageCut
ImageFairness == WF_imageVars(ImageBody) /\ WF_imageVars(ImageRepeat)
ImageSpec == ImageInit /\ [][ImageNext]_imageVars /\ ImageFairness

(***************************************************************************)
(* Properties.                                                             *)
(***************************************************************************)
\* Images, plans and rows are of their kinds; what is pending is planned and
\* what is deleted comes before it.
ImageTypeOK ==
  /\ iimages \cup iused \cup iselected \cup iraced \subseteq Image
  /\ irow.kind \in {"none", "set", "plan", "apply"}
  /\ irow.state \in {"none", "open", "succeeded", "failed"}
  /\ irow.deleted \subseteq irow.plan.images
  /\ irow.pending # 0 => irow.pending \in irow.plan.images
                          /\ \A i \in irow.deleted : i <= irow.pending
  /\ icuts \in 0..MaxImageCuts

\* An image the operator has selected is there, although a selection may be
\* newer than the plan that is applied and an apply may be cut off and resumed
\* much later.
SelectedImageKept == iselected \subseteq iimages

\* A server's image is deleted only if the server was created in the moment
\* between the last look at the servers and the deletion.
ServerImageKept == iused \subseteq iimages \cup iraced

\* A prune told as done has deleted every image of its plan, and one that is
\* still open has deleted no image outside it.
PruneTold ==
  irow.kind = "apply" =>
    /\ irow.state = "succeeded" => irow.plan.images \cap iimages = {}
    /\ irow.plan.inventory \ irow.plan.images \subseteq iimages

\* The newest images are never pruned.
NewestKept == [][(iimages \ iimages') \cap Newest(iimages) = {}]_imageVars

\* Run again, an interrupted command ends, unless images, servers or
\* selections are no longer those of its plan: such an apply stays open.
PruneDrifted ==
  /\ irow.kind = "apply"
  /\ \/ iselected # irow.plan.selected \/ iused # irow.plan.used
     \/ iimages \ irow.plan.images # irow.plan.inventory \ irow.plan.images
ImageWorkEnds == []<>(~ImageOpen \/ (ipc = "idle" /\ PruneDrifted))

\* Every state of the catalogue: no image in use or selected is pruned, and a
\* prune is told truly.
ImagesSafe == ImageTypeOK /\ SelectedImageKept /\ ServerImageKept /\ PruneTold
=============================================================================
