------------------------------- MODULE Builds --------------------------------
(***************************************************************************)
(* The build of one deployment: helper/production.py _build_application    *)
(* fetches the commit, runs it through a disposable builder machine that   *)
(* infra/openstack/builder_lifecycle.sh makes and removes, and             *)
(* builder_execute.py on that machine pushes the image under a tag named   *)
(* for the operation.  The caller journals build_rejected, or the digest,  *)
(* and ends a rejected build only when builder and tag are gone.  A body   *)
(* that was cut off is repeated; the machine and the build on it go on.    *)
(***************************************************************************)
EXTENDS Naturals

CONSTANTS
  Recipe,         \* generated recipes: what a lookup of runtimes may resolve to
  MaxBuildCuts    \* bound on interruptions and on calls that fail

VARIABLES
  bports,     \* ports of the builder's name that are attached to nothing
  bvm,        \* the machine: none, boot, up, error, or bare (without its port)
  bflight,    \* create calls accepted by the provider and not yet performed
  bdir,       \* the verified input on the machine: none or a recipe
  bwork,      \* BuildKit runs on the machine
  btag,       \* the registry has the tag of this build
  blog,       \* state file of the build log: none, running, complete, failed
  bphase,     \* operation row: phase
  bstate,     \* operation row: open, failed, or pushed with its digest
  bbig,       \* the files fit the limit of a source and their archive does not
  bkey,       \* the application has a deploy key
  bpc, bmade, brecipe, bout, bcuts

buildVars == <<bports, bvm, bflight, bdir, bwork, btag, blog, bphase, bstate,
               bbig, bkey, bpc, bmade, brecipe, bout, bcuts>>
builderVars == <<bports, bvm, bflight, bdir, bwork>>
buildRow == <<bphase, bstate>>
buildSource == <<bbig, bkey>>
buildRun == <<bmade, brecipe, bout>>

BStep(l, next) == bpc = l /\ bpc' = next
NoRecipe == "none"

BuildInit ==
  /\ bports = 0 /\ bvm = "none" /\ bflight = {} /\ bdir = NoRecipe /\ bwork = FALSE
  /\ btag = FALSE /\ blog = "none" /\ bphase = "validated" /\ bstate = "open"
  /\ bpc = "idle" /\ bmade = FALSE /\ brecipe = NoRecipe
  /\ bout = "none" /\ bcuts = 0 /\ bbig \in BOOLEAN /\ bkey \in BOOLEAN

BGo(l, next) == BStep(l, next) /\ UNCHANGED <<buildSource, builderVars, btag, blog, buildRow, buildRun, bcuts>>
Spend == bcuts < MaxBuildCuts /\ bcuts' = bcuts + 1
\* A step or a call fails without effect.
BFails(l, next) ==
  BStep(l, next) /\ Spend /\ UNCHANGED <<buildSource, builderVars, btag, blog, buildRow, buildRun>>

(***************************************************************************)
(* The operation: begin or repeat, by the phase the row remembers.         *)
(***************************************************************************)

deployment_recovery_action(phase) ==
  CASE phase = "validated" -> "prepare"
    [] phase = "builder_creating" -> "sweep"
    [] phase = "build_rejected" -> "absent"

BuildBegin ==
  /\ bpc = "idle" /\ bstate = "open"
  /\ bpc' = deployment_recovery_action(bphase)
  /\ UNCHANGED <<buildSource, builderVars, btag, blog, buildRow, buildRun, bcuts>>

BuildCut ==
  /\ bpc # "idle" /\ Spend /\ bpc' = "idle"
  /\ UNCHANGED <<buildSource, builderVars, btag, blog, buildRow, buildRun>>

\* cleanup_builder_then_rebuild
SweptBuilder ==
  /\ BStep("swept", "prepare") /\ bphase' = "validated"
  /\ UNCHANGED <<buildSource, builderVars, btag, blog, bstate, buildRun, bcuts>>

PrepareDeploymentBuild ==
  /\ BStep("prepare", "fetch") /\ bphase' = "builder_creating"
  /\ UNCHANGED <<buildSource, builderVars, btag, blog, bstate, buildRun, bcuts>>

(***************************************************************************)
(* app.build before there is a builder.                                    *)
(***************************************************************************)
\* What a fetch may come to: git fails, or the checkout is refused for good
\* (submodules, escaping links, too many bytes).
acquire_github_commit == {"source", "unfetched", "refused"}

Fetched(next, out) ==
  /\ bpc' = next /\ bout' = out
  /\ UNCHANGED <<builderVars, btag, buildRow, bmade, brecipe, bcuts, buildSource>>

\* The log is opened; a public repository needs no key.
FetchPublic ==
  /\ bpc = "fetch" /\ blog' = "running"
  /\ \E r \in acquire_github_commit :
       \/ r = "source" /\ Fetched("check", "none")
       \/ r = "refused" /\ Fetched("closeLog", "rejected")
       \/ r = "unfetched" /\ Fetched(IF bkey THEN "fetchKey" ELSE "closeLog", "rejected")

FetchWithKey ==
  /\ bpc = "fetchKey" /\ UNCHANGED blog
  /\ \E r \in acquire_github_commit :
       Fetched(IF r = "source" THEN "check" ELSE "closeLog", IF r = "source" THEN "none" ELSE "rejected")

\* The runtime the checkout asks for, looked up at the time of this attempt.
resolve_runtime == Recipe

\* A checkout that does not fit its configuration, or whose runtime cannot be
\* looked up, ends like a rejected build before there is a builder.
CheckSource ==
  /\ bpc = "check" /\ bmade' = FALSE
  /\ \/ \E r \in resolve_runtime : bpc' = "look" /\ brecipe' = r /\ bout' = "none"
     \/ bpc' = "closeLog" /\ bout' = "rejected" /\ UNCHANGED brecipe
  /\ UNCHANGED <<builderVars, btag, blog, buildRow, bcuts, buildSource>>

\* Anything else that goes wrong before there is a builder.
SourceFails ==
  /\ bpc \in {"fetch", "fetchKey", "check"} /\ Spend
  /\ bpc' = "closeLog" /\ bout' = "error" /\ blog' = "running"
  /\ UNCHANGED <<builderVars, btag, buildRow, bmade, brecipe, buildSource>>

(***************************************************************************)
(* builder_lifecycle.sh create.                                            *)
(***************************************************************************)
Attached == bvm \in {"boot", "up", "error"}
ObservedPorts == bports + IF Attached THEN 1 ELSE 0
\* One port and one machine of the name, and the machine has the port.
emit_builder_observation == ObservedPorts <= 1 /\ bvm # "bare"
\* The caller also refuses a port without a machine.
parse_builder_observation == emit_builder_observation /\ bports = 0

\* A failed attempt goes on to the removal of the builder.
Unknown(l) ==
  /\ BStep(l, "wipe") /\ bout' = "error"
  /\ UNCHANGED <<buildSource, builderVars, btag, blog, buildRow, bmade, brecipe, bcuts>>
UnknownSpent(l) ==
  /\ BStep(l, "wipe") /\ Spend /\ bout' = "error"
  /\ UNCHANGED <<buildSource, builderVars, btag, blog, buildRow, bmade, brecipe>>

BuilderLook ==
  \/ ~emit_builder_observation /\ Unknown("look")
  \/ emit_builder_observation /\ ObservedPorts = 0 /\ BGo("look", "port")
  \/ emit_builder_observation /\ ObservedPorts = 1 /\ BGo("look", "server")

BuilderPort ==
  \/ /\ BStep("port", "server") /\ bports' = bports + 1 /\ bmade' = TRUE
     /\ UNCHANGED <<buildSource, bvm, bflight, bdir, bwork, btag, blog, buildRow, brecipe, bout, bcuts>>
  \/ UnknownSpent("port")

BuilderPortCut ==
  /\ BStep("port", "idle") /\ Spend /\ bflight' = bflight \cup {"port"}
  /\ UNCHANGED <<buildSource, bports, bvm, bdir, bwork, btag, blog, buildRow, buildRun>>

\* An existing machine is waited for; a new one needs the user data rendered.
BuilderServer ==
  \/ emit_builder_observation /\ Attached /\ BGo("server", "bootstrap")
  \/ emit_builder_observation /\ ~Attached /\ BGo("server", "boot")
  \/ ~emit_builder_observation /\ Unknown("server")
  \/ UnknownSpent("server")

Nova == bports' = bports - 1 /\ bvm' = "boot" /\ bdir' = NoRecipe /\ bwork' = FALSE

BuilderBoot ==
  /\ bpc = "boot" /\ bports > 0 /\ bvm = "none"
  /\ \/ bpc' = "bootstrap" /\ UNCHANGED bcuts
     \/ bpc' = "trap" /\ Spend
  /\ Nova /\ UNCHANGED <<buildSource, bflight, btag, blog, buildRow, buildRun>>

\* Refused: nothing was made.
BuilderBootRefused ==
  \/ BFails("boot", "trap")
  \/ (bports = 0 \/ bvm # "none") /\ BGo("boot", "trap")

BuilderBootCut ==
  /\ BStep("boot", "idle") /\ Spend /\ bflight' = bflight \cup {"server"}
  /\ UNCHANGED <<buildSource, bports, bvm, bdir, bwork, btag, blog, buildRow, buildRun>>

\* The end of a port: what still wanted it is refused, a machine loses it.
PortGone ==
  /\ bflight' = bflight \ {"server"}
  /\ IF bports > 0 THEN bports' = bports - 1 /\ UNCHANGED bvm
     ELSE bvm' = (IF Attached THEN "bare" ELSE bvm) /\ UNCHANGED bports

BuilderTrap ==
  /\ BStep("trap", "wipe") /\ bout' = "error"
  /\ IF bmade THEN PortGone ELSE UNCHANGED <<bports, bvm, bflight>>
  /\ UNCHANGED <<buildSource, bdir, bwork, btag, blog, buildRow, bmade, brecipe, bcuts>>

builder_wait_for_bootstrap ==
  \/ emit_builder_observation /\ bvm = "up" /\ BGo("bootstrap", "created")
  \/ ~(emit_builder_observation /\ bvm \in {"boot", "up"}) /\ Unknown("bootstrap")
  \/ UnknownSpent("bootstrap")

(***************************************************************************)
(* The builder's work.                                                     *)
(***************************************************************************)

CreateBuilder ==
  \/ parse_builder_observation /\ bvm = "up" /\ BGo("created", "pin")
  \/ ~(parse_builder_observation /\ bvm = "up") /\ Unknown("created")

\* Headers and padding make the archive larger than the files it holds.
create_build_archive == ~bbig

pin_builder_host_key == BGo("pin", "receive") \/ UnknownSpent("pin")

Rejected(l) ==
  /\ BStep(l, "wipe") /\ bout' = "rejected"
  /\ UNCHANGED <<buildSource, builderVars, btag, blog, buildRow, bmade, brecipe, bcuts>>

\* receive: the same input again is accepted, another is refused, which the
\* caller takes for a rejected build; so is an archive that cannot be unpacked.
\* An archive over its own limit is an error like a lost connection.
Receive ==
  \/ /\ BStep("receive", "build") /\ create_build_archive /\ bdir \in {NoRecipe, brecipe} /\ bdir' = brecipe
     /\ UNCHANGED <<buildSource, bports, bvm, bflight, bwork, btag, blog, buildRow, buildRun, bcuts>>
  \/ create_build_archive /\ Rejected("receive")
  \/ ~create_build_archive /\ Unknown("receive")
  \/ UnknownSpent("receive")

BuildStart ==
  /\ BStep("build", "building") /\ bwork' = TRUE
  /\ UNCHANGED <<buildSource, bports, bvm, bflight, bdir, btag, blog, buildRow, buildRun, bcuts>>

\* BuildKit ends: it pushed the tag or it did not.
Builder_execute(l, next, out) ==
  /\ BStep(l, next) /\ bwork /\ bwork' = FALSE /\ bout' = out
  /\ UNCHANGED <<buildSource, bports, bvm, bflight, bdir, blog, buildRow, bmade, brecipe, bcuts>>

BuildPushed == Builder_execute("building", "wipe", "image") /\ btag' = TRUE

\* The command's exit status is a rejection, also when the deadline passed
\* after the push.
BuildRefused == Builder_execute("building", "wipe", "rejected") /\ btag' \in {btag, TRUE}

\* The connection is lost: BuildKit may go on.
BuildUnknown == UnknownSpent("building")
BuildCutOff == ~bwork /\ Unknown("building")

\* Nobody waits for this build any more; it pushes all the same.
LatePush ==
  /\ bpc # "building" /\ bwork /\ bvm \in {"up", "bare"}
  /\ bwork' = FALSE /\ btag' \in {btag, TRUE}
  /\ UNCHANGED <<buildSource, bports, bvm, bflight, bdir, blog, buildRow, bpc, buildRun, bcuts>>

(***************************************************************************)
(* delete_builder: at the end of every attempt (wipe), before a rebuild    *)
(* (sweep), and before a rejection is final (absent).                      *)
(***************************************************************************)
Removal == {"wipe", "sweep", "absent"}

Then(l) == CASE l = "wipe" -> "closeLog" [] l = "sweep" -> "swept" [] l = "absent" -> "tagAbsent"

\* An unconfirmed removal makes an attempt that pushed an error, and leaves the
\* two others to the next repeat.
Unconfirmed(l) ==
  /\ bpc' = IF l = "wipe" THEN "closeLog" ELSE "idle"
  /\ bout' = IF l = "wipe" /\ bout # "rejected" THEN "error" ELSE bout

\* Nothing is removed unless what the names find fits together.  The machine
\* goes first; its port goes even when that failed, and the observation that
\* follows has to find neither.  A call in flight may still get the port just
\* before it goes.
DeleteBuilder(l) ==
  /\ bpc = l /\ UNCHANGED <<buildSource, btag, blog, buildRow, bmade, brecipe>>
  /\ \/ /\ ~emit_builder_observation /\ Unconfirmed(l)
        /\ UNCHANGED <<builderVars, bcuts>>
     \/ /\ emit_builder_observation /\ bpc' = Then(l)
        /\ bports' = 0 /\ bvm' = "none" /\ bdir' = NoRecipe /\ bwork' = FALSE
        /\ bflight' = IF ObservedPorts = 0 THEN bflight ELSE bflight \ {"server"}
        /\ UNCHANGED <<bout, bcuts>>
     \/ /\ Unconfirmed(l) /\ UNCHANGED builderVars /\ Spend
     \/ /\ emit_builder_observation /\ Attached /\ Unconfirmed(l) /\ Spend
        /\ \/ bvm' = "bare" /\ UNCHANGED <<bports, bflight, bdir, bwork>>
           \/ bvm' = "none" /\ bports' = 1 /\ bdir' = NoRecipe /\ bwork' = FALSE /\ UNCHANGED bflight
     \/ /\ emit_builder_observation /\ bports = 1 /\ "server" \in bflight /\ Unconfirmed(l)
        /\ bports' = 0 /\ bvm' = "bare" /\ bflight' = bflight \ {"server"}
        /\ UNCHANGED <<bdir, bwork, bcuts>>

(***************************************************************************)
(* The end of app.build and what the controller records.                   *)
(***************************************************************************)

CloseLog ==
  /\ BStep("closeLog", "reply")
  /\ blog' = IF bout = "image" THEN "complete" ELSE "failed"
  /\ UNCHANGED <<buildSource, builderVars, btag, buildRow, buildRun, bcuts>>

CallBuild ==
  /\ bpc = "reply"
  /\ \/ bout = "image" /\ bpc' = "idle" /\ bphase' = "image_pushed" /\ bstate' = "pushed"
     \/ bout = "rejected" /\ bpc' = "absent" /\ bphase' = "build_rejected" /\ UNCHANGED bstate
     \/ bout = "error" /\ bpc' = "idle" /\ UNCHANGED buildRow
  /\ UNCHANGED <<buildSource, builderVars, btag, blog, buildRun, bcuts>>

\* Mutant: any answer of the registry will do.
confirm_build_absent_any == BGo("tagAbsent", "finish")

\* Only a 404 proves that the tag is absent.
confirm_build_absent ==
  \/ ~btag /\ BGo("tagAbsent", "finish")
  \/ btag /\ BGo("tagAbsent", "idle")

FinishRejectedBuild ==
  /\ BStep("finish", "idle") /\ bstate' = "failed"
  /\ UNCHANGED <<buildSource, builderVars, btag, blog, bphase, buildRun, bcuts>>

(***************************************************************************)
(* The provider.                                                           *)
(***************************************************************************)
BuilderLands ==
  \E c \in bflight :
    /\ IF c = "port"
       THEN /\ bflight' = bflight \ {c} /\ bports' \in {bports, bports + 1}
            /\ UNCHANGED <<bvm, bdir, bwork>>
       ELSE \/ bports > 0 /\ bvm = "none" /\ Nova /\ bflight' = bflight \ {c}
            \/ bflight' = bflight \ {c} /\ UNCHANGED <<bports, bvm, bdir, bwork>>
    /\ UNCHANGED <<buildSource, btag, blog, buildRow, bpc, buildRun, bcuts>>

BuilderUp ==
  /\ bvm = "boot"
  /\ \/ bvm' = "up" /\ UNCHANGED bcuts
     \/ bvm' = "error" /\ Spend
  /\ UNCHANGED <<buildSource, bports, bflight, bdir, bwork, btag, blog, buildRow, bpc, buildRun>>

BuildBody ==
  \/ SweptBuilder \/ PrepareDeploymentBuild \/ FetchPublic \/ FetchWithKey
  \/ CheckSource \/ SourceFails \/ BuilderLook \/ BuilderPort
  \/ BuilderServer \/ BuilderBoot \/ BuilderBootRefused \/ BuilderTrap
  \/ builder_wait_for_bootstrap \/ CreateBuilder \/ pin_builder_host_key \/ Receive \/ BuildStart
  \/ BuildPushed \/ BuildRefused \/ BuildUnknown \/ BuildCutOff
  \/ \E l \in Removal : DeleteBuilder(l)
  \/ CloseLog \/ CallBuild \/ confirm_build_absent \/ FinishRejectedBuild

BuildNext ==
  \/ BuildBegin \/ BuildCut \/ BuilderPortCut \/ BuilderBootCut
  \/ BuildBody \/ LatePush \/ BuilderLands \/ BuilderUp

BuildFairness == /\ WF_buildVars(BuildBody) /\ WF_buildVars(BuildBegin)
                 /\ WF_buildVars(BuilderUp)

BuildSpec == BuildInit /\ [][BuildNext]_buildVars /\ BuildFairness

(***************************************************************************)
(* Properties.                                                             *)
(***************************************************************************)
\* Type invariant.
BuildTypeOK ==
  /\ bports \in 0..(MaxBuildCuts + 1) /\ bvm \in {"none", "boot", "up", "error", "bare"}
  /\ bflight \subseteq {"port", "server"} /\ bdir \in Recipe \cup {NoRecipe}
  /\ blog \in {"none", "running", "complete", "failed"}
  /\ bphase \in {"validated", "builder_creating", "build_rejected", "image_pushed"}
  /\ bstate \in {"open", "failed", "pushed"} /\ bout \in {"none", "error", "rejected", "image"}
  /\ bwork => bvm # "none"

\* A rejected build is final only when neither builder nor tag is left, and
\* none appears afterwards: no call in flight can still boot a builder and no
\* forgotten BuildKit can still push.  An accepted digest has its tag, and its
\* builder is gone too.
SettledBuildIsClean ==
  /\ bstate # "open" => bvm = "none"
  /\ bstate = "failed" => ~btag
  /\ bstate = "pushed" => btag

\* What an interrupted attempt left on a builder never decides the next one: a
\* rebuild may resolve other runtimes, and the input it sends always meets a
\* machine without input, or its own.
BuilderStartsFresh == bpc = "receive" => bdir \in {NoRecipe, brecipe}

\* The state of the build log tells how the build ended, also after attempts
\* that were cut off while it said running.
BuildLogTold ==
  bstate # "open" => blog = IF bstate = "pushed" THEN "complete" ELSE "failed"

\* Two ports of the builder's name, a machine without its port, a rejection
\* whose tag an earlier attempt, or the attempt itself, had pushed, or a source
\* whose archive is too large, which every repeat finds again.
BuildLeft ==
  \/ bbig
  \/ ~emit_builder_observation
  \/ bphase = "build_rejected" /\ btag

\* A build that is repeated ends, except in the states left to an administrator.
BuildEnds == []<>(bstate # "open" \/ BuildLeft)

\* Every state of a build: settled ones are clean and told truly, open ones
\* begin on a fresh builder.
BuildsSafe == BuildTypeOK /\ SettledBuildIsClean /\ BuilderStartsFresh /\ BuildLogTold
=============================================================================
