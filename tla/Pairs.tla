-------------------------------- MODULE Pairs --------------------------------
(***************************************************************************)
(* The portal's releases on the admin host: the installer stages a broker  *)
(* half and a web half, each with the inventory it was installed with, and *)
(* asks for the pair's activation once both halves match; a root service   *)
(* checks what is staged against the request and switches the active pair. *)
(* A retained pair is brought back the same way.  Installers, the retained *)
(* pair's reactivation and the activation take one lock; any of them can   *)
(* be killed, the host can reboot, and it can be replaced by one that      *)
(* accepts the other compatibility.                                        *)
(***************************************************************************)
EXTENDS Integers, FiniteSets

CONSTANTS Version,      \* a source commit with the pair identity built from it
          Later,        \* the versions of the newer compatibility
          Config,       \* inventories (platform.json)
          Operator,     \* sessions of the operator on the admin host
          MaxAsks, MaxEdits, MaxPairCuts

ASSUME PairConstants ==
  /\ Later \subseteq Version
  /\ {MaxAsks, MaxEdits, MaxPairCuts} \subseteq Nat

VARIABLES
  inventory,  \* platform.json of the host
  accepts,    \* the host's image accepts the newer compatibility
  kept,       \* complete releases of each half
  current,    \* the staged selector of each half
  marker,     \* activate-request
  pairs,      \* directories under management-active/pairs
  active,     \* management-active/current
  runs,       \* the release each service runs
  job,        \* where each session is
  act,        \* where the activation service is
  plock,      \* the holder of .install.lock
  noticed,    \* the path unit has seen the request change
  lost,       \* the last request was lost in a kill or a reboot
  pused       \* requests, edits and kills so far

staging == <<kept, current>>
activeVars == <<pairs, active, runs>>
pairVars == <<inventory, accepts, kept, current, marker, pairs, active, runs, job, act, plock,
              noticed, lost, pused>>

Mode == {"broker", "web"}
Fault == {"none", "archive", "evidence", "smoke"}
Release == [v : Version, c : Config, sound : BOOLEAN]
NoJob == [at |-> "idle", want |-> [m \in Mode |-> {}]]
NoAct == [at |-> "idle", pair |-> [m \in Mode |-> {}]]
Root == "root"

\* A host with nothing installed, or with a pair that serves.
PairInit ==
  LET c == CHOOSE i \in Config : TRUE
      pair == [m \in Mode |-> {[v |-> CHOOSE v \in Version \ Later : TRUE, c |-> c, sound |-> TRUE]}]
      none == [m \in Mode |-> {}]
  IN  /\ inventory = c
      /\ accepts = FALSE
      /\ \/ kept = none /\ marker = {} /\ pairs = {}
         \/ kept = pair /\ marker = {r.v : r \in pair["web"]} /\ pairs = {pair}
      /\ current = kept
      /\ active = pairs
      /\ runs = kept
      /\ job = [o \in Operator |-> NoJob]
      /\ act = NoAct
      /\ plock = {}
      /\ noticed = FALSE
      /\ lost = FALSE
      /\ pused = [asks |-> 0, edits |-> 0, cuts |-> 0]

CountPair(k, max) == pused[k] < max /\ pused' = [pused EXCEPT ![k] = @ + 1]
GoTo(o, label) == job' = [job EXCEPT ![o].at = label]
Done(o) == job' = [job EXCEPT ![o] = NoJob]

-----------------------------------------------------------------------------
(* Installing one half.                                                    *)

\* A release is of the compatibility the host's image accepts.
Compatible(v) == accepts = (v \in Later)

\* The archive and the evidence, read once, within their limits and layout.
Members(fault) == fault # "archive"

\* The checks of the evidence, before any release code runs.
Verified(v, fault) == Members(fault) /\ fault # "evidence" /\ Compatible(v)

\* The installer verifies its input and reads the inventory, then waits for
\* the lock; a release that fails its checks changes nothing.
_install_management(o, m, v, fault) ==
  /\ job[o].at \in {"idle", "refused"}
  /\ CountPair("asks", MaxAsks)
  /\ Verified(v, fault)
  /\ job' = [job EXCEPT ![o] = [at |-> "install", want |-> [n \in Mode |->
               IF n = m THEN {[v |-> v, c |-> inventory, sound |-> fault = "none"]} ELSE {}]]]
  /\ UNCHANGED <<inventory, accepts, marker, act, plock, noticed, lost>>
  /\ UNCHANGED staging /\ UNCHANGED activeVars

HalfOf(o) == CHOOSE m \in Mode : job[o].want[m] # {}
Wanted(o) == CHOOSE r \in job[o].want[HalfOf(o)] : TRUE
RefuseHalf(o) == GoTo(o, "refused") /\ plock' = {} /\ UNCHANGED staging

\* Every session keeps the lock from its first look at what is staged to its
\* end, or to its kill.
TakeLock(o, label) == plock' = {o} /\ GoTo(o, label) /\ UNCHANGED staging

\* Nothing staged of another compatibility than the candidate's.
current_descriptor(o) ==
  \A m \in Mode : \A r \in current[m] : (r.v \in Later) = (Wanted(o).v \in Later)

Admit(o) ==
  /\ job[o].at = "install"
  /\ plock = {}
  /\ \/ current_descriptor(o) /\ TakeLock(o, "keep")
     \/ ~current_descriptor(o) /\ RefuseHalf(o)
  /\ UNCHANGED <<inventory, accepts, marker, act, noticed, lost, pused>>
  /\ UNCHANGED activeVars

smokeNever(o, ok) == TRUE

\* The smoke test of a candidate, before it counts as complete.
smoke(o, ok) == ok

\* Stage, smoke, rename; a complete release of the name is smoked again.
Keep(o) ==
  /\ job[o].at = "keep"
  /\ \/ /\ smoke(o, Wanted(o).sound)
        /\ kept' = [kept EXCEPT ![HalfOf(o)] = @ \cup {Wanted(o)}]
        /\ GoTo(o, "select")
        /\ UNCHANGED <<current, plock>>
     \/ ~smoke(o, Wanted(o).sound) /\ RefuseHalf(o)
  /\ UNCHANGED <<inventory, accepts, marker, act, noticed, lost, pused>>
  /\ UNCHANGED activeVars

select(m, r) == current' = [current EXCEPT ![m] = r]

SelectHalf(o) ==
  /\ job[o].at = "select"
  /\ select(HalfOf(o), {Wanted(o)})
  /\ GoTo(o, "ask")
  /\ UNCHANGED <<inventory, accepts, kept, marker, act, plock, noticed, lost, pused>>
  /\ UNCHANGED activeVars

\* Both staged halves are of the version just installed, with one inventory.
HalvesMatch(o) ==
  /\ \A m \in Mode : \E r \in current[m] : r.v = Wanted(o).v
  /\ \E c \in Config : \A m \in Mode : \A r \in current[m] : r.c = c

request_activation(v) == marker' = {v} /\ noticed' = TRUE /\ lost' = FALSE

AskActivation(o) ==
  /\ job[o].at = "ask"
  /\ \/ HalvesMatch(o) /\ request_activation(Wanted(o).v)
     \/ ~HalvesMatch(o) /\ UNCHANGED <<marker, noticed, lost>>
  /\ Done(o)
  /\ plock' = {}
  /\ UNCHANGED <<inventory, accepts, act, pused>>
  /\ UNCHANGED staging /\ UNCHANGED activeVars

-----------------------------------------------------------------------------
(* Bringing a retained pair back.                                          *)

\* The operator names a release of each half.
Reactivate(o, b, w) ==
  /\ job[o].at \in {"idle", "refused"}
  /\ CountPair("asks", MaxAsks)
  /\ job' = [job EXCEPT ![o] = [at |-> "reactivate", want |->
               [m \in Mode |-> IF m = "broker" THEN {b} ELSE {w}]]]
  /\ UNCHANGED <<inventory, accepts, marker, act, plock, noticed, lost>>
  /\ UNCHANGED staging /\ UNCHANGED activeVars

\* One half as it was kept: complete, of this compatibility, its files intact.
retained(m, r) == r \in kept[m] /\ Compatible(r.v)

\* The two form one pair with one inventory, and so does what is active now.
PairOf(b, w) == b.v = w.v /\ b.c = w.c
ActiveCompatible == \A p \in active : \A m \in Mode : \A r \in p[m] : Compatible(r.v)

Retained(o) ==
  /\ job[o].at = "reactivate"
  /\ plock = {}
  /\ LET fits == /\ ActiveCompatible
                 /\ \A m \in Mode : \A r \in job[o].want[m] : retained(m, r)
                 /\ \A b \in job[o].want["broker"], w \in job[o].want["web"] : PairOf(b, w)
     IN  \/ fits /\ TakeLock(o, "select broker")
         \/ ~fits /\ RefuseHalf(o)
  /\ UNCHANGED <<inventory, accepts, marker, act, noticed, lost, pused>>
  /\ UNCHANGED activeVars

SelectRetained(o) ==
  /\ \/ job[o].at = "select broker" /\ select("broker", job[o].want["broker"]) /\ GoTo(o, "select web")
     \/ job[o].at = "select web" /\ select("web", job[o].want["web"]) /\ GoTo(o, "request")
  /\ UNCHANGED <<inventory, accepts, kept, marker, act, plock, noticed, lost, pused>>
  /\ UNCHANGED activeVars

AskRetained(o) ==
  /\ job[o].at = "request"
  /\ request_activation(Wanted(o).v)
  /\ Done(o)
  /\ plock' = {}
  /\ UNCHANGED <<inventory, accepts, act, pused>>
  /\ UNCHANGED staging /\ UNCHANGED activeVars

-----------------------------------------------------------------------------
(* The activation service.                                                 *)

SameActive == UNCHANGED <<inventory, accepts, kept, current, marker, job, lost, pused>>

\* systemd starts the service once the request has changed.
Notice ==
  /\ act.at = "idle"
  /\ noticed
  /\ noticed' = FALSE
  /\ act' = [act EXCEPT !.at = "wait"]
  /\ SameActive /\ UNCHANGED plock /\ UNCHANGED activeVars

ValidUnchecked(v) == \A m \in Mode : \E r \in current[m] : r.v = v /\ Compatible(v)

\* What is staged is what the request names, with one inventory.
Valid(v) ==
  /\ \A m \in Mode : \E r \in current[m] : r.v = v /\ Compatible(v)
  /\ \A b \in current["broker"], w \in current["web"] : b.c = w.c

\* Under the lock: the request and both halves.
activate ==
  /\ act.at = "wait"
  /\ plock = {}
  /\ \/ /\ \E v \in marker : Valid(v)
        /\ plock' = {Root}
        /\ act' = [at |-> "publish", pair |-> current]
     \/ /\ ~\E v \in marker : Valid(v)
        /\ plock' = {}
        /\ act' = NoAct
  /\ UNCHANGED noticed /\ SameActive /\ UNCHANGED activeVars

\* The directory of a pair is named after its version and inventory; one that
\* is there must link to the same releases.
SamePair(p, q) == \E b \in p["broker"], d \in q["broker"] : b.v = d.v /\ b.c = d.c

publish_pair ==
  /\ act.at = "publish"
  /\ \/ /\ \A p \in pairs : SamePair(p, act.pair) => p = act.pair
        /\ pairs' = pairs \cup {act.pair}
        /\ act' = [act EXCEPT !.at = "switch"]
        /\ UNCHANGED plock
     \/ /\ \E p \in pairs : SamePair(p, act.pair) /\ p # act.pair
        /\ act' = NoAct
        /\ plock' = {}
        /\ UNCHANGED pairs
  /\ UNCHANGED <<noticed, active, runs>> /\ SameActive

\* One selector for both halves, replaced at once; then the lock is free.
Switch ==
  /\ act.at = "switch"
  /\ active' = {act.pair}
  /\ plock' = {}
  /\ act' = [act EXCEPT !.at = "broker"]
  /\ UNCHANGED <<noticed, pairs, runs>> /\ SameActive

\* The release a service started now runs.
StartedFrom(m) == UNION {p[m] : p \in active}

\* The broker and its identity service, then the web; a broker that does not
\* start ends the service, and the web goes on as it was.
Restart ==
  /\ act.at \in Mode
  /\ \/ /\ runs' = [runs EXCEPT ![act.at] = StartedFrom(act.at)]
        /\ act' = IF act.at = "broker" THEN [act EXCEPT !.at = "web"] ELSE NoAct
     \/ /\ runs' = [runs EXCEPT ![act.at] = {}]
        /\ act' = NoAct
  /\ UNCHANGED <<noticed, plock, pairs, active>> /\ SameActive

-----------------------------------------------------------------------------
(* What happens around them.                                               *)

\* The operator edits the host's inventory.
EditInventory ==
  /\ CountPair("edits", MaxEdits)
  /\ inventory' \in Config \ {inventory}
  /\ UNCHANGED <<accepts, marker, job, act, plock, noticed, lost>>
  /\ UNCHANGED staging /\ UNCHANGED activeVars

Selecting(o) == job[o].at \in {"select broker", "select web", "request", "select", "ask"}

\* A session is killed: its lock goes with it.
KillSession(o) ==
  /\ job[o].at \notin {"idle", "refused"}
  /\ CountPair("cuts", MaxPairCuts)
  /\ Done(o)
  /\ plock' = plock \ {o}
  /\ lost' = (lost \/ Selecting(o))
  /\ UNCHANGED <<inventory, accepts, marker, act, noticed>>
  /\ UNCHANGED staging /\ UNCHANGED activeVars

\* The host reboots, or is replaced by one whose image accepts the other
\* compatibility; the services start from the active pair, and the path unit
\* does not see a request that was there before it.
RebootAdmin ==
  /\ CountPair("cuts", MaxPairCuts)
  /\ accepts' \in BOOLEAN
  /\ job' = [o \in Operator |-> NoJob]
  /\ act' = NoAct
  /\ plock' = {}
  /\ noticed' = FALSE
  /\ lost' = \/ lost \/ noticed \/ act.at \in {"wait", "publish", "switch"}
             \/ accepts' # accepts \/ \E o \in Operator : Selecting(o)
  /\ runs' = [m \in Mode |-> StartedFrom(m)]
  /\ UNCHANGED <<inventory, marker, pairs, active>>
  /\ UNCHANGED staging

Session(o) ==
  \/ Admit(o) \/ Keep(o) \/ SelectHalf(o) \/ AskActivation(o)
  \/ Retained(o) \/ SelectRetained(o) \/ AskRetained(o)

Activation == Notice \/ activate \/ publish_pair \/ Switch \/ Restart

AskedFor(o) ==
  \/ \E m \in Mode, v \in Version, f \in Fault : _install_management(o, m, v, f)
  \/ \E b \in kept["broker"], w \in kept["web"] : Reactivate(o, b, w)

PairNext ==
  \/ \E o \in Operator : AskedFor(o) \/ Session(o) \/ KillSession(o)
  \/ Activation \/ EditInventory \/ RebootAdmin

\* A session and the service run on until they end; nothing makes an operator
\* ask.
PairFairness ==
  /\ WF_pairVars(\E o \in Operator : Session(o))
  /\ WF_pairVars(Activation)

PairSpec == PairInit /\ [][PairNext]_pairVars /\ PairFairness

-----------------------------------------------------------------------------
(* Properties.                                                             *)

Selector == SUBSET Release

\* Types: at most one holder of the lock and one release behind a selector.
PairTypeOK ==
  /\ inventory \in Config /\ accepts \in BOOLEAN
  /\ \A m \in Mode : /\ kept[m] \subseteq Release
                     /\ current[m] \subseteq kept[m] /\ Cardinality(current[m]) <= 1
                     /\ runs[m] \in Selector /\ Cardinality(runs[m]) <= 1
  /\ marker \subseteq Version /\ Cardinality(marker) <= 1
  /\ active \subseteq pairs /\ Cardinality(active) <= 1
  /\ plock \subseteq Operator \cup {Root} /\ Cardinality(plock) <= 1
  /\ {noticed, lost} \subseteq BOOLEAN

\* "Installation activates only a matching broker and web pair": through
\* interrupted installs, changed inventories and late activations, the active
\* halves are complete releases of one version and one inventory that passed
\* their smoke test.
ActiveIsWhole ==
  \A p \in active :
    \E b \in p["broker"], w \in p["web"] :
      /\ PairOf(b, w) /\ b.sound /\ w.sound
      /\ b \in kept["broker"] /\ w \in kept["web"]

\* An activation is only ever asked for two staged halves of one version and
\* one inventory: the lock keeps another session from staging in between.
AskedIsSelected ==
  [][marker' # marker =>
       \E v \in marker' : \E b \in current'["broker"], w \in current'["web"] :
         b.v = v /\ PairOf(b, w)]_pairVars

\* The active pair changes only to what is staged and asked for at that
\* moment: activate and publish_pair keep the lock from check to switch.
SwitchIsAsked ==
  [][active' # active =>
       active' = {current} /\ \A r \in current["web"] : marker = {r.v}]_pairVars

Agreed == \E v \in marker : Valid(v)
Served == \A b \in runs["broker"], w \in runs["web"] : PairOf(b, w)

\* A pair whose activation was asked for goes live, and the broker and the web
\* that serve end up on one pair, unless the request was lost on the way.
PairGoesLive == []<>(/\ (Agreed /\ ~lost => active = {current})
                     /\ Served)

\* Every state of the portal's releases: what is active is one whole pair.
PairsSafe == PairTypeOK /\ ActiveIsWhole
==============================================================================
