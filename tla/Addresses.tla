------------------------------ MODULE Addresses ------------------------------
(***************************************************************************)
(* The stable addresses of one application: its floating address           *)
(* (controller/public_ip_service.py) and its retained worker port          *)
(* (controller/fixed_ip_service.py), as the deployments, stops and         *)
(* deletions of the application move them between its worker placements.   *)
(* Every request runs under the application's file lock, so at most one    *)
(* body runs; it may be cut off anywhere and is then repeated from its     *)
(* start with what the journal rows fip, fix and arefs remember.  A step   *)
(* whose check the code refuses waits at its label: the repeat that the    *)
(* refusal asks for evaluates the same check again.                        *)
(***************************************************************************)
EXTENDS Naturals, FiniteSets

CONSTANTS
  AddrReq,        \* the requests and operations of the application
  AddrKind,       \* AddrKind[o]: allocate, attach, release, reconcile,
                  \*   reserve, unreserve, deploy, enable, disable, delete
  Slot,           \* the worker placements an application may use
  Supplied,       \* the address an administrator allocated beforehand
  NoSlot, NoReq,
  MaxAddrCuts,    \* bound on interruptions and restarts
  MaxAddrRequests \* bound on the requests one application makes

VARIABLES
  fip,        \* the application_floating_ips row, or NoRow
  fix,        \* the application_fixed_ips row, or NoRow
  addr,       \* Neutron: address -> how many exist under its marker, and where
  port,       \* Neutron: how many retained ports exist under a request's marker
  inflight,   \* create calls the provider has accepted and not yet performed
  server,     \* Nova: what port the worker of each placement has
  allowed,    \* placements on the storage instances' network allowlists
  placed,     \* the application row: running, the accepted placement, deleted
  areq,       \* operation rows: new, open, finishing, succeeded, failed
  arefs,      \* operation refs: target and predecessor placement
  apc, acur,  \* the body that holds the application lock
  acuts

addrVars == <<fip, fix, addr, port, inflight, server, allowed, placed, areq,
              arefs, apc, acur, acuts>>
cloudVars == <<addr, port, inflight, server, allowed>>
rowVars == <<placed, areq, arefs, acur, acuts>>

NoRow == [phase |-> "none"]
Absent == "absent"
Own == "own"
Fresh == {o \in AddrReq : AddrKind[o] = "allocate"}
Address == Fresh \cup {Supplied}
Held(r) == r.phase # "none"
Present == {s \in Slot : server[s] # Absent}
On(a) == addr[a].on
AStep(l, next) == apc = l /\ apc' = next
Is(kinds) == AddrKind[acur] \in kinds

AddrInit ==
  /\ fip = NoRow /\ fix = NoRow
  /\ addr = [a \in Address |-> [copies |-> IF a = Supplied THEN 1 ELSE 0, on |-> NoSlot]]
  /\ port = [o \in AddrReq |-> 0]
  /\ inflight = {} /\ allowed = {}
  /\ server = [s \in Slot |-> Absent]
  /\ placed = [running |-> FALSE, slot |-> NoSlot, deleted |-> FALSE]
  /\ areq = [o \in AddrReq |-> "new"]
  /\ arefs = [o \in AddrReq |-> [tgt |-> NoSlot, pred |-> NoSlot]]
  /\ apc = "idle" /\ acur = NoReq /\ acuts = 0

(***************************************************************************)
(* Admission, repetition and the ends of an operation.                     *)
(***************************************************************************)
Unended == {o \in AddrReq : areq[o] \in {"open", "finishing"}}

\* Where a body starts: the fixed-ip and public-ip bodies at their own checks,
\* an accepted deployment at the work left after acceptance.
Start(o) ==
  CASE AddrKind[o] \in {"allocate", "attach"}       -> "reserve"
    [] AddrKind[o] = "reconcile"                    -> "handover"
    [] AddrKind[o] \in {"release", "disable", "delete"} -> "release"
    [] AddrKind[o] = "reserve"                      -> "preserve"
    [] AddrKind[o] = "unreserve"                    -> "prelease"
    [] AddrKind[o] \in {"deploy", "enable"}         ->
         IF areq[o] = "finishing" THEN "handover" ELSE "prepare"

\* begin_operation: a deployment takes a placement other than the accepted
\* one, an enable the accepted one; both run only where the row allows them.
AddrBegin(o) ==
  /\ apc = "idle" /\ Unended = {} /\ areq[o] = "new" /\ ~placed.deleted
  /\ Cardinality({p \in AddrReq : areq[p] # "new"}) < MaxAddrRequests
  /\ AddrKind[o] = "enable" => placed.slot # NoSlot /\ ~placed.running
  /\ AddrKind[o] = "disable" => placed.running
  /\ \E t \in Slot :
       /\ AddrKind[o] = "deploy" => t # placed.slot
       /\ AddrKind[o] = "enable" => t = placed.slot
       /\ arefs' = [arefs EXCEPT ![o] =
            IF AddrKind[o] \notin {"deploy", "enable"} THEN @
            ELSE [tgt |-> t, pred |-> IF AddrKind[o] = "deploy" THEN placed.slot ELSE NoSlot]]
  /\ areq' = [areq EXCEPT ![o] = "open"]
  /\ apc' = Start(o) /\ acur' = o
  /\ UNCHANGED <<fip, fix, cloudVars, placed, acuts>>

\* The same request again: renew_operation and the body from its start.
AddrRepeat(o) ==
  /\ apc = "idle" /\ o \in Unended
  /\ apc' = Start(o) /\ acur' = o
  /\ UNCHANGED <<fip, fix, cloudVars, placed, areq, arefs, acuts>>

\* A fault, a timeout or a crash ends the body.  The handler's except arm
\* marks the request failed when it holds no reservation of its own.
AddrCut ==
  /\ apc # "idle" /\ acuts < MaxAddrCuts
  /\ apc' = "idle" /\ acur' = NoReq /\ acuts' = acuts + 1
  /\ \/ UNCHANGED areq
     \/ /\ \/ Is({"allocate", "attach"}) /\ (Held(fip) => fip.req # acur)
           \/ Is({"reserve"}) /\ (Held(fix) => fix.req # acur)
           \/ Is({"release", "reconcile"}) /\ ~Held(fip)
           \/ Is({"unreserve"}) /\ ~Held(fix)
        /\ areq' = [areq EXCEPT ![acur] = "failed"]
  /\ UNCHANGED <<fip, fix, cloudVars, placed, arefs>>

AddrEnd(status) ==
  /\ areq' = [areq EXCEPT ![acur] = status] /\ apc' = "idle" /\ acur' = NoReq
  /\ UNCHANGED <<arefs, acuts>>

\* What follows the address work: the worker's removal in a stop or a
\* deletion, the predecessor's removal in a deployment, else success.
AfterRelease == IF Is({"disable", "delete"}) THEN "revoke" ELSE "done"
AfterHandover == IF Is({"deploy", "enable"}) /\ arefs[acur].pred # NoSlot THEN "revoke" ELSE "done"

AddrDone ==
  /\ apc = "done" /\ ~Is({"delete"}) /\ AddrEnd("succeeded") /\ UNCHANGED <<placed, fip, fix, cloudVars>>

(***************************************************************************)
(* The floating address.                                                   *)
(***************************************************************************)


\* mutate, allocate and attach: refused beside a retained port or another
\* request's address; an allocation is journaled before the provider's create,
\* an attachment adopts the supplied address at once.
Reserve ==
  /\ apc = "reserve" /\ UNCHANGED <<fix, cloudVars>>
  /\ \/ /\ Held(fix) \/ (Held(fip) /\ fip.req # acur)
        /\ AddrEnd("failed") /\ UNCHANGED <<placed, fip>>
     \/ /\ ~Held(fix) /\ Held(fip) /\ fip.req = acur
        /\ apc' = "handover" /\ UNCHANGED <<fip, rowVars>>
     \/ /\ ~Held(fix) /\ ~Held(fip) /\ Is({"attach"}) /\ On(Supplied) = NoSlot
        /\ fip' = [phase |-> "reserved", req |-> acur, id |-> Supplied,
                   port |-> NoSlot, pending |-> NoSlot]
        /\ apc' = "handover" /\ UNCHANGED rowVars
     \/ /\ ~Held(fix) /\ ~Held(fip) /\ Is({"allocate"})
        /\ fip' = [phase |-> "allocating", req |-> acur, id |-> acur,
                   port |-> NoSlot, pending |-> NoSlot]
        /\ apc' = "create" /\ UNCHANGED rowVars

\* provider.create: the call reaches Neutron, which performs it sooner or later.
CreateAddress ==
  /\ AStep("create", "adopt")
  /\ inflight' = inflight \cup {<<"address", acur>>}
  /\ UNCHANGED <<fip, fix, addr, port, server, allowed, rowVars>>


\* _adopt_result of the created address, or _recover_allocation of a repeat:
\* exactly one address carries the marker, and nothing is associated with it.
Adopt ==
  /\ \/ AStep("adopt", "handover")
     \/ apc \in {"handover", "release"} /\ UNCHANGED apc
  /\ fip.phase = "allocating"
  /\ addr[fip.id].copies = 1 /\ On(fip.id) = NoSlot
  /\ fip' = [fip EXCEPT !.phase = "reserved"]
  /\ UNCHANGED <<fix, cloudVars, rowVars>>

\* reconcile_accepted's early returns: no reservation, an application at rest
\* with nothing associated, or the accepted worker already confirmed.
HandoverIdle ==
  /\ apc = "handover"
  /\ \/ ~Held(fip)
     \/ /\ Held(fip) /\ ~placed.running
        /\ fip.phase \in {"reserved", "active", "assigning"}
        /\ fip.port = NoSlot /\ On(fip.id) = NoSlot
     \/ /\ Held(fip) /\ placed.running
        /\ fip.phase \in {"reserved", "active", "assigning"}
        /\ fip.port = placed.slot /\ fip.pending = NoSlot /\ On(fip.id) = fip.port
  /\ apc' = AfterHandover
  /\ UNCHANGED <<fip, fix, cloudVars, rowVars>>

\* The old port still exists, a pending handover has this very target.
Assigning ==
  /\ AStep("handover", "assign")
  /\ Held(fip) /\ placed.running
  /\ fip.phase \in {"reserved", "active", "assigning"}
  /\ fip.pending \in {NoSlot, placed.slot} /\ placed.slot \in Present
  /\ fip.port # NoSlot => fip.port \in Present
  /\ On(fip.id) \in {fip.port, fip.pending}
  /\ ~(fip.port = placed.slot /\ fip.pending = NoSlot)
  /\ fip' = [fip EXCEPT !.phase = "assigning", !.pending = placed.slot]
  /\ UNCHANGED <<fix, cloudVars, rowVars>>

Assign ==
  /\ AStep("assign", "confirm")
  /\ On(fip.id) \in {fip.port, fip.pending}
  /\ addr' = [addr EXCEPT ![fip.id].on = fip.pending]
  /\ UNCHANGED <<fip, fix, port, inflight, server, allowed, rowVars>>

Confirm ==
  /\ apc = "confirm" /\ apc' = AfterHandover
  /\ On(fip.id) = fip.pending
  /\ fip' = [fip EXCEPT !.phase = "active", !.port = fip.pending, !.pending = NoSlot]
  /\ UNCHANGED <<fix, cloudVars, rowVars>>

\* release_locked, up to the detachment.  The association is the recorded one,
\* or none where an earlier release got that far.
ReleaseStart ==
  /\ apc = "release" /\ UNCHANGED <<fix, cloudVars, rowVars>>
  /\ \/ /\ ~Held(fip) /\ apc' = AfterRelease /\ UNCHANGED fip
     \/ /\ Held(fip) /\ fip.phase = "deleting" /\ fip.id # Supplied
        /\ addr[fip.id].copies = 0
        /\ fip' = NoRow /\ apc' = AfterRelease
     \/ /\ Held(fip) /\ fip.phase # "allocating" /\ fip.pending = NoSlot
        /\ addr[fip.id].copies = 1
        /\ fip.port # NoSlot => fip.port \in Present
        /\ \/ On(fip.id) = fip.port
           \/ On(fip.id) = NoSlot /\ fip.phase \in {"releasing", "detached", "deleting"}
        /\ IF On(fip.id) # NoSlot
           THEN fip' = [fip EXCEPT !.phase = "releasing"] /\ apc' = "detach"
           ELSE UNCHANGED fip /\ apc' = "detached"

Detach ==
  /\ AStep("detach", "detached")
  /\ On(fip.id) = fip.port
  /\ addr' = [addr EXCEPT ![fip.id].on = NoSlot]
  /\ UNCHANGED <<fip, fix, port, inflight, server, allowed, rowVars>>

\* A stop keeps the reservation; a release or a deletion goes on, and only an
\* address this reservation allocated is deleted.
Detached ==
  /\ apc = "detached" /\ On(fip.id) = NoSlot
  /\ UNCHANGED <<fix, cloudVars, rowVars>>
  /\ \/ /\ Is({"disable"}) /\ apc' = AfterRelease
        /\ fip' = [fip EXCEPT !.phase = "reserved", !.port = NoSlot]
     \/ /\ ~Is({"disable"}) /\ fip.id = Supplied
        /\ fip' = [fip EXCEPT !.phase = "detached", !.port = NoSlot] /\ apc' = "forget"
     \/ /\ ~Is({"disable"}) /\ fip.id # Supplied
        /\ fip' = [fip EXCEPT !.phase = "deleting", !.port = NoSlot] /\ apc' = "deallocate"

DeleteAddress ==
  /\ AStep("deallocate", "forget") /\ On(fip.id) = NoSlot
  /\ addr' = [addr EXCEPT ![fip.id].copies = 0]
  /\ UNCHANGED <<fip, fix, port, inflight, server, allowed, rowVars>>

Forget ==
  /\ apc = "forget" /\ apc' = AfterRelease
  /\ fip.id = Supplied \/ addr[fip.id].copies = 0
  /\ fip' = NoRow
  /\ UNCHANGED <<fix, cloudVars, rowVars>>

(***************************************************************************)
(* The retained port.                                                      *)
(***************************************************************************)

\* fixed_ip_service.mutate, reserve.
PortReserve ==
  /\ apc = "preserve" /\ UNCHANGED <<fip, cloudVars>>
  /\ \/ /\ Held(fip) \/ (Held(fix) /\ fix.req # acur)
        /\ AddrEnd("failed") /\ UNCHANGED <<placed, fix>>
     \/ /\ ~Held(fip) /\ Held(fix) /\ fix.req = acur
        /\ apc' = (IF fix.phase = "allocating" THEN "paccept" ELSE "done")
        /\ UNCHANGED <<fix, rowVars>>
     \/ /\ ~Held(fip) /\ ~Held(fix)
        /\ fix' = [phase |-> "allocating", req |-> acur, slot |-> NoSlot, creating |-> FALSE]
        /\ apc' = "pcreate" /\ UNCHANGED rowVars

PortCreate ==
  /\ AStep("pcreate", "paccept")
  /\ inflight' = inflight \cup {<<"port", acur>>}
  /\ UNCHANGED <<fip, fix, addr, port, server, allowed, rowVars>>

\* _accept, or _recover by the marker: exactly one port, still unbound.
PortAccept ==
  /\ \/ AStep("paccept", "done")
     \/ apc = "prelease" /\ UNCHANGED apc
  /\ fix.phase = "allocating" /\ port[fix.req] = 1
  /\ fix' = [fix EXCEPT !.phase = "reserved"]
  /\ UNCHANGED <<fip, cloudVars, rowVars>>

\* release_locked: refused while a worker creation on the port is unresolved
\* or a worker holds it; a port already gone is forgotten if deletion began.
PortRelease ==
  /\ apc = "prelease" /\ UNCHANGED <<fip, cloudVars, rowVars>>
  /\ \/ ~Held(fix) /\ apc' = "done" /\ UNCHANGED fix
     \/ /\ Held(fix) /\ fix.phase = "deleting" /\ port[fix.req] = 0
        /\ fix' = NoRow /\ apc' = "done"
     \/ /\ Held(fix) /\ fix.phase # "allocating" /\ ~fix.creating
        /\ port[fix.req] = 1 /\ \A s \in Slot : server[s] # fix.req
        /\ fix' = [fix EXCEPT !.phase = "deleting"]
        /\ apc' = "pdelete"

PortDelete ==
  /\ AStep("pdelete", "pforget") /\ \A s \in Slot : server[s] # fix.req
  /\ port' = [port EXCEPT ![fix.req] = 0]
  /\ UNCHANGED <<fip, fix, addr, inflight, server, allowed, rowVars>>

PortForget ==
  /\ AStep("pforget", "done") /\ port[fix.req] = 0 /\ fix' = NoRow
  /\ UNCHANGED <<fip, cloudVars, rowVars>>

(***************************************************************************)
(* Workers.  worker_helper gives the bound placement the retained port and *)
(* keeps the storage allowlists with the workers that exist.               *)
(***************************************************************************)
Tgt == arefs[acur].tgt
Bound(s) == Held(fix) /\ fix.slot = s

\* require_maintenance and bind_worker: a retained port moves to another
\* placement only while the application rests and no placement has a worker;
\* a deployment that finds it otherwise fails before it has a candidate.
CanBind ==
  Held(fix) => fix.phase = "reserved" /\ ~placed.running /\ (Bound(Tgt) \/ Present = {})

Prepare ==
  /\ apc = "prepare"
  /\ \/ CanBind /\ apc' = "boot" /\ fix' = IF Held(fix) THEN [fix EXCEPT !.slot = Tgt] ELSE fix
     \/ ~CanBind /\ Is({"deploy"}) /\ apc' = "failed" /\ UNCHANGED fix
  /\ UNCHANGED <<fip, cloudVars, rowVars>>

\* app.worker.observe found no worker: create it.  On the retained port the
\* creation is journaled first and never issued while another is unresolved.
Boot ==
  /\ apc = "boot" /\ Tgt \notin Present
  /\ IF Bound(Tgt)
     THEN /\ ~fix.creating /\ fix' = [fix EXCEPT !.creating = TRUE]
          /\ apc' = "issue" /\ UNCHANGED server
     ELSE server' = [server EXCEPT ![Tgt] = Own] /\ apc' = "booted" /\ UNCHANGED fix
  /\ UNCHANGED <<fip, addr, port, inflight, allowed, rowVars>>

IssueBoot ==
  /\ AStep("issue", "booted")
  /\ inflight' = inflight \cup {<<"boot", Tgt, fix.req>>}
  /\ UNCHANGED <<fip, fix, addr, port, server, allowed, rowVars>>

\* The worker is observed, by the create's answer or by a repeat, on the port
\* the reservation names; the allowlists are then brought up to date.
Booted ==
  /\ apc \in {"boot", "booted"} /\ apc' = "accept"
  /\ Tgt \in Present
  /\ Bound(Tgt) => server[Tgt] = fix.req
  /\ fix' = IF Bound(Tgt) THEN [fix EXCEPT !.creating = FALSE] ELSE fix
  /\ allowed' = Present
  /\ UNCHANGED <<fip, addr, port, inflight, server, rowVars>>

\* The candidate is accepted: mark_operation_finishing and the runtime row.
AcceptWorker ==
  /\ AStep("accept", "handover")
  /\ placed' = [placed EXCEPT !.running = TRUE, !.slot = Tgt]
  /\ areq' = [areq EXCEPT ![acur] = "finishing"]
  /\ UNCHANGED <<fip, fix, cloudVars, arefs, acur, acuts>>

\* An unhealthy candidate's own worker is removed.
RejectWorker ==
  /\ AStep("accept", "revoke") /\ Is({"deploy"})
  /\ UNCHANGED <<fip, fix, cloudVars, rowVars>>

Removing ==
  CASE Is({"delete"})  -> Slot
    [] Is({"disable"}) -> {placed.slot}
    [] Is({"deploy", "enable"}) ->
         IF areq[acur] = "finishing" THEN {arefs[acur].pred} ELSE {Tgt}

\* worker_helper, delete: an unresolved creation is settled by observation,
\* then the storage instances stop admitting the worker before it goes.
RevokeWorker ==
  /\ AStep("revoke", "remove")
  /\ Held(fix) /\ fix.slot \in Removing /\ fix.creating => server[fix.slot] = fix.req
  /\ fix' = IF Held(fix) /\ fix.slot \in Removing THEN [fix EXCEPT !.creating = FALSE] ELSE fix
  /\ allowed' = Present \ Removing
  /\ UNCHANGED <<fip, addr, port, inflight, server, rowVars>>

\* The server and its own port go; Neutron drops an association to that port.
RemoveWorker ==
  /\ apc = "remove"
  /\ server' = [s \in Slot |-> IF s \in Removing THEN Absent ELSE server[s]]
  /\ addr' = [a \in Address |->
       IF On(a) \in Removing THEN [addr[a] EXCEPT !.on = NoSlot] ELSE addr[a]]
  /\ apc' = CASE Is({"delete"}) -> "prelease"
              [] Is({"disable"}) -> "off"
              [] Is({"deploy", "enable"}) ->
                   IF areq[acur] = "finishing" THEN "done" ELSE "failed"
  /\ UNCHANGED <<fip, fix, port, inflight, allowed, rowVars>>

AddrFailed ==
  /\ apc = "failed" /\ AddrEnd("failed") /\ UNCHANGED <<placed, fip, fix, cloudVars>>

\* set_application_runtime(running=False) and the end of the stop.
RuntimeOff ==
  /\ apc = "off" /\ AddrEnd("succeeded")
  /\ placed' = [placed EXCEPT !.running = FALSE]
  /\ UNCHANGED <<fip, fix, cloudVars>>

\* complete_application_deletion, once both reservations are gone.
DeletionDone ==
  /\ apc = "done" /\ Is({"delete"}) /\ AddrEnd("succeeded")
  /\ placed' = [running |-> FALSE, slot |-> NoSlot, deleted |-> TRUE]
  /\ UNCHANGED <<fip, fix, cloudVars>>

(***************************************************************************)
(* The provider performs an accepted create, whoever still waits for it.   *)
(***************************************************************************)
CommitAddress(o) ==
  /\ <<"address", o>> \in inflight /\ inflight' = inflight \ {<<"address", o>>}
  /\ addr' = [addr EXCEPT ![o].copies = @ + 1]
  /\ UNCHANGED <<fip, fix, port, server, allowed, apc, rowVars>>

CommitPort(o) ==
  /\ <<"port", o>> \in inflight /\ inflight' = inflight \ {<<"port", o>>}
  /\ port' = [port EXCEPT ![o] = @ + 1]
  /\ UNCHANGED <<fip, fix, addr, server, allowed, apc, rowVars>>

\* Nova refuses a server on a port that is gone or in use.
CommitBoot(s, o) ==
  /\ <<"boot", s, o>> \in inflight /\ inflight' = inflight \ {<<"boot", s, o>>}
  /\ server' = IF port[o] = 1 /\ \A t \in Slot : server[t] # o
               THEN [server EXCEPT ![s] = o] ELSE server
  /\ UNCHANGED <<fip, fix, addr, port, allowed, apc, rowVars>>

AddrBody ==
  \/ Reserve \/ CreateAddress \/ Adopt \/ HandoverIdle \/ Assigning \/ Assign \/ Confirm
  \/ ReleaseStart \/ Detach \/ Detached \/ DeleteAddress \/ Forget
  \/ PortReserve \/ PortCreate \/ PortAccept \/ PortRelease \/ PortDelete \/ PortForget
  \/ Prepare \/ Boot \/ IssueBoot \/ Booted \/ AcceptWorker \/ RejectWorker
  \/ RevokeWorker \/ RemoveWorker \/ AddrFailed \/ RuntimeOff
  \/ DeletionDone \/ AddrDone

AddrCommit ==
  \E o \in AddrReq : CommitAddress(o) \/ CommitPort(o) \/ \E s \in Slot : CommitBoot(s, o)

AddrNext ==
  \/ \E o \in AddrReq : AddrBegin(o) \/ AddrRepeat(o)
  \/ AddrBody \/ AddrCut \/ AddrCommit

AddrSpec == AddrInit /\ [][AddrNext]_addrVars

\* The lock's holder goes on, the requester repeats an unfinished request, and
\* the provider performs what it has accepted.
AddrFairness ==
  /\ WF_addrVars(AddrBody) /\ WF_addrVars(AddrCommit)
  /\ WF_addrVars(\E o \in AddrReq : AddrRepeat(o))

(***************************************************************************)
(* Properties.                                                             *)
(***************************************************************************)

\* Types of the journal rows and of the provider's state.
AddrTypeOK ==
  /\ Held(fip) => /\ fip.phase \in {"allocating", "reserved", "assigning", "active",
                                     "releasing", "detached", "deleting"}
                   /\ fip.id \in Address /\ {fip.port, fip.pending} \subseteq Slot \cup {NoSlot}
  /\ Held(fix) => /\ fix.phase \in {"allocating", "reserved", "deleting"}
                   /\ fix.req \in AddrReq /\ fix.slot \in Slot \cup {NoSlot}
  /\ \A s \in Slot : server[s] \in {Absent, Own} \cup AddrReq
  /\ allowed \subseteq Slot /\ acuts \in 0..MaxAddrCuts

\* A floating address is only ever on a worker the controller accepted, the
\* current one or the predecessor a finishing deployment has yet to remove,
\* and only where the reservation row says so: never on a candidate, never on
\* a worker that is gone (reconcile_accepted, release_locked).
AddressOnAcceptedWorker ==
  \A a \in Address : On(a) # NoSlot =>
    /\ On(a) \in Present
    /\ Held(fip) /\ fip.id = a /\ On(a) \in {fip.port, fip.pending}
    /\ \/ On(a) = placed.slot
       \/ \E o \in AddrReq : areq[o] = "finishing" /\ On(a) = arefs[o].pred

\* Whatever is cut off and repeated, a reservation owns exactly what was made
\* under its marker: no second address or port, none without its row (also
\* not one the provider has still to make), and the supplied address survives
\* (_recover_allocation, _adopt_result, release_locked and their fixed twins).
NothingLeaked ==
  /\ addr[Supplied].copies = 1
  /\ \A o \in Fresh : addr[o].copies + Cardinality(inflight \cap {<<"address", o>>}) \in
       (IF Held(fip) /\ fip.id = o THEN {0, 1} ELSE {0})
  /\ \A o \in AddrReq : port[o] + Cardinality(inflight \cap {<<"port", o>>}) \in
       (IF Held(fix) /\ fix.req = o THEN {0, 1} ELSE {0})

\* The retained port serves one worker at a time, the one of the placement it
\* is bound to, and outlives it; a worker creation the provider has yet to
\* perform is remembered until observed, so none is issued beside it
\* (worker_helper, bind_worker, release_locked).
RetainedPortSafe ==
  /\ \A s \in Slot : server[s] \notin {Absent, Own} =>
       Held(fix) /\ server[s] = fix.req /\ fix.slot = s /\ port[fix.req] = 1
  /\ \A s \in Slot, o \in AddrReq : <<"boot", s, o>> \in inflight =>
       Held(fix) /\ fix.req = o /\ fix.slot = s /\ fix.creating /\ port[o] = 1

\* The storage instances admit no worker that is gone, and admit the accepted
\* worker whenever the application runs and nothing is under way: the address
\* of a removed worker may be another application's tomorrow
\* (worker_helper's allowlist calls before a removal and after a creation).
AllowlistFollowsWorkers ==
  /\ allowed \subseteq Present
  /\ Unended = {} /\ placed.running => placed.slot \in allowed

\* No worker is removed while an address is still on its port: the handover or
\* the detachment is confirmed first (finish_accepted_operation's order of
\* reconcile_accepted and predecessor cleanup; disable's and delete's order).
WorkerRemovedBare ==
  [][\A s \in Slot : server[s] # Absent /\ server'[s] = Absent =>
       \A a \in Address : On(a) # s]_addrVars

\* What the code leaves to an administrator: a create that never reached the
\* provider, which is never issued again, and the release of a retained port
\* that a worker holds, which blocks the stop that would free it.
LeftToAdministrator ==
  \/ Held(fip) /\ fip.phase = "allocating" /\ addr[fip.id].copies = 0
  \/ Held(fix) /\ fix.phase = "allocating" /\ port[fix.req] = 0
  \/ Held(fix) /\ fix.creating /\ server[fix.slot] = Absent
  \/ Held(fix) /\ \E o \in Unended, s \in Slot :
       AddrKind[o] = "unreserve" /\ server[s] = fix.req

\* Every request ends, however often it was cut off, once its requester
\* repeats it and the provider performs what it accepted; the exceptions are
\* the ones the code means (RecoveryRequired, _recover_allocation, _recover).
\* At most one request is unended, so this is that each one ends.
AddressWorkEnds == []<>(Unended = {} \/ LeftToAdministrator)

=============================================================================
