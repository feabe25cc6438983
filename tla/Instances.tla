------------------------------ MODULE Instances ------------------------------
(***************************************************************************)
(* The instance manager of the storage host (storage_instances.py): a      *)
(* database server per resource, each with a memory cap, a port, an XFS    *)
(* project numbered after the port, and an address list in the firewall.   *)
(*                                                                         *)
(* A request holds its instance's lock throughout and the manager's lock   *)
(* for the sections that read or write other instances; what is slow, a    *)
(* shutdown, a recursive deletion, the wait for readiness, runs outside    *)
(* the manager's lock.  The host can go down between any two steps; the    *)
(* manager then applies every configuration it finds (restore), and the    *)
(* controller repeats the request that has no answer.                      *)
(***************************************************************************)
EXTENDS Integers, FiniteSets, FiniteSetsExt

CONSTANTS Inst, Port, Addr,
          Memory,        \* the memory caps a request can ask for
          Budget,        \* memory_budget
          Maintenance,   \* MAINTENANCE_MEMORY
          RestoreCap,    \* the least cap of a restore
          NoPort,
          MaxInstRequests, MaxDowns

ASSUME InstanceConstants ==
  /\ {Budget, Maintenance, RestoreCap, MaxInstRequests, MaxDowns} \subseteq Nat
  /\ Memory \subseteq Nat \ {0}

VARIABLES
  cfg,      \* config.json of each instance
  trash,    \* the port of the data that lies in each .deleting directory
  record,   \* the port of each .deleting.json
  unit,     \* systemd: the cap in force, running, probed since its last start,
            \* last started to undo a refused reduction
  fw,       \* the firewall's address list of each instance
  asked,    \* the request each instance has from the controller
  doing,    \* where its handler is
  lock,     \* the holder of manager.lock
  up,       \* the manager serves
  iused     \* requests and reboots so far

instVars == <<cfg, trash, record, unit, fw, asked, doing, lock, up, iused>>

NoCfg == [here |-> FALSE, mem |-> 0, acc |-> 0, res |-> 0, size |-> 0, asize |-> 0, port |-> NoPort,
          run |-> FALSE, ready |-> TRUE, allow |-> {}, held |-> {}, restoring |-> 0, restored |-> 0,
          room |-> 0]
Stopped == [cap |-> 0, runs |-> FALSE, probed |-> FALSE, undone |-> FALSE]
NoAsk == [op |-> "none", mem |-> 0, addr |-> {}, n |-> 0]
NoOne == "noone"

\* One instance may have been there for long.
Old(p, mem) == [NoCfg EXCEPT !.here = TRUE, !.mem = mem, !.acc = mem, !.res = mem,
                             !.port = p, !.run = TRUE]
OldUnit(mem) == [cap |-> mem, runs |-> TRUE, probed |-> TRUE, undone |-> FALSE]

InstInit ==
  /\ \/ cfg = [i \in Inst |-> NoCfg] /\ unit = [i \in Inst |-> Stopped]
     \/ \E mem \in Memory :
          LET o == CHOOSE i \in Inst : TRUE
              p == CHOOSE q \in Port : TRUE
          IN  /\ cfg = [i \in Inst |-> IF i = o THEN Old(p, mem) ELSE NoCfg]
              /\ unit = [i \in Inst |-> IF i = o THEN OldUnit(mem) ELSE Stopped]
  /\ trash = [i \in Inst |-> NoPort]
  /\ record = [i \in Inst |-> NoPort]
  /\ fw = [i \in Inst |-> {}]
  /\ asked = [i \in Inst |-> NoAsk]
  /\ doing = [i \in Inst |-> "idle"]
  /\ lock = NoOne
  /\ up = TRUE
  /\ iused = [asks |-> 0, downs |-> 0]

Largest(a, b) == IF a > b THEN a ELSE b
Here == {i \in Inst : cfg[i].here}

-----------------------------------------------------------------------------
(* The callers: the controller, or an operator who restores a backup while *)
(* the controller is offline.  One request per instance at a time, repeated *)
(* until it is answered.                                                   *)

Ask(i, op, mem, addr) ==
  /\ asked[i] = NoAsk
  /\ iused.asks < MaxInstRequests
  /\ iused' = [iused EXCEPT !.asks = @ + 1]
  /\ asked' = [asked EXCEPT ![i] = [op |-> op, mem |-> mem, addr |-> addr, n |-> iused.asks + 1]]
  /\ UNCHANGED <<cfg, trash, record, unit, fw, doing, lock, up>>

\* The controller is offline during a restore, its requests at an end, and a
\* restore takes one instance after the other.
NoRestore == \A j \in Inst : asked[j].op # "restore"

\* The controller knows which instances there are.
Asks ==
  NoRestore /\ \E i \in Inst, mem \in Memory, a \in Addr :
    \/ ~cfg[i].here /\ Ask(i, "create", mem, {a})
    \/ (\A j \in Inst : asked[j] = NoAsk) /\ Ask(i, "restore", mem, {a})
    \/ cfg[i].here /\ \E op \in {"limits", "shrink"} : Ask(i, op, mem, {})
    \/ cfg[i].here /\ \E op \in {"start", "stop", "remove"} : Ask(i, op, 0, {})
    \/ cfg[i].here /\ \E op \in {"add", "drop"} : Ask(i, op, 0, {a})

Wants(i, op) == up /\ asked[i].op = op /\ doing[i] = "idle" /\ lock = NoOne
Step(i, s) == doing' = [doing EXCEPT ![i] = s] /\ UNCHANGED asked
Return(i) == doing' = [doing EXCEPT ![i] = "idle"] /\ asked' = [asked EXCEPT ![i] = NoAsk]
Holding(i) == lock' = i
Unlock == lock' = NoOne
Same == UNCHANGED <<trash, record, up, iused>>

Refuse(i) == Return(i) /\ Same /\ UNCHANGED <<cfg, unit, fw, lock>>

-----------------------------------------------------------------------------
(* What the sections read and write.                                       *)

\* The memory an instance may be using: asked for, accepted, or reserved.
Reserved(c) == Largest(c.mem, Largest(c.acc, c.res))

\* capacity.
capacity(i, mem, extra) ==
  MapThenSumSet(LAMBDA j : Reserved(cfg[j]), Here \ {i}) + mem <= Budget + extra

OccupiedLive(i) == {cfg[j].port : j \in Here}

\* A port is taken until the data behind it is gone.
Occupied(i) == {cfg[j].port : j \in Here} \cup {record[j] : j \in Inst}

\* firewall: one transaction, from every configuration.
Rules(c) == [i \in Inst |-> IF c[i].here THEN c[i].allow ELSE {}]

Save(i, c) == cfg' = [cfg EXCEPT ![i] = c]
Cap(i, c) == unit' = [unit EXCEPT ![i].cap = Largest(c.mem, c.room)]
StartedUnit(u, restart) == IF u.runs /\ ~restart THEN u ELSE [u EXCEPT !.runs = TRUE, !.probed = FALSE,
                                                                   !.undone = FALSE]

-----------------------------------------------------------------------------
(* create and restore-create.                                              *)

Creating(i) == asked[i].op \in {"create", "restore"}

\* No such instance, or one that the request describes.
Fresh(i, p) == [NoCfg EXCEPT !.here = TRUE, !.mem = asked[i].mem, !.acc = asked[i].mem,
                             !.res = asked[i].mem, !.port = p, !.run = TRUE]
Matches(i) == cfg[i].here /\ (asked[i].op = "restore" \/ cfg[i].mem = asked[i].mem)

CreateInstance(i) ==
  /\ Wants(i, "create") \/ Wants(i, "restore")
  /\ \/ /\ capacity(i, asked[i].mem, 0)
        /\ record[i] = NoPort /\ trash[i] = NoPort
        /\ \/ Matches(i) /\ UNCHANGED cfg
           \/ ~cfg[i].here /\ \E p \in Port \ Occupied(i) : Save(i, Fresh(i, p))
        /\ Step(i, "created") /\ Holding(i)
        /\ Same /\ UNCHANGED <<unit, fw>>
     \/ /\ \/ ~capacity(i, asked[i].mem, 0)
           \/ record[i] # NoPort \/ trash[i] # NoPort
           \/ cfg[i].here /\ ~Matches(i)
           \/ ~cfg[i].here /\ Port \ Occupied(i) = {}
        /\ Refuse(i)

\* The address list is the request's, except that a restore keeps one that
\* is already there; its own is empty.
CreateSave(i) ==
  /\ doing[i] = "created"
  /\ Save(i, IF asked[i].op = "create" THEN [cfg[i] EXCEPT !.run = TRUE, !.allow = asked[i].addr]
                                       ELSE cfg[i])
  /\ Step(i, "apply")
  /\ Same /\ UNCHANGED <<unit, fw, lock>>

-----------------------------------------------------------------------------
(* apply.                                                                  *)

\* The XFS limit, the drop-ins, the firewall, and the cap in force.
Apply(i) ==
  /\ doing[i] = "apply"
  /\ fw' = Rules(cfg)
  /\ Cap(i, cfg[i])
  /\ Step(i, IF cfg[i].run THEN "gate" ELSE "applied")
  /\ Same /\ UNCHANGED <<cfg, lock>>

\* The readiness gate is on disk before the unit is started.
Gate(i) ==
  /\ doing[i] = "gate"
  /\ Save(i, [cfg[i] EXCEPT !.ready = FALSE])
  /\ Step(i, "launch")
  /\ Same /\ UNCHANGED <<unit, fw, lock>>

Limiting(i) == asked[i].op \in {"limits", "shrink"}

\* A changed memory cap restarts the server, anything else starts it.
LaunchServer(i) ==
  /\ doing[i] = "launch"
  /\ unit' = [unit EXCEPT ![i] = StartedUnit(@, Limiting(i) /\ cfg[i].acc # cfg[i].mem)]
  /\ Step(i, "applied")
  /\ Same /\ UNCHANGED <<cfg, fw, lock>>

\* limits accepts what was applied; the manager's lock is released.
Applied(i) ==
  /\ doing[i] = "applied"
  /\ Save(i, IF Limiting(i) THEN [cfg[i] EXCEPT !.acc = cfg[i].mem, !.res = cfg[i].mem,
                                                     !.asize = cfg[i].size] ELSE cfg[i])
  /\ Step(i, "probe") /\ Unlock
  /\ Same /\ UNCHANGED <<unit, fw>>

Probed(i) == ~cfg[i].run \/ cfg[i].ready

\* wait_ready, outside the lock; then the gate is cleared.  A restore goes
\* on with its next call.
ProbeServer(i) ==
  /\ doing[i] = "probe" /\ lock = NoOne
  /\ IF Probed(i) THEN UNCHANGED <<cfg, unit>>
                  ELSE /\ Save(i, [cfg[i] EXCEPT !.ready = TRUE])
                       /\ unit' = [unit EXCEPT ![i].probed = TRUE]
  /\ IF asked[i].op = "restore" THEN Step(i, "begin") ELSE Return(i)
  /\ Same /\ UNCHANGED <<fw, lock>>

\* A command fails, or the server does not answer in time (then it is an
\* InstanceNotReadyError): the handler ends, and the caller asks again.
Fail(i) ==
  /\ doing[i] \in {"apply", "launch", "ruled", "closed", "opened", "raise", "load", "lower", "command",
                   "disable", "unlist", "delete"} \/ (doing[i] = "probe" /\ ~Probed(i))
  /\ iused.downs < MaxDowns
  /\ iused' = [iused EXCEPT !.downs = @ + 1]
  /\ lock' = IF lock = i THEN NoOne ELSE lock
  /\ Step(i, "idle")
  /\ UNCHANGED <<cfg, trash, record, unit, fw, up>>

-----------------------------------------------------------------------------
(* limits.  A request that makes the disk quota smaller ("shrink") stops   *)
(* the server to measure it again, unless an earlier attempt has already   *)
(* saved the smaller quota.  A disk quota is named after its request.      *)

Shrinks(i) == asked[i].op = "shrink" /\ cfg[i].size # asked[i].n

Limits(i) ==
  /\ Wants(i, "limits") \/ Wants(i, "shrink")
  /\ \/ /\ capacity(i, asked[i].mem, 0)
        /\ Holding(i)
        /\ IF Shrinks(i)
             THEN /\ unit' = [unit EXCEPT ![i].runs = FALSE]
                  /\ Step(i, "measure")
             ELSE Step(i, "reserve") /\ UNCHANGED unit
        /\ Same /\ UNCHANGED <<cfg, fw>>
     \/ (~capacity(i, asked[i].mem, 0) \/ Shrinks(i)) /\ Refuse(i)

LimitsReserve(i) ==
  /\ doing[i] = "reserve"
  /\ Save(i, [cfg[i] EXCEPT !.mem = asked[i].mem, !.res = Largest(@, asked[i].mem),
                            !.size = IF asked[i].op = "shrink" THEN asked[i].n ELSE @])
  /\ Step(i, IF cfg[i].acc = asked[i].mem /\ cfg'[i].size = cfg[i].asize THEN "kept" ELSE "apply")
  /\ Same /\ UNCHANGED <<unit, fw, lock>>

\* The limits in force already: nothing is applied.
LimitsKept(i) ==
  /\ doing[i] = "kept"
  /\ Step(i, "probe") /\ Unlock
  /\ Same /\ UNCHANGED <<cfg, unit, fw>>


\* A refused reduction puts the server back.
Undo(i) == unit' = [unit EXCEPT ![i] = IF cfg[i].run THEN [@ EXCEPT !.runs = TRUE, !.probed = FALSE,
                                                                    !.undone = TRUE] ELSE @]

Measure(i) ==
  /\ doing[i] = "measure"
  /\ \/ Step(i, "reserve") /\ UNCHANGED <<unit, lock>>
     \/ Undo(i) /\ Return(i) /\ Unlock
  /\ Same /\ UNCHANGED <<cfg, fw>>

-----------------------------------------------------------------------------
(* start, stop, allow.                                                     *)

StartStop(i) ==
  /\ Wants(i, "start") \/ Wants(i, "stop")
  /\ Save(i, IF asked[i].op = "start" THEN [cfg[i] EXCEPT !.run = TRUE, !.ready = FALSE]
                                      ELSE [cfg[i] EXCEPT !.run = FALSE])
  /\ fw' = IF asked[i].op = "start" THEN Rules(cfg) ELSE fw
  /\ Step(i, "command") /\ Holding(i)
  /\ Same /\ UNCHANGED unit

Command(i) ==
  /\ doing[i] = "command"
  /\ unit' = [unit EXCEPT ![i] = IF cfg[i].run THEN StartedUnit(@, FALSE) ELSE [@ EXCEPT !.runs = FALSE]]
  /\ Unlock
  /\ IF cfg[i].run THEN Step(i, "probe") ELSE Return(i)
  /\ Same /\ UNCHANGED <<cfg, fw>>

Moded(i, old) == CASE asked[i].op = "add" -> old \cup asked[i].addr
                   [] asked[i].op = "drop" -> old \ asked[i].addr
                   [] asked[i].op = "restore" -> asked[i].addr

\* While a restore is pending the list is kept for its end.
Allowed(i) == IF cfg[i].restoring # 0 THEN [cfg[i] EXCEPT !.held = Moded(i, @)]
                                      ELSE [cfg[i] EXCEPT !.allow = Moded(i, @)]

Allow(i) ==
  /\ Wants(i, "add") \/ Wants(i, "drop")
  /\ Save(i, Allowed(i))
  /\ Step(i, "ruled") /\ Holding(i)
  /\ Same /\ UNCHANGED <<unit, fw>>

\* The transaction that follows a saved list.
Ruled(i) ==
  /\ doing[i] \in {"ruled", "closed", "opened"}
  /\ fw' = Rules(cfg)
  /\ Unlock
  /\ IF doing[i] = "closed" THEN Step(i, "raise") ELSE Return(i)
  /\ Same /\ UNCHANGED <<cfg, unit>>

-----------------------------------------------------------------------------
(* A restore: restore-create, then these calls.                            *)

Lent(i) == Largest(cfg[i].mem, RestoreCap)

\* restore-begin: this backup is in place already, or the instance is closed
\* and lent maintenance memory.
RestoreBegin(i) ==
  /\ doing[i] = "begin" /\ lock = NoOne
  /\ \/ /\ cfg[i].restored = asked[i].n
        /\ Refuse(i)
     \/ /\ cfg[i].restored # asked[i].n
        /\ IF capacity(i, Lent(i), Maintenance)
             THEN /\ Save(i, [cfg[i] EXCEPT !.held = IF cfg[i].restoring = 0 THEN cfg[i].allow ELSE @,
                                            !.allow = {}, !.restoring = asked[i].n,
                                            !.room = Lent(i), !.res = Lent(i)])
                  /\ Step(i, "closed") /\ Holding(i)
                  /\ Same /\ UNCHANGED <<unit, fw>>
             ELSE Refuse(i)

\* The raised cap; then the dump is loaded.
Raise(i) ==
  /\ doing[i] = "raise"
  /\ Cap(i, cfg[i])
  /\ Step(i, "load")
  /\ Same /\ UNCHANGED <<cfg, fw, lock>>

\* The workers found now are to have access once the restore ends (allow,
\* mode replace).
Load(i) ==
  /\ doing[i] = "load" /\ lock = NoOne
  /\ Save(i, Allowed(i))
  /\ fw' = Rules(cfg')
  /\ Step(i, "lower")
  /\ Same /\ UNCHANGED <<unit, lock>>

LowerNever(i) ==
  /\ doing[i] = "lower"
  /\ Step(i, "finish")
  /\ Same /\ UNCHANGED <<cfg, unit, fw, lock>>

\* restore-finish confirms the normal cap before it gives the memory back.
Lower(i) ==
  /\ doing[i] = "lower"
  /\ unit' = [unit EXCEPT ![i].cap = cfg[i].mem]
  /\ Step(i, "finish")
  /\ Same /\ UNCHANGED <<cfg, fw, lock>>

RestoreFinish(i) ==
  /\ doing[i] = "finish" /\ lock = NoOne
  /\ Save(i, [cfg[i] EXCEPT !.restored = cfg[i].restoring, !.restoring = 0, !.room = 0,
                            !.res = cfg[i].acc, !.allow = cfg[i].held, !.held = {}])
  /\ Step(i, "opened") /\ Holding(i)
  /\ Same /\ UNCHANGED <<unit, fw>>

-----------------------------------------------------------------------------
(* remove.                                                                 *)

RemoveInstance(i) ==
  /\ Wants(i, "remove")
  /\ cfg' = IF cfg[i].here THEN [cfg EXCEPT ![i].run = FALSE] ELSE cfg
  /\ Step(i, "disable")
  /\ Same /\ UNCHANGED <<unit, fw, lock>>

\* disable --now waits for the server to stop.
Disable(i) ==
  /\ doing[i] = "disable"
  /\ unit' = [unit EXCEPT ![i].runs = FALSE]
  /\ Step(i, "record")
  /\ Same /\ UNCHANGED <<cfg, fw, lock>>

\* The port and the project are reserved under a name of their own before
\* the directory that holds them is moved.
Record(i) ==
  /\ doing[i] = "record" /\ lock = NoOne
  /\ record' = [record EXCEPT ![i] = IF cfg[i].here THEN cfg[i].port ELSE @]
  /\ Step(i, "rename") /\ Holding(i)
  /\ UNCHANGED <<cfg, trash, unit, fw, up, iused>>

Rename(i) ==
  /\ doing[i] = "rename"
  /\ cfg' = [cfg EXCEPT ![i] = NoCfg]
  /\ trash' = [trash EXCEPT ![i] = IF cfg[i].here THEN cfg[i].port ELSE @]
  /\ Step(i, "unlist")
  /\ UNCHANGED <<record, unit, fw, lock, up, iused>>

Unlist(i) ==
  /\ doing[i] = "unlist"
  /\ fw' = Rules(cfg)
  /\ Step(i, "delete") /\ Unlock
  /\ Same /\ UNCHANGED <<cfg, unit>>

\* cleanup_deleted.
Delete(i) ==
  /\ doing[i] = "delete"
  /\ trash' = [trash EXCEPT ![i] = NoPort]
  /\ Step(i, "release")
  /\ UNCHANGED <<cfg, record, unit, fw, lock, up, iused>>

ReleasePort(i) ==
  /\ doing[i] = "release" /\ lock = NoOne
  /\ record' = [record EXCEPT ![i] = NoPort]
  /\ unit' = [unit EXCEPT ![i] = Stopped]
  /\ Return(i)
  /\ UNCHANGED <<cfg, trash, fw, lock, up, iused>>

-----------------------------------------------------------------------------
(* The manager, or its host, goes down, and comes back.                    *)

Down ==
  /\ up
  /\ iused.downs < MaxDowns
  /\ iused' = [iused EXCEPT !.downs = @ + 1]
  /\ up' = FALSE
  /\ doing' = [i \in Inst |-> "idle"]
  /\ lock' = NoOne
  /\ \/ UNCHANGED <<unit, fw>>
     \/ unit' = [i \in Inst |-> Stopped] /\ fw' = [i \in Inst |-> {}]
  /\ UNCHANGED <<cfg, trash, record, asked>>

\* restore: apply every configuration, without a restart.
Boot ==
  /\ ~up
  /\ up' = TRUE
  /\ cfg' = [i \in Inst |-> IF cfg[i].here /\ cfg[i].run THEN [cfg[i] EXCEPT !.ready = FALSE] ELSE cfg[i]]
  /\ unit' = [i \in Inst |->
                IF ~cfg[i].here THEN unit[i]
                ELSE LET u == [unit[i] EXCEPT !.cap = Largest(cfg[i].mem, cfg[i].room)]
                     IN  IF cfg[i].run THEN StartedUnit(u, FALSE) ELSE u]
  /\ fw' = Rules(cfg)
  /\ UNCHANGED <<trash, record, asked, doing, lock, iused>>

Handler(i) ==
  \/ CreateInstance(i) \/ CreateSave(i) \/ Apply(i) \/ Gate(i) \/ LaunchServer(i) \/ Applied(i) \/ ProbeServer(i)
  \/ Limits(i) \/ LimitsReserve(i) \/ LimitsKept(i) \/ Measure(i)
  \/ StartStop(i) \/ Command(i) \/ Allow(i) \/ Ruled(i)
  \/ RestoreBegin(i) \/ Raise(i) \/ Load(i) \/ Lower(i) \/ RestoreFinish(i)
  \/ RemoveInstance(i) \/ Disable(i) \/ Record(i) \/ Rename(i) \/ Unlist(i) \/ Delete(i) \/ ReleasePort(i)

InstNext == Asks \/ Down \/ Boot \/ \E i \in Inst : Handler(i) \/ Fail(i)

\* A handler runs on, its locks are granted in turn, systemd restarts the
\* manager, and callers repeat what was not answered.
InstFairness == WF_instVars(Boot) /\ \A i \in Inst : SF_instVars(Handler(i))

InstSpec == InstInit /\ [][InstNext]_instVars /\ InstFairness

-----------------------------------------------------------------------------

Ports == Port \cup {NoPort}
Caps == {0, RestoreCap} \cup Memory

\* Every variable has its type.
InstTypeOK ==
  /\ cfg \in [Inst -> [here : BOOLEAN, mem : Caps, acc : Caps, res : Caps, port : Ports,
                        size : 0 .. MaxInstRequests, asize : 0 .. MaxInstRequests,
                        run : BOOLEAN, ready : BOOLEAN, allow : SUBSET Addr, held : SUBSET Addr,
                        restoring : 0 .. MaxInstRequests, restored : 0 .. MaxInstRequests, room : Caps]]
  /\ trash \in [Inst -> Ports] /\ record \in [Inst -> Ports]
  /\ unit \in [Inst -> [cap : Caps, runs : BOOLEAN, probed : BOOLEAN, undone : BOOLEAN]]
  /\ fw \in [Inst -> SUBSET Addr]
  /\ lock \in Inst \cup {NoOne}
  /\ up \in BOOLEAN

\* The memory caps in force on the running servers fit the host's budget at
\* every moment of every request, with the maintenance memory only while a
\* restore is pending, whatever was interrupted before.  (capacity counts the
\* largest of the limits asked for, accepted and reserved.)
CapsFit ==
  MapThenSumSet(LAMBDA i : unit[i].cap, {i \in Inst : unit[i].runs})
    <= Budget + (IF \E i \in Inst : cfg[i].restoring # 0 THEN Maintenance ELSE 0)

DataPort(i) == {cfg[i].port, trash[i]} \ {NoPort}

\* No two instances' data share a port, and so an XFS project, even while a
\* deletion has not yet removed one of them.  (create skips the ports of the
\* .deleting.json records.)
PortsApart == \A i, j \in Inst : i # j => DataPort(i) \cap DataPort(j) = {}

\* From restore-begin to restore-finish no worker reaches the instance: not by
\* the addresses set for its end, and not when the restore is repeated after a
\* reboot or a failed command.
RestoringIsClosed ==
  \A i \in Inst : doing[i] \in {"raise", "load", "lower", "finish"} => fw[i] = {}

\* The firewall of a running server without an open request is what its
\* configuration says: a revoked address is out, whatever failed on the way.
RulesAreCurrent ==
  up => \A i \in Inst : unit[i].runs /\ asked[i] = NoAsk => fw[i] = Rules(cfg)[i]

\* A create, start or limits request that succeeds has seen the server answer
\* since its last start, also when an earlier attempt was lost between the
\* start and the probe.  The one start without a gate is the one that undoes
\* a refused reduction.
AnsweredIsProbed ==
  [][\A i \in Inst : /\ doing[i] = "probe" /\ asked[i] # NoAsk /\ asked'[i] = NoAsk
                     /\ cfg[i].run
        => unit'[i].runs /\ (unit'[i].probed \/ unit'[i].undone)]_instVars

\* Every request is answered in the end, and then every server that is to run
\* runs: a refused reduction does not leave it stopped.
ServersRun ==
  []<>(\A i \in Inst : asked[i] = NoAsk /\ (cfg[i].here => cfg[i].run = unit[i].runs))

\* Every state of the instances of a storage host: within the memory, on ports
\* of their own, closed while restored, and behind the rules configured.
InstancesSafe ==
  InstTypeOK /\ CapsFit /\ PortsApart /\ RestoringIsClosed /\ RulesAreCurrent
=============================================================================
