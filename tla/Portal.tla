------------------------------- MODULE Portal -------------------------------
(***************************************************************************)
(* The portal's journal of intents (management/broker/journal.py, and the  *)
(* admission in api.py, resources.py and app_management.py).  A request is *)
(* admitted by writing an intent in a database transaction; the intent is  *)
(* then sent to the controller outside any transaction, under a lease, and *)
(* the answer is written back in a second transaction.  A recovery thread  *)
(* repeats what is unfinished with the same controller key.  Several       *)
(* threads do this at once, answers are lost or late, the process dies.    *)
(*                                                                         *)
(* One application is modelled; people are its owner, a teammate and the   *)
(* administrators.  The controller is seen through its answers only.       *)
(***************************************************************************)
EXTENDS Naturals, FiniteSets

CONSTANTS Thread,        \* request threads and the recovery thread
          Create,        \* the one intent that creates the application
          Deploys,       \* intents to deploy
          Edits,         \* intents to set an environment variable
          Deletes,       \* intents to delete the application
          Owner, Mate,   \* the owner and a teammate
          Admins,        \* administrators
          NoThread,      \* no lease
          Asks,          \* the sets of intents one behaviour may have
          MaxMishaps     \* lost requests and answers, leases run out under a call, crashes,
                         \* Resume presses, values entered again and changes to people, in one behaviour

Intent == {Create} \cup Deploys \cup Edits \cup Deletes
Person == {Owner, Mate} \cup Admins

ASSUME PortalConstants ==
  /\ MaxMishaps \in Nat
  /\ Asks \subseteq SUBSET Intent
  /\ NoThread \notin Thread
  /\ Owner # Mate /\ {Owner, Mate} \cap Admins = {}
  /\ Create \notin Deploys \cup Edits \cup Deletes
  /\ Deploys \cap Edits = {} /\ Deploys \cap Deletes = {} /\ Edits \cap Deletes = {}

VARIABLES
  lifecycle,  \* the application's row in the broker's database
  row,        \* the intents' rows
  team,       \* is the teammate a member, which administrators are active, and
              \* what these people will ask for
  thread,     \* what each thread is doing
  ctl,        \* the controller: the application and one operation per key
  wire,       \* requests given up by their thread and not yet handled
  odd,        \* a call was taken over, or a request overtaken, by a later one
  spent       \* mishaps so far

pvars == <<lifecycle, row, team, thread, ctl, wire, odd, spent>>

Idle == [at |-> "idle", i |-> Create, who |-> Owner, body |-> FALSE, saw |-> "none",
         to |-> "none", opid |-> FALSE, fin |-> FALSE]

NoRow == [state |-> "none", lease |-> NoThread, by |-> Owner, opid |-> FALSE, fin |-> FALSE]

Settled == {"succeeded", "failed"}
OpOpen == {"running", "recovery", "unclean"}

PortalInit ==
  /\ team \in [mate: {TRUE}, active: {Admins}, asks: Asks]
  /\ LET new == Create \in team.asks IN
     /\ lifecycle = IF new THEN "none" ELSE "ready"
     /\ row = [i \in Intent |-> [NoRow EXCEPT !.state =
                 IF i = Create /\ ~new THEN "succeeded" ELSE "none"]]
     /\ ctl = [app |-> IF new THEN "none" ELSE "present", op |-> [i \in Intent |-> "none"]]
  /\ thread = [t \in Thread |-> Idle]
  /\ wire = {}
  /\ odd = FALSE
  /\ spent = 0

Mishap ==
  /\ spent < MaxMishaps
  /\ spent' = spent + 1

-----------------------------------------------------------------------------
(* Admission.                                                              *)

\* The ACCESS clause of own() and record(): the owner or a member; the routes of
\* administrators check the role instead.
Access(w) == \/ w = Owner
             \/ w = Mate /\ team.mate
             \/ w \in team.active

\* own(): the actor, the application and access to it, read before the transaction.  The
\* owner's requests are those of a teammate who is never removed.
Own(t, i, w) ==
  /\ thread[t].at = "idle"
  /\ row[i].state = "none"
  /\ i \in team.asks \ {Create}
  /\ IF i \in Deletes THEN w \in Admins ELSE w = Mate
  /\ lifecycle \notin {"none", "deleted"}
  /\ Access(w)
  /\ thread' = [thread EXCEPT ![t] = [Idle EXCEPT !.at = "asked", !.i = i, !.who = w]]
  /\ UNCHANGED <<lifecycle, row, team, ctl, wire, odd, spent>>

\* operation_quota: an intent that is not settled holds the application, unless its
\* deployment was accepted and only cleanup is left.
Holds(i) ==
  /\ i # Create
  /\ row[i].state \notin {"none"} \cup Settled
  /\ ~(i \in Deploys /\ row[i].state \in {"accepted", "blocked"} /\ row[i].fin)

operation_quota == \A i \in Intent: ~Holds(i)

\* record()'s second look at the application and the actor, in the transaction.
Recheck(i, w) ==
  /\ lifecycle # "deleted"
  /\ Access(w)

\* record()'s insert, and on to dispatch(); an edit's value stays with this request.
Insert(t, i, w) ==
  /\ row' = [row EXCEPT ![i] = [NoRow EXCEPT !.state = "prepared", !.by = w]]
  /\ thread' = [thread EXCEPT ![t] = [Idle EXCEPT !.at = "go", !.i = i, !.body = i \in Edits]]

\* The write transaction of a handler: the intent is recorded under its own client key,
\* or the request is refused and leaves nothing.
Admit(t, may) ==
  LET i == thread[t].i  w == thread[t].who
      good == row[i].state = "none" /\ may /\ operation_quota /\ Recheck(i, w)
  IN /\ \/ good /\ Insert(t, i, w)
        \/ ~good /\ thread' = [thread EXCEPT ![t] = Idle] /\ row' = row
     /\ UNCHANGED <<lifecycle, team, ctl, wire, odd, spent>>

Deploy(t) == thread[t].at = "asked" /\ thread[t].i \in Deploys /\ Admit(t, lifecycle = "ready")

mutate_environment(t) == thread[t].at = "asked" /\ thread[t].i \in Edits /\ Admit(t, TRUE)

\* delete_application: the administrator's role is checked again in the transaction.
delete_application(t) ==
  thread[t].at = "asked" /\ thread[t].i \in Deletes /\ Admit(t, thread[t].who \in team.active)

Record(t) == Deploy(t) \/ mutate_environment(t) \/ delete_application(t)

\* create(): the application's row and its intent in one transaction.
CreateApp(t) ==
  /\ thread[t].at = "idle"
  /\ lifecycle = "none"
  /\ lifecycle' = "creating"
  /\ Insert(t, Create, Owner)
  /\ UNCHANGED <<team, ctl, wire, odd, spent>>

\* The same request again, with the same client key: existing() finds the intent and
\* the handler dispatches it; an edit's value comes with the request.  For the other
\* kinds this is what the recovery thread does.
Again(t, i) ==
  /\ thread[t].at = "idle"
  /\ i \in Edits
  /\ row[i].state \notin {"none"} \cup Settled
  /\ row[i].lease = NoThread
  /\ lifecycle # "deleted"
  /\ Access(row[i].by)
  /\ Mishap
  /\ thread' = [thread EXCEPT ![t] = [Idle EXCEPT !.at = "go", !.i = i, !.body = TRUE]]
  /\ UNCHANGED <<lifecycle, row, team, ctl, wire, odd>>

\* resume(): never for an edit, whose value is not stored.
Resume(t, i, w) ==
  /\ thread[t].at = "idle"
  /\ row[i].state \in {"blocked", "unknown"}
  /\ i \notin Edits
  /\ lifecycle # "deleted"
  /\ w \in team.active \/ (i \notin Deletes /\ w = Mate /\ Access(w))
  /\ Mishap
  /\ row' = [row EXCEPT ![i].state = "prepared",
                        ![i].by = IF i \in Deletes THEN w ELSE @]
  /\ thread' = [thread EXCEPT ![t] = [Idle EXCEPT !.at = "go", !.i = i]]
  /\ UNCHANGED <<lifecycle, team, ctl, wire, odd>>

ReconcileKnown(t, i) ==
  /\ thread[t].at = "idle"
  /\ row[i].state \in {"prepared", "accepted"}
  /\ i \in Edits => row[i].state = "accepted"
  /\ row[i].lease = NoThread
  /\ thread' = [thread EXCEPT ![t] = [Idle EXCEPT !.at = "go", !.i = i]]
  /\ UNCHANGED <<lifecycle, row, team, ctl, wire, odd, spent>>

\* reconcile(): what the recovery thread picks.
Reconcile(t, i) ==
  /\ thread[t].at = "idle"
  /\ row[i].state \in {"prepared", "unknown", "accepted"}
  /\ i \in Edits => row[i].state = "accepted"
  /\ row[i].lease = NoThread
  /\ row[i].by \in Admins \ team.active => row[i].state = "accepted"
  /\ thread' = [thread EXCEPT ![t] = [Idle EXCEPT !.at = "go", !.i = i]]
  /\ UNCHANGED <<lifecycle, row, team, ctl, wire, odd, spent>>

-----------------------------------------------------------------------------
(* dispatch().                                                             *)

\* The states in which the first transaction lets a dispatch through.
Dispatchable(i, body) ==
  /\ \/ row[i].state \in {"prepared", "unknown", "accepted"}
     \/ i \in Edits /\ row[i].state = "blocked" /\ body
  /\ i \in Edits /\ row[i].state # "accepted" => body

\* The last person to approve a deletion is still an active administrator.
Approved(i) ==
  \/ i \notin Deletes
  \/ row[i].state = "accepted"
  \/ row[i].by \in team.active

\* A thread between its two transactions on an intent.
InFlight(t, i) == thread[t].at \in {"call", "write"} /\ thread[t].i = i

\* The first transaction: leave, block for review, or take the lease.
Lease(t) ==
  LET i == thread[t].i IN
  /\ thread[t].at = "go"
  /\ \/ /\ row[i].lease # NoThread \/ ~Dispatchable(i, thread[t].body)
        /\ thread' = [thread EXCEPT ![t] = Idle]
        /\ UNCHANGED <<row, odd>>
     \/ /\ row[i].lease = NoThread
        /\ Dispatchable(i, thread[t].body)
        /\ ~Approved(i)
        /\ row' = [row EXCEPT ![i].state = "blocked"]
        /\ thread' = [thread EXCEPT ![t] = Idle]
        /\ odd' = odd
     \/ /\ row[i].lease = NoThread
        /\ Dispatchable(i, thread[t].body)
        /\ Approved(i)
        /\ row' = [row EXCEPT ![i].lease = t]
        /\ thread' = [thread EXCEPT ![t] =
             [@ EXCEPT !.at = "call", !.saw = row[i].state, !.opid = row[i].opid,
                       !.fin = row[i].fin]]
        /\ odd' = (odd \/ \E u \in Thread \ {t}: InFlight(u, i))
  /\ UNCHANGED <<lifecycle, team, ctl, wire, spent>>

Polls(t) == thread[t].saw = "accepted" /\ thread[t].opid

\* What the controller does with a POST, and its answer.  A key it has seen gets its
\* operation back, resubmitted if it waits for recovery.
Answers(i) ==
  LET same == [ctl |-> ctl, answer |-> "accepted"]
      started == [ctl |-> [ctl EXCEPT !.op[i] = "running"], answer |-> "accepted"]
      rejected == [ctl |-> ctl, answer |-> "rejected"]
  IN CASE i = Create /\ ctl.app = "none" ->
            {[ctl |-> [ctl EXCEPT !.app = "present"], answer |-> "created"], rejected}
       [] i = Create /\ ctl.app = "present" -> {[ctl |-> ctl, answer |-> "created"]}
       [] i = Create /\ ctl.app = "gone" -> {rejected}
       [] i # Create /\ ctl.op[i] = "recovery" -> {started}
       [] i # Create /\ ctl.op[i] = "stuck" ->
            {[ctl |-> [ctl EXCEPT !.op[i] = "finishing"], answer |-> "accepted"]}
       [] i \in Deletes /\ ctl.op[i] \notin {"none", "recovery", "stuck"} -> {same}
       [] i \notin Deletes \cup {Create} /\ ctl.op[i] \notin {"none", "recovery", "stuck"} ->
            IF ctl.app = "gone" THEN {rejected} ELSE {same}
       [] i # Create /\ ctl.op[i] = "none" ->
            IF ctl.app # "present" THEN {rejected}
            ELSE IF \E j \in Intent \ {i}: ctl.op[j] \in OpOpen
                 THEN {[ctl |-> ctl, answer |-> "conflict"]}
            ELSE IF i \in Deletes /\ \E j \in Intent: ctl.op[j] \in {"finishing", "stuck"}
                 THEN {rejected}                   \* POST_ACCEPTANCE_CONFLICT
            ELSE {started, rejected}

\* The intent's state after an answer to the POST.
PostState(answer) ==
  CASE answer = "created" -> "succeeded"
    [] answer = "accepted" -> "accepted"
    [] answer = "conflict" -> "blocked"
    [] answer = "rejected" -> "failed"
    [] answer = "unavailable" -> "unknown"

PollStateUnclean(op) ==
  CASE op \in {"running", "finishing"} -> "accepted"
    [] op \in {"recovery", "stuck"} -> "blocked"
    [] op = "unclean" -> "failed"
    [] op \in Settled -> op

\* The intent's state after reading its operation.
PollState(op) ==
  CASE op \in {"running", "finishing"} -> "accepted"
    [] op \in {"recovery", "stuck", "unclean"} -> "blocked"
    [] op \in Settled -> op

Answered(t, to, opid, fin) ==
  thread' = [thread EXCEPT ![t] = [@ EXCEPT !.at = "write", !.to = to, !.opid = opid, !.fin = fin]]

\* GET of an accepted operation; without an answer the intent stays as it was.
Poll(t) ==
  LET i == thread[t].i IN
  /\ thread[t].at = "call"
  /\ Polls(t)
  /\ \/ /\ Answered(t, PollState(ctl.op[i]), TRUE, ctl.op[i] \in {"finishing", "stuck"})
        /\ spent' = spent
     \/ /\ Mishap
        /\ Answered(t, "accepted", TRUE, thread[t].fin)
  /\ UNCHANGED <<lifecycle, row, team, ctl, wire, odd>>

\* The first request, or a repetition under the same controller key.
Post(t) ==
  LET i == thread[t].i IN
  /\ thread[t].at = "call"
  /\ ~Polls(t)
  /\ \/ \E a \in Answers(i):
          /\ ctl' = a.ctl
          /\ Answered(t, PostState(a.answer), thread[t].opid \/ a.answer = "accepted", thread[t].fin)
          /\ UNCHANGED <<wire, spent>>
     \/ \E a \in Answers(i):                       \* handled, the answer lost
          /\ Mishap
          /\ ctl' = a.ctl
          /\ Answered(t, "unknown", thread[t].opid, thread[t].fin)
          /\ wire' = wire
     \/ /\ Mishap                  \* not handled, now or ever
        /\ Answered(t, "unknown", thread[t].opid, thread[t].fin)
        /\ UNCHANGED <<ctl, wire>>
     \/ /\ Mishap                  \* handled after the caller gave up
        /\ Answered(t, "unknown", thread[t].opid, thread[t].fin)
        /\ wire' = wire \cup {i}
        /\ ctl' = ctl
  /\ UNCHANGED <<lifecycle, row, team, odd>>

\* retire_app: the tombstone; members go, what had not reached the controller fails.
retire_app(rows) ==
  [i \in Intent |->
     IF i \notin Deletes /\ rows[i].state \in {"prepared", "unknown", "blocked"}
     THEN [rows[i] EXCEPT !.state = "failed", !.lease = NoThread]
     ELSE rows[i]]

\* The second transaction, whatever happened to the row in between.
WriteBack(t) ==
  LET i == thread[t].i
      to == thread[t].to
      rows == [row EXCEPT ![i] = [@ EXCEPT !.state = to, !.lease = NoThread,
                                           !.opid = thread[t].opid, !.fin = thread[t].fin]]
  IN
  /\ thread[t].at = "write"
  /\ thread' = [thread EXCEPT ![t] = Idle]
  /\ \/ /\ i \in Deletes /\ to = "succeeded"
        /\ row' = retire_app(rows)
        /\ lifecycle' = "deleted"
        /\ team' = [team EXCEPT !.mate = FALSE]
     \/ /\ ~(i \in Deletes /\ to = "succeeded")
        /\ row' = rows
        /\ lifecycle' = IF i = Create /\ to = "succeeded" THEN "ready"
                        ELSE IF i = Create /\ to = "failed" THEN "rejected"
                        ELSE lifecycle
        /\ team' = team
  /\ UNCHANGED <<ctl, wire, odd, spent>>

\* observe_deleted: a ready application the controller no longer knows.
observe_deleted ==
  /\ lifecycle = "ready"
  /\ ctl.app = "gone"
  /\ lifecycle' = "deleted"
  /\ row' = retire_app(row)
  /\ team' = [team EXCEPT !.mate = FALSE]
  /\ UNCHANGED <<thread, ctl, wire, odd, spent>>

-----------------------------------------------------------------------------
(* The controller, the clock, people and faults.                           *)

\* A request handled after its caller gave up; it is odd if a later one was answered
\* for good.
Late(i) ==
  /\ i \in wire
  /\ wire' = wire \ {i}
  /\ \E a \in Answers(i): ctl' = a.ctl
  /\ odd' = (odd \/ row[i].state \in Settled
                  \/ \E t \in Thread: InFlight(t, i) /\ thread[t].to \in Settled)
  /\ UNCHANGED <<lifecycle, row, team, thread, spent>>

\* Every operation ends, is left for recovery, or has been accepted and is finishing.
OperationMoves(i) ==
  LET becomes(s) == ctl' = [ctl EXCEPT !.op[i] = s,
                                       !.app = IF i \in Deletes /\ s = "succeeded" THEN "gone" ELSE @]
  IN
  /\ \/ /\ ctl.op[i] = "running"
        /\ \E s \in (IF i \in Deploys THEN {"finishing"} ELSE {"succeeded"})
                      \cup {"failed", "unclean", "recovery"}: becomes(s)
     \/ /\ ctl.op[i] = "finishing"
        /\ \E s \in {"succeeded", "stuck"}: becomes(s)
     \/ /\ ctl.op[i] = "unclean"
        /\ becomes("failed")
  /\ UNCHANGED <<lifecycle, row, team, thread, wire, odd, spent>>

\* now passes the lease of a call that takes longer than timeout + 5 seconds.
Expire(t) ==
  /\ thread[t].at \in {"call", "write"}
  /\ row[thread[t].i].lease = t
  /\ Mishap
  /\ row' = [row EXCEPT ![thread[t].i].lease = NoThread]
  /\ UNCHANGED <<lifecycle, team, thread, ctl, wire, odd>>

\* The lease of a process that died runs out.
ExpireOrphan(i) ==
  /\ row[i].lease # NoThread
  /\ ~InFlight(row[i].lease, i)
  /\ row' = [row EXCEPT ![i].lease = NoThread]
  /\ UNCHANGED <<lifecycle, team, thread, ctl, wire, odd, spent>>

\* The process dies: its threads are gone, the database stays.
Crash ==
  /\ \E t \in Thread: thread[t].at # "idle"
  /\ Mishap
  /\ thread' = [t \in Thread |-> Idle]
  /\ UNCHANGED <<lifecycle, row, team, ctl, wire, odd>>

\* members.remove, and change() disabling an administrator.
RemoveMate ==
  /\ team.mate
  /\ Mishap
  /\ team' = [team EXCEPT !.mate = FALSE]
  /\ UNCHANGED <<lifecycle, row, thread, ctl, wire, odd>>

DisableAdmin(a) ==
  /\ a \in team.active
  /\ Mishap
  /\ team' = [team EXCEPT !.active = @ \ {a}]
  /\ UNCHANGED <<lifecycle, row, thread, ctl, wire, odd>>

-----------------------------------------------------------------------------
Threads == \E t \in Thread: Lease(t) \/ Poll(t) \/ Post(t) \/ WriteBack(t) \/ Record(t)

PortalNext ==
  \/ Threads
  \/ \E t \in Thread: \/ CreateApp(t)
                      \/ Expire(t)
                      \/ \E i \in Intent: \/ \E w \in Person: Own(t, i, w) \/ Resume(t, i, w)
                                          \/ Again(t, i)
                                          \/ Reconcile(t, i)
  \/ \E i \in Intent: Late(i) \/ OperationMoves(i) \/ ExpireOrphan(i)
  \/ observe_deleted
  \/ Crash \/ RemoveMate
  \/ \E a \in Admins: DisableAdmin(a)

\* A started dispatch goes on; the recovery thread comes back to every unfinished intent;
\* the controller works on what it accepted; leases run out.
PortalFairness ==
  /\ \A t \in Thread: WF_pvars(Lease(t) \/ Poll(t) \/ Post(t) \/ WriteBack(t) \/ Record(t))
  /\ SF_pvars(\E t \in Thread, i \in Intent: Reconcile(t, i))
  /\ WF_pvars(\E i \in Intent: OperationMoves(i))
  /\ WF_pvars(\E i \in Intent: ExpireOrphan(i))
  /\ WF_pvars(observe_deleted)

PortalSpec == PortalInit /\ [][PortalNext]_pvars /\ PortalFairness

-----------------------------------------------------------------------------
\* Every variable has its type.
PortalTypeOK ==
  /\ lifecycle \in {"none", "creating", "ready", "rejected", "deleted"}
  /\ \A i \in Intent:
       /\ row[i].state \in {"none", "prepared", "unknown", "accepted", "blocked"} \cup Settled
       /\ row[i].lease \in Thread \cup {NoThread}
       /\ row[i].by \in Person
       /\ row[i].opid \in BOOLEAN /\ row[i].fin \in BOOLEAN
       /\ ctl.op[i] \in {"none", "finishing", "stuck"} \cup OpOpen \cup Settled
  /\ ctl.app \in {"none", "present", "gone"}
  /\ team.mate \in BOOLEAN /\ team.active \subseteq Admins
  /\ \A t \in Thread: thread[t].at \in {"idle", "asked", "go", "call", "write"}
  /\ wire \subseteq Intent
  /\ odd \in BOOLEAN

\* What the portal shows as succeeded did succeed at the controller, whatever was lost,
\* repeated or written back late (journal.py dispatch).
SucceededIsTrue ==
  \A i \in Intent: row[i].state = "succeeded" =>
    IF i = Create THEN ctl.app # "none" ELSE ctl.op[i] = "succeeded"

\* What the portal shows as failed on a live application has no operation left at the
\* controller, in particular none whose cleanup is uncertain - unless an answer was
\* overtaken (journal.py: "An uncertain cleanup is still a held application scope").
FailedIsOver ==
  \A i \in Intent \ {Create}:
    ~odd /\ ctl.app = "present" /\ row[i].state = "failed" /\ i \notin wire
      => ctl.op[i] \in {"none", "failed"}

\* One change at a time: of the intents that are not settled, at most one is short of
\* acceptance (resources.py operation_quota), unless an answer was overtaken.
ShortOfAcceptance(i) ==
  /\ i # Create
  /\ row[i].state \notin {"none"} \cup Settled
  /\ ctl.op[i] \notin {"finishing", "stuck", "succeeded", "failed"}

OneChange ==
  ~odd => Cardinality({i \in Intent: ShortOfAcceptance(i)}) <= 1

\* An edit is never sent without its value: the value lives only in the request that
\* brought it, and recovery may find the intent in another state than the one it picked
\* (journal.py dispatch, mutate_environment).
ValueSent ==
  \A t \in Thread:
    thread[t].at = "call" /\ thread[t].i \in Edits /\ ~Polls(t) => thread[t].body

\* An intent is recorded only for someone who has access at that moment, although own()
\* looked before the transaction (api.py record).
RecordedWithAccess ==
  [][\A i \in Intent \ {Create}:
       row[i].state = "none" /\ row'[i].state # "none" => Access(row'[i].by)]_pvars

\* A late answer to the creation can show a deleted application as ready; the scan puts
\* that right (journal.py observe_deleted, reconcile_apps).
DeletionIsNoticed ==
  (lifecycle = "ready" /\ ctl.app = "gone") ~> (lifecycle # "ready")

\* Every intent settles, or waits for a person: blocked for review, an edit whose value
\* must be entered again, or one whose administrator is no longer active.
WaitsForPerson(i) ==
  \/ row[i].state = "blocked"
  \/ i \in Edits /\ row[i].state \in {"prepared", "unknown"}
  \/ row[i].by \in Admins \ team.active

IntentsSettle ==
  []<>(\A i \in Intent: row[i].state \in {"none"} \cup Settled \/ WaitsForPerson(i))

\* Every state of the journal of intents against the controller's.
PortalSafe == PortalTypeOK /\ SucceededIsTrue /\ FailedIsOver /\ OneChange /\ ValueSent
=============================================================================
