------------------------------ MODULE Settings ------------------------------
(***************************************************************************)
(* What people change about an application in the portal's own database:   *)
(* its saved configuration with the storage bindings, its owner and its    *)
(* team (management/broker: api.py save and validate_bindings, members.py, *)
(* app_management.py reassign and delete_storage, resources.py             *)
(* mutate_environment).  Every handler first looks at the application      *)
(* (own) and writes later, in one write transaction; save() also reads the *)
(* controller, twice, while it holds that transaction.  What the portal    *)
(* asked the controller to do takes effect at any time.                    *)
(***************************************************************************)
EXTENDS Naturals, FiniteSets

CONSTANTS Handler,           \* requests being handled
          Resource, Name,    \* storage resources and environment names
          Staff,             \* a member of staff
          People,            \* those who can own the application or be on its team
          NoHandler,
          MaxTeam,           \* MAXIMUM_MEMBERS
          MaxRequests        \* requests in one behaviour

ASSUME SettingsConstants ==
  /\ MaxTeam \in Nat /\ MaxRequests \in Nat
  /\ Staff \notin People /\ NoHandler \notin Handler

\* Intents to set or delete a variable and to delete a resource.
Change == [kind : {"env_set", "env_delete"}, x : Name] \cup [kind : {"storage_delete"}, x : Resource]

VARIABLES
  saved,    \* the configuration: its revision, the one it was edited from, its bindings
  people,   \* the owner and the members
  change,   \* the intents: none, open, applied or refused by the controller, settled
  there,    \* at the controller: resources and environment names
  req,      \* the requests being handled
  writer,   \* who holds the write transaction
  asked     \* requests so far

settingsVars == <<saved, people, change, there, req, writer, asked>>

Resting == [at |-> "idle", who |-> Staff, owner |-> Staff, rev |-> 0, arg |-> Staff,
            bound |-> {}, res |-> {}, env |-> {}]

SettingsInit ==
  /\ saved = [rev |-> 0, base |-> 0, bound |-> {}]
  /\ people \in [owner: People, members: {{}}]
  /\ change = [c \in Change |-> "none"]
  /\ there = [res |-> Resource, env |-> {}]
  /\ req = [h \in Handler |-> Resting]
  /\ writer = NoHandler
  /\ asked = 0

Free == writer = NoHandler
Unsettled(c) == change[c] \in {"open", "applied", "refused"}
Keep(h) == req' = [req EXCEPT ![h] = Resting]

\* The ACCESS clause, or the role of staff.
Admitted(who) == who \in {people.owner, Staff} \cup people.members

\* own(): who asks, and the application as it is now.
Look(h, who, step, arg, bound) ==
  /\ req[h].at = "idle"
  /\ asked < MaxRequests
  /\ asked' = asked + 1
  /\ Admitted(who)
  /\ req' = [req EXCEPT ![h] = [Resting EXCEPT !.at = step, !.who = who, !.owner = people.owner,
                                               !.rev = saved.rev, !.arg = arg, !.bound = bound]]
  /\ UNCHANGED <<saved, people, change, there, writer>>

\* add: only for the owner and staff, as own() saw them.
AskAdd(h) == \E who \in {people.owner, Staff}, p \in People: Look(h, who, "add", p, {})

\* remove: a member may leave, the owner and staff may remove anyone.
AskRemove(h) ==
  \E who \in {people.owner, Staff} \cup people.members, p \in People:
    (who \in people.members => p = who) /\ Look(h, who, "remove", p, {})

AskReassign(h) == \E p \in People: Look(h, Staff, "reassign", p, {})

AskSave(h) ==
  \E who \in {people.owner, Staff} \cup people.members, b \in SUBSET (Resource \X Name):
    Look(h, who, "save", who, b)

AskChange(h) ==
  \E who \in {people.owner, Staff} \cup people.members, c \in Change:
    /\ c.kind = "storage_delete" => who = Staff /\ c.x \in there.res
    /\ change[c] = "none"
    /\ Look(h, who, "change", c, {})

\* members.add: the person is not the owner own() saw, and the team is not full.
Add(h) ==
  LET p == req[h].arg IN
  /\ req[h].at = "add"
  /\ Free
  /\ people' = IF p # req[h].owner /\ p \notin people.members
                  /\ Cardinality(people.members) < MaxTeam
               THEN [people EXCEPT !.members = @ \cup {p}]
               ELSE people
  /\ Keep(h)
  /\ UNCHANGED <<saved, change, there, writer, asked>>

Remove(h) ==
  /\ req[h].at = "remove"
  /\ Free
  /\ people' = [people EXCEPT !.members = @ \ {req[h].arg}]
  /\ Keep(h)
  /\ UNCHANGED <<saved, change, there, writer, asked>>

\* reassign: the owner is still the one staff saw, and nothing is unfinished.
Reassign(h) ==
  /\ req[h].at = "reassign"
  /\ Free
  /\ people' = IF people.owner = req[h].owner /\ \A c \in Change: ~Unsettled(c)
               THEN [owner |-> req[h].arg, members |-> people.members \ {req[h].arg}]
               ELSE people
  /\ Keep(h)
  /\ UNCHANGED <<saved, change, there, writer, asked>>

-----------------------------------------------------------------------------
\* The environment names and the resources open intents are about.
PendingNames == {c.x : c \in {d \in Change: d.kind = "env_set" /\ Unsettled(d)}}
Deleting == {c.x : c \in {d \in Change: d.kind = "storage_delete" /\ Unsettled(d)}}

\* save(), within its write transaction: storage_resources, then environment_metadata.
SaveResources(h) ==
  /\ req[h].at = "save"
  /\ Free
  /\ writer' = h
  /\ req' = [req EXCEPT ![h].at = "names", ![h].res = there.res]
  /\ UNCHANGED <<saved, people, change, there, asked>>

SaveNames(h) ==
  /\ req[h].at = "names"
  /\ req' = [req EXCEPT ![h].at = "write", ![h].env = there.env]
  /\ UNCHANGED <<saved, people, change, there, writer, asked>>

validate_bindingsSeen(h) ==
  \A b \in req[h].bound: b[1] \in req[h].res /\ b[2] \notin req[h].env

validate_bindings(h) ==
  \A b \in req[h].bound:
    /\ b[1] \in req[h].res \ Deleting
    /\ b[2] \notin req[h].env \cup PendingNames

\* The bindings are valid, the revision is the one the editor loaded, and record() still
\* finds access.
Save(h) ==
  /\ req[h].at = "write"
  /\ saved' = IF /\ validate_bindings(h)
                 /\ saved.rev = req[h].rev
                 /\ Admitted(req[h].who)
              THEN [rev |-> saved.rev + 1, base |-> req[h].rev, bound |-> req[h].bound]
              ELSE saved
  /\ writer' = NoHandler
  /\ Keep(h)
  /\ UNCHANGED <<people, change, there, asked>>

\* What the saved configuration says of a variable or a resource to be deleted
\* (ENV_BINDING_CONFLICT, STORAGE_BOUND).
InConfiguration(c) ==
  \E b \in saved.bound: IF c.kind = "storage_delete" THEN b[1] = c.x ELSE b[2] = c.x

\* mutate_environment and delete_storage, up to the intent: not bound, one at a time.
RequestChange(h) ==
  LET c == req[h].arg IN
  /\ req[h].at = "change"
  /\ Free
  /\ change' = IF /\ change[c] = "none"
                  /\ ~InConfiguration(c)
                  /\ \A d \in Change: ~Unsettled(d)
                  /\ Admitted(req[h].who)
               THEN [change EXCEPT ![c] = "open"]
               ELSE change
  /\ Keep(h)
  /\ UNCHANGED <<saved, people, there, writer, asked>>

\* The controller carries it out, or refuses it.
Apply(c) ==
  /\ change[c] = "open"
  /\ \/ /\ change' = [change EXCEPT ![c] = "refused"]
        /\ there' = there
     \/ /\ change' = [change EXCEPT ![c] = "applied"]
        /\ there' = CASE c.kind = "env_set" -> [there EXCEPT !.env = @ \cup {c.x}]
                      [] c.kind = "env_delete" -> [there EXCEPT !.env = @ \ {c.x}]
                      [] c.kind = "storage_delete" -> [there EXCEPT !.res = @ \ {c.x}]
  /\ UNCHANGED <<saved, people, req, writer, asked>>

\* The journal writes the outcome; it needs the write transaction.
Settle(c) ==
  /\ change[c] \in {"applied", "refused"}
  /\ Free
  /\ change' = [change EXCEPT ![c] = "settled"]
  /\ UNCHANGED <<saved, people, there, req, writer, asked>>

SettingsNext ==
  \/ \E h \in Handler:
       \/ AskAdd(h) \/ AskRemove(h) \/ AskReassign(h) \/ AskSave(h) \/ AskChange(h)
       \/ Add(h) \/ Remove(h) \/ Reassign(h)
       \/ SaveResources(h) \/ SaveNames(h) \/ Save(h)
       \/ RequestChange(h)
  \/ \E c \in Change: Apply(c) \/ Settle(c)

SettingsSpec == SettingsInit /\ [][SettingsNext]_settingsVars

-----------------------------------------------------------------------------
\* Every variable has its type; the team is never larger than MAXIMUM_MEMBERS.
SettingsTypeOK ==
  /\ saved.rev \in 0..MaxRequests /\ saved.bound \subseteq Resource \X Name
  /\ people.owner \in People /\ people.members \subseteq People
  /\ Cardinality(people.members) <= MaxTeam
  /\ change \in [Change -> {"none", "open", "applied", "refused", "settled"}]
  /\ there.res \subseteq Resource /\ there.env \subseteq Name
  /\ writer \in Handler \cup {NoHandler}

\* The saved configuration binds only storage that exists, to names no variable has,
\* although the controller changes while save() reads it and deletions and edits are
\* admitted by other requests (resources.py validate_bindings, ENV_BINDING_CONFLICT,
\* app_management.py STORAGE_BOUND).
BindingsSound ==
  \A b \in saved.bound: b[1] \in there.res /\ b[2] \notin there.env

\* Every saved configuration was edited from the one it replaced: of two people with the
\* page open, the later is told to reload (api.py save, REVISION_CONFLICT).
NoLostSave == saved.rev > 0 => saved.base = saved.rev - 1

\* Every state of an app's saved settings.
SettingsSafe == SettingsTypeOK /\ BindingsSound /\ NoLostSave
=============================================================================
