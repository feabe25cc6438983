----------------------------- MODULE Operations -----------------------------
(***************************************************************************)
(* What the operation journal promises whoever submits requests under      *)
(* idempotency keys, without the queue, the threads, the locks, the retry  *)
(* schedule or the restarts behind it.  A request is a duty of the         *)
(* controller from its admission to its answer; the operation it names     *)
(* begins, may be accepted while clean-up is left, and ends once.          *)
(***************************************************************************)
CONSTANTS
    Op,       \* idempotency keys
    ScopeOf,  \* the scope of each key
    Inner     \* keys of operations that another operation begins by itself

VARIABLES
    life,     \* of the operation: its result, once it has one
    duty      \* of the controller, to execute the request

Lives == {"unknown", "open", "finishing", "succeeded", "failed"}
Results == {"succeeded", "failed"}
Duties == {"none", "held", "resting", "done"}

Init == life = [o \in Op |-> "unknown"] /\ duty = [o \in Op |-> "none"]

Beside(o) == {p \in Op \ {o} : ScopeOf[p] = ScopeOf[o]}

\* Nothing is executed but on behalf of a request that is held, or inside one.
Executing(o) == duty[o] = "held" \/ o \in Inner

\* An operation begins where no other is open, also not by another key that a
\* caller repeats later.
Begin(o) ==
    /\ Executing(o)
    /\ life[o] = "unknown"
    /\ \A p \in Beside(o) : life[p] # "open"
    /\ life' = [life EXCEPT ![o] = "open"]
    /\ UNCHANGED duty

\* It is accepted alone in its scope.
Accept(o) ==
    /\ Executing(o)
    /\ life[o] = "open"
    /\ \A p \in Beside(o) : life[p] \notin {"open", "finishing"}
    /\ life' = [life EXCEPT ![o] = "finishing"]
    /\ UNCHANGED duty

\* It ends once, and what was accepted does not fail.
End(o) ==
    /\ Executing(o)
    /\ \E result \in Results :
          /\ \/ life[o] = "open"
             \/ life[o] = "finishing" /\ result = "succeeded"
          /\ life' = [life EXCEPT ![o] = result]
    /\ UNCHANGED duty

\* The requests of a scope are admitted one at a time, except beside one whose
\* operation is accepted.
Admit(o) ==
    /\ o \notin Inner
    /\ duty[o] = "none"
    /\ \A p \in Beside(o) :
          /\ life[p] # "open"
          /\ duty[p] \in {"held", "resting"} => life[p] \in {"finishing", "succeeded"}
    /\ duty' = [duty EXCEPT ![o] = "held"]
    /\ UNCHANGED life

\* The one way in which a request is left without an operation: another
\* operation began one of its own in the scope meanwhile.
Crossed(o) ==
    life[o] = "unknown" /\ \E c \in Inner : ScopeOf[c] = ScopeOf[o] /\ life[c] # "unknown"

\* A request that rests waits for its caller, or for the retry thread, with an
\* unfinished operation to resume.
Rest(o) ==
    /\ duty[o] = "held"
    /\ life[o] \in {"open", "finishing"} \/ Crossed(o)
    /\ duty' = [duty EXCEPT ![o] = "resting"]
    /\ UNCHANGED life

Resume(o) ==
    /\ duty[o] = "resting"
    /\ life[o] \in {"open", "finishing"}
    /\ duty' = [duty EXCEPT ![o] = "held"]
    /\ UNCHANGED life

\* A request that is done has a result to show.
Done(o) ==
    /\ duty[o] = "held"
    /\ life[o] \in Results \/ Crossed(o)
    /\ duty' = [duty EXCEPT ![o] = "done"]
    /\ UNCHANGED life

Next ==
    \E o \in Op : \/ Begin(o) \/ Accept(o) \/ End(o)
                  \/ Admit(o) \/ Rest(o) \/ Resume(o) \/ Done(o)

vars == <<life, duty>>

Spec == Init /\ [][Next]_vars
=============================================================================
