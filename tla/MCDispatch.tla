----------------------------- MODULE MCDispatch -----------------------------
(***************************************************************************)
(* Instances of Dispatch for TLC: the keys dep, ena, dis, env of one       *)
(* application, and the master mig with its child chi.                     *)
(***************************************************************************)
EXTENDS Dispatch, TLC

CONSTANTS dep, ena, dis, env, mig, chi, app, infra

KeyKind == dep :> "deploy" @@ ena :> "enable" @@ dis :> "disable"
           @@ env :> "compatible" @@ mig :> "migrate" @@ chi :> "child"

MCKindOf == [o \in Op |-> KeyKind[o]]
ThreadSymmetry == Permutations(Thread)

MCScopeOf == [o \in Op |-> IF o = mig THEN infra ELSE app]

\* No application has the scope infra, so what it desires is never read.
MCInit == Init /\ ~desired[infra]
MCSpec == MCInit /\ [][Next]_vars
=============================================================================
