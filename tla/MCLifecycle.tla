---------------------------- MODULE MCLifecycle -----------------------------
(***************************************************************************)
(* Instances of Lifecycle for TLC: requests for one application.  d3       *)
(* builds the commit of d1 again, so the two have one digest.              *)
(***************************************************************************)
EXTENDS Lifecycle, TLC

CONSTANTS d1, d2, d3, man, reu, rol, dis, ena, rst, del, i1, i2, i3

RequestKind ==
    d1 :> "deploy" @@ d2 :> "deploy" @@ d3 :> "deploy" @@ man :> "maintain"
    @@ reu :> "reuse" @@ rol :> "rollback" @@ dis :> "disable" @@ ena :> "enable"
    @@ rst :> "restart" @@ del :> "delete"

\* Requests that build nothing are given an image they never push.
RequestImage == d1 :> i1 @@ d2 :> i2 @@ d3 :> i1 @@ man :> i3 @@ reu :> i3

MCKindOf == [o \in Op |-> RequestKind[o]]
MCImageOf ==
    [o \in Op |-> IF o \in DOMAIN RequestImage THEN RequestImage[o] ELSE i1]
=============================================================================
