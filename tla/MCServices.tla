----------------------------- MODULE MCServices -----------------------------
(***************************************************************************)
(* The three services that own an application's resources, one instance    *)
(* each: addresses, storage resources and environment values.  They share  *)
(* no state, so a behaviour is a behaviour of one of them, named by part.  *)
(***************************************************************************)
EXTENDS Addresses, StorageResource, Environment

VARIABLE part

mcVars == <<part, addrVars, storeVars, envVars>>

\* Two deploys (one takes the worker over from the other), and every request
\* on the two kinds of address once.
MCAddrReq == {"allocate", "attach", "release", "reserve", "deploy1", "deploy",
              "disable", "delete", "unreserve", "enable"}
MCAddrKind == [o \in MCAddrReq |-> IF o = "deploy1" THEN "deploy" ELSE o]

\* A removal that keeps data and one that purges; a check of one resource and
\* a limit of another, everything else on all three.
MCStoreOp == {"create", "verify", "rotate", "remove", "purge", "limits"}
MCStoreKind == [o \in MCStoreOp |-> IF o = "purge" THEN "remove" ELSE o]
MCSelected == [o \in MCStoreOp |->
                 CASE o = "verify" -> <<"postgres">>
                   [] o = "limits" -> <<"mongo">>
                   [] OTHER -> <<"postgres", "mongo", "s3">>]

\* Two values for one key, one for another, a removal, and a request for a key
\* that storage owns.
MCEnvOp == {"set1", "set2", "seta", "unset", "protected"}
MCEnvAction == [o \in MCEnvOp |-> IF o = "unset" THEN "unset" ELSE "set"]
MCEnvKey == [o \in MCEnvOp |-> CASE o = "protected" -> "db" [] o = "set2" -> "b" [] OTHER -> "a"]

MCInit == part \in {"addresses", "storage", "environment"} /\ AddrInit /\ StoreInit /\ EnvInit

MCNext ==
  /\ UNCHANGED part
  /\ \/ part = "addresses" /\ AddrNext /\ UNCHANGED <<storeVars, envVars>>
     \/ part = "storage" /\ StoreNext /\ UNCHANGED <<addrVars, envVars>>
     \/ part = "environment" /\ EnvNext /\ UNCHANGED <<addrVars, storeVars>>

\* AddrFairness, StoreFairness and EnvFairness, each for its own part.
MCFairness ==
  /\ WF_addrVars(part = "addresses" /\ AddrBody)
  /\ WF_addrVars(part = "addresses" /\ AddrCommit)
  /\ WF_addrVars(part = "addresses" /\ \E o \in AddrReq : AddrRepeat(o))
  /\ WF_storeVars(part = "storage" /\ StoreBody)
  /\ WF_storeVars(part = "storage" /\ \E o \in StoreOp : StoreRepeat(o))
  /\ WF_envVars(part = "environment" /\ EnvBody)
  /\ WF_envVars(part = "environment" /\ \E o \in EnvOp : eop[o] = "open" /\ EnvBegin(o))

MCSpec == MCInit /\ [][MCNext]_mcVars /\ MCFairness

=============================================================================
