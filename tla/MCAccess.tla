------------------------------ MODULE MCAccess ------------------------------
(* Instances of Access for TLC.  A behaviour is about one of two questions,   *)
(* chosen at the start: flows, with sign-in, expiry and the requests that use *)
(* them up; or syncs side by side, while GitHub changes.                      *)
EXTENDS Access, TLC, Functions

VARIABLE part  \* the question of this behaviour

\* One user has a session, and nobody has been to GitHub, where there is one installation
\* whose repository both may see.
FlowsInit ==
  /\ part = "flows" /\ flows = <<>> /\ sees = Accounts \X Repositories
  /\ \E a \in Accounts : Current(a) /\ \A b \in Accounts \ {a} : ~Current(b)

FlowsBounds ==
  /\ changes' = 0
  /\ \A f \in 1 .. Len(flows') : flows'[f].installation \in Range(home) \union {Nowhere}

\* All installations are to be verified: one for access to begin with, two that race.
SyncInit == part = "sync" /\ Len(flows) = MaxFlows /\ \A a \in Accounts : ~Current(a)

SyncBounds == \A f \in 1 .. Len(flows') : flows'[f].state # "expired"

MCAccessInit == AccessInit /\ (FlowsInit \/ SyncInit)

MCAccessNext ==
  /\ AccessNext
  /\ (part = "flows" /\ FlowsBounds) \/ (part = "sync" /\ SyncBounds)
  /\ UNCHANGED part

MCAccessSpec == MCAccessInit /\ [][MCAccessNext]_<<accessVars, part>>

Symmetry == Permutations(Requests) \union Permutations(Accounts) \union Permutations(Installations)
              \union Permutations(Repositories)
=============================================================================
