------------------------------ MODULE MCGateway -------------------------------
(* Instances of Gateway for TLC.                                           *)
EXTENDS Gateway, TLC

CONSTANTS
  c1, c2,
  fas,            \* a secret made up by the operator
  gen,            \* a generated secret
  tok,            \* an OAuth token with an admin role
  root,           \* FLAMEHAVEN_ADMIN_KEY
  none,
  standard, own,  \* two quotas
  all             \* the key of the global quota

OwnSuffix == [s \in Secrets |-> s]
TokenSubject == [t \in Tokens |-> "alice"]
AdminClaims == [t \in Tokens |-> [scopes |-> {}, roles |-> {"fs-admin"}]]
NoIam == [c \in Credentials |-> Nobody]
AllIds == KeyIds

ClientSymmetry == Permutations(Clients)
===============================================================================
