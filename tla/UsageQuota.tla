------------------------------ MODULE UsageQuota ------------------------------
(***************************************************************************)
(* The tables of usage_tracker.py: the requests recorded for each key and  *)
(* the quota of each key.  What quotas are compared with, and the alerts,  *)
(* are left out: Gateway shows that no request is ever recorded.           *)
(***************************************************************************)
EXTENDS Naturals

CONSTANTS
  Trackable,      \* ids of the keys whose usage is recorded
  GlobalKey,      \* GLOBAL_QUOTA_KEY
  Quotas,         \* quota configurations
  DefaultQuota

ASSUME QuotaAssumption == GlobalKey \notin Trackable /\ DefaultQuota \in Quotas

VARIABLES
  usage,      \* usage_records: how many there are of each key
  quotas      \* quota_configs, of a key without a row the default

quotaVars == <<usage, quotas>>

QuotaTypeOK ==
  /\ usage \in [Trackable -> Nat]
  /\ quotas \in [Trackable -> Quotas]

\* The table once record_usage wrote to it.
Recorded(id) == [usage EXCEPT ![id] = @ + 1]

SetQuota(id, q) ==
  /\ quotas' = [quotas EXCEPT ![id] = q]
  /\ UNCHANGED usage

QuotaInit ==
  /\ usage = [id \in Trackable |-> 0]
  /\ quotas = [id \in Trackable |-> DefaultQuota]
===============================================================================
