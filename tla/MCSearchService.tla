-------------------------- MODULE MCSearchService --------------------------
(* Model values for SearchService: the two engines, the two cache backends,
   and a batch call that works and one that raises, in three deployments. *)
EXTENDS SearchService

CONSTANTS s1, q1, q2

Deployed(engine, backend, legacy, clients, asked) ==
    [engine |-> engine, backend |-> backend, legacy |-> legacy, clients |-> clients,
     asked |-> asked]

MCConfigs == {Deployed("local", "memory", TRUE, {}, Questions),
              Deployed("local", "redis", TRUE, {}, Questions),
              Deployed("cloud", "memory", TRUE, {}, [query : {q1}, store : {s1}, mode : Modes]),
              Deployed("local", "memory", TRUE, {"stream"}, {}),
              Deployed("cloud", "memory", TRUE, {"stream"}, {}),
              Deployed("local", "memory", FALSE, {"batch"}, {}),
              Deployed("local", "memory", TRUE, {"batch"}, {Question(q1, s1, "keyword")})}

Ask(q, priority) == [query |-> q, store |-> s1, priority |-> priority]

MCBatches == {[parallel |-> TRUE, queries |-> <<Ask(q1, 0), Ask(q2, 1), Ask(q2, 0)>>],
              [parallel |-> FALSE, queries |-> <<Ask(q1, 0), Ask(q2, 1)>>]}
=============================================================================
