------------------------------- MODULE Gateway --------------------------------
(***************************************************************************)
(* Requests on their way through the server: the usage middleware, the     *)
(* authentication dependency, the handler, and the middleware again when   *)
(* the response comes back.  It composes ApiKeys and UsageQuota, which     *)
(* keep the two SQLite databases; both survive a restart of the server.    *)
(*                                                                         *)
(* Handlers are an ordinary one, which changes nothing here, and the admin *)
(* routes for keys and quotas.  The steps of different requests interleave *)
(* because authentication of the admin routes runs in a thread pool.       *)
(***************************************************************************)
EXTENDS ApiKeys, UsageQuota

CONSTANTS
  Clients,        \* requests under way at the same time
  MaxRequests     \* bound of the model: requests that arrive

ASSUME GatewayAssumption ==
  /\ MaxRequests \in Nat
  /\ Trackable = KeyIds

VARIABLES
  req,        \* the request of each client
  arrived,    \* history: how many requests have arrived
  tally       \* history: the authenticated requests answered for each key

vars == <<keys, quotaVars, req, arrived, tally>>

\* What a request may ask for: a route of the server, an admin route that only
\* reports, and the admin routes that change keys and quotas.
Ops == {"plain", "report", "create", "revoke", "quota"}
NoRequest == [pc |-> "idle", op |-> "plain", cred |-> AdminSecret, target |-> Nobody,
              context |-> Nobody, user |-> Nobody, as |-> Nobody, dead |-> {}]

\* The secrets a client can know.
Known == (Credentials \ Secrets) \cup Chosen \cup Stored

-------------------------------------------------------------------------------
(* One request                                                             *)

At(c, pc) == req[c].pc = pc

\* The middleware looks for the key under REQUEST_CONTEXT_KEY, "auth_context".
\* When it looks there is but the request's id: _store_request_context writes
\* when the request is authenticated, and other attributes than that.
Attributes == {"request_id"}
ContextOf(cred) == IF "auth_context" \in Attributes THEN KeyOf(cred) ELSE Nobody

\* UsageTrackingMiddleware.dispatch up to call_next; without a key it checks no
\* quota.
Dispatch(c, cred, op, target) ==
  /\ At(c, "idle") /\ arrived < MaxRequests
  /\ cred \in Known
  /\ req' = [req EXCEPT ![c] = [NoRequest EXCEPT
                !.pc = "auth", !.op = op, !.cred = cred, !.target = target,
                !.context = ContextOf(cred),
                !.dead = {s \in Stored : ~keys[s].active}]]
  /\ arrived' = arrived + 1
  /\ UNCHANGED <<keys, quotaVars, tally>>

\* The dependency of the route: get_current_api_key or _get_admin_user.
Authenticate(c) ==
  /\ At(c, "auth")
  /\ LET admin  == req[c].op # "plain"
         opened == IF admin THEN AdminOf(req[c].cred) # Nobody
                            ELSE KeyOf(req[c].cred) # Nobody
     IN  req' = [req EXCEPT ![c].pc = IF opened THEN "handle" ELSE "respond",
                            ![c].user = IF admin THEN AdminOf(req[c].cred) ELSE Nobody,
                            ![c].as = IF opened THEN KeyOf(req[c].cred) ELSE Nobody]
  /\ UNCHANGED <<keys, quotaVars, arrived, tally>>

\* The handler is done; nothing but the two identities is looked at any more.
Respond(c) ==
  req' = [req EXCEPT ![c] = [NoRequest EXCEPT !.pc = "respond",
                               !.context = req[c].context, !.as = req[c].as]]

\* An ordinary handler, and the admin routes that list keys, usage, quotas and
\* alerts: nothing here changes.
HandlePlain(c) ==
  /\ At(c, "handle") /\ req[c].op \in {"plain", "report"}
  /\ Respond(c)
  /\ UNCHANGED <<keys, quotaVars, arrived, tally>>

\* create_api_key.
HandleCreate(c, s, permissions) ==
  /\ At(c, "handle") /\ req[c].op = "create"
  /\ Generate(s, req[c].user, permissions)
  /\ Respond(c)
  /\ UNCHANGED <<quotaVars, arrived, tally>>

\* A broken variant: any key of the table will do.
OwnsSome(user, id) == \E s \in Stored : keys[s].id = id

\* The admin routes for a key answer 403 unless it is one of the user's own.
MayChange(user, id) == Owns(user, id)

\* revoke_api_key.
HandleRevoke(c) ==
  /\ At(c, "handle") /\ req[c].op = "revoke"
  /\ IF MayChange(req[c].user, req[c].target) THEN RevokeById(req[c].target)
                                              ELSE UNCHANGED keys
  /\ Respond(c)
  /\ UNCHANGED <<quotaVars, arrived, tally>>

\* set_quota_config.  A request for the global quota ends here as well, its path
\* being that of a key named "global": nobody owns one, so it gets a 403.
HandleQuota(c, q) ==
  /\ At(c, "handle") /\ req[c].op = "quota"
  /\ IF MayChange(req[c].user, req[c].target) THEN SetQuota(req[c].target, q)
                                              ELSE UNCHANGED quotaVars
  /\ Respond(c)
  /\ UNCHANGED <<keys, arrived, tally>>

\* dispatch after call_next: the request is recorded for the key that was seen, if
\* one was; a failed write is logged only.  The response goes out, counted for the
\* key that authenticated.
Finish(c) ==
  /\ At(c, "respond")
  /\ IF req[c].context = Nobody THEN UNCHANGED usage
                                ELSE usage' \in {usage, Recorded(req[c].context)}
  /\ tally' = IF req[c].as = Nobody THEN tally
              ELSE [tally EXCEPT ![req[c].as] = @ + 1]
  /\ req' = [req EXCEPT ![c] = NoRequest]
  /\ UNCHANGED <<keys, quotas, arrived>>

-------------------------------------------------------------------------------
(* The server and its surroundings                                         *)

\* A restart, with or without FAS_API_KEY.
Restart(secret) ==
  /\ req' = [c \in Clients |-> NoRequest]
  /\ IF secret = Nobody THEN UNCHANGED keys ELSE Bootstrap(secret)
  /\ UNCHANGED <<quotaVars, arrived, tally>>

Init ==
  /\ KeysInit
  /\ QuotaInit
  /\ req = [c \in Clients |-> NoRequest]
  /\ arrived = 0
  /\ tally = [id \in KeyIds |-> 0]

Targets == {keys[s].id : s \in Stored}

Serve(c) ==
  \/ \E cred \in Credentials : Dispatch(c, cred, "plain", Nobody)
  \/ \E cred \in Credentials, op \in {"report", "create"} : Dispatch(c, cred, op, Nobody)
  \/ \E cred \in Credentials, id \in Targets : Dispatch(c, cred, "revoke", id)
  \/ \E cred \in Credentials, id \in Targets \cup {GlobalKey} : Dispatch(c, cred, "quota", id)
  \/ Authenticate(c)
  \/ HandlePlain(c)
  \/ \E s \in Secrets, permissions \in {{"search"}, Permissions} :
       HandleCreate(c, s, permissions)
  \/ HandleRevoke(c)
  \/ \E q \in Quotas : HandleQuota(c, q)
  \/ Finish(c)

Next ==
  \/ \E c \in Clients : Serve(c)
  \/ \E secret \in Chosen \cup Stored \cup {Nobody} : Restart(secret)

Spec == Init /\ [][Next]_vars

-------------------------------------------------------------------------------
(* Properties                                                              *)

\* Every variable holds a value of its kind.
TypeOK ==
  /\ KeysTypeOK
  /\ QuotaTypeOK
  /\ req \in [Clients -> [pc : {"idle", "auth", "handle", "respond"}, op : Ops,
                          cred : Credentials, target : KeyIds \cup {GlobalKey, Nobody},
                          context : KeyIds \cup {Nobody}, user : Users \cup {Nobody},
                          as : KeyIds \cup {Nobody}, dead : SUBSET Secrets]]
  /\ arrived \in 0..MaxRequests
  /\ tally \in [KeyIds -> Nat]

\* A revoked key stays revoked: no request and no restart, not even one that
\* is configured with this very key, makes it active again or removes its row.
RevocationIsFinal ==
  [][\A s \in Stored : ~keys[s].active => keys'[s] = keys[s]]_vars

\* A server that starts with a key in its environment has it in the table,
\* whatever keys were there before, and nothing takes a key out of the table.
\* (Two configured keys must differ in their last eight characters.)
ConfiguredKeyIsStored ==
  [][/\ Stored \subseteq Stored'
     /\ \A secret \in Chosen : Restart(secret) => secret \in Stored']_vars

\* A request whose key was revoked before the request arrived is refused (and
\* every variable holds a value of its kind).
RevokedKeysOpenNothing ==
  /\ TypeOK
  /\ \A c \in Clients : At(c, "handle") => req[c].cred \notin req[c].dead

\* Only a request of the key's owner makes a key inactive or changes its quota.
ByOwner(c, s) == /\ req[c].op \in {"revoke", "quota"}
                 /\ req[c].target = keys[s].id /\ req[c].user = keys[s].user
Decided(s) == \/ keys[s].active /\ ~keys'[s].active
              \/ quotas'[keys[s].id] # quotas[keys[s].id]
OwnersDecide == [][\A s \in Stored : Decided(s) => \E c \in Clients : ByOwner(c, s)]_vars

\* Every request that is answered to an authenticated key is in its usage
\* records, restarts notwithstanding.
UsageIsTracked == \A id \in KeyIds : tally[id] <= usage[id]
===============================================================================
