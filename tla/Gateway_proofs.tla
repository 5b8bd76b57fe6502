---------------------------- MODULE Gateway_proofs ----------------------------
(***************************************************************************)
(* Theorems about Gateway, for every number of clients, keys and requests. *)
(***************************************************************************)
EXTENDS Gateway, FiniteSetTheorems, TLAPS

-------------------------------------------------------------------------------
(* Types                                                                   *)

\* A credential stands for a key id, an administrator or nobody.
LEMMA IdentityTypes ==
  ASSUME KeysTypeOK, NEW c \in Credentials
  PROVE  KeyOf(c) \in KeyIds \cup {Nobody} /\ AdminOf(c) \in Users \cup {Nobody}
<1>1. KeyOf(c) \in KeyIds \cup {Nobody}
  BY KeysAssumption DEF KeysAssumption, KeysTypeOK, KeyOf, IsToken, TokenKey, TokenAccepted,
     Accepted, Stored, Row, KeyIds
<1>2. TokenAdmin(c) \in Users \cup {Nobody}
  BY KeysAssumption DEF KeysAssumption, TokenAdmin, TokenAccepted
<1>3. KeyAdmin(c) \in Users \cup {Nobody}
  BY KeysAssumption DEF KeysAssumption, KeyAdmin, KeysTypeOK, Row, Accepted, Stored
<1> QED
  BY <1>1, <1>2, <1>3 DEF AdminOf

\* Handlers of the admin routes run for an administrator.
RequestsFit ==
  \A c \in Clients : At(c, "handle") /\ req[c].op # "plain" => req[c].user \in Users

TypesInv == TypeOK /\ RequestsFit

LEMMA TypesInit == Init => TypesInv
<1> SUFFICES ASSUME Init PROVE TypesInv
  OBVIOUS
<1>1. KeysTypeOK
  BY DEF Init, KeysInit, KeysTypeOK
<1>2. QuotaTypeOK
  BY QuotaAssumption DEF Init, QuotaInit, QuotaTypeOK, QuotaAssumption
<1>3. NoRequest \in [pc : {"idle", "auth", "handle", "respond"}, op : Ops,
                     cred : Credentials, target : KeyIds \cup {GlobalKey, Nobody},
                     context : KeyIds \cup {Nobody}, user : Users \cup {Nobody},
                     as : KeyIds \cup {Nobody}, dead : SUBSET Secrets]
  BY DEF NoRequest, Ops, Credentials
<1>4. arrived \in 0..MaxRequests /\ tally \in [KeyIds -> Nat]
  BY GatewayAssumption DEF Init, GatewayAssumption
<1>6. RequestsFit
  BY DEF Init, RequestsFit, At, NoRequest
<1> QED
  BY <1>1, <1>2, <1>3, <1>4, <1>6 DEF Init, TypesInv, TypeOK

Request == [pc : {"idle", "auth", "handle", "respond"}, op : Ops,
            cred : Credentials, target : KeyIds \cup {GlobalKey, Nobody},
            context : KeyIds \cup {Nobody}, user : Users \cup {Nobody},
            as : KeyIds \cup {Nobody}, dead : SUBSET Secrets]

LEMMA NoRequestType == NoRequest \in Request
BY DEF NoRequest, Request, Ops, Credentials

\* A credential, a target and a key that can be named are of their types.
LEMMA DispatchTypes ==
  ASSUME TypesInv, NEW c \in Clients, NEW cred \in Credentials, NEW op \in Ops,
         NEW target \in KeyIds \cup {GlobalKey, Nobody}, Dispatch(c, cred, op, target)
  PROVE  TypesInv'
<1> USE DEF TypesInv, TypeOK, Dispatch
<1>1. ContextOf(cred) \in KeyIds \cup {Nobody}
  BY IdentityTypes DEF ContextOf
<1>2. {s \in Stored : ~keys[s].active} \in SUBSET Secrets
  BY DEF Stored
<1>3. req' \in [Clients -> Request]
  BY <1>1, <1>2, NoRequestType DEF Request, NoRequest
<1>4. arrived' \in 0..MaxRequests
  BY GatewayAssumption DEF GatewayAssumption
<1>5. KeysTypeOK' /\ QuotaTypeOK'
  BY DEF KeysTypeOK, QuotaTypeOK, quotaVars
<1>6. RequestsFit'
  BY DEF RequestsFit, At
<1> QED
  BY <1>3, <1>4, <1>5, <1>6 DEF Request

LEMMA AuthenticateTypes ==
  ASSUME TypesInv, NEW c \in Clients, Authenticate(c)
  PROVE  TypesInv'
<1> USE DEF TypesInv, TypeOK, Authenticate
<1> DEFINE cred == req[c].cred
<1>1. KeyOf(cred) \in KeyIds \cup {Nobody} /\ AdminOf(cred) \in Users \cup {Nobody}
  <2> cred \in Credentials /\ KeysTypeOK
    OBVIOUS
  <2> HIDE DEF cred
  <2> QED
    BY IdentityTypes
<1>2. req' \in [Clients -> Request]
  <2>1. PICK pc \in {"handle", "respond"}, user \in Users \cup {Nobody}, as \in KeyIds \cup {Nobody} :
          req' = [req EXCEPT ![c].pc = pc, ![c].user = user, ![c].as = as]
    BY <1>1
  <2>2. req \in [Clients -> Request]
    BY DEF Request
  <2> HIDE DEF Authenticate, TypesInv, TypeOK
  <2>3. [req[c] EXCEPT !.pc = pc, !.user = user, !.as = as] \in Request
    BY <2>2 DEF Request
  <2>4. req' = [req EXCEPT ![c] = [req[c] EXCEPT !.pc = pc, !.user = user, !.as = as]]
    BY <2>1, <2>2
  <2> QED
    BY <2>2, <2>3, <2>4
<1>3. KeysTypeOK' /\ QuotaTypeOK'
  BY DEF KeysTypeOK, QuotaTypeOK, quotaVars
<1>4. RequestsFit'
  BY <1>1 DEF RequestsFit, At
<1> QED
  BY <1>2, <1>3, <1>4 DEF Request

\* What the handlers and the responses leave of a request.
LEMMA RespondTypes ==
  ASSUME TypesInv, NEW c \in Clients, Respond(c)
  PROVE  req' \in [Clients -> Request] /\ RequestsFit'
<1> USE DEF TypesInv, TypeOK, Respond
<1>1. req' \in [Clients -> Request]
  BY NoRequestType DEF Request, NoRequest
<1>2. RequestsFit'
  BY DEF RequestsFit, At
<1> QED
  BY <1>1, <1>2

LEMMA FinishTypes ==
  ASSUME TypesInv, NEW c \in Clients, Finish(c)
  PROVE  TypesInv'
<1> USE DEF TypesInv, TypeOK, Finish
<1>1. req' \in [Clients -> Request]
  BY NoRequestType DEF Request
<1>2. RequestsFit'
  BY DEF RequestsFit, At, NoRequest
<1>3. tally' \in [KeyIds -> Nat]
  OBVIOUS
<1>4. QuotaTypeOK'
  <2>1. CASE req[c].context = Nobody
    BY <2>1 DEF QuotaTypeOK
  <2>2. CASE req[c].context # Nobody
    <3>1. usage \in [Trackable -> Nat] /\ Recorded(req[c].context) \in [Trackable -> Nat]
      BY <2>2, GatewayAssumption DEF GatewayAssumption, QuotaTypeOK, Recorded
    <3> QED
      BY <2>2, <3>1 DEF QuotaTypeOK
  <2> QED
    BY <2>1, <2>2
<1> QED
  BY <1>1, <1>2, <1>3, <1>4 DEF KeysTypeOK, Request

\* The table keeps its type.
LEMMA GenerateTypes ==
  ASSUME KeysTypeOK, NEW s \in Secrets, NEW user \in Users, NEW permissions \in SUBSET Permissions,
         Generate(s, user, permissions)
  PROVE  KeysTypeOK'
<1>1. [id |-> <<"key", s>>, user |-> user, permissions |-> permissions, active |-> TRUE] \in Row
  BY DEF Generate, Row, KeyIds
<1> QED
  BY <1>1 DEF Generate, KeysTypeOK

LEMMA RevokeTypes == ASSUME KeysTypeOK, NEW id, RevokeById(id) PROVE KeysTypeOK'
BY DEF RevokeById, KeysTypeOK, Stored, Row

LEMMA BootstrapTypes ==
  ASSUME KeysTypeOK, NEW s \in Secrets, Bootstrap(s)
  PROVE  KeysTypeOK'
<1>1. [id |-> <<"bs", Suffix[s]>>, user |-> "bootstrap",
       permissions |-> {"upload", "search", "stores"}, active |-> TRUE] \in Row
  BY KeysAssumption DEF KeysAssumption, Row, KeyIds, Permissions
<1> QED
  BY <1>1 DEF Bootstrap, KeysTypeOK

LEMMA TypesStep == TypesInv /\ [Next]_vars => TypesInv'
<1> SUFFICES ASSUME TypesInv, [Next]_vars PROVE TypesInv'
  OBVIOUS
<1>0. Targets \subseteq KeyIds
  BY DEF Targets, Stored, TypesInv, TypeOK, KeysTypeOK, Row
<1>1. ASSUME NEW c \in Clients, Serve(c) PROVE TypesInv'
  <2>1. ASSUME NEW cred \in Credentials, Dispatch(c, cred, "plain", Nobody) PROVE TypesInv'
    BY <2>1, DispatchTypes DEF Ops
  <2>2. ASSUME NEW cred \in Credentials, NEW op \in {"report", "create"},
               Dispatch(c, cred, op, Nobody)
        PROVE TypesInv'
    BY <2>2, DispatchTypes DEF Ops
  <2>3. ASSUME NEW cred \in Credentials, NEW id \in Targets, Dispatch(c, cred, "revoke", id)
        PROVE TypesInv'
    BY <1>0, <2>3, DispatchTypes DEF Ops
  <2>4. ASSUME NEW cred \in Credentials, NEW id \in Targets \cup {GlobalKey},
               Dispatch(c, cred, "quota", id)
        PROVE TypesInv'
    BY <1>0, <2>4, DispatchTypes DEF Ops
  <2>5. CASE Authenticate(c)
    BY <2>5, AuthenticateTypes
  <2>6. CASE HandlePlain(c)
    <3>1. req' \in [Clients -> Request] /\ RequestsFit'
      BY <2>6, RespondTypes DEF HandlePlain
    <3> QED
      BY <2>6, <3>1 DEF HandlePlain, TypesInv, TypeOK, KeysTypeOK, QuotaTypeOK, quotaVars, Request
  <2>7. ASSUME NEW s \in Secrets, NEW permissions \in {{"search"}, Permissions},
               HandleCreate(c, s, permissions)
        PROVE TypesInv'
    <3>1. req' \in [Clients -> Request] /\ RequestsFit'
      BY <2>7, RespondTypes DEF HandleCreate
    <3>2. req[c].user \in Users /\ permissions \in SUBSET Permissions
      BY <2>7 DEF TypesInv, RequestsFit, HandleCreate, Permissions
    <3>3. KeysTypeOK'
      BY <2>7, <3>2, GenerateTypes DEF HandleCreate, TypesInv, TypeOK
    <3> QED
      BY <2>7, <3>1, <3>3 DEF HandleCreate, TypesInv, TypeOK, QuotaTypeOK, quotaVars, Request
  <2>8. CASE HandleRevoke(c)
    <3>1. req' \in [Clients -> Request] /\ RequestsFit'
      BY <2>8, RespondTypes DEF HandleRevoke
    <3>2. KeysTypeOK'
      <4>1. CASE MayChange(req[c].user, req[c].target)
        BY <2>8, <4>1, RevokeTypes DEF HandleRevoke, TypesInv, TypeOK
      <4>2. CASE ~MayChange(req[c].user, req[c].target)
        BY <2>8, <4>2 DEF HandleRevoke, TypesInv, TypeOK, KeysTypeOK
      <4> QED
        BY <4>1, <4>2
    <3> QED
      BY <2>8, <3>1, <3>2 DEF HandleRevoke, TypesInv, TypeOK, QuotaTypeOK, quotaVars, Request
  <2>9. ASSUME NEW q \in Quotas, HandleQuota(c, q) PROVE TypesInv'
    <3>1. req' \in [Clients -> Request] /\ RequestsFit'
      BY <2>9, RespondTypes DEF HandleQuota
    <3>2. KeysTypeOK'
      BY <2>9 DEF HandleQuota, TypesInv, TypeOK, KeysTypeOK
    <3>3. QuotaTypeOK'
      BY <2>9 DEF HandleQuota, SetQuota, TypesInv, TypeOK, QuotaTypeOK, quotaVars
    <3> QED
      BY <2>9, <3>1, <3>2, <3>3 DEF HandleQuota, TypesInv, TypeOK, Request
  <2>10. CASE Finish(c)
    BY <2>10, FinishTypes
  <2> QED
    BY <1>1, <2>1, <2>2, <2>3, <2>4, <2>5, <2>6, <2>7, <2>8, <2>9, <2>10 DEF Serve
<1>2. ASSUME NEW secret \in Chosen \cup Stored \cup {Nobody}, Restart(secret) PROVE TypesInv'
  <2>1. KeysTypeOK'
    <3>1. CASE secret = Nobody
      BY <1>2, <3>1 DEF Restart, TypesInv, TypeOK, KeysTypeOK
    <3>2. CASE secret # Nobody
      BY <1>2, <3>2, BootstrapTypes, KeysAssumption DEF Restart, TypesInv, TypeOK, Stored, KeysAssumption
    <3> QED
      BY <3>1, <3>2
  <2>2. req' \in [Clients -> Request] /\ RequestsFit'
    BY <1>2, NoRequestType DEF Restart, RequestsFit, At, NoRequest
  <2> QED
    BY <1>2, <2>1, <2>2 DEF Restart, TypesInv, TypeOK, QuotaTypeOK, quotaVars, Request
<1>3. CASE UNCHANGED vars
  BY <1>3 DEF vars, TypesInv, TypeOK, KeysTypeOK, QuotaTypeOK, quotaVars, RequestsFit, At
<1> QED
  BY <1>1, <1>2, <1>3 DEF Next

\* Every variable of the gateway holds a value of its kind.
THEOREM GatewayTypes == Spec => []TypesInv
BY TypesInit, TypesStep, PTL DEF Spec

-------------------------------------------------------------------------------
(* The table of keys                                                       *)

\* An id tells which secret it belongs to: a configured secret has the id of its
\* suffix, a generated one its own.
IdsTellSecrets ==
  /\ \A s \in Stored : keys[s].id = IF s \in Chosen THEN <<"bs", Suffix[s]>> ELSE <<"key", s>>
  /\ \A s, t \in Stored : keys[s].id = keys[t].id => s = t

\* A row stays as it is, or its owner revokes it.
RowsStay ==
  \A s \in Stored :
    /\ s \in Stored'
    /\ \/ keys'[s] = keys[s]
       \/ /\ keys'[s] = [keys[s] EXCEPT !.active = FALSE]
          /\ \E c \in Clients : ByOwner(c, s)

LEMMA TableGenerate ==
  ASSUME KeysTypeOK, IdsTellSecrets, NEW s \in Secrets, NEW user \in Users,
         NEW permissions \in SUBSET Permissions, Generate(s, user, permissions)
  PROVE  IdsTellSecrets' /\ RowsStay
<1> DEFINE row == [id |-> <<"key", s>>, user |-> user, permissions |-> permissions, active |-> TRUE]
<1>1. row \in Row /\ row # Nobody
  <2>1. row \in Row
    BY DEF Generate, Row, KeyIds
  <2> QED
    BY <2>1, KeysAssumption DEF KeysAssumption
<1>2. s \notin Stored /\ s \notin Chosen /\ keys' = [keys EXCEPT ![s] = row]
  BY DEF Generate
<1>3. row.id = <<"key", s>>
  OBVIOUS
<1> HIDE DEF row
<1>4. Stored' = Stored \cup {s}
  BY <1>1, <1>2 DEF Stored, KeysTypeOK
<1>5. \A t \in Stored : keys'[t] = keys[t]
  BY <1>2 DEF Stored, KeysTypeOK
<1>6. keys'[s] = row
  BY <1>2 DEF KeysTypeOK
<1>7. \A t \in Stored' : keys'[t].id = IF t \in Chosen THEN <<"bs", Suffix[t]>> ELSE <<"key", t>>
  BY <1>2, <1>3, <1>4, <1>5, <1>6 DEF IdsTellSecrets
<1>8. \A t \in Stored : keys[t].id # <<"key", s>>
  <2> TAKE t \in Stored
  <2>1. CASE t \in Chosen
    <3>1. keys[t].id = <<"bs", Suffix[t]>>
      BY <2>1 DEF IdsTellSecrets
    <3> QED
      BY ONLY <3>1
  <2>2. CASE t \notin Chosen
    <3>1. keys[t].id = <<"key", t>> /\ t # s
      BY <1>2, <2>2 DEF IdsTellSecrets
    <3> QED
      BY ONLY <3>1
  <2> QED
    BY <2>1, <2>2
<1> QED
  BY <1>3, <1>4, <1>5, <1>6, <1>7, <1>8 DEF IdsTellSecrets, RowsStay

LEMMA TableRevoke ==
  ASSUME KeysTypeOK, IdsTellSecrets, NEW c \in Clients, HandleRevoke(c)
  PROVE  IdsTellSecrets' /\ RowsStay
<1>1. CASE MayChange(req[c].user, req[c].target)
  <2> DEFINE id == req[c].target
  <2>1. PICK o \in Stored : keys[o].user = req[c].user /\ keys[o].id = id
    BY <1>1 DEF MayChange, Owns, Listed
  <2>2. req[c].op = "revoke"
    BY DEF HandleRevoke
  <2>3. keys' = [s \in Secrets |-> IF s = o THEN [keys[s] EXCEPT !.active = FALSE] ELSE keys[s]]
    BY <1>1, <2>1 DEF HandleRevoke, RevokeById, IdsTellSecrets, Stored
  <2>4. \A s \in Stored : keys[s] \in Row /\ [keys[s] EXCEPT !.active = FALSE] \in Row
    BY DEF Stored, KeysTypeOK, Row
  <2>5. Stored' = Stored
    BY <2>1, <2>3, <2>4, KeysAssumption DEF Stored, KeysAssumption
  <2>6. \A s \in Stored : keys'[s].id = keys[s].id
    BY <2>3, <2>4 DEF Stored, Row
  <2>7. IdsTellSecrets'
    BY <2>5, <2>6 DEF IdsTellSecrets
  <2>8. RowsStay
    BY <2>1, <2>2, <2>3, <2>5 DEF RowsStay, ByOwner, Stored
  <2> QED
    BY <2>7, <2>8
<1>2. CASE ~MayChange(req[c].user, req[c].target)
  BY <1>2 DEF HandleRevoke, IdsTellSecrets, RowsStay, Stored
<1> QED
  BY <1>1, <1>2

LEMMA TableBootstrap ==
  ASSUME KeysTypeOK, IdsTellSecrets, NEW s \in Chosen \cup Stored, Bootstrap(s)
  PROVE  IdsTellSecrets' /\ RowsStay
<1> DEFINE row == [id |-> <<"bs", Suffix[s]>>, user |-> "bootstrap",
                   permissions |-> {"upload", "search", "stores"}, active |-> TRUE]
<1>1. CASE keys' = keys
  BY <1>1 DEF IdsTellSecrets, RowsStay, Stored
<1>2. CASE keys' # keys
  <2>1. /\ s \notin Stored /\ s \in Chosen /\ keys' = [keys EXCEPT ![s] = row]
        /\ \A t \in Stored : keys[t].id # <<"bs", Suffix[s]>>
    BY <1>2 DEF Bootstrap
  <2>2. row \in Row /\ row # Nobody /\ s \in Secrets
    <3>1. s \in Secrets
      BY <2>1, KeysAssumption DEF KeysAssumption
    <3>2. row \in Row
      BY <3>1, KeysAssumption DEF KeysAssumption, Row, KeyIds, Permissions
    <3> QED
      BY <3>1, <3>2, KeysAssumption DEF KeysAssumption
  <2>3. row.id = <<"bs", Suffix[s]>>
    OBVIOUS
  <2> HIDE DEF row
  <2>4. Stored' = Stored \cup {s}
    BY <2>1, <2>2 DEF Stored, KeysTypeOK
  <2>5. \A t \in Stored : keys'[t] = keys[t]
    BY <2>1 DEF Stored, KeysTypeOK
  <2>6. keys'[s] = row
    BY <2>1, <2>2 DEF KeysTypeOK
  <2>7. \A t \in Stored' : keys'[t].id = IF t \in Chosen THEN <<"bs", Suffix[t]>> ELSE <<"key", t>>
    BY <2>1, <2>3, <2>4, <2>5, <2>6 DEF IdsTellSecrets
  <2> QED
    BY <2>1, <2>3, <2>4, <2>5, <2>6, <2>7 DEF IdsTellSecrets, RowsStay
<1> QED
  BY <1>1, <1>2

\* Whatever a step does, it leaves the rows as they are or lets an owner revoke.
LEMMA TableStep ==
  ASSUME TypesInv, IdsTellSecrets, [Next]_vars
  PROVE  IdsTellSecrets' /\ RowsStay
<1>0. KeysTypeOK
  BY DEF TypesInv, TypeOK
<1>1. ASSUME keys' = keys PROVE IdsTellSecrets' /\ RowsStay
  BY <1>1 DEF IdsTellSecrets, RowsStay, Stored
<1>2. ASSUME NEW c \in Clients, Serve(c) PROVE IdsTellSecrets' /\ RowsStay
  <2>1. ASSUME NEW s \in Secrets, NEW permissions \in {{"search"}, Permissions},
               HandleCreate(c, s, permissions)
        PROVE IdsTellSecrets' /\ RowsStay
    <3>1. req[c].user \in Users /\ permissions \in SUBSET Permissions
      BY <2>1 DEF TypesInv, RequestsFit, HandleCreate, Permissions
    <3> QED
      BY <1>0, <2>1, <3>1, TableGenerate DEF HandleCreate
  <2>2. CASE HandleRevoke(c)
    BY <1>0, <2>2, TableRevoke
  <2>3. CASE keys' = keys
    BY <1>1, <2>3
  <2> QED
    BY <1>2, <2>1, <2>2, <2>3 DEF Serve, Dispatch, Authenticate, HandlePlain, HandleQuota,
       Finish
<1>3. ASSUME NEW secret \in Chosen \cup Stored \cup {Nobody}, Restart(secret)
      PROVE IdsTellSecrets' /\ RowsStay
  <2>1. CASE secret = Nobody
    BY <1>1, <1>3, <2>1 DEF Restart
  <2>2. CASE secret # Nobody
    BY <1>0, <1>3, <2>2, TableBootstrap DEF Restart
  <2> QED
    BY <2>1, <2>2
<1> QED
  BY <1>1, <1>2, <1>3 DEF Next, vars

TableInv == TypesInv /\ IdsTellSecrets

LEMMA TableAlways == Spec => []TableInv
<1>1. Init => TableInv
  BY TypesInit DEF Init, KeysInit, TableInv, IdsTellSecrets, Stored
<1>2. TableInv /\ [Next]_vars => TableInv'
  BY TypesStep, TableStep DEF TableInv
<1> QED
  BY <1>1, <1>2, PTL DEF Spec

\* No request and no restart makes a revoked key active again or removes it.
THEOREM RevokedForGood == Spec => RevocationIsFinal
<1>1. TableInv /\ [Next]_vars => [\A s \in Stored : ~keys[s].active => keys'[s] = keys[s]]_vars
  <2> SUFFICES ASSUME TableInv, [Next]_vars, NEW s \in Stored, ~keys[s].active
               PROVE  keys'[s] = keys[s]
    OBVIOUS
  <2>1. keys'[s] = keys[s] \/ keys'[s] = [keys[s] EXCEPT !.active = FALSE]
    BY TableStep DEF TableInv, RowsStay
  <2>2. keys[s] \in Row
    BY DEF TableInv, TypesInv, TypeOK, KeysTypeOK, Stored
  <2>3. [keys[s] EXCEPT !.active = FALSE] = keys[s]
    BY <2>2 DEF Row
  <2> QED
    BY <2>1, <2>3
<1> QED
  BY <1>1, TableAlways, PTL DEF Spec, RevocationIsFinal

\* A quota changes only at the request of the key's owner.
LEMMA QuotaStep ==
  ASSUME TypesInv, IdsTellSecrets, [Next]_vars, NEW s \in Stored, quotas'[keys[s].id] # quotas[keys[s].id]
  PROVE  \E c \in Clients : ByOwner(c, s)
<1>1. PICK c \in Clients, q \in Quotas : HandleQuota(c, q)
  BY DEF Next, Serve, Dispatch, Authenticate, HandlePlain, HandleCreate, HandleRevoke, Finish,
         Restart, quotaVars, vars
<1>2. MayChange(req[c].user, req[c].target)
  BY <1>1 DEF HandleQuota, quotaVars
<1>3. quotas' = [quotas EXCEPT ![req[c].target] = q]
  BY <1>1, <1>2 DEF HandleQuota, SetQuota
<1>4. req[c].target = keys[s].id
  BY <1>3 DEF TypesInv, TypeOK, QuotaTypeOK
<1>5. PICK o \in Stored : keys[o].user = req[c].user /\ keys[o].id = req[c].target
  BY <1>2 DEF MayChange, Owns, Listed
<1> QED
  BY <1>1, <1>4, <1>5 DEF HandleQuota, ByOwner, IdsTellSecrets

\* A key becomes inactive, and its quota changes, only at a request in the name of
\* its owner.
THEOREM OnlyOwnersDecide == Spec => OwnersDecide
<1>1. TableInv /\ [Next]_vars =>
        [\A s \in Stored : Decided(s) => \E c \in Clients : ByOwner(c, s)]_vars
  <2> SUFFICES ASSUME TableInv, [Next]_vars, NEW s \in Stored, Decided(s)
               PROVE  \E c \in Clients : ByOwner(c, s)
    OBVIOUS
  <2>1. CASE quotas'[keys[s].id] # quotas[keys[s].id]
    BY <2>1, QuotaStep DEF TableInv
  <2>2. CASE keys[s].active /\ ~keys'[s].active
    <3>1. keys'[s] # keys[s]
      BY <2>2
    <3> QED
      BY <3>1, TableStep DEF TableInv, RowsStay
  <2> QED
    BY <2>1, <2>2 DEF Decided
<1> QED
  BY <1>1, TableAlways, PTL DEF Spec, OwnersDecide

\* The last eight characters tell the configured keys apart.
SuffixesDiffer == \A s, t \in Chosen : Suffix[s] = Suffix[t] => s = t

\* If they do, a server that starts with a key in its environment has it in the
\* table afterwards, and no key ever leaves the table.
THEOREM ConfiguredKeyStored == ASSUME SuffixesDiffer PROVE Spec => ConfiguredKeyIsStored
<1>1. TableInv /\ [Next]_vars =>
        [/\ Stored \subseteq Stored'
         /\ \A secret \in Chosen : Restart(secret) => secret \in Stored']_vars
  <2> SUFFICES ASSUME TableInv, [Next]_vars
               PROVE  /\ Stored \subseteq Stored'
                      /\ \A secret \in Chosen : Restart(secret) => secret \in Stored'
    OBVIOUS
  <2>1. Stored \subseteq Stored'
    BY TableStep DEF TableInv, RowsStay
  <2>2. ASSUME NEW secret \in Chosen, Restart(secret) PROVE secret \in Stored'
    <3>1. Bootstrap(secret) /\ secret \in Secrets
      BY <2>2, KeysAssumption DEF Restart, KeysAssumption
    <3>2. CASE secret \in Stored
      BY <2>1, <3>2
    <3>3. ASSUME NEW other \in Stored, keys[other].id = <<"bs", Suffix[secret]>>
          PROVE  other = secret
      <4>1. CASE other \in Chosen
        <5>1. keys[other].id = <<"bs", Suffix[other]>>
          BY <4>1 DEF TableInv, IdsTellSecrets
        <5>2. Suffix[other] = Suffix[secret]
          BY ONLY <3>3, <5>1
        <5> QED
          BY <4>1, <5>2 DEF SuffixesDiffer
      <4>2. CASE other \notin Chosen
        <5>1. keys[other].id = <<"key", other>>
          BY <4>2 DEF TableInv, IdsTellSecrets
        <5> QED
          BY ONLY <3>3, <5>1
      <4> QED
        BY <4>1, <4>2
    <3> DEFINE row == [id |-> <<"bs", Suffix[secret]>>, user |-> "bootstrap",
                       permissions |-> {"upload", "search", "stores"}, active |-> TRUE]
    <3>4. CASE keys' = [keys EXCEPT ![secret] = row]
      <4>1. row \in Row
        BY <3>1, KeysAssumption DEF KeysAssumption, Row, KeyIds, Permissions
      <4>2. row # Nobody
        BY <4>1, KeysAssumption DEF KeysAssumption
      <4> HIDE DEF row
      <4> QED
        BY <3>1, <3>4, <4>2 DEF Stored, TableInv, TypesInv, TypeOK, KeysTypeOK
    <3> QED
      BY <3>1, <3>2, <3>3, <3>4 DEF Bootstrap
  <2> QED
    BY <2>1, <2>2
<1> QED
  BY <1>1, TableAlways, PTL DEF Spec, ConfiguredKeyIsStored

-------------------------------------------------------------------------------
(* Revoked keys open nothing                                               *)

\* No API key is the admin key, looks like a token, or is known to the OIDC
\* provider.
KeysAreOnlyKeys ==
  /\ Secrets \cap (Tokens \cup {AdminSecret}) = {}
  /\ \A s \in Secrets : IamUser[s] = Nobody

\* What was revoked when a request came stays revoked while it is served, so
\* authentication fails, whichever of the two dependencies does it.
DeadStayDead ==
  \A c \in Clients :
    /\ \A s \in req[c].dead : s \in Stored /\ ~keys[s].active
    /\ At(c, "handle") => req[c].cred \notin req[c].dead

RefusalInv == TableInv /\ DeadStayDead

LEMMA RefusalStep ==
  ASSUME KeysAreOnlyKeys, RefusalInv, [Next]_vars
  PROVE  DeadStayDead'
<1> USE DEF RefusalInv
<1>1. req \in [Clients -> Request] /\ KeysTypeOK
  BY DEF TableInv, TypesInv, TypeOK, Request
<1>2. \A s \in Stored : ~keys[s].active => s \in Stored' /\ ~keys'[s].active
  <2>1. \A s \in Stored : keys[s] \in Row
    BY <1>1 DEF KeysTypeOK, Stored
  <2> QED
    BY <2>1, TableStep DEF TableInv, RowsStay, Row
<1>3. \A c \in Clients : \A s \in req[c].dead : s \in Stored' /\ ~keys'[s].active
  BY <1>2 DEF DeadStayDead
<1>4. CASE req' = req
  BY <1>3, <1>4 DEF DeadStayDead, At
<1>5. ASSUME NEW c \in Clients, req' = [req EXCEPT ![c] = req'[c]],
             req'[c].pc # "handle", req'[c].dead = {} \/ req'[c].dead = req[c].dead
      PROVE  DeadStayDead'
  BY <1>1, <1>3, <1>5 DEF DeadStayDead, At
<1>6. ASSUME NEW c \in Clients, Serve(c) PROVE DeadStayDead'
  <2>1. ASSUME NEW cred \in Credentials, NEW op, NEW target, Dispatch(c, cred, op, target)
        PROVE  DeadStayDead'
    <3>1. /\ req' = [req EXCEPT ![c] = req'[c]]
          /\ req'[c].pc = "auth"
          /\ req'[c].dead = {s \in Stored : ~keys[s].active}
      BY <1>1, <2>1 DEF Dispatch, NoRequest
    <3> QED
      BY <1>1, <1>2, <1>3, <3>1 DEF DeadStayDead, At
  <2>2. CASE Authenticate(c)
    <3>1. /\ req' = [req EXCEPT ![c] = req'[c]]
          /\ req'[c].dead = req[c].dead /\ req'[c].cred = req[c].cred
          /\ req'[c].pc = "handle" =>
               IF req[c].op # "plain" THEN AdminOf(req[c].cred) # Nobody
                                      ELSE KeyOf(req[c].cred) # Nobody
      <4>1. PICK pc \in {"handle", "respond"} : \E user, as :
              /\ req' = [req EXCEPT ![c].pc = pc, ![c].user = user, ![c].as = as]
              /\ pc = "handle" => IF req[c].op # "plain" THEN AdminOf(req[c].cred) # Nobody
                                                        ELSE KeyOf(req[c].cred) # Nobody
        BY <2>2 DEF Authenticate
      <4>5. PICK user, as :
              /\ req' = [req EXCEPT ![c].pc = pc, ![c].user = user, ![c].as = as]
              /\ pc = "handle" => IF req[c].op # "plain" THEN AdminOf(req[c].cred) # Nobody
                                                        ELSE KeyOf(req[c].cred) # Nobody
        BY <4>1
      <4>2. req' = [req EXCEPT ![c] = [req[c] EXCEPT !.pc = pc, !.user = user, !.as = as]]
        BY <1>1, <4>5
      <4>3. /\ req'[c].pc = pc
            /\ req'[c].dead = req[c].dead /\ req'[c].cred = req[c].cred
        BY <1>1, <4>2 DEF Request
      <4>4. req' = [req EXCEPT ![c] = req'[c]]
        BY <1>1, <4>2
      <4> QED
        BY <4>3, <4>4, <4>5
    <3>2. ASSUME req[c].cred \in req[c].dead
          PROVE  AdminOf(req[c].cred) = Nobody /\ KeyOf(req[c].cred) = Nobody
      <4>1. req[c].cred \in Secrets /\ ~Accepted(req[c].cred)
        BY <3>2 DEF DeadStayDead, Stored, Accepted
      <4>2. ~IsToken(req[c].cred) /\ req[c].cred # AdminSecret /\ IamUser[req[c].cred] = Nobody
        BY <4>1 DEF KeysAreOnlyKeys, IsToken
      <4> QED
        BY <4>1, <4>2 DEF AdminOf, KeyAdmin, KeyOf
    <3>3. req'[c].pc = "handle" => req'[c].cred \notin req'[c].dead
      BY <3>1, <3>2
    <3> QED
      BY <1>1, <1>3, <3>1, <3>3 DEF DeadStayDead, At
  <2>3. ASSUME Respond(c) PROVE DeadStayDead'
    <3>1. req' = [req EXCEPT ![c] = req'[c]] /\ req'[c].pc # "handle" /\ req'[c].dead = {}
      BY <1>1, <2>3 DEF Respond, NoRequest
    <3> QED
      BY <1>5, <3>1
  <2>4. ASSUME Finish(c) PROVE DeadStayDead'
    <3>1. req' = [req EXCEPT ![c] = req'[c]] /\ req'[c].pc # "handle" /\ req'[c].dead = {}
      BY <1>1, <2>4 DEF Finish, NoRequest
    <3> QED
      BY <1>5, <3>1
  <2> QED
    BY <1>6, <2>1, <2>2, <2>3, <2>4 DEF Serve, HandlePlain, HandleCreate, HandleRevoke, HandleQuota
<1>7. ASSUME NEW secret, Restart(secret) PROVE DeadStayDead'
  BY <1>7 DEF Restart, DeadStayDead, At, NoRequest
<1> QED
  BY <1>4, <1>6, <1>7 DEF Next, vars

\* A request whose key was revoked before it arrived is refused, however it
\* interleaves with other requests and revocations.
THEOREM RevokedKeysRefused == ASSUME KeysAreOnlyKeys PROVE Spec => []RevokedKeysOpenNothing
<1>1. Init => RefusalInv
  <2>1. Init => TableInv
    BY TypesInit DEF Init, KeysInit, TableInv, IdsTellSecrets, Stored
  <2> QED
    BY <2>1 DEF Init, RefusalInv, DeadStayDead, At, NoRequest
<1>2. RefusalInv /\ [Next]_vars => RefusalInv'
  <2>1. TableInv /\ [Next]_vars => TableInv'
    BY TypesStep, TableStep DEF TableInv
  <2> QED
    BY <2>1, RefusalStep DEF RefusalInv
<1>3. RefusalInv => RevokedKeysOpenNothing
  BY DEF RefusalInv, TableInv, TypesInv, DeadStayDead, RevokedKeysOpenNothing
<1> QED
  BY <1>1, <1>2, <1>3, PTL DEF Spec

===============================================================================
