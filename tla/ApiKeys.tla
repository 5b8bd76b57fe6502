------------------------------- MODULE ApiKeys --------------------------------
(***************************************************************************)
(* API keys and credentials: the SQLite table of auth.py, the bootstrap of *)
(* the key from the environment at startup, OAuth tokens (oauth.py) and    *)
(* how a request's credential is resolved, for ordinary routes             *)
(* (security.py) and for the admin routes (admin_routes.py).               *)
(*                                                                         *)
(* A secret stands for its hash as well (key_hash is UNIQUE).  Tokens and  *)
(* what is read from them come from outside.  This module has the table    *)
(* and its operations; Gateway has the requests that call them.            *)
(***************************************************************************)
EXTENDS Naturals, FiniteSets

CONSTANTS
  Secrets,        \* API key secrets
  Chosen,         \* the secrets an operator may make up for FAS_API_KEY
  Suffix,         \* Suffix[s]: the last eight characters of s
  Tokens,         \* JWT-shaped credentials
  Subject,        \* Subject[t]: who a valid token speaks for
  Claims,         \* Claims[t]: the scopes and roles of a valid token
  ValidTokens,    \* the tokens whose signature, issuer and audience check
  OAuthEnabled,   \* config.oauth_enabled
  RequiredRoles,  \* config.oauth_required_roles
  AdminSecret,    \* FLAMEHAVEN_ADMIN_KEY
  IamUser,        \* IamUser[c]: whom the OIDC provider takes c for, or Nobody
  Users,
  Nobody,         \* "no user", "no key"
  Encrypted       \* FLAMEHAVEN_ENC_KEY is set

Credentials == Secrets \cup Tokens \cup {AdminSecret}
Permissions == {"upload", "search", "stores", "admin"}

KeyIds == ({"key"} \X (Secrets \ Chosen)) \cup ({"bs"} \X {Suffix[s] : s \in Secrets})
          \cup ({"oauth"} \X {Subject[t] : t \in ValidTokens})

Row == [id : KeyIds, user : Users, permissions : SUBSET Permissions, active : BOOLEAN]

ASSUME KeysAssumption ==
  /\ Chosen \subseteq Secrets
  /\ Subject \in [Tokens -> Users]
  /\ ValidTokens \subseteq Tokens
  /\ OAuthEnabled \in BOOLEAN /\ Encrypted \in BOOLEAN
  /\ IamUser \in [Credentials -> Users \cup {Nobody}]
  /\ Nobody \notin Users \cup Secrets \cup KeyIds \cup Row
  /\ {"admin", "bootstrap"} \subseteq Users

VARIABLES
  keys        \* api_keys: the row of each secret, or Nobody

KeysTypeOK == keys \in [Secrets -> Row \cup {Nobody}]

Stored == {s \in Secrets : keys[s] # Nobody}

\* A broken variant: a query without the test of the active column.
AcceptedStored(s) == s \in Stored

\* validate_key: the row of an active key; expires_at is not looked at.
Accepted(s) == s \in Stored /\ keys[s].active

\* list_keys: it compares the user's name with the stored column, and no two
\* encryptions of a name are alike.
Listed(user) == {s \in Stored : ~Encrypted /\ keys[s].user = user}

Owns(user, id) == \E s \in Listed(user) : keys[s].id = id

-------------------------------------------------------------------------------
(* Tokens                                                                  *)

\* validate_oauth_token.
TokenAccepted(c) == OAuthEnabled /\ c \in ValidTokens

ScopeMap ==
  [sc \in {"filesearch:search", "filesearch:upload", "filesearch:stores",
           "filesearch:admin"} |->
     CASE sc = "filesearch:search" -> "search" [] sc = "filesearch:upload" -> "upload"
       [] sc = "filesearch:stores" -> "stores" [] sc = "filesearch:admin" -> "admin"]

\* oauth_permissions: what scopes and roles grant.
Granted(claims) ==
  {ScopeMap[sc] : sc \in claims.scopes \cap DOMAIN ScopeMap}
  \cup (claims.scopes \cap Permissions)
  \cup (IF claims.roles \cap ({"admin", "filesearch-admin", "fs-admin"} \cup RequiredRoles) # {}
        THEN {"admin"} ELSE {})

-------------------------------------------------------------------------------
(* Whom a credential stands for                                            *)

IsToken(c) == OAuthEnabled /\ c \in Tokens

\* _oauth_to_api_key_info: a token stands for a key of its own.
TokenKey(c) == IF TokenAccepted(c) THEN <<"oauth", Subject[c]>> ELSE Nobody

\* get_current_api_key: the id of the key of an ordinary request, or Nobody.
KeyOf(c) ==
  IF IsToken(c) THEN TokenKey(c)
  ELSE IF c \in Secrets /\ Accepted(c) THEN keys[c].id ELSE Nobody

\* _try_oauth_admin: what looks like a token is not tried as anything else.
TokenAdmin(c) ==
  IF TokenAccepted(c) /\ "admin" \in Granted(Claims[c]) THEN Subject[c] ELSE Nobody

\* _resolve_key_admin: the admin key of the environment, the OIDC provider and
\* a key with the admin permission, in that order.
KeyAdmin(c) ==
  IF c = AdminSecret THEN "admin"
  ELSE IF IamUser[c] # Nobody THEN IamUser[c]
  ELSE IF c \in Secrets /\ Accepted(c) /\ "admin" \in keys[c].permissions
       THEN keys[c].user ELSE Nobody

\* _get_admin_user.
AdminOf(c) == IF IsToken(c) THEN TokenAdmin(c) ELSE KeyAdmin(c)

-------------------------------------------------------------------------------
(* Operations on the table                                                 *)

\* generate_key, with a secret that nobody has seen.
Generate(s, user, permissions) ==
  /\ s \notin Stored \cup Chosen
  /\ keys' = [keys EXCEPT ![s] = [id |-> <<"key", s>>, user |-> user,
                                  permissions |-> permissions, active |-> TRUE]]

RevokeById(id) ==
  keys' = [s \in Secrets |->
             IF s \in Stored /\ keys[s].id = id THEN [keys[s] EXCEPT !.active = FALSE]
             ELSE keys[s]]

\* Broken variants, which the specification does not use.
BootstrapReplacing(s) ==
  keys' = [keys EXCEPT ![s] = [id |-> <<"bs", Suffix[s]>>, user |-> "bootstrap",
                               permissions |-> {"upload", "search", "stores"},
                               active |-> TRUE]]
BootstrapFirstOnly(s) ==
  IF Stored # {} THEN UNCHANGED keys ELSE BootstrapReplacing(s)

\* bootstrap_api_key: nothing when the key is in the table, revoked or not; and
\* INSERT OR IGNORE inserts nothing when another key has the same id.
Bootstrap(s) ==
  IF s \in Stored \/ \E other \in Stored : keys[other].id = <<"bs", Suffix[s]>>
  THEN UNCHANGED keys
  ELSE keys' = [keys EXCEPT ![s] = [id |-> <<"bs", Suffix[s]>>, user |-> "bootstrap",
                                    permissions |-> {"upload", "search", "stores"},
                                    active |-> TRUE]]

KeysInit == keys = [s \in Secrets |-> Nobody]
===============================================================================
