----------------------------- MODULE ApiTokens -----------------------------
(***************************************************************************)
(* API tokens (server/src/store/auth.rs), the layer that asks for them     *)
(* (server/src/auth.rs) and the token the all-in-one mints for its own     *)
(* dashboard at every boot (allinone/src/main.rs).                         *)
(***************************************************************************)
EXTENDS Integers, FiniteSets

CONSTANTS
    MaxTokens, \* the rows that can ever be created: a bound
    MaxBoots   \* how often the process starts: a bound

Token == 1 .. MaxTokens
Dashboard == "dashboard (all-in-one)"

VARIABLES
    token,   \* api_tokens
    boot,    \* where the all-in-one is: down, revoking or up
    doomed,  \* the earlier dashboard tokens a boot still has to revoke
    held,    \* the tokens whose plaintext the running dashboard holds
    boots,
    byHand   \* history: the tokens the operator created or revoked himself

tokensVars == <<token, boot, doomed, held, boots, byHand>>

NoToken == [name |-> "none", scopes |-> {}, state |-> "none"]

TokensInit ==
    /\ token = [t \in Token |-> NoToken]
    /\ boot = "down"
    /\ doomed = {}
    /\ held = {}
    /\ boots = 0
    /\ byHand = {}

(* create_api_token: unknown scopes are dropped, none left means read, and *)
(* write brings read with it.                                              *)
Normalized(scopes) ==
    LET known == scopes \cap {"read", "write"} IN
    IF known = {} \/ "write" \in known THEN known \cup {"read"} ELSE known

Row(name, scopes) ==
    [name |-> name, scopes |-> Normalized(scopes), state |-> "active"]

(* Rows are numbered in the order they are inserted. *)
New(t) ==
    /\ token[t].state = "none"
    /\ \A u \in Token : u < t => token[u].state # "none"

Active(t) == token[t].state = "active"

(* auth::check of a call that needs `scope`, with the layer switched on. *)
Admits(t, scope) == Active(t) /\ scope \in token[t].scopes

(* provision_dashboard_token reads the list, revokes one by one, and mints.*)
Doomed == {t \in Token : Active(t) /\ token[t].name = Dashboard}

BootAllInOne ==
    /\ boot = "down" /\ boots < MaxBoots
    /\ boots' = boots + 1
    /\ doomed' = Doomed
    /\ boot' = "revoking"
    /\ UNCHANGED <<token, held, byHand>>

RevokeEarlier ==
    /\ boot = "revoking"
    /\ \E t \in doomed :
          /\ token' = [token EXCEPT ![t].state = "revoked"]
          /\ doomed' = doomed \ {t}
    /\ UNCHANGED <<boot, held, boots, byHand>>

Mint ==
    /\ boot = "revoking" /\ doomed = {}
    /\ \E t \in Token :
          /\ New(t)
          /\ token' = [token EXCEPT ![t] = Row(Dashboard, {"write"})]
          /\ held' = {t}
    /\ boot' = "up"
    /\ UNCHANGED <<doomed, boots, byHand>>

(* Either half exiting ends the process; so does a crash, at any point. *)
StopAllInOne ==
    /\ boot # "down"
    /\ boot' = "down"
    /\ held' = {} /\ doomed' = {}
    /\ UNCHANGED <<token, boots, byHand>>

(* The settings page: token_create, with any name, and token_revoke. *)
CreateToken ==
    /\ boot = "up"
    /\ \E t \in Token, name \in {Dashboard, "ci"}, scopes \in SUBSET {"read", "write", "admin"} :
          /\ New(t)
          /\ token' = [token EXCEPT ![t] = Row(name, scopes)]
          /\ byHand' = byHand \cup {t}
    /\ UNCHANGED <<boot, doomed, held, boots>>

RevokeToken ==
    /\ boot = "up"
    /\ \E t \in Token :
          /\ Active(t)
          /\ token' = [token EXCEPT ![t].state = "revoked"]
          /\ byHand' = byHand \cup {t}
    /\ UNCHANGED <<boot, doomed, held, boots>>

TokensNext == BootAllInOne \/ RevokeEarlier \/ Mint \/ StopAllInOne \/ CreateToken \/ RevokeToken

(* Property.  While the dashboard runs, its calls are admitted, reads and  *)
(* writes, and no token an earlier process held is: both unless the        *)
(* operator revoked or created the token himself.                          *)
OneDashboardToken ==
    boot = "up" =>
        \A t \in Token \ byHand :
            /\ t \in held => Admits(t, "read") /\ Admits(t, "write")
            /\ t \notin held => ~Active(t)

=============================================================================
