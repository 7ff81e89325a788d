---------------------------- MODULE Installation ----------------------------
(***************************************************************************)
(* A source's installation on a GitHub account: the events that tell of it *)
(* (web/src/webhook.rs, handle_installation), and the short-lived tokens   *)
(* minted for it and kept in the database (server/src/github.rs,           *)
(* installation_token; server/src/store/sources.rs).                       *)
(*                                                                         *)
(* Time is what is left of a token.  A build that clones, a list of        *)
(* repositories and the write of a commit status each ask for a token and  *)
(* use it a while.                                                         *)
(***************************************************************************)
EXTENDS Naturals, Sequences

CONSTANTS
    User,        \* who asks for a token
    Lifetime,    \* the hour GitHub grants
    Margin,      \* REFRESH_MARGIN_SECONDS, in the same unit
    MaxInstalls, \* installations there will have been: a bound
    MaxEvents    \* events under way: a bound

ASSUME InstallationAssumption ==
    Margin \in Nat \ {0} /\ Lifetime \in Nat /\ Margin < Lifetime /\ MaxInstalls \in Nat

VARIABLES
    installed, \* external: the installation there is; 0 for none
    installs,  \* external: how many there have been
    news,      \* external: what GitHub has yet to tell
    untidy,    \* history: an event came out of turn, or was not recorded
    known,     \* sources.installation_id
    cache,     \* github_installation_tokens: whose, and what is left of it
    user       \* the calls under way

installationVars == <<installed, installs, news, untidy, known, cache, user>>

Spent == [of |-> 0, left |-> 0]
Idle == [pc |-> "idle"]

InstallationInit ==
    /\ installed = 0 /\ installs = 0
    /\ news = <<>> /\ untidy = FALSE
    /\ known = 0
    /\ cache = Spent
    /\ user = [u \in User |-> Idle]

(***************************************************************************)
(* External: what happens on GitHub.                                       *)
(***************************************************************************)
Install ==
    /\ installed = 0 /\ installs < MaxInstalls /\ Len(news) < MaxEvents
    /\ installs' = installs + 1 /\ installed' = installs + 1
    /\ news' = Append(news, [action |-> "created", id |-> installs + 1])
    /\ UNCHANGED <<untidy, known, cache, user>>

Uninstall ==
    /\ installed # 0 /\ Len(news) < MaxEvents
    /\ installed' = 0
    /\ news' = Append(news, [action |-> "deleted", id |-> installed])
    /\ UNCHANGED <<installs, untidy, known, cache, user>>

(* installation_repositories, suspend and the like. *)
Changes ==
    /\ installed # 0 /\ Len(news) < MaxEvents
    /\ news' = Append(news, [action |-> "added", id |-> installed])
    /\ UNCHANGED <<installed, installs, untidy, known, cache, user>>

(***************************************************************************)
(* The event arrives.                                                      *)
(***************************************************************************)
(* Any "deleted" clears the row, whichever installation it is about. *)
Recorded(event) == IF event.action = "deleted" THEN 0 ELSE event.id

HandleInstallation ==
    /\ news # <<>>
    /\ known' = Recorded(Head(news))
    /\ news' = Tail(news)
    /\ UNCHANGED <<installed, installs, untidy, cache, user>>

(* A delivery that GitHub makes late, or that is lost; the write that      *)
(* fails is lost too.                                                      *)
Overtaken ==
    /\ Len(news) > 1
    /\ news' = Append(Tail(news), Head(news))
    /\ untidy' = TRUE
    /\ UNCHANGED <<installed, installs, known, cache, user>>

Unrecorded ==
    /\ news # <<>>
    /\ news' = Tail(news)
    /\ untidy' = TRUE
    /\ UNCHANGED <<installed, installs, known, cache, user>>

(***************************************************************************)
(* Asking for a token.                                                     *)
(***************************************************************************)
\* Variant of Comfortable: one that has not expired will do.
Unexpired(left) == left > 0

(* cached_installation_token: what expires within the margin is not used.  *)
Comfortable(left) == left >= Margin

Holds(u, token) == user' = [user EXCEPT ![u] = [pc |-> "using", token |-> token, since |-> 0]]
Gives(u) == user' = [user EXCEPT ![u] = Idle]

ReadCache(u) ==
    /\ user[u].pc = "idle"
    /\ IF Comfortable(cache.left) THEN Holds(u, cache)
       ELSE user' = [user EXCEPT ![u] = [pc |-> "source"]]
    /\ UNCHANGED <<installed, installs, news, untidy, known, cache>>

(* The source's row, which may name no installation; its key; the JWT.     *)
ReadSource(u) ==
    /\ user[u].pc = "source"
    /\ IF known = 0 THEN Gives(u)
       ELSE user' = [user EXCEPT ![u] = [pc |-> "mint", of |-> known]]
    /\ UNCHANGED <<installed, installs, news, untidy, known, cache>>

(* create_installation_token: GitHub grants one to the installation there is. *)
CreateInstallationToken(u) ==
    /\ user[u].pc = "mint"
    /\ \/ /\ user[u].of = installed
          /\ user' = [user EXCEPT ![u] = [pc |-> "keep", token |-> [of |-> installed, left |-> Lifetime]]]
       \/ Gives(u)
    /\ UNCHANGED <<installed, installs, news, untidy, known, cache>>

(* cache_installation_token overwrites what is there. *)
Keep(u) ==
    /\ user[u].pc = "keep"
    /\ cache' = user[u].token
    /\ Holds(u, user[u].token)
    /\ UNCHANGED <<installed, installs, news, untidy, known>>

Finish(u) ==
    /\ user[u].pc = "using"
    /\ Gives(u)
    /\ UNCHANGED <<installed, installs, news, untidy, known, cache>>

Older(token) == [token EXCEPT !.left = IF @ = 0 THEN 0 ELSE @ - 1]

(* A unit of time.  Uses that take as long as the margin are left out; a   *)
(* write to the database takes none.                                       *)
Passes ==
    /\ \A u \in User : user[u].pc # "keep" /\ (user[u].pc = "using" => user[u].since + 1 < Margin)
    /\ cache' = Older(cache)
    /\ user' = [u \in User |->
                  IF user[u].pc = "using" THEN [user[u] EXCEPT !.token = Older(@), !.since = @ + 1]
                  ELSE user[u]]
    /\ UNCHANGED <<installed, installs, news, untidy, known>>

InstallationNext ==
    \/ Install \/ Uninstall \/ Changes
    \/ HandleInstallation \/ Overtaken \/ Unrecorded
    \/ Passes
    \/ \E u \in User : ReadCache(u) \/ ReadSource(u) \/ CreateInstallationToken(u) \/ Keep(u) \/ Finish(u)

InstallationSpec == InstallationInit /\ [][InstallationNext]_installationVars

(***************************************************************************)
(* Properties.                                                             *)
(***************************************************************************)
(* A token that is used for less than the margin does not expire in use    *)
(* ("a token that expires mid-clone is treated as already expired",        *)
(* store/sources.rs), however it was come by; and while events arrive once *)
(* and in turn, the row names the installation there is as soon as none is *)
(* under way ("an uninstall must clear the installation", webhook.rs).     *)
TokensOutliveTheirUse ==
    /\ \A u \in User : user[u].pc = "using" => user[u].token.left > 0
    /\ ~untidy /\ news = <<>> => known = installed

=============================================================================
