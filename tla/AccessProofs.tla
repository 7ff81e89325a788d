---------------------------- MODULE AccessProofs ----------------------------
(***************************************************************************)
(* What MCAccess explores with a few requests, tokens, sockets and forms,  *)
(* for any number of them.                                                 *)
(***************************************************************************)
EXTENDS MCAccess, FiniteSetTheorems, SequenceTheorems, TLAPS

(***************************************************************************)
(* Sessions.                                                               *)
(***************************************************************************)
SessionRequest ==
    [kind : Kind, email : Email,
     pc : {"begin", "create", "session", "update", "purge", "done"},
     typed : Nat \ {0}, accounts : SUBSET Email, verified : Nat]

SessionsTypeOK ==
    /\ password \in [Email -> Nat]
    /\ purged \in [Email -> Nat]
    /\ req \in [Request -> {NoRequest} \cup SessionRequest]
    /\ sessions \subseteq Request

\* A request that has passed its check: it has a session, or is about to.
SignedUp(r) == req[r] \in SessionRequest /\ (r \in sessions \/ req[r].pc = "session")

(* A sign-in that passed its check before a change was over is the only    *)
(* one whose session may carry an old password.                            *)
Promise(r) ==
    LET e == req[r].email IN
    /\ req[r].verified <= purged[e]
    /\ req[r].kind = "login" /\ req[r].typed # password[e] /\ ~Changing(e)
          => req[r].verified < purged[e]

(* A session's handler is over, and the promise of                         *)
(* StaleSessionsWereUnderWay is already kept by who has still to write its *)
(* session: the row comes after the check, whatever happens in between.    *)
SessionsInv ==
    /\ SessionsTypeOK
    /\ \A s \in sessions : req[s] # NoRequest /\ req[s].pc = "done"
    /\ \A r \in Request : SignedUp(r) => Promise(r)

LEMMA SessionsInit_Inv == SessionsInit => SessionsInv
BY DEF SessionsInit, SessionsInv, SessionsTypeOK, SignedUp, NoRequest, SessionRequest

LEMMA SessionsNext_Type == SessionsInv /\ SessionsNext => SessionsTypeOK'
<1>. SUFFICES ASSUME SessionsInv, NEW r \in Request,
                     \/ Accept(r) \/ SetupCheck(r) \/ SetupCreate(r) \/ Authenticate(r)
                     \/ CreateSession(r) \/ ChangeVerify(r) \/ ChangeSteps(r)
                     \/ Expire(r) \/ EndSession(r)
              PROVE  SessionsTypeOK'
  BY DEF SessionsNext
<1>. USE DEF SessionsInv, SessionsTypeOK
<1>1. CASE Accept(r)
  BY <1>1 DEF Accept, NewRequest, SessionRequest, Kind
<1>2. CASE SetupCheck(r) \/ SetupCreate(r)
  BY <1>2 DEF SetupCheck, SetupCreate, On, Move, NoRequest, SessionRequest
<1>3. CASE Authenticate(r)
  BY <1>3 DEF Authenticate, On, Move, NoRequest, SessionRequest
<1>4. CASE CreateSession(r) \/ ChangeVerify(r)
  BY <1>4 DEF CreateSession, ChangeVerify, On, Move, NoRequest, SessionRequest
<1>5. CASE ChangeSteps(r)
  BY <1>5 DEF ChangeSteps, ChangeUpdate, ChangePurge, Own, On, Move, NoRequest, SessionRequest
<1>6. CASE Expire(r) \/ EndSession(r)
  BY <1>6 DEF Expire, EndSession
<1>. QED  BY <1>1, <1>2, <1>3, <1>4, <1>5, <1>6

(* A session is there only for a handler that is over. *)
LEMMA SessionsNext_Done ==
    ASSUME SessionsInv, SessionsNext
    PROVE  \A s \in sessions' : req'[s] # NoRequest /\ req'[s].pc = "done"
<1>. SUFFICES ASSUME NEW r \in Request,
                     \/ Accept(r) \/ SetupCheck(r) \/ SetupCreate(r) \/ Authenticate(r)
                     \/ CreateSession(r) \/ ChangeVerify(r) \/ ChangeSteps(r)
                     \/ Expire(r) \/ EndSession(r)
              PROVE  \A s \in sessions' : req'[s] # NoRequest /\ req'[s].pc = "done"
  BY DEF SessionsNext
<1>. USE DEF SessionsInv, SessionsTypeOK
<1>1. CASE Accept(r)
  BY <1>1 DEF Accept
<1>2. CASE SetupCheck(r) \/ SetupCreate(r) \/ Authenticate(r)
  BY <1>2 DEF SetupCheck, SetupCreate, Authenticate, On, Move, NoRequest, SessionRequest
<1>3. CASE CreateSession(r)
  BY <1>3 DEF CreateSession, Move, NoRequest, SessionRequest
<1>4. CASE ChangeVerify(r) \/ ChangeSteps(r)
  BY <1>4 DEF ChangeVerify, ChangeSteps, ChangeUpdate, ChangePurge, Own, On, Move, NoRequest,
              SessionRequest
<1>5. CASE Expire(r) \/ EndSession(r)
  BY <1>5 DEF Expire, EndSession
<1>. QED  BY <1>1, <1>2, <1>3, <1>4, <1>5

LEMMA SessionsNext_Promise ==
    ASSUME SessionsInv, SessionsNext, NEW q \in Request, SignedUp(q)'
    PROVE  Promise(q)'
<1>. SUFFICES ASSUME NEW r \in Request,
                     \/ Accept(r) \/ SetupCheck(r) \/ SetupCreate(r) \/ Authenticate(r)
                     \/ CreateSession(r) \/ ChangeVerify(r) \/ ChangeSteps(r)
                     \/ Expire(r) \/ EndSession(r)
              PROVE  Promise(q)'
  BY DEF SessionsNext
<1>. USE DEF SessionsInv, SessionsTypeOK
<1>1. CASE Accept(r)
  BY <1>1 DEF Accept, NewRequest, SessionRequest, Kind, SignedUp, Promise, Changing, On, NoRequest
<1>2. CASE SetupCheck(r)
  BY <1>2 DEF SetupCheck, Move, SessionRequest, SignedUp, Promise, Changing, On, NoRequest
<1>3. CASE SetupCreate(r)
  BY <1>3 DEF SetupCreate, Move, SessionRequest, SignedUp, Promise, Changing, On, NoRequest
<1>4. CASE Authenticate(r)
  BY <1>4 DEF Authenticate, Move, SessionRequest, SignedUp, Promise, Changing, On, NoRequest
<1>5. CASE CreateSession(r)
  BY <1>5 DEF CreateSession, Move, SessionRequest, SignedUp, Promise, Changing, On, NoRequest
<1>6. CASE ChangeVerify(r)
  BY <1>6 DEF ChangeVerify, Move, SessionRequest, SignedUp, Promise, Changing, On, NoRequest
<1>7. CASE ChangeUpdate(r)
  BY <1>7 DEF ChangeUpdate, Move, SessionRequest, SignedUp, Promise, Changing, On, NoRequest
<1>8. CASE ChangePurge(r)
  BY <1>8 DEF ChangePurge, Own, Move, SessionRequest, SignedUp, Promise, Changing, On, NoRequest
<1>9. CASE Expire(r) \/ EndSession(r)
  BY <1>9 DEF Expire, EndSession, SignedUp, Promise, Changing, On
<1>. QED  BY <1>1, <1>2, <1>3, <1>4, <1>5, <1>6, <1>7, <1>8, <1>9 DEF ChangeSteps

LEMMA SessionsNext_Inv == SessionsInv /\ [SessionsNext]_sessionsVars => SessionsInv'
<1>1. SessionsInv /\ SessionsNext => SessionsInv'
  BY SessionsNext_Type, SessionsNext_Done, SessionsNext_Promise DEF SessionsInv
<1>2. SessionsInv /\ UNCHANGED sessionsVars => SessionsInv'
  BY DEF SessionsInv, SessionsTypeOK, sessionsVars, SignedUp, Promise, Changing, On
<1>. QED  BY <1>1, <1>2

LEMMA SessionsInv_Stale == SessionsInv => StaleSessionsWereUnderWay
BY DEF SessionsInv, SessionsTypeOK, StaleSessionsWereUnderWay, SignedUp, Promise

(***************************************************************************)
(* API tokens.                                                             *)
(***************************************************************************)
TokenRow ==
    [name : {"none", "ci", Dashboard}, scopes : SUBSET {"read", "write"},
     state : {"none", "active", "revoked"}]

(* What the operator has not touched is a dashboard's token, with both     *)
(* scopes.  A boot has on its list every such token that still admits, so  *)
(* when the list is empty the new one is alone.                            *)
TokensInv ==
    /\ token \in [Token -> TokenRow]
    /\ boot \in {"down", "revoking", "up"}
    /\ held \subseteq Token
    /\ doomed \subseteq {t \in Token : token[t].state # "none"}
    /\ \A t \in Token \ byHand :
          token[t].state # "none" => token[t].name = Dashboard /\ token[t].scopes = {"read", "write"}
    /\ boot = "revoking" => \A t \in Token \ byHand : Active(t) => t \in doomed
    /\ OneDashboardToken

LEMMA TokensInit_Inv == TokensInit => TokensInv
BY DEF TokensInit, TokensInv, TokenRow, NoToken, Active, OneDashboardToken

LEMMA TokensNext_Inv == TokensInv /\ [TokensNext]_tokensVars => TokensInv'
<1>. SUFFICES ASSUME TokensInv, [TokensNext]_tokensVars PROVE TokensInv'
  OBVIOUS
<1>. USE DEF TokensInv, TokenRow, Active, OneDashboardToken, Admits
<1>1. CASE BootAllInOne
  BY <1>1 DEF BootAllInOne, Doomed
<1>2. CASE RevokeEarlier
  BY <1>2 DEF RevokeEarlier
<1>3. CASE Mint
  BY <1>3 DEF Mint, New, Row, Normalized
<1>4. CASE StopAllInOne
  BY <1>4 DEF StopAllInOne
<1>5. CASE CreateToken
  BY <1>5 DEF CreateToken, New, Row, Normalized
<1>6. CASE RevokeToken
  BY <1>6 DEF RevokeToken
<1>7. CASE UNCHANGED tokensVars
  BY <1>7 DEF tokensVars
<1>. QED  BY <1>1, <1>2, <1>3, <1>4, <1>5, <1>6, <1>7 DEF TokensNext

-----------------------------------------------------------------------------
(* Each part of AccessSpec is its component, at rest while another moves. *)
LEMMA AccessStep ==
    ASSUME [AccessNext]_accessVars
    PROVE  /\ [SessionsNext]_sessionsVars
           /\ [TokensNext]_tokensVars
BY DEF AccessNext, Others, accessVars

(* Nothing that was revoked opens a door, for any addresses, requests and  *)
(* tokens: neither a session of a password that was changed, unless its    *)
(* sign-in was under way, nor a dashboard token of an earlier process.     *)
THEOREM RevokedMeansShut == AccessSpec => []CredentialsEnd
<1>1. AccessInit => SessionsInv /\ TokensInv
  BY SessionsInit_Inv, TokensInit_Inv DEF AccessInit
<1>2. SessionsInv /\ TokensInv /\ [AccessNext]_accessVars => SessionsInv' /\ TokensInv'
  BY SessionsNext_Inv, TokensNext_Inv, AccessStep
<1>3. SessionsInv /\ TokensInv => CredentialsEnd
  BY SessionsInv_Stale DEF TokensInv, CredentialsEnd
<1>. QED  BY <1>1, <1>2, <1>3, PTL DEF AccessSpec

-----------------------------------------------------------------------------
(***************************************************************************)
(* Installations and their tokens.                                         *)
(***************************************************************************)
Minted == [of : Nat, left : Nat]
Event == [action : {"created", "deleted", "added"}, id : Nat]

UserState == [pc : {"idle", "source"}] \cup [pc : {"mint"}, of : Nat]
                 \cup [pc : {"keep"}, token : Minted]
                 \cup [pc : {"using"}, token : Minted, since : Nat]

InstallationTypeOK ==
    /\ installed \in Nat /\ installs \in Nat /\ known \in Nat
    /\ news \in Seq(Event)
    /\ untidy \in BOOLEAN
    /\ cache \in Minted
    /\ user \in [User -> UserState]

(* What is in use has lost no more of the margin it began with than the    *)
(* time it has been used; and the last event under way, when they come in  *)
(* turn, leaves the row at the installation there is.                      *)
InstallationInv ==
    /\ InstallationTypeOK
    /\ \A u \in User :
          /\ user[u].pc = "keep" => user[u].token.left = Lifetime
          /\ user[u].pc = "using" =>
                /\ user[u].since < Margin
                /\ user[u].token.left + user[u].since >= Margin
    /\ ~untidy => installed = IF news = <<>> THEN known ELSE Recorded(news[Len(news)])

LEMMA InstallationInit_Inv == InstallationInit => InstallationInv
<1>. SUFFICES ASSUME InstallationInit PROVE InstallationInv
  OBVIOUS
<1>1. InstallationTypeOK
  <2>1. Spent \in Minted /\ Idle \in UserState
    BY DEF Spent, Minted, Idle, UserState
  <2>. QED  BY <2>1, EmptySeq DEF InstallationInit, InstallationTypeOK
<1>. QED  BY <1>1 DEF InstallationInit, InstallationInv, Idle

(* What is last stays last when the first is taken away. *)
LEMMA LastOfTail ==
    ASSUME NEW S, NEW s \in Seq(S), s # <<>>
    PROVE  /\ Tail(s) = <<>> => Len(s) = 1
           /\ Tail(s) # <<>> => Tail(s)[Len(Tail(s))] = s[Len(s)]
<1>1. Tail(s) \in Seq(S) /\ Len(Tail(s)) = Len(s) - 1
  BY HeadTailProperties
<1>2. \A i \in 1 .. Len(Tail(s)) : Tail(s)[i] = s[i + 1]
  BY HeadTailProperties
<1>3. Len(s) \in Nat \ {0} /\ (Tail(s) # <<>> => Len(Tail(s)) \in Nat \ {0})
  BY <1>1, EmptySeq
<1>4. Tail(s) = <<>> => Len(Tail(s)) = 0
  BY EmptySeq, Zenon
<1>. QED  BY <1>1, <1>2, <1>3, <1>4

(* GitHub has sent another event. *)
LEMMA EventSent ==
    ASSUME InstallationInv, NEW e \in Event, news' = Append(news, e),
           installed' = Recorded(e), installed' \in Nat, installs' \in Nat,
           UNCHANGED <<untidy, known, cache, user>>
    PROVE  InstallationInv'
<1>1. news \in Seq(Event)
  BY DEF InstallationInv, InstallationTypeOK
<1>2. /\ news' \in Seq(Event) /\ news' # <<>>
      /\ news'[Len(news')] = e
  BY <1>1, AppendProperties
<1>3. InstallationTypeOK'
  BY <1>2 DEF InstallationInv, InstallationTypeOK
<1>4. \A u \in User :
         /\ user'[u].pc = "keep" => user'[u].token.left = Lifetime
         /\ user'[u].pc = "using" =>
               /\ user'[u].since < Margin
               /\ user'[u].token.left + user'[u].since >= Margin
  BY DEF InstallationInv
<1>5. (~untidy => installed = IF news = <<>> THEN known ELSE Recorded(news[Len(news)]))'
  BY <1>2 DEF Recorded
<1>. QED  BY <1>3, <1>4, <1>5 DEF InstallationInv

(* GitHub's events. *)
LEMMA Events_Inv ==
    ASSUME InstallationInv,
           \/ Install \/ Uninstall \/ Changes
           \/ HandleInstallation \/ Overtaken \/ Unrecorded
    PROVE  InstallationInv'
<1>. USE DEF InstallationInv, InstallationTypeOK, Event
<1>1. CASE Install
  <2>. DEFINE e == [action |-> "created", id |-> installs + 1]
  <2>1. e \in Event /\ Recorded(e) = installs + 1
    BY DEF Recorded
  <2>2. /\ news' = Append(news, e) /\ installed' = installs + 1 /\ installs' = installs + 1
        /\ UNCHANGED <<untidy, known, cache, user>>
    BY <1>1 DEF Install
  <2>3. installs + 1 \in Nat
    OBVIOUS
  <2>. HIDE DEF e, InstallationInv, InstallationTypeOK, Event
  <2>. QED  BY <2>1, <2>2, <2>3, EventSent
<1>2. CASE Uninstall
  <2>. DEFINE e == [action |-> "deleted", id |-> installed]
  <2>1. e \in Event /\ Recorded(e) = 0
    BY DEF Recorded
  <2>2. /\ news' = Append(news, e) /\ installed' = 0 /\ UNCHANGED <<installs, untidy, known, cache, user>>
    BY <1>2 DEF Uninstall
  <2>3. installs \in Nat /\ 0 \in Nat
    OBVIOUS
  <2>. HIDE DEF e, InstallationInv, InstallationTypeOK, Event
  <2>. QED  BY <2>1, <2>2, <2>3, EventSent
<1>3. CASE Changes
  <2>. DEFINE e == [action |-> "added", id |-> installed]
  <2>1. e \in Event /\ Recorded(e) = installed
    BY DEF Recorded
  <2>2. news' = Append(news, e) /\ UNCHANGED <<installed, installs, untidy, known, cache, user>>
    BY <1>3 DEF Changes
  <2>3. installs \in Nat /\ installed \in Nat
    OBVIOUS
  <2>. HIDE DEF e, InstallationInv, InstallationTypeOK, Event
  <2>. QED  BY <2>1, <2>2, <2>3, EventSent
<1>4. CASE HandleInstallation
  <2>. HIDE DEF Event
  <2>1. /\ Head(news) = news[1] /\ Head(news) \in Event /\ Tail(news) \in Seq(Event)
        /\ Tail(news) = <<>> => Len(news) = 1
        /\ Tail(news) # <<>> => Tail(news)[Len(Tail(news))] = news[Len(news)]
    BY <1>4, HeadTailProperties, LastOfTail DEF HandleInstallation
  <2>2. known' = Recorded(news[1]) /\ known' \in Nat
    BY <1>4, <2>1 DEF HandleInstallation, Recorded, Event
  <2>. QED  BY <1>4, <2>1, <2>2 DEF HandleInstallation
<1>5. CASE Overtaken
  <2>1. Append(Tail(news), Head(news)) \in Seq(Event)
    <3>1. news # <<>>
      BY <1>5, EmptySeq DEF Overtaken
    <3>. HIDE DEF Event
    <3>. QED  BY <3>1, HeadTailProperties, AppendProperties
  <2>. QED  BY <1>5, <2>1 DEF Overtaken
<1>6. CASE Unrecorded
  BY <1>6, HeadTailProperties DEF Unrecorded
<1>. QED  BY <1>1, <1>2, <1>3, <1>4, <1>5, <1>6

(* One user at a time. *)
LEMMA UserMoves ==
    ASSUME InstallationInv, NEW u \in User, NEW now \in UserState, cache' \in Minted,
           UNCHANGED <<installed, installs, news, untidy, known>>,
           user' = [user EXCEPT ![u] = now],
           now.pc = "keep" => now.token.left = Lifetime,
           now.pc = "using" => now.since < Margin /\ now.token.left + now.since >= Margin
    PROVE  InstallationInv'
<1>1. user \in [User -> UserState]
  BY DEF InstallationInv, InstallationTypeOK
<1>2. /\ user' \in [User -> UserState] /\ user'[u] = now
      /\ \A v \in User \ {u} : user'[v] = user[v]
  BY <1>1
<1>3. InstallationTypeOK'
  BY <1>2 DEF InstallationInv, InstallationTypeOK
<1>4. \A v \in User :
         /\ user'[v].pc = "keep" => user'[v].token.left = Lifetime
         /\ user'[v].pc = "using" =>
               /\ user'[v].since < Margin
               /\ user'[v].token.left + user'[v].since >= Margin
  BY <1>2 DEF InstallationInv
<1>5. (~untidy => installed = IF news = <<>> THEN known ELSE Recorded(news[Len(news)]))'
  BY DEF InstallationInv, Recorded
<1>. QED  BY <1>3, <1>4, <1>5 DEF InstallationInv

(* Who asks for a token. *)
LEMMA Users_Inv ==
    ASSUME InstallationInv, NEW u \in User,
           \/ ReadCache(u) \/ ReadSource(u) \/ CreateInstallationToken(u)
           \/ Keep(u) \/ Finish(u)
    PROVE  InstallationInv'
<1>t. /\ installed \in Nat /\ known \in Nat /\ cache \in Minted /\ user[u] \in UserState
      /\ Lifetime \in Nat /\ Margin \in Nat \ {0} /\ Margin <= Lifetime
  BY InstallationAssumption DEF InstallationInv, InstallationTypeOK
<1>0. UNCHANGED <<installed, installs, news, untidy, known>>
  BY DEF ReadCache, ReadSource, CreateInstallationToken, Keep, Finish
<1>i. ASSUME Gives(u), cache' = cache PROVE InstallationInv'
  <2>1. Idle \in UserState /\ Idle.pc = "idle" /\ user' = [user EXCEPT ![u] = Idle]
    BY <1>i DEF Gives, Idle, UserState
  <2>. QED  BY <1>t, <1>0, <1>i, <2>1, UserMoves
<1>h. ASSUME NEW tok \in Minted, Holds(u, tok), tok.left >= Margin, cache' \in Minted
      PROVE  InstallationInv'
  <2>. DEFINE now == [pc |-> "using", token |-> tok, since |-> 0]
  <2>1. now \in UserState /\ now.pc = "using" /\ now.token = tok /\ now.since = 0
    BY DEF UserState
  <2>2. tok.left \in Nat
    BY DEF Minted
  <2>3. now.since < Margin /\ now.token.left + now.since >= Margin
    BY <1>t, <1>h, <2>1, <2>2
  <2>4. user' = [user EXCEPT ![u] = now]
    BY <1>h DEF Holds
  <2>. HIDE DEF now
  <2>. QED  BY <1>0, <1>h, <2>1, <2>3, <2>4, UserMoves
<1>1. CASE ReadCache(u)
  <2>1. cache' = cache
    BY <1>1 DEF ReadCache
  <2>2. CASE Comfortable(cache.left)
    BY <1>h, <1>t, <1>1, <2>1, <2>2 DEF ReadCache, Comfortable
  <2>3. CASE ~Comfortable(cache.left)
    <3>. DEFINE now == [pc |-> "source"]
    <3>1. now \in UserState /\ now.pc = "source" /\ user' = [user EXCEPT ![u] = now]
      BY <1>1, <2>3 DEF ReadCache, UserState
    <3>. HIDE DEF now
    <3>. QED  BY <1>t, <1>0, <2>1, <3>1, UserMoves
  <2>. QED  BY <2>2, <2>3
<1>2. CASE ReadSource(u)
  <2>1. cache' = cache
    BY <1>2 DEF ReadSource
  <2>2. CASE known = 0
    BY <1>i, <1>2, <2>1, <2>2 DEF ReadSource
  <2>3. CASE known # 0
    <3>. DEFINE now == [pc |-> "mint", of |-> known]
    <3>1. now \in UserState /\ now.pc = "mint"
      BY <1>t DEF UserState
    <3>2. user' = [user EXCEPT ![u] = now]
      BY <1>2, <2>3 DEF ReadSource
    <3>. HIDE DEF now
    <3>. QED  BY <1>t, <1>0, <2>1, <3>1, <3>2, UserMoves
  <2>. QED  BY <2>2, <2>3
<1>3. CASE CreateInstallationToken(u)
  <2>1. cache' = cache
    BY <1>3 DEF CreateInstallationToken
  <2>2. CASE Gives(u)
    BY <1>i, <2>1, <2>2
  <2>3. CASE ~Gives(u)
    <3>. DEFINE tok == [of |-> installed, left |-> Lifetime]
                now == [pc |-> "keep", token |-> tok]
    <3>1. tok \in Minted /\ tok.left = Lifetime
      BY <1>t DEF Minted
    <3>2. user' = [user EXCEPT ![u] = now]
      BY <1>3, <2>3 DEF CreateInstallationToken
    <3>. HIDE DEF tok
    <3>3. now \in UserState /\ now.pc = "keep" /\ now.token = tok
      BY <3>1 DEF UserState
    <3>. HIDE DEF now
    <3>. QED  BY <1>t, <1>0, <2>1, <3>1, <3>2, <3>3, UserMoves
  <2>. QED  BY <2>2, <2>3
<1>4. CASE Keep(u)
  <2>1. user[u].pc = "keep" /\ cache' = user[u].token /\ Holds(u, user[u].token)
    BY <1>4 DEF Keep
  <2>2. user[u].token \in Minted
    BY <1>t, <2>1 DEF UserState
  <2>3. user[u].token.left = Lifetime
    BY <2>1 DEF InstallationInv
  <2>. QED  BY <1>h, <1>t, <2>1, <2>2, <2>3
<1>5. CASE Finish(u)
  BY <1>i, <1>5 DEF Finish
<1>. QED  BY <1>1, <1>2, <1>3, <1>4, <1>5

LEMMA OlderLeft ==
    ASSUME NEW m \in Minted
    PROVE  /\ Older(m) \in Minted
           /\ Older(m).left >= m.left - 1
BY DEF Older, Minted

LEMMA Passes_Inv == InstallationInv /\ Passes => InstallationInv'
<1>. SUFFICES ASSUME InstallationInv, Passes PROVE InstallationInv'
  OBVIOUS
<1>. USE InstallationAssumption DEF InstallationInv, InstallationTypeOK
<1>1. cache' \in Minted
  BY OlderLeft DEF Passes
<1>2. ASSUME NEW u \in User, user[u].pc # "using"
      PROVE  user'[u] = user[u] /\ user[u].pc # "keep"
  BY <1>2 DEF Passes
<1>3. ASSUME NEW u \in User, user[u].pc = "using"
      PROVE  /\ user'[u] \in [pc : {"using"}, token : Minted, since : Nat]
             /\ user'[u].since < Margin
             /\ user'[u].token.left + user'[u].since >= Margin
  <2>1. user[u] \in [pc : {"using"}, token : Minted, since : Nat]
    BY <1>3 DEF UserState
  <2>2. /\ user'[u] = [user[u] EXCEPT !.token = Older(@), !.since = @ + 1]
        /\ user[u].since + 1 < Margin
    BY <1>3 DEF Passes
  <2>. HIDE DEF InstallationInv, InstallationTypeOK
  <2>3. user[u].token.left + user[u].since >= Margin /\ user[u].token.left \in Nat
    BY <1>3, <2>1 DEF InstallationInv, Minted
  <2>4. /\ user'[u].since = user[u].since + 1
        /\ user'[u].token = Older(user[u].token)
        /\ user'[u] = [pc |-> "using", token |-> Older(user[u].token), since |-> user[u].since + 1]
    BY <2>1, <2>2
  <2>5. user'[u].token \in Minted /\ user'[u].token.left >= user[u].token.left - 1
    BY <2>1, <2>4, OlderLeft
  <2>6. user'[u].token.left \in Nat /\ user[u].since \in Nat /\ Margin \in Nat
    BY <2>1, <2>5 DEF Minted
  <2>. QED  BY <2>1, <2>2, <2>3, <2>4, <2>5, <2>6
<1>4. user' = [u \in User |-> user'[u]]
  BY DEF Passes
<1>5. UNCHANGED <<installed, installs, news, untidy, known>>
  BY DEF Passes
<1>6. \A u \in User : user'[u] \in UserState
  BY <1>2, <1>3 DEF UserState
<1>7. InstallationTypeOK'
  BY <1>1, <1>4, <1>5, <1>6
<1>8. (~untidy => installed = IF news = <<>> THEN known ELSE Recorded(news[Len(news)]))'
  BY <1>5 DEF Recorded
<1>9. \A u \in User : user'[u].pc # "keep"
  BY <1>2, <1>3
<1>10. ASSUME NEW u \in User, user'[u].pc = "using"
       PROVE  /\ user'[u].since < Margin
              /\ user'[u].token.left + user'[u].since >= Margin
  <2>1. CASE user[u].pc = "using"
    BY <1>3, <2>1
  <2>2. CASE user[u].pc # "using"
    BY <1>2, <1>10, <2>2
  <2>. QED  BY <2>1, <2>2
<1>. QED  BY <1>7, <1>8, <1>9, <1>10

LEMMA InstallationNext_Inv ==
    InstallationInv /\ [InstallationNext]_installationVars => InstallationInv'
<1>1. InstallationInv /\ InstallationNext => InstallationInv'
  BY Events_Inv, Users_Inv, Passes_Inv DEF InstallationNext
<1>2. InstallationInv /\ UNCHANGED installationVars => InstallationInv'
  BY DEF InstallationInv, InstallationTypeOK, installationVars
<1>. QED  BY <1>1, <1>2

(* No token expires in use, for any margin shorter than its life and any   *)
(* number of callers; and events that come in turn leave the row right.    *)
THEOREM TokensLast == InstallationSpec => []TokensOutliveTheirUse
<1>1. InstallationInv => TokensOutliveTheirUse
  <2>. SUFFICES ASSUME InstallationInv PROVE TokensOutliveTheirUse
    OBVIOUS
  <2>1. ASSUME NEW u \in User, user[u].pc = "using" PROVE user[u].token.left > 0
    <3>1. /\ user[u].since < Margin /\ user[u].token.left + user[u].since >= Margin
          /\ user[u] \in UserState
      BY <2>1 DEF InstallationInv, InstallationTypeOK
    <3>2. user[u].token \in Minted /\ user[u].since \in Nat
      BY <2>1, <3>1 DEF UserState
    <3>3. user[u].token.left \in Nat
      BY <3>2 DEF Minted
    <3>. QED  BY <3>1, <3>2, <3>3, InstallationAssumption
  <2>2. ~untidy /\ news = <<>> => known = installed
    BY DEF InstallationInv
  <2>. QED  BY <2>1, <2>2 DEF TokensOutliveTheirUse
<1>. QED  BY <1>1, InstallationInit_Inv, InstallationNext_Inv, PTL DEF InstallationSpec

-----------------------------------------------------------------------------
(***************************************************************************)
(* Terminals: grants.                                                      *)
(***************************************************************************)
GrantState == [state : {"none", "issued", "consumed"}, expired : BOOLEAN]
SocketState == [pc : {"idle", "redeemed", "open", "closed"}, grant : SUBSET Grant, strays : Nat]

GrantsTypeOK ==
    /\ targets \subseteq Target
    /\ creation \in [Grant -> {NotAsked} \cup [pc : {"create", "done"}, target : Target]]
    /\ grant \in [Grant -> GrantState]
    /\ socket \in [Socket -> SocketState]

(* A grant is issued once, by the only handler it has; once a socket has   *)
(* spent it, it is consumed or gone for good.                              *)
GrantsInv ==
    /\ GrantsTypeOK
    /\ \A g \in Grant : creation[g].pc # "done" => grant[g].state = "none"
    /\ \A s \in Socket :
          /\ socket[s].pc = "idle" => socket[s].grant = {}
          /\ \A g \in socket[s].grant : creation[g].pc = "done" /\ grant[g].state # "issued"
    /\ GrantOpensOnce

LEMMA GrantsInit_Inv == TerminalsInit => GrantsInv
BY DEF TerminalsInit, GrantsInv, GrantsTypeOK, GrantState, SocketState, NotAsked, NoGrant, GrantOpensOnce

(* One grant, or one socket, at a time. *)
LEMMA OneGrantMoves ==
    ASSUME grant \in [Grant -> GrantState], NEW g \in Grant, NEW now,
           grant' = [grant EXCEPT ![g] = now], now \in GrantState
    PROVE  /\ grant' \in [Grant -> GrantState] /\ grant'[g] = now
           /\ \A other \in Grant \ {g} : grant'[other] = grant[other]
OBVIOUS

LEMMA OneSocketMoves ==
    ASSUME socket \in [Socket -> SocketState], NEW s \in Socket, NEW now,
           socket' = [socket EXCEPT ![s] = now], now \in SocketState
    PROVE  /\ socket' \in [Socket -> SocketState] /\ socket'[s] = now
           /\ \A other \in Socket \ {s} : socket'[other] = socket[other]
OBVIOUS

(* A socket that moves without a grant. *)
LEMMA SocketGoesOn ==
    ASSUME GrantsInv, NEW s \in Socket, NEW now \in SocketState,
           UNCHANGED <<targets, creation, grant>>, socket' = [socket EXCEPT ![s] = now],
           now.grant = socket[s].grant, now.pc = "idle" => socket[s].pc = "idle"
    PROVE  GrantsInv'
<1>1. socket \in [Socket -> SocketState]
  BY DEF GrantsInv, GrantsTypeOK
<1>2. /\ socket' \in [Socket -> SocketState] /\ socket'[s] = now
      /\ \A other \in Socket \ {s} : socket'[other] = socket[other]
  BY <1>1, OneSocketMoves
<1>3. \A other \in Socket :
         /\ socket'[other].grant = socket[other].grant
         /\ socket'[other].pc = "idle" => socket[other].pc = "idle"
  BY <1>2
<1>4. GrantsTypeOK'
  BY <1>2 DEF GrantsInv, GrantsTypeOK
<1>5. /\ \A g \in Grant : creation'[g].pc # "done" => grant'[g].state = "none"
      /\ \A other \in Socket :
            /\ socket'[other].pc = "idle" => socket'[other].grant = {}
            /\ \A g \in socket'[other].grant : creation'[g].pc = "done" /\ grant'[g].state # "issued"
  BY <1>3 DEF GrantsInv
<1>6. GrantOpensOnce'
  BY <1>3 DEF GrantsInv, GrantOpensOnce
<1>. QED  BY <1>4, <1>5, <1>6 DEF GrantsInv

(* A grant that moves within its state while nothing else does. *)
LEMMA GrantGoesOn ==
    ASSUME GrantsInv, NEW g \in Grant, NEW now \in GrantState,
           UNCHANGED <<targets, creation, socket>>, grant' = [grant EXCEPT ![g] = now],
           now.state = grant[g].state
    PROVE  GrantsInv'
<1>1. grant \in [Grant -> GrantState]
  BY DEF GrantsInv, GrantsTypeOK
<1>2. /\ grant' \in [Grant -> GrantState] /\ grant'[g] = now
      /\ \A other \in Grant \ {g} : grant'[other] = grant[other]
  BY <1>1, OneGrantMoves
<1>3. GrantsTypeOK'
  BY <1>2 DEF GrantsInv, GrantsTypeOK
<1>4. \A h \in Grant : grant[h].state = "none" => grant'[h].state = "none"
  BY <1>2
<1>5. \A h \in Grant : grant[h].state # "issued" => grant'[h].state # "issued"
  BY <1>2
<1>6. \A s \in Socket : socket[s].grant \subseteq Grant
  BY DEF GrantsInv, GrantsTypeOK, SocketState
<1>7. \A h \in Grant : creation'[h].pc # "done" => grant'[h].state = "none"
  BY <1>4 DEF GrantsInv
<1>8. \A s \in Socket :
         /\ socket'[s].pc = "idle" => socket'[s].grant = {}
         /\ \A h \in socket'[s].grant : creation'[h].pc = "done" /\ grant'[h].state # "issued"
  BY <1>5, <1>6 DEF GrantsInv
<1>9. GrantOpensOnce'
  BY DEF GrantsInv, GrantOpensOnce
<1>. QED  BY <1>3, <1>7, <1>8, <1>9 DEF GrantsInv

LEMMA Redeem_Inv ==
    ASSUME GrantsInv, NEW s \in Socket, NEW g \in Grant, Redeem(s, g) PROVE GrantsInv'
<1>1. grant \in [Grant -> GrantState] /\ socket \in [Socket -> SocketState]
  BY DEF GrantsInv, GrantsTypeOK
<1>2. CASE ~Redeemable(g)
  <2>. DEFINE now == [socket[s] EXCEPT !.pc = "closed"]
  <2>1. now \in SocketState /\ now.grant = socket[s].grant /\ now.pc = "closed"
    BY <1>1 DEF SocketState
  <2>2. socket' = [socket EXCEPT ![s] = now] /\ UNCHANGED <<targets, creation, grant>>
    BY <1>2 DEF Redeem, Close
  <2>. HIDE DEF now
  <2>. QED  BY <2>1, <2>2, SocketGoesOn
<1>3. CASE Redeemable(g)
  <2>. DEFINE spent == [grant[g] EXCEPT !.state = "consumed"]
              mid   == [socket[s] EXCEPT !.pc = "redeemed"]
              now   == [mid EXCEPT !.grant = {g}]
  <2>1. spent \in GrantState /\ spent.state = "consumed"
    BY <1>1 DEF GrantState
  <2>2. mid \in SocketState /\ mid.pc = "redeemed"
    BY <1>1 DEF SocketState
  <2>3. /\ grant' = [grant EXCEPT ![g] = spent] /\ UNCHANGED <<targets, creation>>
        /\ socket' = [[socket EXCEPT ![s] = mid] EXCEPT ![s].grant = {g}]
        /\ socket[s].pc = "idle"
    BY <1>3 DEF Redeem, Spend
  <2>. HIDE DEF mid, spent
  <2>4. now \in SocketState /\ now.pc = "redeemed" /\ now.grant = {g}
    BY <2>2 DEF SocketState
  <2>5. socket' = [socket EXCEPT ![s] = now]
    BY <1>1, <2>3
  <2>. HIDE DEF now
  <2>6. /\ grant' \in [Grant -> GrantState] /\ grant'[g] = spent
        /\ \A other \in Grant \ {g} : grant'[other] = grant[other]
    BY <1>1, <2>1, <2>3, OneGrantMoves
  <2>7. /\ socket' \in [Socket -> SocketState] /\ socket'[s] = now
        /\ \A other \in Socket \ {s} : socket'[other] = socket[other]
    BY <1>1, <2>4, <2>5, OneSocketMoves
  <2>8. GrantsTypeOK'
    BY <2>3, <2>6, <2>7 DEF GrantsInv, GrantsTypeOK
  <2>9. creation[g].pc = "done" /\ \A other \in Socket : g \notin socket[other].grant
    BY <1>3 DEF Redeemable, GrantsInv
  <2>10. \A h \in Grant : creation'[h].pc # "done" => grant'[h].state = "none"
    BY <2>3, <2>6, <2>9 DEF GrantsInv
  <2>11. \A other \in Socket :
            socket'[other].grant = IF other = s THEN {g} ELSE socket[other].grant
    BY <2>4, <2>7
  <2>12. \A other \in Socket : socket'[other].pc = "idle" => socket'[other].grant = {}
    BY <2>4, <2>7 DEF GrantsInv
  <2>13. ASSUME NEW other \in Socket, NEW h \in socket'[other].grant
         PROVE  creation'[h].pc = "done" /\ grant'[h].state # "issued"
    <3>1. CASE h = g
      BY <2>1, <2>3, <2>6, <2>9, <3>1
    <3>2. CASE h # g
      <4>1. h \in socket[other].grant
        BY <2>11, <2>13, <3>2
      <4>2. h \in Grant \ {g}
        BY <1>1, <3>2, <4>1 DEF SocketState
      <4>3. creation[h].pc = "done" /\ grant[h].state # "issued"
        BY <4>1 DEF GrantsInv
      <4>. QED  BY <2>3, <2>6, <4>2, <4>3
    <3>. QED  BY <3>1, <3>2
  <2>14. GrantOpensOnce'
    BY <2>9, <2>11 DEF GrantsInv, GrantOpensOnce
  <2>. QED  BY <2>8, <2>10, <2>12, <2>13, <2>14 DEF GrantsInv
<1>. QED  BY <1>2, <1>3

(* The rows go, and nothing comes in their place. *)
LEMMA GrantsRemoved ==
    ASSUME GrantsInv, UNCHANGED <<creation, socket>>, targets' \subseteq Target,
           NEW gone, grant' = [g \in Grant |-> IF g \in gone THEN NoGrant ELSE grant[g]]
    PROVE  GrantsInv'
<1>1. NoGrant \in GrantState /\ NoGrant.state = "none"
  BY DEF NoGrant, GrantState
<1>2. grant' \in [Grant -> GrantState]
  BY <1>1 DEF GrantsInv, GrantsTypeOK
<1>3. \A g \in Grant : grant'[g].state \in {"none", grant[g].state}
  BY <1>1
<1>4. \A s \in Socket : socket[s].grant \subseteq Grant
  BY DEF GrantsInv, GrantsTypeOK, SocketState
<1>5. GrantsTypeOK'
  BY <1>2 DEF GrantsInv, GrantsTypeOK
<1>6. \A g \in Grant : creation'[g].pc # "done" => grant'[g].state = "none"
  BY <1>3 DEF GrantsInv
<1>7. \A s \in Socket :
         /\ socket'[s].pc = "idle" => socket'[s].grant = {}
         /\ \A g \in socket'[s].grant : creation'[g].pc = "done" /\ grant'[g].state # "issued"
  BY <1>3, <1>4 DEF GrantsInv
<1>8. GrantOpensOnce'
  BY DEF GrantsInv, GrantOpensOnce
<1>. QED  BY <1>5, <1>6, <1>7, <1>8 DEF GrantsInv

LEMMA GrantsNext_Inv == GrantsInv /\ [TerminalsNext]_terminalsVars => GrantsInv'
<1>. SUFFICES ASSUME GrantsInv, [TerminalsNext]_terminalsVars PROVE GrantsInv'
  OBVIOUS
<1>0. ASSUME UNCHANGED <<targets, creation, grant, socket>> PROVE GrantsInv'
  BY <1>0 DEF GrantsInv, GrantsTypeOK, GrantOpensOnce
<1>t. /\ grant \in [Grant -> GrantState] /\ socket \in [Socket -> SocketState]
      /\ targets \subseteq Target
      /\ creation \in [Grant -> {NotAsked} \cup [pc : {"create", "done"}, target : Target]]
  BY DEF GrantsInv, GrantsTypeOK
<1>s. \A s \in Socket : socket[s].grant \subseteq Grant
  BY <1>t DEF SocketState
<1>1. ASSUME NEW g \in Grant, Authorize(g) PROVE GrantsInv'
  <2>1. PICK t \in Target : creation' = [creation EXCEPT ![g] = [pc |-> "create", target |-> t]]
    BY <1>1, <1>t DEF Authorize
  <2>2. creation[g] = NotAsked /\ UNCHANGED <<targets, grant, socket>>
    BY <1>1 DEF Authorize
  <2>3. creation' \in [Grant -> {NotAsked} \cup [pc : {"create", "done"}, target : Target]]
    BY <1>t, <2>1
  <2>4. GrantsTypeOK'
    BY <1>t, <2>2, <2>3 DEF GrantsTypeOK
  <2>5. /\ creation[g].pc = "none" /\ creation'[g].pc = "create"
        /\ \A h \in Grant \ {g} : creation'[h] = creation[h]
    BY <1>t, <2>1, <2>2 DEF NotAsked
  <2>6. \A h \in Grant : creation'[h].pc # "done" => grant'[h].state = "none"
    BY <2>2, <2>5 DEF GrantsInv
  <2>7. \A s \in Socket :
           /\ socket'[s].pc = "idle" => socket'[s].grant = {}
           /\ \A h \in socket'[s].grant : creation'[h].pc = "done" /\ grant'[h].state # "issued"
    BY <1>s, <2>2, <2>5 DEF GrantsInv
  <2>8. GrantOpensOnce'
    BY <2>2 DEF GrantsInv, GrantOpensOnce
  <2>. QED  BY <2>4, <2>6, <2>7, <2>8 DEF GrantsInv
<1>2. ASSUME NEW g \in Grant, Issue(g) PROVE GrantsInv'
  <2>. DEFINE made == [state |-> "issued", expired |-> FALSE]
              done == [creation[g] EXCEPT !.pc = "done"]
  <2>1. made \in GrantState
    BY DEF GrantState
  <2>2. /\ creation[g].pc = "create" /\ creation' = [creation EXCEPT ![g] = done]
        /\ grant' = grant \/ grant' = [grant EXCEPT ![g] = made]
        /\ UNCHANGED <<targets, socket>>
    BY <1>2 DEF Issue
  <2>3. creation[g] \in [pc : {"create", "done"}, target : Target]
    BY <1>t, <2>2 DEF NotAsked
  <2>4. done \in [pc : {"create", "done"}, target : Target] /\ done.pc = "done"
    BY <2>3
  <2>. HIDE DEF made, done
  <2>5. /\ creation' \in [Grant -> {NotAsked} \cup [pc : {"create", "done"}, target : Target]]
        /\ creation'[g].pc = "done" /\ \A h \in Grant \ {g} : creation'[h] = creation[h]
    BY <1>t, <2>2, <2>4
  <2>6. grant' \in [Grant -> GrantState] /\ \A h \in Grant \ {g} : grant'[h] = grant[h]
    BY <1>t, <2>1, <2>2
  <2>7. GrantsTypeOK'
    BY <1>t, <2>2, <2>5, <2>6 DEF GrantsTypeOK
  <2>8. \A h \in Grant : creation'[h].pc # "done" => grant'[h].state = "none"
    BY <2>5, <2>6 DEF GrantsInv
  <2>9. \A s \in Socket : \A h \in socket[s].grant : h \in Grant \ {g}
    BY <1>s, <2>2 DEF GrantsInv
  <2>10. \A s \in Socket :
           /\ socket'[s].pc = "idle" => socket'[s].grant = {}
           /\ \A h \in socket'[s].grant : creation'[h].pc = "done" /\ grant'[h].state # "issued"
    BY <2>2, <2>5, <2>6, <2>9 DEF GrantsInv
  <2>11. GrantOpensOnce'
    BY <2>2 DEF GrantsInv, GrantOpensOnce
  <2>. QED  BY <2>7, <2>8, <2>10, <2>11 DEF GrantsInv
<1>3. ASSUME NEW g \in Grant, ExpireGrant(g) PROVE GrantsInv'
  <2>. DEFINE now == [grant[g] EXCEPT !.expired = TRUE]
  <2>1. now \in GrantState /\ now.state = grant[g].state
    BY <1>t DEF GrantState
  <2>2. grant' = [grant EXCEPT ![g] = now] /\ UNCHANGED <<targets, creation, socket>>
    BY <1>3 DEF ExpireGrant
  <2>. HIDE DEF now
  <2>. QED  BY <2>1, <2>2, GrantGoesOn
<1>4. CASE Sweep
  BY <1>t, <1>4, GrantsRemoved DEF Sweep
<1>5. ASSUME NEW t \in Target, DeleteTarget(t) PROVE GrantsInv'
  <2>. DEFINE gone == {g \in Grant : creation[g] # NotAsked /\ creation[g].target = t}
  <2>1. grant' = [g \in Grant |-> IF g \in gone THEN NoGrant ELSE grant[g]]
    BY <1>5 DEF DeleteTarget
  <2>2. targets' \subseteq Target /\ UNCHANGED <<creation, socket>>
    BY <1>t, <1>5 DEF DeleteTarget
  <2>. HIDE DEF gone
  <2>. QED  BY <2>1, <2>2, GrantsRemoved
<1>6. ASSUME NEW s \in Socket, Stray(s) \/ OpenPty(s) \/ Hangup(s) PROVE GrantsInv'
  <2>1. UNCHANGED <<targets, creation, grant>>
    BY <1>6 DEF Stray, OpenPty, Hangup
  <2>2. \/ socket' = [socket EXCEPT ![s].strays = @ + 1]
        \/ \E pc \in {"open", "closed"} : socket' = [socket EXCEPT ![s].pc = pc]
    BY <1>6 DEF Stray, OpenPty, Hangup, Close
  <2>3. CASE socket' = [socket EXCEPT ![s].strays = @ + 1]
    <3>. DEFINE now == [socket[s] EXCEPT !.strays = @ + 1]
    <3>1. now \in SocketState /\ now.grant = socket[s].grant /\ now.pc = socket[s].pc
      BY <1>t DEF SocketState
    <3>2. socket' = [socket EXCEPT ![s] = now]
      BY <2>3
    <3>. HIDE DEF now
    <3>. QED  BY <2>1, <3>1, <3>2, SocketGoesOn
  <2>4. ASSUME NEW pc \in {"open", "closed"}, socket' = [socket EXCEPT ![s].pc = pc]
        PROVE  GrantsInv'
    <3>. DEFINE now == [socket[s] EXCEPT !.pc = pc]
    <3>1. now \in SocketState /\ now.grant = socket[s].grant /\ now.pc # "idle"
      BY <1>t DEF SocketState
    <3>2. socket' = [socket EXCEPT ![s] = now]
      BY <2>4
    <3>. HIDE DEF now
    <3>. QED  BY <2>1, <3>1, <3>2, SocketGoesOn
  <2>. QED  BY <2>2, <2>3, <2>4
<1>7. ASSUME NEW s \in Socket, Output(s) \/ Pause(s) \/ Resume(s) PROVE GrantsInv'
  <2>1. UNCHANGED <<targets, creation, grant, socket>>
    BY <1>7 DEF Output, Pause, Resume
  <2>. QED  BY <2>1, <1>0
<1>8. ASSUME NEW s \in Socket, NEW g \in Grant, Redeem(s, g) PROVE GrantsInv'
  BY <1>8, Redeem_Inv
<1>9. CASE UNCHANGED terminalsVars
  BY <1>9, <1>0 DEF terminalsVars
<1>. QED  BY <1>1, <1>2, <1>3, <1>4, <1>5, <1>6, <1>7, <1>8, <1>9 DEF TerminalsNext

(***************************************************************************)
(* Terminals: output.                                                      *)
(***************************************************************************)
Byte == [at : Nat, kind : ByteKind]
Shown == [at : Nat, kind : ByteKind, whole : BOOLEAN]
PtyState == [made : Nat, last : ByteKind, ends : SUBSET Nat, paused : BOOLEAN,
             held : Seq(Byte), got : Seq(Shown), lost : BOOLEAN]

(* What the browser has is in order, nothing of it is beyond byte n, and   *)
(* what is damaged is so by a chunk that ended there.                      *)
Rising(got) == \A i, j \in 1 .. Len(got) : i < j => got[i].at < got[j].at
Sent(got, n) == \A i \in 1 .. Len(got) : got[i].at <= n
Excused(got, ends, lost) == \A i \in 1 .. Len(got) : got[i].whole \/ lost \/ Within(got[i]) \in ends

(* A run of the bytes that follow byte n.                                  *)
Follows(run, n) == \A i \in 1 .. Len(run) : run[i].at = n + i

(* What is held goes on where the browser's part ends.  Nothing is missing *)
(* before that, and a chunk ended there, unless something was dropped.     *)
Unbroken(p, n) ==
    /\ n \in Nat /\ n + Len(p.held) = p.made
    /\ Rising(p.got) /\ Sent(p.got, n) /\ Follows(p.held, n)
    /\ ~p.lost => Len(p.got) = n /\ n \in p.ends
    /\ Excused(p.got, p.ends, p.lost)

InOrder(p) ==
    /\ \E n \in Nat : Unbroken(p, n)
    /\ ~p.paused => p.held = <<>>
    /\ p.made \in p.ends
    /\ Len(p.held) <= MaxHeld

OutputInv ==
    /\ pty \in [Socket -> PtyState]
    /\ \A s \in Socket : InOrder(pty[s])

LEMMA FunctionIsSeq ==
    ASSUME NEW S, NEW n \in Nat, NEW f \in [1 .. n -> S]
    PROVE  f \in Seq(S) /\ Len(f) = n
<1>1. f \in Seq(S)
  OBVIOUS
<1>. QED  BY <1>1, LenProperties

(* A run that is sent goes on in order, and what is damaged in it is at    *)
(* one of its ends.                                                        *)
LEMMA SentInOrder ==
    ASSUME NEW got \in Seq(Shown), NEW run \in Seq(Byte), NEW n \in Nat, NEW ends, NEW lost \in BOOLEAN,
           Rising(got), Sent(got, n), Follows(run, n), Excused(got, ends, lost),
           lost \/ n \in ends, NEW m, m = n + Len(run), m \in ends
    PROVE  LET all == got \o Text(run) IN
           /\ all \in Seq(Shown) /\ Len(all) = Len(got) + Len(run)
           /\ Rising(all) /\ Sent(all, m) /\ Excused(all, ends, lost)
<1>. DEFINE text == Text(run)
            all == got \o text
<1>1. /\ Len(run) \in Nat /\ Len(got) \in Nat
      /\ \A i \in 1 .. Len(run) : run[i] \in Byte
      /\ \A i \in 1 .. Len(got) : got[i] \in Shown
  BY LenProperties, ElementOfSeq
<1>2. \A i \in 1 .. Len(run) : /\ text[i] = [at |-> run[i].at, kind |-> run[i].kind, whole |-> Whole(run, i)]
                               /\ Whole(run, i) \in BOOLEAN
  BY DEF Text, Whole
<1>3. text \in Seq(Shown) /\ Len(text) = Len(run)
  <2>1. ASSUME NEW i \in 1 .. Len(run) PROVE text[i] \in Shown
    <3>1. run[i].at \in Nat /\ run[i].kind \in ByteKind /\ Whole(run, i) \in BOOLEAN
      BY <1>1, <1>2 DEF Byte
    <3>2. text[i] = [at |-> run[i].at, kind |-> run[i].kind, whole |-> Whole(run, i)]
      BY <1>2
    <3>. HIDE DEF text
    <3>. QED  BY <3>1, <3>2 DEF Shown
  <2>2. text \in [1 .. Len(run) -> Shown]
    BY <2>1 DEF Text
  <2>. HIDE DEF text
  <2>. QED  BY <1>1, <2>2, FunctionIsSeq
<1>4. \A i \in 1 .. Len(run) : /\ text[i].at = n + i /\ text[i].at \in Nat
                               /\ text[i].kind = run[i].kind /\ text[i].whole = Whole(run, i)
  <2>. SUFFICES ASSUME NEW i \in 1 .. Len(run)
                PROVE  /\ text[i].at = n + i /\ text[i].at \in Nat
                       /\ text[i].kind = run[i].kind /\ text[i].whole = Whole(run, i)
    OBVIOUS
  <2>1. text[i] = [at |-> run[i].at, kind |-> run[i].kind, whole |-> Whole(run, i)]
    BY <1>2
  <2>2. run[i].at = n + i /\ n + i \in Nat
    BY DEF Follows
  <2>. HIDE DEF text
  <2>. QED  BY <2>1, <2>2
<1>5. \A i \in 1 .. Len(run) : text[i].whole \/ lost \/ Within(text[i]) \in ends
  <2>. SUFFICES ASSUME NEW i \in 1 .. Len(run), ~text[i].whole, ~lost PROVE Within(text[i]) \in ends
    OBVIOUS
  <2>1. \/ run[i].kind = "lead" /\ ~(i < Len(run))
        \/ run[i].kind = "rest" /\ ~(i > 1)
    BY <1>4 DEF Whole
  <2>2. CASE run[i].kind = "lead" /\ ~(i < Len(run))
    <3>1. text[i].kind = "lead" /\ text[i].at = m
      BY <1>1, <1>4, <2>2
    <3>. QED  BY <3>1 DEF Within
  <2>3. CASE run[i].kind = "rest" /\ ~(i > 1)
    <3>1. text[i].kind = "rest" /\ text[i].at - 1 = n
      BY <1>1, <1>4, <2>3
    <3>. QED  BY <3>1 DEF Within
  <2>. QED  BY <2>1, <2>2, <2>3
<1>. HIDE DEF text
<1>6. all \in Seq(Shown) /\ Len(all) = Len(got) + Len(run)
  <2>1. text \in Seq(Shown) /\ got \in Seq(Shown)
    BY <1>3
  <2>2. all \in Seq(Shown) /\ Len(all) = Len(got) + Len(text)
    BY <2>1, ConcatProperties
  <2>. HIDE DEF all
  <2>. QED  BY <1>3, <2>2
<1>7. \A i \in 1 .. Len(all) : all[i] = IF i <= Len(got) THEN got[i] ELSE text[i - Len(got)]
  <2>1. \A i \in 1 .. Len(got) + Len(text) :
          all[i] = IF i <= Len(got) THEN got[i] ELSE text[i - Len(got)]
    BY <1>3, ConcatProperties
  <2>2. Len(all) = Len(got) + Len(text)
    BY <1>3, <1>6
  <2>. HIDE DEF all
  <2>. QED  BY <2>1, <2>2
<1>. HIDE DEF all
<1>8. ASSUME NEW i \in 1 .. Len(all)
      PROVE  /\ \/ i \in 1 .. Len(got) /\ all[i] = got[i]
                \/ /\ ~(i <= Len(got)) /\ i - Len(got) \in 1 .. Len(run)
                   /\ all[i] = text[i - Len(got)]
             /\ i \in Nat
  BY <1>1, <1>6, <1>7
<1>9. \A i \in 1 .. Len(got) : got[i].at \in Nat /\ got[i].at <= n
  BY <1>1 DEF Sent, Shown
<1>10. Sent(all, m)
  <2>. SUFFICES ASSUME NEW i \in 1 .. Len(all) PROVE all[i].at <= m
    BY DEF Sent
  <2>1. CASE i \in 1 .. Len(got) /\ all[i] = got[i]
    BY <1>1, <1>9, <2>1
  <2>2. CASE i - Len(got) \in 1 .. Len(run) /\ all[i] = text[i - Len(got)]
    <3>1. all[i].at = n + (i - Len(got))
      BY <1>4, <2>2
    <3>. QED  BY <1>1, <2>2, <3>1
  <2>. QED  BY <1>8, <2>1, <2>2
<1>11. Excused(all, ends, lost)
  <2>. SUFFICES ASSUME NEW i \in 1 .. Len(all) PROVE all[i].whole \/ lost \/ Within(all[i]) \in ends
    BY DEF Excused
  <2>1. CASE i \in 1 .. Len(got) /\ all[i] = got[i]
    BY <2>1 DEF Excused
  <2>2. CASE i - Len(got) \in 1 .. Len(run) /\ all[i] = text[i - Len(got)]
    BY <1>5, <2>2
  <2>. QED  BY <1>8, <2>1, <2>2
<1>12. Rising(all)
  <2>. SUFFICES ASSUME NEW i \in 1 .. Len(all), NEW j \in 1 .. Len(all), i < j
                PROVE  all[i].at < all[j].at
    BY DEF Rising
  <2>1. CASE j \in 1 .. Len(got) /\ all[j] = got[j]
    <3>1. i \in 1 .. Len(got) /\ all[i] = got[i]
      BY <1>1, <1>8, <2>1
    <3>. QED  BY <2>1, <3>1 DEF Rising
  <2>2. CASE j - Len(got) \in 1 .. Len(run) /\ all[j] = text[j - Len(got)]
    <3>1. all[j].at = n + (j - Len(got))
      BY <1>4, <2>2
    <3>2. CASE i \in 1 .. Len(got) /\ all[i] = got[i]
      <4>1. got[i].at \in Nat /\ got[i].at <= n
        BY <1>9, <3>2
      <4>2. j - Len(got) >= 1 /\ j - Len(got) \in Int
        BY <1>1, <2>2
      <4>. QED  BY <1>1, <3>1, <3>2, <4>1, <4>2
    <3>3. CASE i - Len(got) \in 1 .. Len(run) /\ all[i] = text[i - Len(got)]
      <4>1. all[i].at = n + (i - Len(got))
        BY <1>4, <3>3
      <4>. QED  BY <1>1, <1>8, <3>1, <4>1
    <3>. QED  BY <1>8, <3>2, <3>3
  <2>. QED  BY <1>8, <2>1, <2>2
<1>. QED  BY <1>6, <1>10, <1>11, <1>12 DEF all, text

(* A chunk is a run of the bytes that follow.                              *)
LEMMA ChunkFollows ==
    ASSUME NEW p \in PtyState, NEW chunk \in Chunks(p)
    PROVE  /\ chunk \in Seq(Byte) /\ Len(chunk) \in Nat /\ Len(chunk) > 0
           /\ chunk[Len(chunk)].kind \in ByteKind /\ Follows(chunk, p.made)
<1>1. p.made \in Nat
  BY DEF PtyState
<1>2. PICK n \in 1 .. (MaxOutput - p.made) : \E kinds \in [1 .. n -> ByteKind] :
         chunk = [i \in 1 .. n |-> [at |-> p.made + i, kind |-> kinds[i]]]
  <2>1. PICK n \in 1 .. (MaxOutput - p.made) :
           chunk \in {[i \in 1 .. n |-> [at |-> p.made + i, kind |-> kinds[i]]] :
             kinds \in {k \in [1 .. n -> ByteKind] :
               \A i \in 1 .. n : k[i] = "rest" <=> "lead" = IF i = 1 THEN p.last ELSE k[i - 1]}}
    BY DEF Chunks
  <2>2. \E kinds \in [1 .. n -> ByteKind] :
           chunk = [i \in 1 .. n |-> [at |-> p.made + i, kind |-> kinds[i]]]
    BY <2>1, Zenon
  <2>. QED  BY <2>2
<1>a. PICK kinds \in [1 .. n -> ByteKind] : chunk = [i \in 1 .. n |-> [at |-> p.made + i, kind |-> kinds[i]]]
  BY <1>2
<1>3. n \in Nat /\ n > 0
  BY <1>1, <1>2, TerminalsAssumption
<1>4. \A i \in 1 .. n : chunk[i] = [at |-> p.made + i, kind |-> kinds[i]] /\ kinds[i] \in ByteKind
  BY <1>a
<1>5. chunk \in [1 .. n -> Byte]
  BY <1>1, <1>a, <1>3 DEF Byte
<1>6. chunk \in Seq(Byte) /\ Len(chunk) = n
  BY <1>3, <1>5, LenProperties
<1>. QED  BY <1>3, <1>4, <1>6 DEF Follows

(* What is left of a run when its oldest bytes are dropped is a run.       *)
LEMMA KeptFollows ==
    ASSUME NEW all \in Seq(Byte), NEW n \in Nat, Follows(all, n)
    PROVE  LET over == Overflow(all)
               kept == SubSeq(all, over + 1, Len(all))
           IN  /\ over \in Nat /\ kept \in Seq(Byte) /\ Len(kept) + over = Len(all)
               /\ Len(kept) <= MaxHeld /\ Follows(kept, n + over)
<1>. DEFINE over == Overflow(all)
            kept == SubSeq(all, over + 1, Len(all))
<1>1. Len(all) \in Nat
  BY LenProperties
<1>2. over \in Nat /\ over <= Len(all) /\ Len(all) - over <= MaxHeld
  BY <1>1, TerminalsAssumption DEF Overflow
<1>. HIDE DEF over
<1>3. /\ kept \in Seq(Byte) /\ Len(kept) = Len(all) - over
      /\ \A i \in 1 .. Len(all) - over : kept[i] = all[over + i]
  <2>1. CASE over + 1 <= Len(all) + 1
    <3>1. \A i \in 1 .. Len(all) : all[i] \in Byte
      BY ElementOfSeq
    <3>2. \A i \in (over + 1) .. Len(all) : all[i] \in Byte
      BY <1>1, <1>2, <3>1
    <3>. QED  BY <1>1, <1>2, <3>2, SubSeqProperties
  <2>. QED  BY <1>1, <1>2, <2>1
<1>. HIDE DEF kept
<1>4. Follows(kept, n + over)
  <2>. SUFFICES ASSUME NEW i \in 1 .. Len(kept) PROVE kept[i].at = (n + over) + i
    BY DEF Follows
  <2>1. i \in Nat /\ over + i \in 1 .. Len(all) /\ kept[i] = all[over + i]
    BY <1>1, <1>2, <1>3
  <2>2. kept[i].at = n + (over + i)
    BY <2>1 DEF Follows
  <2>. QED  BY <1>2, <2>1, <2>2
<1>5. Len(kept) + over = Len(all) /\ Len(kept) <= MaxHeld
  BY <1>1, <1>2, <1>3
<1>. QED  BY <1>2, <1>3, <1>4, <1>5 DEF over, kept

(* One run after another.                                                  *)
LEMMA RunsJoin ==
    ASSUME NEW r \in Seq(Byte), NEW t \in Seq(Byte), NEW n \in Nat, Follows(r, n), Follows(t, n + Len(r))
    PROVE  r \o t \in Seq(Byte) /\ Len(r \o t) = Len(r) + Len(t) /\ Follows(r \o t, n)
<1>1. r \o t \in Seq(Byte) /\ Len(r \o t) = Len(r) + Len(t) /\ Len(r) \in Nat /\ Len(t) \in Nat
  BY ConcatProperties, LenProperties
<1>2. ASSUME NEW i \in 1 .. Len(r \o t) PROVE (r \o t)[i].at = n + i
  <2>1. (r \o t)[i] = IF i <= Len(r) THEN r[i] ELSE t[i - Len(r)]
    BY ConcatProperties
  <2>2. CASE i <= Len(r)
    BY <1>1, <2>1, <2>2 DEF Follows
  <2>3. CASE ~(i <= Len(r))
    <3>1. i - Len(r) \in 1 .. Len(t)
      BY <1>1, <2>3
    <3>2. t[i - Len(r)].at = (n + Len(r)) + (i - Len(r))
      BY <3>1 DEF Follows
    <3>. QED  BY <1>1, <2>1, <2>3, <3>2
  <2>. QED  BY <2>2, <2>3
<1>. QED  BY <1>1, <1>2 DEF Follows

LEMMA OutputInit_Inv == TerminalsInit => OutputInv
<1>. SUFFICES ASSUME TerminalsInit PROVE OutputInv
  OBVIOUS
<1>1. <<>> \in Seq(Byte) /\ <<>> \in Seq(Shown) /\ Len(<<>>) = 0
  BY EmptySeq
<1>2. NoPty \in PtyState
  BY <1>1 DEF NoPty, PtyState, ByteKind
<1>3. Unbroken(NoPty, 0)
  BY <1>1 DEF NoPty, Unbroken, Rising, Sent, Follows, Excused
<1>4. InOrder(NoPty)
  BY <1>1, <1>3, TerminalsAssumption DEF NoPty, InOrder
<1>. QED  BY <1>2, <1>4 DEF TerminalsInit, OutputInv

(* One socket's pump and pane. *)
LEMMA OnePty ==
    ASSUME OutputInv, NEW s \in Socket, NEW q \in PtyState, InOrder(q),
           pty' = [pty EXCEPT ![s] = q]
    PROVE  OutputInv'
BY DEF OutputInv

LEMMA OutputStep ==
    ASSUME OutputInv, NEW s \in Socket, Output(s)
    PROVE  OutputInv'
<1>. DEFINE p == pty[s]
<1>1. /\ p \in PtyState /\ p.made \in Nat /\ p.held \in Seq(Byte) /\ p.got \in Seq(Shown)
      /\ p.paused \in BOOLEAN /\ p.lost \in BOOLEAN /\ p.ends \in SUBSET Nat
  BY DEF OutputInv, PtyState
<1>2. InOrder(p)
  BY DEF OutputInv
<1>3. PICK n \in Nat : Unbroken(p, n)
  BY <1>2 DEF InOrder
<1>4. PICK chunk \in Chunks(p) :
        LET made == p.made + Len(chunk)
            all == p.held \o chunk
            over == Overflow(all)
        IN pty' = [pty EXCEPT ![s] =
             [made |-> made, last |-> chunk[Len(chunk)].kind, ends |-> p.ends \cup {made},
              paused |-> p.paused,
              got |-> IF p.paused THEN p.got ELSE p.got \o Text(chunk),
              held |-> IF p.paused THEN SubSeq(all, over + 1, Len(all)) ELSE p.held,
              lost |-> p.lost \/ (p.paused /\ over > 0)]]
  BY DEF Output
<1>. DEFINE made == p.made + Len(chunk)
            all == p.held \o chunk
            over == Overflow(all)
            kept == SubSeq(all, over + 1, Len(all))
            ends == p.ends \cup {made}
            sent == p.got \o Text(chunk)
<1>5. /\ chunk \in Seq(Byte) /\ Len(chunk) \in Nat /\ Len(chunk) > 0
      /\ chunk[Len(chunk)].kind \in ByteKind /\ Follows(chunk, p.made)
  BY <1>1, <1>4, ChunkFollows
<1>6. /\ n + Len(p.held) = p.made /\ Len(p.held) \in Nat /\ Len(p.got) \in Nat
      /\ Rising(p.got) /\ Sent(p.got, n) /\ Follows(p.held, n)
      /\ ~p.lost => Len(p.got) = n /\ n \in p.ends
      /\ Excused(p.got, p.ends, p.lost) /\ p.made \in p.ends
      /\ ~p.paused => p.held = <<>>
  BY <1>1, <1>2, <1>3, LenProperties DEF Unbroken, InOrder
<1>7. made \in Nat /\ ends \in SUBSET Nat /\ made \in ends /\ p.made \in ends
  BY <1>1, <1>5, <1>6
<1>8. Excused(p.got, ends, p.lost)
  BY <1>6 DEF Excused
<1>9. CASE ~p.paused
  <2>. DEFINE q == [made |-> made, last |-> chunk[Len(chunk)].kind, ends |-> ends, paused |-> p.paused,
                    got |-> sent, held |-> p.held, lost |-> p.lost]
  <2>1. Len(p.held) = 0 /\ n = p.made
    BY <1>6, <1>9, EmptySeq
  <2>2. /\ sent \in Seq(Shown) /\ Len(sent) = Len(p.got) + Len(chunk)
        /\ Rising(sent) /\ Sent(sent, made) /\ Excused(sent, ends, p.lost)
    <3>. HIDE DEF made, ends
    <3>1. /\ p.got \in Seq(Shown) /\ chunk \in Seq(Byte) /\ n \in Nat /\ p.lost \in BOOLEAN
          /\ Rising(p.got) /\ Sent(p.got, n) /\ Follows(chunk, n) /\ Excused(p.got, ends, p.lost)
          /\ p.lost \/ n \in ends
          /\ made = n + Len(chunk) /\ made \in ends
      BY <1>1, <1>3, <1>5, <1>6, <1>7, <1>8, <2>1 DEF made
    <3>. DEFINE got == p.got  lost == p.lost
    <3>2. got \in Seq(Shown) /\ lost \in BOOLEAN /\ Rising(got) /\ Sent(got, n)
          /\ Excused(got, ends, lost) /\ (lost \/ n \in ends)
      BY <3>1
    <3>. HIDE DEF got, lost
    <3>. DEFINE said == got \o Text(chunk)
    <3>3. said \in Seq(Shown) /\ Len(said) = Len(got) + Len(chunk)
          /\ Rising(said) /\ Sent(said, made) /\ Excused(said, ends, lost)
      BY ONLY <3>1, <3>2, SentInOrder
    <3>. QED  BY <3>3 DEF got, lost
  <2>3. pty' = [pty EXCEPT ![s] = q]
    <3>1. p.lost = (p.lost \/ (p.paused /\ over > 0))
      BY <1>1, <1>9
    <3>. QED  BY <1>4, <1>9, <3>1
  <2>4. Follows(p.held, made)
    BY <2>1 DEF Follows
  <2>. HIDE DEF sent, made, ends
  <2>5. q \in PtyState
    BY <1>1, <1>5, <1>7, <2>2 DEF PtyState
  <2>6. made + Len(p.held) = made /\ (~p.lost => Len(sent) = made)
    BY <1>5, <1>6, <1>7, <2>1, <2>2 DEF made
  <2>7. Unbroken(q, made)
    BY <1>7, <2>2, <2>4, <2>6 DEF Unbroken
  <2>8. InOrder(q)
    BY <1>6, <1>7, <1>9, <2>1, <2>7, TerminalsAssumption DEF InOrder
  <2>. HIDE DEF q
  <2>. QED  BY <2>3, <2>5, <2>8, OnePty
<1>10. CASE p.paused
  <2>. DEFINE lost == p.lost \/ over > 0
              q == [made |-> made, last |-> chunk[Len(chunk)].kind, ends |-> ends, paused |-> p.paused,
                    got |-> p.got, held |-> kept, lost |-> lost]
  <2>1. all \in Seq(Byte) /\ Len(all) = Len(p.held) + Len(chunk) /\ Follows(all, n)
    BY <1>1, <1>3, <1>5, <1>6, RunsJoin
  <2>2. /\ over \in Nat /\ kept \in Seq(Byte) /\ Len(kept) + over = Len(all)
        /\ Len(kept) <= MaxHeld /\ Follows(kept, n + over)
    BY <1>3, <2>1, KeptFollows
  <2>3. pty' = [pty EXCEPT ![s] = q]
    <3>1. lost = (p.lost \/ (p.paused /\ over > 0))
      BY <1>1, <1>10
    <3>. QED  BY <1>4, <1>10, <3>1
  <2>. HIDE DEF all, over, kept, made, ends
  <2>4. q \in PtyState
    BY <1>1, <1>5, <1>7, <2>2 DEF PtyState
  <2>5. Len(kept) \in Nat
    BY <2>2, LenProperties
  <2>6. n + over \in Nat /\ (n + over) + Len(kept) = made
    <3>. DEFINE h == Len(p.held)  c == Len(chunk)  k == Len(kept)  m == p.made
    <3>1. /\ h \in Nat /\ c \in Nat /\ k \in Nat /\ m \in Nat /\ over \in Nat
          /\ n + h = m /\ k + over = h + c
      BY <1>1, <1>5, <1>6, <2>1, <2>2, <2>5
    <3>. HIDE DEF h, c, k, m
    <3>2. n + over \in Nat /\ (n + over) + k = m + c
      BY <1>3, <3>1
    <3>. QED  BY <3>2 DEF made, k, m, c
  <2>7. Sent(p.got, n + over)
    <3>. SUFFICES ASSUME NEW i \in 1 .. Len(p.got) PROVE p.got[i].at <= n + over
      BY DEF Sent
    <3>1. p.got[i] \in Shown
      BY <1>1, ElementOfSeq
    <3>2. p.got[i].at \in Nat /\ p.got[i].at <= n
      BY <1>6, <3>1 DEF Sent, Shown
    <3>. QED  BY <1>3, <2>2, <3>2
  <2>8. ~lost => Len(p.got) = n + over /\ n + over \in ends
    BY <1>3, <1>6, <2>2 DEF ends
  <2>9. Excused(p.got, ends, lost)
    BY <1>8 DEF Excused
  <2>. HIDE DEF lost
  <2>10. Unbroken(q, n + over)
    BY <1>6, <2>2, <2>6, <2>7, <2>8, <2>9 DEF Unbroken
  <2>11. InOrder(q)
    BY <1>7, <1>10, <2>2, <2>6, <2>10 DEF InOrder
  <2>. HIDE DEF q
  <2>. QED  BY <2>3, <2>4, <2>11, OnePty
<1>. QED  BY <1>1, <1>9, <1>10

LEMMA ResumeStep ==
    ASSUME OutputInv, NEW s \in Socket, Resume(s)
    PROVE  OutputInv'
<1>. DEFINE p == pty[s]
            all == p.got \o Text(p.held)
            q == [p EXCEPT !.paused = FALSE, !.held = <<>>, !.got = all]
<1>1. /\ p \in PtyState /\ p.made \in Nat /\ p.held \in Seq(Byte) /\ p.got \in Seq(Shown)
      /\ p.paused \in BOOLEAN /\ p.lost \in BOOLEAN
  BY DEF OutputInv, PtyState
<1>2. InOrder(p)
  BY DEF OutputInv
<1>3. PICK n \in Nat : Unbroken(p, n)
  BY <1>2 DEF InOrder
<1>4. pty' = [pty EXCEPT ![s] = q]
  BY <1>1 DEF Resume, OutputInv, PtyState
<1>5. /\ n + Len(p.held) = p.made /\ p.made \in p.ends
      /\ ~p.lost => Len(p.got) = n /\ n \in p.ends
  BY <1>2, <1>3 DEF Unbroken, InOrder
<1>6. /\ all \in Seq(Shown) /\ Len(all) = Len(p.got) + Len(p.held)
      /\ Rising(all) /\ Sent(all, p.made) /\ Excused(all, p.ends, p.lost)
  <2>1. /\ p.got \in Seq(Shown) /\ p.held \in Seq(Byte) /\ n \in Nat /\ p.lost \in BOOLEAN
        /\ Rising(p.got) /\ Sent(p.got, n) /\ Follows(p.held, n) /\ Excused(p.got, p.ends, p.lost)
        /\ p.lost \/ n \in p.ends
        /\ p.made = n + Len(p.held) /\ p.made \in p.ends
    BY <1>1, <1>3, <1>5 DEF Unbroken
  <2>. QED  BY ONLY <2>1, SentInOrder
<1>7. <<>> \in Seq(Byte) /\ Len(<<>>) = 0 /\ Len(p.held) \in Nat /\ Len(p.got) \in Nat
  BY <1>1, EmptySeq, LenProperties
<1>. HIDE DEF all
<1>8. /\ q \in PtyState
      /\ q.got = all /\ q.held = <<>> /\ q.made = p.made /\ q.paused = FALSE /\ q.lost = p.lost
      /\ q.ends = p.ends
  BY <1>1, <1>6, <1>7 DEF PtyState
<1>. HIDE DEF q
<1>9. Follows(q.held, q.made) /\ q.made + Len(q.held) = q.made /\ Len(q.held) <= MaxHeld
  <2>1. Len(q.held) = 0
    BY <1>7, <1>8, Zenon
  <2>. QED  BY <1>1, <1>8, <2>1, TerminalsAssumption DEF Follows
<1>a. ~q.lost => Len(q.got) = q.made /\ q.made \in q.ends
  <2>1. ~p.lost => Len(all) = p.made
    BY <1>1, <1>3, <1>5, <1>6, <1>7
  <2>. QED  BY <1>5, <1>8, <2>1, Zenon
<1>b. Rising(q.got) /\ Sent(q.got, q.made) /\ Excused(q.got, q.ends, q.lost)
  BY <1>6, <1>8, Zenon
<1>c. q.made \in Nat /\ q.made \in q.ends /\ q.held = <<>>
  BY <1>1, <1>5, <1>8, Zenon
<1>d. Unbroken(q, q.made)
  BY <1>9, <1>a, <1>b, <1>c, Zenon DEF Unbroken
<1>10. InOrder(q)
  BY <1>9, <1>c, <1>d, Zenon DEF InOrder
<1>. QED  BY <1>4, <1>8, <1>10, OnePty

LEMMA OutputNext_Inv == OutputInv /\ [TerminalsNext]_terminalsVars => OutputInv'
<1>. SUFFICES ASSUME OutputInv, [TerminalsNext]_terminalsVars PROVE OutputInv'
  OBVIOUS
<1>1. CASE UNCHANGED pty
  BY <1>1 DEF OutputInv
<1>2. ASSUME NEW s \in Socket, Pause(s) PROVE OutputInv'
  <2>. DEFINE p == pty[s]  q == [p EXCEPT !.paused = TRUE]
  <2>1. p \in PtyState /\ InOrder(p) /\ pty' = [pty EXCEPT ![s] = q]
    BY <1>2 DEF OutputInv, Pause
  <2>2. /\ q \in PtyState /\ q.paused = TRUE
        /\ q.made = p.made /\ q.held = p.held /\ q.got = p.got /\ q.lost = p.lost /\ q.ends = p.ends
    BY <2>1 DEF PtyState
  <2>. HIDE DEF q
  <2>3. InOrder(q)
    BY <2>1, <2>2 DEF InOrder, Unbroken
  <2>. QED  BY <2>1, <2>2, <2>3, OnePty
<1>3. ASSUME pty' # pty
      PROVE  \E s \in Socket : Output(s) \/ Pause(s) \/ Resume(s)
  BY <1>3 DEF TerminalsNext, Authorize, Issue, ExpireGrant, Sweep, DeleteTarget, Stray, OpenPty,
              Hangup, Redeem, terminalsVars
<1>. QED  BY <1>1, <1>2, <1>3, OutputStep, ResumeStep

(* A grant opens one shell, and what is written in a shell reaches its     *)
(* reader in order and, unless a pause overflowed, in full, damaged only   *)
(* where a chunk cut a character: for any grants and sockets, and however  *)
(* much is written (the pump of web/src/terminal.rs).                      *)
THEOREM ShellsHaveOneReader == TerminalsSpec => []ShellHasOneReader
<1>1. OutputInv => OutputInOrder
  <2>. SUFFICES ASSUME OutputInv, NEW s \in Socket
                PROVE  LET p == pty[s] IN
                       /\ \A i, j \in DOMAIN p.got : i < j => p.got[i].at < p.got[j].at
                       /\ ~p.paused /\ ~p.lost => Len(p.got) = p.made
                       /\ p.paused => Len(p.held) <= MaxHeld
                       /\ \A i \in DOMAIN p.got :
                            p.got[i].whole \/ p.lost \/ Within(p.got[i]) \in p.ends
    BY DEF OutputInOrder
  <2>. DEFINE p == pty[s]
  <2>1. p \in PtyState /\ InOrder(p) /\ p.got \in Seq(Shown) /\ p.made \in Nat
    BY DEF OutputInv, PtyState
  <2>2. DOMAIN p.got = 1 .. Len(p.got) /\ Len(p.got) \in Nat
    BY <2>1, LenProperties
  <2>3. PICK n \in Nat : Unbroken(p, n)
    BY <2>1 DEF InOrder
  <2>4. Rising(p.got) /\ Excused(p.got, p.ends, p.lost)
    BY <2>3 DEF Unbroken
  <2>5. n + Len(p.held) = p.made /\ (~p.lost => Len(p.got) = n)
    BY <2>3 DEF Unbroken
  <2>6. p.paused => Len(p.held) <= MaxHeld
    BY <2>1 DEF InOrder
  <2>7. ~p.paused => Len(p.held) = 0
    BY <2>1, EmptySeq, Zenon DEF InOrder
  <2>8. ASSUME ~p.paused, ~p.lost PROVE Len(p.got) = p.made
    BY <2>3, <2>5, <2>7, <2>8
  <2>. QED  BY <2>2, <2>4, <2>6, <2>8 DEF Rising, Excused
<1>2. GrantsInv /\ OutputInv => ShellHasOneReader
  BY <1>1 DEF GrantsInv, ShellHasOneReader
<1>. QED  BY <1>2, GrantsInit_Inv, GrantsNext_Inv, OutputInit_Inv, OutputNext_Inv, PTL
          DEF TerminalsSpec

(***************************************************************************)
(* Repeated calls (Idempotency), for any number of attempts and keys.      *)
(***************************************************************************)
LEMMA PCs ==
  {"idle", "ok", "replayed", "error", "dropped", "check", "deploy", "connect", "record",
   "run"} = PC
BY DEF PC, Handled

LEMMA GotoEffect ==
  ASSUME TypeOK, NEW c \in Call, NEW pc \in PC, Goto(c, pc)
  PROVE  /\ call'[c] = [call[c] EXCEPT !.pc = pc]
         /\ call'[c].pc = pc /\ call'[c].action = call[c].action
         /\ call'[c].key = call[c].key /\ call'[c].of = call[c].of
         /\ call'[c].after = call[c].after
         /\ \A d \in Call \ {c} : call'[d] = call[d]
         /\ call' \in [Call -> [pc : PC, action : Action, key : Key \cup {NoKey},
                                dry : BOOLEAN, of : SUBSET Call, after : SUBSET Call]]
BY DEF TypeOK, Goto

-----------------------------------------------------------------------------
(* Type correctness.                                                       *)

LEMMA InitType == Init => TypeOK
BY PCs DEF Init, NoCall, TypeOK, Action

LEMMA NextType == TypeOK /\ [Next]_vars => TypeOK'
<1>. SUFFICES ASSUME TypeOK, [Next]_vars PROVE TypeOK'
  OBVIOUS
<1>1. ASSUME NEW c \in Call, NEW a \in Action, NEW k \in Key \cup {NoKey},
             NEW dry \in BOOLEAN, Arrive(c, a, k, dry)
      PROVE  TypeOK'
  BY <1>1, PCs DEF Arrive, TypeOK, Ended
<1>2. ASSUME NEW c \in Call, Check(c) PROVE TypeOK'
  <2>. DEFINE found == {e \in keys : e.key = call[c].key /\ e.action = call[c].action}
              of == {e.by : e \in found}
              next == IF call[c].dry THEN "ok"
                      ELSE IF call[c].action = "Deploy" THEN "deploy" ELSE "connect"
              pc == IF found # {} THEN "replayed" ELSE next
  <2>1. call' = [call EXCEPT ![c].of = of, ![c].pc = pc]
    BY <1>2 DEF Check
  <2>2. of \subseteq Call /\ pc \in PC
    <3>1. \A e \in keys : e.by \in Call
      BY DEF TypeOK
    <3>2. next \in PC
      BY PCs
    <3>3. pc \in PC
      <4>. HIDE DEF found, next
      <4>. QED  BY <3>2, PCs
    <3>4. of \subseteq Call
      <4>. HIDE DEF pc, next
      <4>. QED  BY <3>1
    <3>. QED  BY <3>3, <3>4
  <2>3. call' \in [Call -> [pc : PC, action : Action, key : Key \cup {NoKey},
                            dry : BOOLEAN, of : SUBSET Call, after : SUBSET Call]]
    <3>. DEFINE t == [call[c] EXCEPT !.of = of, !.pc = pc]
    <3>1. /\ call[c] \in [pc : PC, action : Action, key : Key \cup {NoKey},
                          dry : BOOLEAN, of : SUBSET Call, after : SUBSET Call]
          /\ call \in [Call -> [pc : PC, action : Action, key : Key \cup {NoKey},
                                dry : BOOLEAN, of : SUBSET Call, after : SUBSET Call]]
      BY DEF TypeOK
    <3>. HIDE DEF of, pc
    <3>2. t \in [pc : PC, action : Action, key : Key \cup {NoKey},
                 dry : BOOLEAN, of : SUBSET Call, after : SUBSET Call]
      BY <2>2, <3>1
    <3>3. call' = [call EXCEPT ![c] = t]
      BY <2>1
    <3>. HIDE DEF t
    <3>. QED  BY <3>1, <3>2, <3>3
  <2>. QED  BY <1>2, <2>3 DEF Check, TypeOK
<1>3. ASSUME NEW c \in Call, Deploy(c) PROVE TypeOK'
  BY <1>3, PCs, GotoEffect DEF Deploy, TypeOK
<1>4. ASSUME NEW c \in Call, Connect(c) PROVE TypeOK'
  BY <1>4, PCs, GotoEffect DEF Connect, TypeOK
<1>5. ASSUME NEW c \in Call, Record(c) PROVE TypeOK'
  <2>1. call' \in [Call -> [pc : PC, action : Action, key : Key \cup {NoKey},
                            dry : BOOLEAN, of : SUBSET Call, after : SUBSET Call]]
    BY <1>5, PCs, GotoEffect DEF Record
  <2>2. /\ keys' \subseteq keys \cup {[key |-> call[c].key, action |-> call[c].action,
                                       by |-> c]}
        /\ keys' # keys => call[c].key # NoKey /\ \A e \in keys : e.key # call[c].key
    BY <1>5 DEF Record
  <2>3. \/ keys' = keys
        \/ /\ keys' \subseteq [key : Key, action : Action, by : Call]
           /\ \A e, f \in keys' : e.key = f.key => e = f
    BY <2>2 DEF TypeOK
  <2>. QED  BY <1>5, <2>1, <2>3 DEF Record, TypeOK
<1>6. ASSUME NEW c \in Call, Run(c) PROVE TypeOK'
  BY <1>6, PCs, GotoEffect DEF Run, TypeOK
<1>7. ASSUME NEW c \in Call, Drop(c) PROVE TypeOK'
  BY <1>7, PCs, GotoEffect DEF Drop, TypeOK
<1>8. ASSUME UNCHANGED vars PROVE TypeOK'
  BY <1>8 DEF vars, TypeOK
<1>. QED  BY <1>1, <1>2, <1>3, <1>4, <1>5, <1>6, <1>7, <1>8 DEF Next

\* Whatever overlaps, breaks off and shares keys, the table holds one row a key.
THEOREM TypeInvariant == Spec => []TypeOK
BY InitType, NextType, PTL DEF Spec

-----------------------------------------------------------------------------
(* Handlers and table agree.                                               *)

LEMMA KeysInit == Init => KeysAgree
BY DEF Init, NoCall, KeysAgree, RowsAreEarned, DeployReplayIsReal, PcAgrees, PassedItsCheck,
       Ended, Handled

\* A step of c that leaves the others alone and takes nothing back.
StepOf(c) ==
  /\ \A d \in Call \ {c} : call'[d] = call[d]
  /\ keys \subseteq keys' /\ performed \subseteq performed'
  /\ performed' \subseteq performed \cup {c}
  /\ c \notin Ended

\* What it does not disturb.
LEMMA OthersAgree ==
  ASSUME TypeOK, KeysAgree, NEW c \in Call, StepOf(c), NEW d \in Call \ {c}
  PROVE  PcAgrees(d)' /\ PassedItsCheck(d)'
<1>1. call'[d] = call[d] /\ (d \in performed' <=> d \in performed) /\ d \in Call
  BY DEF StepOf
<1>2. Ended \subseteq Ended' /\ call[d].after \subseteq Ended
  BY DEF StepOf, Ended, KeysAgree, PcAgrees
<1>3. \A k : SomeRow(k) => SomeRow(k)'
  BY DEF SomeRow, StepOf
<1>4. PcAgrees(d)'
  <2>1. PcAgrees(d)
    BY DEF KeysAgree
  <2>. QED  BY <1>1, <1>2, <1>3, <2>1 DEF PcAgrees
<1>5. PassedItsCheck(d)'
  <2>. SUFFICES ASSUME d \in performed' \/ call'[d].pc \in {"deploy", "connect", "record", "run"},
                       NEW e \in performed', Retries(d, e)', call'[e].pc = "ok"
                PROVE  \E f \in keys' : /\ f.key = call'[d].key
                                        /\ f.action = IF call'[d].action = "Deploy"
                                                        THEN "RunCommand" ELSE "Deploy"
    BY DEF PassedItsCheck, Held
  <2>1. e \in Ended /\ e # c
    BY <1>1, <1>2 DEF Retries, StepOf
  <2>2. e \in performed /\ call'[e] = call[e] /\ Retries(d, e)
    BY <1>1, <2>1 DEF StepOf, Retries, TypeOK, Ended
  <2>3. Held(call[d].key, IF call[d].action = "Deploy" THEN "RunCommand" ELSE "Deploy")
    BY <1>1, <2>2 DEF KeysAgree, PassedItsCheck
  <2>. QED  BY <1>1, <2>3 DEF Held, StepOf
<1>. QED  BY <1>4, <1>5

\* A step that only moves an attempt on keeps what rows and replays say.
LEMMA RowsStayEarned ==
  ASSUME TypeOK, KeysAgree, NEW c \in Call, StepOf(c), keys' = keys,
         call'[c].key = call[c].key /\ call'[c].action = call[c].action,
         call[c].pc = "run" => call'[c].pc \notin {"idle", "check", "deploy", "connect", "record"}
  PROVE  RowsAreEarned'
<1>. SUFFICES ASSUME NEW e \in keys
              PROVE  /\ call'[e.by].pc \notin {"idle", "check", "deploy", "connect", "record"}
                     /\ call'[e.by].key = e.key /\ call'[e.by].action = e.action
                     /\ e.action = "Deploy" => e.by \in performed'
  BY DEF RowsAreEarned
<1>1. /\ call[e.by].pc \notin {"idle", "check", "deploy", "connect", "record"}
      /\ call[e.by].key = e.key /\ call[e.by].action = e.action
      /\ e.action = "Deploy" => e.by \in performed
      /\ e.by \in Call
  BY DEF KeysAgree, RowsAreEarned, TypeOK
<1>2. CASE e.by # c
  BY <1>1, <1>2 DEF StepOf
<1>3. CASE e.by = c
  <2>1. call[c].pc = "run"
    BY <1>1, <1>3, PCs DEF StepOf, Ended, Handled, TypeOK
  <2>. QED  BY <1>1, <1>3, <2>1 DEF StepOf
<1>. QED  BY <1>2, <1>3

\* Nor does it disturb the replays.
LEMMA ReplaysStayReal ==
  ASSUME TypeOK, KeysAgree, NEW c \in Call, StepOf(c), call'[c].pc # "replayed",
         call'[c].key = call[c].key /\ call'[c].action = call[c].action
  PROVE  DeployReplayIsReal'
<1>. SUFFICES ASSUME NEW d \in Call, call'[d].pc = "replayed", call'[d].action = "Deploy",
                     NEW b \in call'[d].of
              PROVE  b \in performed' /\ call'[b].action = "Deploy"
                     /\ call'[b].key = call'[d].key
  BY DEF DeployReplayIsReal
<1>1. call'[d] = call[d]
  BY DEF StepOf
<1>2. b \in performed /\ call[b].action = "Deploy" /\ call[b].key = call[d].key /\ b \in Call
  BY <1>1 DEF KeysAgree, DeployReplayIsReal, TypeOK
<1>. QED  BY <1>1, <1>2 DEF StepOf

LEMMA AfterStays ==
  ASSUME KeysAgree, NEW c \in Call, StepOf(c)
  PROVE  call[c].after \subseteq Ended'
BY DEF KeysAgree, PcAgrees, StepOf, Ended

\* An attempt that had passed its check is not disturbed by its own next step.
LEMMA PassingStays ==
  ASSUME TypeOK, KeysAgree, NEW c \in Call, StepOf(c),
         call'[c].key = call[c].key, call'[c].action = call[c].action,
         call'[c].after = call[c].after,
         \/ c \in performed \/ call[c].pc \in {"deploy", "connect", "record", "run"}
         \/ c \notin performed' /\ call'[c].pc \notin {"deploy", "connect", "record", "run"}
  PROVE  PassedItsCheck(c)'
<1>. SUFFICES ASSUME c \in performed' \/ call'[c].pc \in {"deploy", "connect", "record", "run"},
                     NEW e \in performed', Retries(c, e)', call'[e].pc = "ok"
              PROVE  \E f \in keys' : /\ f.key = call'[c].key
                                      /\ f.action = IF call'[c].action = "Deploy"
                                                      THEN "RunCommand" ELSE "Deploy"
  BY DEF PassedItsCheck, Held
<1>1. e \in Ended /\ e # c /\ e \in Call
  BY DEF Retries, StepOf, KeysAgree, PcAgrees, Ended
<1>2. e \in performed /\ call'[e] = call[e] /\ Retries(c, e)
  BY <1>1 DEF StepOf, Retries
<1>3. Held(call[c].key, IF call[c].action = "Deploy" THEN "RunCommand" ELSE "Deploy")
  BY <1>2 DEF KeysAgree, PassedItsCheck
<1>. QED  BY <1>3 DEF Held, StepOf

\* A retry whose check finds nothing although an attempt had acted found the key
\* held for the other action.
LEMMA NothingFound ==
  ASSUME TypeOK, KeysAgree, NEW c \in Call, NEW d \in performed,
         call[d].pc = "ok", call[d].key = call[c].key, call[c].key # NoKey,
         ~ Held(call[c].key, call[c].action)
  PROVE  Held(call[c].key, IF call[c].action = "Deploy" THEN "RunCommand" ELSE "Deploy")
<1>1. PICK e \in keys : e.key = call[c].key
  <2>1. SomeRow(call[d].key)
    BY DEF KeysAgree, PcAgrees, TypeOK
  <2>. QED  BY <2>1 DEF SomeRow
<1>2. e.action \in {"Deploy", "RunCommand"} /\ call[c].action \in {"Deploy", "RunCommand"}
  BY DEF TypeOK, Action
<1>3. e.action # call[c].action
  BY <1>1 DEF Held
<1>. QED  BY <1>1, <1>2, <1>3 DEF Held

LEMMA KeysNext == TypeOK /\ TypeOK' /\ KeysAgree /\ [Next]_vars => KeysAgree'
<1>. SUFFICES ASSUME TypeOK, TypeOK', KeysAgree, [Next]_vars PROVE KeysAgree'
  OBVIOUS
<1>l. /\ RowsAreEarned /\ DeployReplayIsReal
      /\ \A c \in Call : PcAgrees(c) /\ PassedItsCheck(c)
  BY DEF KeysAgree
<1>1. ASSUME NEW c \in Call, NEW a \in Action, NEW k \in Key \cup {NoKey},
             NEW dry \in BOOLEAN, Arrive(c, a, k, dry)
      PROVE  KeysAgree'
  <2>1. /\ call'[c] = [pc |-> "check", action |-> a, key |-> k, dry |-> dry, of |-> {},
                       after |-> Ended]
        /\ keys' = keys /\ performed' = performed /\ call[c].pc = "idle"
        /\ \A d \in Call \ {c} : call'[d] = call[d]
    BY <1>1 DEF Arrive, TypeOK
  <2>2. StepOf(c) /\ c \notin performed
    BY <1>l, <2>1 DEF StepOf, Ended, PcAgrees
  <2>3. PcAgrees(c)' /\ PassedItsCheck(c)'
    BY <2>1, <2>2 DEF PcAgrees, PassedItsCheck, Ended, StepOf
  <2>4. RowsAreEarned'
    BY <1>l, <2>1 DEF RowsAreEarned, TypeOK
  <2>5. DeployReplayIsReal'
    <3>1. \A d \in performed : d # c
      BY <2>2
    <3>. QED  BY <1>l, <2>1, <3>1 DEF DeployReplayIsReal, TypeOK
  <2>. QED  BY <2>2, <2>3, <2>4, <2>5, OthersAgree DEF KeysAgree
<1>2. ASSUME NEW c \in Call, Check(c) PROVE KeysAgree'
  <2>. DEFINE found == {e \in keys : e.key = call[c].key /\ e.action = call[c].action}
              of == {e.by : e \in found}
              next == IF call[c].dry THEN "ok"
                      ELSE IF call[c].action = "Deploy" THEN "deploy" ELSE "connect"
              pc == IF found # {} THEN "replayed" ELSE next
  <2>1. /\ call' = [call EXCEPT ![c].of = of, ![c].pc = pc]
        /\ keys' = keys /\ performed' = performed /\ call[c].pc = "check"
    BY <1>2 DEF Check
  <2>2. /\ call'[c].of = of /\ call'[c].pc = pc
        /\ call'[c].action = call[c].action /\ call'[c].key = call[c].key
        /\ call'[c].after = call[c].after
        /\ \A d \in Call \ {c} : call'[d] = call[d]
    <3>. HIDE DEF of, pc
    <3>. QED  BY <2>1 DEF TypeOK
  <2>3. StepOf(c) /\ c \notin performed
    BY <1>l, <2>1, <2>2 DEF StepOf, Ended, Handled, PcAgrees
  <2>4. /\ pc \in {"ok", "replayed", "deploy", "connect"}
        /\ pc = "deploy" => call[c].action = "Deploy"
        /\ pc = "connect" => call[c].action = "RunCommand"
        /\ pc \in {"deploy", "connect"} => ~ Held(call[c].key, call[c].action)
    <3>1. call[c].action \in {"Deploy", "RunCommand"}
      BY DEF TypeOK, Action
    <3>2. found = {} => ~ Held(call[c].key, call[c].action)
      BY DEF Held
    <3>. QED  BY <3>1, <3>2
  <2>5. PcAgrees(c)'
    <3>1. call[c].after \subseteq Ended'
      BY <1>l, <2>3 DEF PcAgrees, StepOf, Ended
    <3>. HIDE DEF pc, of
    <3>. QED  BY <2>1, <2>2, <2>3, <2>4, <3>1 DEF PcAgrees
  <2>6. PassedItsCheck(c)'
    <3>. SUFFICES ASSUME pc \in {"deploy", "connect"}, NEW d \in performed,
                         Retries(c, d)', call'[d].pc = "ok"
                  PROVE  Held(call[c].key, IF call[c].action = "Deploy" THEN "RunCommand"
                                                                        ELSE "Deploy")
      <4>. HIDE DEF pc, of
      <4>. QED  BY <2>1, <2>2, <2>3, <2>4 DEF PassedItsCheck, Held
    <3>1. d # c /\ d \in Call
      BY <2>3 DEF TypeOK
    <3>2. call[d].pc = "ok" /\ call[d].key = call[c].key /\ call[c].key # NoKey
      <4>. HIDE DEF pc, of
      <4>. QED  BY <2>2, <3>1 DEF Retries
    <3>. QED  BY <2>4, <3>2, NothingFound
  <2>7. RowsAreEarned'
    <3>. HIDE DEF pc, of
    <3>. QED  BY <2>1, <2>2, <2>3, RowsStayEarned
  <2>8. DeployReplayIsReal'
    <3>. SUFFICES ASSUME NEW d \in Call, call'[d].pc = "replayed", call'[d].action = "Deploy",
                         NEW b \in call'[d].of
                  PROVE  b \in performed /\ call'[b].action = "Deploy"
                         /\ call'[b].key = call'[d].key
      BY <2>1 DEF DeployReplayIsReal
    <3>1. /\ b \in performed /\ call[b].action = "Deploy" /\ call[b].key = call[d].key
          /\ call[d].key = call'[d].key
      <4>1. CASE d = c
        <5>1. PICK e \in found : b = e.by
          <6>. HIDE DEF pc, found
          <6>. QED  BY <2>2, <4>1
        <5>2. call[c].action = "Deploy" /\ call'[c].key = call[c].key
          <6>. HIDE DEF pc, of
          <6>. QED  BY <2>2, <4>1
        <5>. QED  BY <1>l, <4>1, <5>1, <5>2 DEF RowsAreEarned
      <4>2. CASE d # c
        <5>1. call'[d] = call[d]
          <6>. HIDE DEF pc, of
          <6>. QED  BY <2>2, <4>2
        <5>. QED  BY <1>l, <5>1 DEF DeployReplayIsReal
      <4>. QED  BY <4>1, <4>2
    <3>2. b # c /\ b \in Call
      BY <2>3, <3>1 DEF TypeOK
    <3>3. call'[b] = call[b]
      <4>. HIDE DEF pc, of
      <4>. QED  BY <2>2, <3>2
    <3>. QED  BY <3>1, <3>3
  <2>. QED  BY <2>3, <2>5, <2>6, <2>7, <2>8, OthersAgree DEF KeysAgree
<1>3. ASSUME NEW c \in Call, Deploy(c) PROVE KeysAgree'
  <2>1. /\ keys' = keys /\ performed' \subseteq performed \cup {c}
        /\ performed \subseteq performed' /\ call[c].pc = "deploy"
        /\ call[c].action = "Deploy"
        /\ \/ call'[c].pc = "record" /\ c \in performed'
           \/ call'[c].pc = "error" /\ performed' = performed
    BY <1>3, <1>l, PCs, GotoEffect DEF Deploy, PcAgrees
  <2>2. /\ call'[c].action = call[c].action /\ call'[c].key = call[c].key
        /\ call'[c].of = call[c].of /\ call'[c].after = call[c].after
        /\ \A d \in Call \ {c} : call'[d] = call[d]
    BY <1>3, PCs, GotoEffect DEF Deploy
  <2>3. StepOf(c) /\ c \notin performed
    BY <1>l, <2>1, <2>2 DEF StepOf, Ended, Handled, PcAgrees
  <2>4. PcAgrees(c)'
    BY <1>l, <2>1, <2>2, <2>3, AfterStays DEF PcAgrees
  <2>5. PassedItsCheck(c)'
    BY <1>l, <2>1, <2>2, <2>3, PassingStays
  <2>. QED  BY <2>1, <2>2, <2>3, <2>4, <2>5, OthersAgree, RowsStayEarned, ReplaysStayReal
            DEF KeysAgree
<1>4. ASSUME NEW c \in Call, Connect(c) PROVE KeysAgree'
  <2>1. /\ keys' = keys /\ performed' = performed /\ call[c].pc = "connect"
        /\ call[c].action = "RunCommand" /\ call'[c].pc \in {"record", "error"}
    BY <1>4, <1>l, PCs, GotoEffect DEF Connect, PcAgrees
  <2>2. /\ call'[c].action = call[c].action /\ call'[c].key = call[c].key
        /\ call'[c].of = call[c].of /\ call'[c].after = call[c].after
        /\ \A d \in Call \ {c} : call'[d] = call[d]
    BY <1>4, PCs, GotoEffect DEF Connect
  <2>3. StepOf(c) /\ c \notin performed
    BY <1>l, <2>1, <2>2 DEF StepOf, Ended, Handled, PcAgrees
  <2>4. PcAgrees(c)'
    BY <1>l, <2>1, <2>2, <2>3, AfterStays DEF PcAgrees
  <2>5. PassedItsCheck(c)'
    BY <1>l, <2>1, <2>2, <2>3, PassingStays
  <2>. QED  BY <2>1, <2>2, <2>3, <2>4, <2>5, OthersAgree, RowsStayEarned, ReplaysStayReal
            DEF KeysAgree
<1>5. ASSUME NEW c \in Call, Record(c) PROVE KeysAgree'
  <2>. DEFINE new == [key |-> call[c].key, action |-> call[c].action, by |-> c]
  <2>1. /\ performed' = performed /\ call[c].pc = "record"
        /\ call'[c].pc = IF call[c].action = "Deploy" THEN "ok" ELSE "run"
        /\ call[c].action = "Deploy" => c \in performed
        /\ call[c].action # "Deploy" => c \notin performed /\ call[c].action = "RunCommand"
    BY <1>5, <1>l, PCs, GotoEffect DEF Record, PcAgrees, TypeOK, Action
  <2>2. /\ call'[c].action = call[c].action /\ call'[c].key = call[c].key
        /\ call'[c].of = call[c].of /\ call'[c].after = call[c].after
        /\ \A d \in Call \ {c} : call'[d] = call[d]
    BY <1>5, PCs, GotoEffect DEF Record
  <2>3. /\ keys \subseteq keys' /\ keys' \subseteq keys \cup {new}
        /\ call[c].key # NoKey => \E e \in keys' : e.key = call[c].key
    <3>1. keys' = keys \cup {[key |-> k, action |-> call[c].action, by |-> c] :
                              k \in {call[c].key} \ ({NoKey} \cup {e.key : e \in keys})}
      BY <1>5 DEF Record
    <3>2. CASE call[c].key = NoKey \/ \E e \in keys : e.key = call[c].key
      BY <3>1, <3>2
    <3>3. CASE call[c].key # NoKey /\ \A e \in keys : e.key # call[c].key
      <4>1. keys' = keys \cup {new}
        BY <3>1, <3>3
      <4>2. new.key = call[c].key
        OBVIOUS
      <4>. HIDE DEF new
      <4>3. new \in keys' /\ keys \subseteq keys' /\ keys' \subseteq keys \cup {new}
        BY <4>1
      <4>. QED  BY <4>2, <4>3
    <3>. QED  BY <3>2, <3>3
  <2>4. StepOf(c)
    BY <2>1, <2>2, <2>3 DEF StepOf, Ended, Handled
  <2>5. PcAgrees(c)'
    BY <1>l, <2>1, <2>2, <2>3, <2>4, AfterStays DEF PcAgrees, SomeRow
  <2>6. PassedItsCheck(c)'
    BY <1>l, <2>1, <2>2, <2>4, PassingStays
  <2>7. RowsAreEarned'
    <3>. SUFFICES ASSUME NEW e \in keys'
                  PROVE  /\ call'[e.by].pc \notin {"idle", "check", "deploy", "connect", "record"}
                         /\ call'[e.by].key = e.key /\ call'[e.by].action = e.action
                         /\ e.action = "Deploy" => e.by \in performed'
      BY DEF RowsAreEarned
    <3>1. CASE e \in keys
      <4>1. e.by # c /\ e.by \in Call
        BY <1>l, <2>1, <3>1 DEF RowsAreEarned, TypeOK
      <4>. QED  BY <1>l, <2>1, <2>2, <3>1, <4>1 DEF RowsAreEarned
    <3>2. CASE e = new
      BY <2>1, <2>2, <3>2
    <3>. QED  BY <2>3, <3>1, <3>2
  <2>. QED  BY <2>1, <2>2, <2>4, <2>5, <2>6, <2>7, OthersAgree, ReplaysStayReal DEF KeysAgree
<1>6. ASSUME NEW c \in Call, Run(c) PROVE KeysAgree'
  <2>1. /\ keys' = keys /\ performed' = performed \cup {c} /\ call[c].pc = "run"
        /\ call[c].action = "RunCommand" /\ call'[c].pc = "ok"
    BY <1>6, <1>l, PCs, GotoEffect DEF Run, PcAgrees
  <2>2. /\ call'[c].action = call[c].action /\ call'[c].key = call[c].key
        /\ call'[c].of = call[c].of /\ call'[c].after = call[c].after
        /\ \A d \in Call \ {c} : call'[d] = call[d]
    BY <1>6, PCs, GotoEffect DEF Run
  <2>3. StepOf(c)
    BY <2>1, <2>2 DEF StepOf, Ended, Handled
  <2>4. PcAgrees(c)'
    BY <1>l, <2>1, <2>2, <2>3, AfterStays DEF PcAgrees, SomeRow
  <2>5. PassedItsCheck(c)'
    BY <1>l, <2>1, <2>2, <2>3, PassingStays
  <2>. QED  BY <2>1, <2>2, <2>3, <2>4, <2>5, OthersAgree, RowsStayEarned, ReplaysStayReal
            DEF KeysAgree
<1>7. ASSUME NEW c \in Call, Drop(c) PROVE KeysAgree'
  <2>1. /\ keys' = keys /\ performed' = performed /\ call[c].pc \in Handled
        /\ call'[c].pc = "dropped"
    BY <1>7, PCs, GotoEffect DEF Drop
  <2>2. /\ call'[c].action = call[c].action /\ call'[c].key = call[c].key
        /\ call'[c].of = call[c].of /\ call'[c].after = call[c].after
        /\ \A d \in Call \ {c} : call'[d] = call[d]
    BY <1>7, PCs, GotoEffect DEF Drop
  <2>3. StepOf(c)
    BY <2>1, <2>2 DEF StepOf, Ended
  <2>4. PcAgrees(c)'
    BY <1>l, <2>1, <2>2, <2>3, AfterStays DEF PcAgrees, Handled
  <2>5. PassedItsCheck(c)'
    <3>1. c \in performed => call[c].pc = "record"
      BY <1>l, <2>1 DEF PcAgrees, Handled
    <3>. QED  BY <1>l, <2>1, <2>2, <2>3, <3>1, PassingStays
  <2>. QED  BY <2>1, <2>2, <2>3, <2>4, <2>5, OthersAgree, RowsStayEarned, ReplaysStayReal
            DEF KeysAgree
<1>8. ASSUME UNCHANGED vars PROVE KeysAgree'
  BY <1>l, <1>8
  DEF vars, KeysAgree, RowsAreEarned, DeployReplayIsReal, PcAgrees, PassedItsCheck, SomeRow,
      Ended, Retries, Held
<1>. QED  BY <1>1, <1>2, <1>3, <1>4, <1>5, <1>6, <1>7, <1>8 DEF Next

\* Handlers and table agree: the invariant the theorems below rest on.
THEOREM KeysInvariant == Spec => []KeysAgree
BY KeysInit, KeysNext, TypeInvariant, PTL DEF Spec

\* A replayed Deploy returns a deployment that a Deploy under its key started.
THEOREM ReplayedDeploysAreReal == Spec => []DeployReplayIsReal
<1>1. KeysAgree => DeployReplayIsReal
  BY DEF KeysAgree
<1>. QED  BY <1>1, KeysInvariant, PTL

\* A retried RunCommand runs a second time only under a key that a Deploy holds.
THEOREM CommandsRunOnce == Spec => []CommandRunsOnce
<1>1. TypeOK /\ KeysAgree => CommandRunsOnce
  <2>. SUFFICES ASSUME TypeOK, KeysAgree, NEW c \in performed, NEW d \in performed,
                       Retries(c, d), call[c].action = "RunCommand"
                PROVE  Held(call[c].key, "Deploy")
    BY DEF CommandRunsOnce
  <2>1. c \in Call /\ d \in Call /\ call[d].action = "RunCommand"
    BY DEF Retries, TypeOK
  <2>2. call[d].pc = "ok"
    BY <2>1 DEF KeysAgree, PcAgrees
  <2>. QED  BY <2>1, <2>2 DEF KeysAgree, PassedItsCheck
<1>. QED  BY <1>1, KeysInvariant, TypeInvariant, PTL

\* A retried Deploy deploys a second time only after a handler that broke off, or
\* under a key that a RunCommand holds.
THEOREM DeploysHappenOnce == Spec => []DeployHappensOnce
<1>1. TypeOK /\ KeysAgree => DeployHappensOnce
  <2>. SUFFICES ASSUME TypeOK, KeysAgree, NEW c \in performed, NEW d \in performed,
                       Retries(c, d), call[c].action = "Deploy", call[d].pc # "dropped"
                PROVE  Held(call[c].key, "RunCommand")
    BY DEF DeployHappensOnce
  <2>1. d \in Ended /\ c \in Call /\ d \in Call
    BY DEF KeysAgree, PcAgrees, Retries, TypeOK
  <2>2. call[d].pc = "ok"
    BY <2>1 DEF KeysAgree, PcAgrees, Ended, Handled
  <2>. QED  BY <2>1, <2>2 DEF KeysAgree, PassedItsCheck
<1>. QED  BY <1>1, KeysInvariant, TypeInvariant, PTL

\* A call that is repeated under its key has its effect once, but for the exceptions
\* the two properties name.
THEOREM RepeatedCallsDoNothingNew == Spec => []RepeatedCallsActOnce
BY CommandsRunOnce, DeploysHappenOnce, PTL DEF RepeatedCallsActOnce

-----------------------------------------------------------------------------
(***************************************************************************)
(* Mutations: the gate.                                                    *)
(***************************************************************************)
TargetPaths ==
    {"/targets", "/targets/:id/host-key/accept", "/targets/:id/ingress/enable",
     "/targets/:id/ingress/disable", "/targets/:id/ingress/reload", "/services/:id/deploy",
     "/services/:id/action", "/services/:id/rollback", "/services", "/services/:id/edit",
     "/services/:id/delete", "/deployments/:id/cancel", "/secrets/rotate", "/secrets/ssh-key",
     "/secrets", "/secrets/:id/delete", "/sources/github", "/sources/github/callback",
     "/sources/:id/delete"}
BuildHostPaths ==
    {"/build-hosts", "/build-hosts/default", "/build-hosts/:id/check",
     "/build-hosts/:id/host-key/accept", "/build-hosts/:id/delete"}
Paths == IF boxKind = "target" THEN TargetPaths ELSE BuildHostPaths

Names == {"none"} \cup DOMAIN OnTarget \cup DOMAIN OnBuildHost \cup TargetPaths \cup BuildHostPaths

\* What a handler's place in the table says of it.
Obeys(rpc, gate) ==
    /\ gate.entry # "first" => rpc \in {"CheckTarget", "CheckBuildHost", "ExchangeCode"}
    /\ ~gate.dry => rpc \in {"CheckTarget", "CheckBuildHost", "CreateManifest", "ExchangeCode",
                             "CreateSession"}
    /\ gate.guard \in {"row", "asked", "none"}
    /\ gate.guard = "none" => rpc \in Unguarded
    /\ gate.guard = "asked" => gate.does = <<"create">>
    /\ Len(gate.does) \in Nat
    /\ \A i \in 1 .. Len(gate.does) : gate.does[i] \in {"create", "write"} => i = Len(gate.does)

LEMMA TargetsObey == \A rpc \in DOMAIN OnTarget : Obeys(rpc, OnTarget[rpc])
<1>. SUFFICES ASSUME NEW rpc \in DOMAIN OnTarget PROVE Obeys(rpc, OnTarget[rpc])
  OBVIOUS
<1>. DEFINE gate == OnTarget[rpc]
<1>. USE DEF Obeys, Unguarded, Gate
<1>a. /\ Obeys("CreateTarget", CreateTargetGate)
      /\ Obeys("UpdateTarget", UpdateTargetGate)
      /\ Obeys("DeleteTarget", DeleteTargetGate)
      /\ Obeys("CheckTarget", CheckTargetGate)
      /\ Obeys("AcceptHostKey", AcceptHostKeyGate)
      /\ Obeys("ForgetHostKey", ForgetHostKeyGate)
      /\ Obeys("EnableIngress", EnableIngressGate)
      /\ Obeys("DisableIngress", DisableIngressGate)
      /\ Obeys("ReloadIngress", ReloadIngressGate)
  BY DEF CreateTargetGate, UpdateTargetGate, DeleteTargetGate, CheckTargetGate,
     AcceptHostKeyGate, ForgetHostKeyGate, EnableIngressGate, DisableIngressGate,
     ReloadIngressGate
<1>b. /\ Obeys("CreateService", CreateServiceGate)
      /\ Obeys("UpdateService", UpdateServiceGate)
      /\ Obeys("DeleteService", DeleteServiceGate)
      /\ Obeys("UnitAction", UnitActionGate)
      /\ Obeys("Deploy", DeployGate)
      /\ Obeys("Rollback", RollbackGate)
      /\ Obeys("Cancel", CancelGate)
  BY DEF CreateServiceGate, UpdateServiceGate, DeleteServiceGate, UnitActionGate, DeployGate,
     RollbackGate, CancelGate
<1>c. /\ Obeys("PutSecret", PutSecretGate)
      /\ Obeys("DeleteSecret", DeleteSecretGate)
      /\ Obeys("DeleteServiceSecret", DeleteServiceSecretGate)
      /\ Obeys("CreateManifest", CreateManifestGate)
      /\ Obeys("ExchangeCode", ExchangeCodeGate)
      /\ Obeys("DeleteSource", DeleteSourceGate)
      /\ Obeys("CreateSession", CreateSessionGate)
      /\ Obeys("RunCommand", RunCommandGate)
  BY DEF PutSecretGate, DeleteSecretGate, DeleteServiceSecretGate, CreateManifestGate,
     ExchangeCodeGate, DeleteSourceGate, CreateSessionGate, RunCommandGate
<1>. HIDE DEF Obeys
<1>. QED  BY <1>a, <1>b, <1>c DEF OnTarget

LEMMA BuildHostsObey == \A rpc \in DOMAIN OnBuildHost : Obeys(rpc, OnBuildHost[rpc])
<1>1. /\ Obeys("CreateBuildHost", CreateBuildHostGate)
      /\ Obeys("UpdateBuildHost", UpdateBuildHostGate)
      /\ Obeys("DeleteBuildHost", DeleteBuildHostGate)
      /\ Obeys("CheckBuildHost", CheckBuildHostGate)
      /\ Obeys("AcceptBuildHostKey", AcceptBuildHostKeyGate)
      /\ Obeys("ForgetBuildHostKey", ForgetBuildHostKeyGate)
      /\ Obeys("SetDefaults", SetDefaultsGate)
  BY DEF CreateBuildHostGate, UpdateBuildHostGate, DeleteBuildHostGate, CheckBuildHostGate,
     AcceptBuildHostKeyGate, ForgetBuildHostKeyGate, SetDefaultsGate, Obeys, Unguarded, Gate
<1>. QED  BY <1>1 DEF OnBuildHost

LEMMA ServedObey == \A rpc \in DOMAIN Served : Obeys(rpc, Served[rpc]) /\ rpc \in Names
BY TargetsObey, BuildHostsObey DEF Served, Names

\* A page's forms go to routes whose calls are about the page's host.
LEMMA RoutesServed == \A path \in Paths : Router(path).rpcs \subseteq DOMAIN Served
<1>1. \A path \in TargetPaths : Router(path).rpcs \subseteq DOMAIN OnTarget
  BY DEF TargetPaths, Router, OnTarget, Route, target_create, target_accept_host_key,
     target_ingress_enable, target_ingress_disable, target_ingress_reload, deploy,
     service_unit_action, rollback, service_create, service_update, service_delete,
     deployment_cancel, secret_rotate, ssh_key_put, secret_put, secret_delete,
     source_github_create, source_github_callback, source_delete
<1>2. \A path \in BuildHostPaths : Router(path).rpcs \subseteq DOMAIN OnBuildHost
  BY DEF BuildHostPaths, Router, OnBuildHost, Route, build_host_create, build_default_set,
     build_host_check, build_host_accept_host_key, build_host_delete
<1>. QED  BY <1>1, <1>2 DEF Paths, Served

MutationCall ==
    [pc : {"idle", "form", "asked", "loaded", "acting"}, rpc : Names, dry : BOOLEAN, allow : BOOLEAN,
     flag : BOOLEAN, seen : BOOLEAN, late : BOOLEAN, entry : BOOLEAN, step : Nat]

\* A call is one the control plane serves; once it acts it is on record, and no
\* dry run its handler heeds.
OnRecord(k) ==
    /\ k.pc = "form" => k.rpc \in Paths
    /\ k.pc \in {"asked", "loaded", "acting"} =>
          k.rpc \in DOMAIN Served /\ (k.rpc = "ExchangeCode" => ~k.dry)
    /\ k.pc # "acting" => k.step = 0
    /\ k.pc = "acting" =>
          /\ k.entry \/ Served[k.rpc].entry # "first"
          /\ k.dry => ~Served[k.rpc].dry

\* What a call knows of a latency-critical host: it has read the flag, or the
\* flag came after it had read the row; what still has something to do to one
\* means to, or was overtaken.
Knows(k) ==
    k.pc \in {"loaded", "acting"} /\ Served[k.rpc].guard = "row" /\ box.critical =>
        /\ k.pc = "loaded" => k.seen \/ k.late
        /\ k.pc = "acting" /\ k.step < Len(Served[k.rpc].does) => k.allow \/ k.late

MutationsInv ==
    /\ box \in [critical : BOOLEAN, mode : {"unborn", "gone", "off", "managed", "external"},
                pending : BOOLEAN]
    /\ ~HasRow => ~box.critical
    /\ calls \in [Caller -> MutationCall]
    /\ \A c \in Caller : OnRecord(calls[c]) /\ Knows(calls[c])

\* A call as the control plane may hear of it, or have left it.
Sound(k) == k \in MutationCall /\ OnRecord(k) /\ Knows(k)

LEMMA QuietIsACall == Sound(Quiet) /\ Quiet.pc = "idle"
<1>1. "none" \in Names
  BY DEF Names
<1>. QED  BY <1>1 DEF Quiet, MutationCall, OnRecord, Knows, Sound

LEMMA MutationsInit_Inv == MutationsInit => MutationsInv
<1>. SUFFICES ASSUME MutationsInit PROVE MutationsInv
  OBVIOUS
<1>1. \A c \in Caller : calls[c] = Quiet
  BY DEF MutationsInit
<1>2. calls \in [Caller -> MutationCall]
  BY QuietIsACall DEF MutationsInit, Sound
<1>3. box.critical = FALSE /\ box \in [critical : BOOLEAN, mode : {"unborn", "gone", "off", "managed", "external"},
                pending : BOOLEAN]
  BY DEF MutationsInit, Unborn, HostRow
<1>4. ASSUME NEW c \in Caller PROVE OnRecord(calls[c]) /\ Knows(calls[c])
  <2>1. calls[c] = Quiet
    BY <1>1
  <2>. QED  BY <2>1, QuietIsACall DEF Sound
<1>. QED  BY <1>2, <1>3, <1>4 DEF MutationsInv

\* A step of one call that leaves the host alone.
LEMMA OneCallMoves ==
  ASSUME MutationsInv, NEW c \in Caller, NEW k, Sound(k),
         k.pc # "acting" \/ k.step = calls[c].step,
         calls' = [calls EXCEPT ![c] = k], UNCHANGED <<box, boxKind>>
  PROVE  MutationsInv' /\ \A d \in Caller : ~Acted(d)
<1>. USE DEF Sound
<1>1. calls' \in [Caller -> MutationCall] /\ \A d \in Caller : calls'[d] = IF d = c THEN k ELSE calls[d]
  BY DEF MutationsInv
<1>2. Served' = Served /\ Paths' = Paths /\ (HasRow' <=> HasRow)
  BY DEF Served, Paths, HasRow
<1>3. ASSUME NEW d \in Caller PROVE OnRecord(calls[d])' /\ Knows(calls[d])'
  <2>1. CASE d = c
    BY <1>1, <1>2, <2>1 DEF OnRecord, Knows
  <2>2. CASE d # c
    <3>1. OnRecord(calls[d]) /\ Knows(calls[d]) /\ calls'[d] = calls[d]
      BY <1>1, <2>2 DEF MutationsInv
    <3>. QED  BY <1>2, <3>1 DEF OnRecord, Knows
  <2>. QED  BY <2>1, <2>2
<1>4. ASSUME NEW d \in Caller PROVE ~Acted(d)
  <2>1. calls[d].step \in Nat /\ calls'[d].step \in {0, calls[d].step}
    BY <1>1 DEF MutationsInv, MutationCall, OnRecord
  <2>. QED  BY <2>1 DEF Acted
<1>. QED  BY <1>1, <1>2, <1>3, <1>4 DEF MutationsInv

LEMMA AsksWell ==
  ASSUME NEW rpc \in DOMAIN Served, NEW dry \in BOOLEAN, NEW allow \in BOOLEAN, NEW flag \in BOOLEAN,
         rpc = "ExchangeCode" => ~dry
  PROVE  Sound(Says(rpc, dry, allow, flag)) /\ Says(rpc, dry, allow, flag).pc = "asked"
<1>1. rpc \in Names
  BY ServedObey
<1>. DEFINE says == Says(rpc, dry, allow, flag)
<1>2. Quiet \in MutationCall /\ Quiet.step = 0
  BY QuietIsACall DEF Quiet, Sound
<1>3. /\ says \in MutationCall /\ says.pc = "asked" /\ says.rpc = rpc /\ says.dry = dry
      /\ says.step = 0
  BY <1>1, <1>2 DEF Says, MutationCall
<1>. HIDE DEF says
<1>4. Sound(says) /\ says.pc = "asked"
  BY <1>3 DEF OnRecord, Knows, Sound
<1>. QED  BY <1>4 DEF says

LEMMA FormsWell ==
  ASSUME NEW path \in Paths, NEW allow \in BOOLEAN, NEW flag \in BOOLEAN,
         NEW f \in {Form(path, allow), [Form(path, allow) EXCEPT !.flag = flag]}
  PROVE  Sound(f) /\ f.pc = "form"
<1>1. path \in Names
  BY DEF Paths, Names
<1>2. Quiet \in MutationCall /\ Quiet.step = 0
  BY QuietIsACall DEF Quiet, Sound
<1>. DEFINE blank == Form(path, allow)
<1>3. blank \in MutationCall /\ blank.pc = "form" /\ blank.rpc = path /\ blank.step = 0
  <2>. DEFINE opened == [Quiet EXCEPT !.pc = "form"]
              named  == [opened EXCEPT !.rpc = path]
  <2>1. opened \in MutationCall /\ opened.pc = "form" /\ opened.step = 0
    BY <1>2 DEF MutationCall
  <2>. HIDE DEF opened
  <2>2. named \in MutationCall /\ named.pc = "form" /\ named.rpc = path /\ named.step = 0
    BY <1>1, <2>1 DEF MutationCall
  <2>3. blank = [named EXCEPT !.allow = allow]
    BY DEF Form, opened
  <2>. HIDE DEF named, blank
  <2>. QED  BY <2>2, <2>3 DEF MutationCall
<1>. HIDE DEF blank
<1>4. f \in MutationCall /\ f.pc = "form" /\ f.rpc = path /\ f.step = 0
  <2>1. CASE f = blank
    BY <1>3, <2>1
  <2>2. CASE f = [blank EXCEPT !.flag = flag]
    BY <1>3, <2>2 DEF MutationCall
  <2>. QED  BY <2>1, <2>2 DEF blank
<1>. QED  BY <1>4 DEF OnRecord, Knows, Sound

\* What a client asks for is served.
LEMMA ClientAsks ==
  ASSUME MutationsInv, NEW c \in Caller, Client(c), UNCHANGED boxKind
  PROVE  MutationsInv' /\ \A d \in Caller : ~Acted(d)
<1>. USE DEF Client
<1>1. CASE OpensPage(c)
  <2>1. PICK f \in Pages : calls' = [calls EXCEPT ![c] = f]
    BY <1>1 DEF OpensPage
  <2>2. Sound(f) /\ f.pc \in {"form", "asked"}
    <3>b. box.critical \in BOOLEAN
      BY DEF MutationsInv
    <3>3. CASE f = Says("CreateSession", FALSE, box.critical, FALSE) /\ boxKind = "target"
      <4>1. "CreateSession" \in DOMAIN Served
        BY <3>3 DEF Served, OnTarget
      <4>. QED  BY <3>3, <3>b, <4>1, AsksWell
    <3>4. CASE \E path \in Paths, allow \in BOOLEAN, flag \in BOOLEAN :
                 f = [Form(path, allow) EXCEPT !.flag = flag]
      BY <3>4, FormsWell
    <3>5. CASE \E path \in Paths, allow \in BOOLEAN : f = Form(path, allow)
      BY <3>5, FormsWell
    <3>6. CASE boxKind = "target" /\ HasRow
      <4>1. \/ f = Says("CreateSession", FALSE, box.critical, FALSE)
            \/ \E path \in TargetPaths, allow \in BOOLEAN : f = Form(path, allow)
        BY <3>6, <3>b DEF Pages, target_page, host_key_change, ingress_card, ingress_off, Carries,
           Bare, If, service_page, service_forms, deployment_page, secrets_page, rotate_action,
           ssh_key_form, sources_page, terminal_page, TargetPaths
      <4>. QED  BY <4>1, <3>3, <3>5, <3>6 DEF Paths
    <3>7. CASE boxKind = "target" /\ ~HasRow
      BY <3>7, <3>4 DEF Pages, target_form, TargetPaths, Paths
    <3>8. CASE boxKind # "target" /\ HasRow
      <4>1. \E path \in BuildHostPaths, allow \in BOOLEAN : f = Form(path, allow)
        BY <3>8, <3>b DEF Pages, build_host_page, build_host_key_change, build_default_card,
           Carries, Bare, If, BuildHostPaths
      <4>. QED  BY <4>1, <3>5, <3>8 DEF Paths
    <3>9. CASE boxKind # "target" /\ ~HasRow
      BY <3>9, <3>4 DEF Pages, build_host_form, BuildHostPaths, Paths
    <3>. QED  BY <3>6, <3>7, <3>8, <3>9
  <2>. QED  BY <2>1, <2>2, OneCallMoves
<1>2. CASE Posts(c)
  <2>1. calls[c].pc = "form" /\ calls[c] \in MutationCall /\ calls[c].rpc \in Paths
    BY <1>2 DEF Posts, MutationsInv, OnRecord
  <2>2. CASE calls' = [calls EXCEPT ![c] = Quiet]
    BY <2>2, QuietIsACall, OneCallMoves
  <2>3. CASE \E rpc \in Router(calls[c].rpc).rpcs, allow \in BOOLEAN :
               calls' = [calls EXCEPT ![c] = Says(rpc, FALSE, allow, calls[c].flag)]
    <3>1. PICK rpc \in DOMAIN Served, allow \in BOOLEAN :
            calls' = [calls EXCEPT ![c] = Says(rpc, FALSE, allow, calls[c].flag)]
      BY <2>1, <2>3, RoutesServed
    <3>2. calls[c].flag \in BOOLEAN
      BY <2>1 DEF MutationCall
    <3>. QED  BY <3>1, <3>2, AsksWell, OneCallMoves
  <2>4. calls[c].allow \in BOOLEAN /\ calls[c].flag \in BOOLEAN
    BY <2>1 DEF MutationCall
  <2>. QED  BY <1>2, <2>2, <2>3, <2>4 DEF Posts
<1>3. CASE Types(c)
  <2>1. PICK rpc \in cli_run \cap DOMAIN Served, dry \in BOOLEAN, allow \in BOOLEAN, flag \in BOOLEAN :
          calls' = [calls EXCEPT ![c] = Says(rpc, dry, allow, flag)]
    BY <1>3 DEF Types
  <2>2. rpc # "ExchangeCode"
    BY DEF cli_run, cli_targets, cli_ingress, cli_build_hosts, cli_secrets, cli_services,
       cli_unit_action, cli_terminal
  <2>. QED  BY <2>1, <2>2, AsksWell, OneCallMoves
<1>4. CASE AgentCalls(c)
  <2>1. PICK rpc \in (mcp_deploy \cup mcp_rollback \cup mcp_run_command) \cap DOMAIN Served,
             dry \in BOOLEAN, allow \in BOOLEAN :
          calls' = [calls EXCEPT ![c] = Says(rpc, dry, allow, FALSE)]
    BY <1>4 DEF AgentCalls
  <2>2. rpc # "ExchangeCode"
    BY DEF mcp_deploy, mcp_rollback, mcp_run_command
  <2>. QED  BY <2>1, <2>2, AsksWell, OneCallMoves
<1>5. CASE OtherClients(c)
  <2>1. PICK rpc \in {"UpdateTarget", "DeleteTarget", "UpdateBuildHost", "DeleteBuildHost"} \cap DOMAIN Served,
             dry \in BOOLEAN, allow \in BOOLEAN, flag \in BOOLEAN :
          calls' = [calls EXCEPT ![c] = Says(rpc, dry, allow, flag)]
    BY <1>5 DEF OtherClients
  <2>. QED  BY <2>1, AsksWell, OneCallMoves
<1>. QED  BY <1>1, <1>2, <1>3, <1>4, <1>5

\* The control plane before and after it acts.
LEMMA GateMoves ==
  ASSUME MutationsInv, NEW c \in Caller, UNCHANGED boxKind,
         Require(c) \/ AuthorizeGuarded(c) \/ Fails(c) \/ Finishes(c)
  PROVE  MutationsInv' /\ \A d \in Caller : ~Acted(d)
<1>. DEFINE k == calls[c]
<1>k. k \in MutationCall /\ OnRecord(k) /\ Knows(k) /\ box.critical \in BOOLEAN
  BY DEF MutationsInv
<1>0. CASE Answers(c) /\ UNCHANGED box
  BY <1>0, QuietIsACall, OneCallMoves DEF Answers
<1>1. CASE Require(c)
  <2>. DEFINE seen == CASE Does(c).guard = "row" -> box.critical
                        [] Does(c).guard = "asked" -> k.flag
                        [] OTHER -> FALSE
              next == [k EXCEPT !.pc = "loaded", !.seen = seen]
  <2>1. CASE k.pc = "asked" /\ calls' = [calls EXCEPT ![c] = next]
    <3>1. seen \in BOOLEAN
      BY <1>k DEF MutationCall
    <3>2. Does(c) = Served[k.rpc]
      BY DEF Does
    <3>3. /\ next \in MutationCall /\ next.pc = "loaded" /\ next.rpc = k.rpc /\ next.dry = k.dry
          /\ next.step = k.step /\ next.seen = seen
      <4>. HIDE DEF seen, k
      <4>. QED  BY <1>k, <3>1 DEF MutationCall
    <3>4. OnRecord(next)
      <4>. HIDE DEF next
      <4>. QED  BY <1>k, <2>1, <3>3 DEF OnRecord
    <3>5. Knows(next)
      <4>1. Served[k.rpc].guard = "row" => seen = box.critical
        BY <3>2
      <4>. HIDE DEF next, seen
      <4>. QED  BY <3>3, <4>1 DEF Knows
    <3>6. UNCHANGED box
      BY <1>1 DEF Require
    <3>7. Sound(next)
      BY <3>3, <3>4, <3>5 DEF Sound
    <3>. HIDE DEF next
    <3>. QED  BY <2>1, <3>3, <3>6, <3>7, OneCallMoves
  <2>. QED  BY <1>1, <1>0, <2>1 DEF Require
<1>2. CASE AuthorizeGuarded(c)
  <2>. DEFINE next == [k EXCEPT !.pc = "acting", !.seen = FALSE, !.entry = (Does(c).entry = "first")]
  <2>1. CASE ~Refused(c) /\ ~(k.dry /\ Does(c).dry) /\ calls' = [calls EXCEPT ![c] = next]
    <3>1. k.pc = "loaded" /\ UNCHANGED box /\ Does(c) = Served[k.rpc]
      BY <1>2 DEF AuthorizeGuarded, Does
    <3>2. /\ next \in MutationCall /\ next.pc = "acting" /\ next.rpc = k.rpc /\ next.dry = k.dry
          /\ next.step = k.step /\ next.allow = k.allow /\ next.late = k.late
          /\ next.entry = (Does(c).entry = "first")
      <4>1. (Does(c).entry = "first") \in BOOLEAN
        OBVIOUS
      <4>. DEFINE first == (Does(c).entry = "first")
      <4>. HIDE DEF first, k
      <4>. QED  BY <1>k, <4>1 DEF MutationCall, first
    <3>. HIDE DEF next
    <3>3. OnRecord(next)
      BY <1>k, <2>1, <3>1, <3>2 DEF OnRecord
    <3>4. Knows(next)
      BY <1>k, <2>1, <3>1, <3>2 DEF Knows, Refused
    <3>5. Sound(next)
      BY <3>2, <3>3, <3>4 DEF Sound
    <3>. QED  BY <2>1, <3>1, <3>2, <3>5, OneCallMoves
  <2>2. UNCHANGED box
    BY <1>2 DEF AuthorizeGuarded
  <2>3. Answers(c) \/ (~Refused(c) /\ ~(k.dry /\ Does(c).dry) /\ calls' = [calls EXCEPT ![c] = next])
    BY <1>2 DEF AuthorizeGuarded, GoesOn
  <2>. QED  BY <1>0, <2>1, <2>2, <2>3
<1>3. CASE Fails(c)
  BY <1>0, <1>3 DEF Fails
<1>4. CASE Finishes(c)
  <2>. DEFINE next == [k EXCEPT !.entry = TRUE]
  <2>1. CASE k.pc = "acting" /\ calls' = [calls EXCEPT ![c] = next] /\ UNCHANGED box
    <3>1. /\ next \in MutationCall /\ next.pc = "acting" /\ next.rpc = k.rpc /\ next.dry = k.dry
          /\ next.step = k.step /\ next.allow = k.allow /\ next.late = k.late /\ next.entry
      BY <1>k, <2>1 DEF MutationCall
    <3>. HIDE DEF next
    <3>2. Sound(next)
      BY <1>k, <2>1, <3>1 DEF OnRecord, Knows, Sound
    <3>. QED  BY <2>1, <3>1, <3>2, OneCallMoves
  <2>. QED  BY <1>0, <1>4, <2>1 DEF Finishes
<1>. QED  BY <1>1, <1>2, <1>3, <1>4

BoxRow == [critical : BOOLEAN, mode : {"unborn", "gone", "off", "managed", "external"}, pending : BOOLEAN]

\* Only a host being created or edited gets the flag.
LEMMA WhoFlags ==
  ASSUME box \in BoxRow, NEW step, NEW flag \in BOOLEAN, box' \in Changed(step, flag)
  PROVE  /\ box' \in BoxRow
         /\ box'.critical /\ ~box.critical => step \in {"create", "write"}
         /\ box.critical => step # "create"
<1>. USE DEF BoxRow, HostRow, Unborn, Gone
<1>1. CASE step = "create"
  <2>1. box = Unborn /\ box' = HostRow(flag, "off", FALSE)
    BY <1>1 DEF Changed
  <2>. QED  BY <1>1, <2>1
<1>2. CASE step = "write"
  <2>1. PICK f \in BOOLEAN : box' = [box EXCEPT !.critical = f]
    BY <1>2 DEF Changed
  <2>. QED  BY <1>2, <2>1
<1>3. CASE step = "remove"
  <2>1. box' = Gone
    BY <1>3 DEF Changed
  <2>. QED  BY <1>3, <2>1
<1>4. CASE step = "probe"
  <2>1. PICK changed \in BOOLEAN : box' = [box EXCEPT !.pending = changed]
    BY <1>4 DEF Changed
  <2>. QED  BY <1>4, <2>1
<1>5. CASE step \in {"settle", "enable", "off"}
  <2>1. CASE step = "settle"
    <3>1. box' = [box EXCEPT !.pending = FALSE]
      BY <2>1 DEF Changed
    <3>. QED  BY <2>1, <3>1
  <2>2. CASE step = "enable"
    <3>1. PICK mode \in {"managed", "external"} : box' = [box EXCEPT !.mode = mode]
      BY <2>2 DEF Changed
    <3>. QED  BY <2>2, <3>1
  <2>3. CASE step = "off"
    <3>1. box' = [box EXCEPT !.mode = "off"]
      BY <2>3 DEF Changed
    <3>. QED  BY <2>3, <3>1
  <2>. QED  BY <1>5, <2>1, <2>2, <2>3
<1>6. CASE step \notin {"create", "write", "remove", "probe", "settle", "enable", "off"}
  BY <1>6 DEF Changed
<1>. QED  BY <1>1, <1>2, <1>3, <1>4, <1>5, <1>6

LEMMA CallActs ==
  ASSUME MutationsInv, NEW c \in Caller, UNCHANGED boxKind, Acts(c)
  PROVE  /\ MutationsInv'
         /\ \A d \in Caller : d # c => calls'[d].step = calls[d].step
<1>. DEFINE k == calls[c]
            gate == Served[k.rpc]
            step == gate.does[k.step + 1]
<1>k. /\ k \in MutationCall /\ OnRecord(k) /\ Knows(k) /\ box \in BoxRow
      /\ k.pc = "acting" /\ k.step < Len(gate.does) /\ Does(c) = gate
  BY DEF MutationsInv, BoxRow, Acts, Does
<1>n. k.step \in Nat /\ k.flag \in BOOLEAN
  BY <1>k DEF MutationCall
<1>1. box' \in Changed(step, k.flag)
  BY <1>k DEF Acts
<1>2. /\ box' \in BoxRow
      /\ box'.critical /\ ~box.critical => step \in {"create", "write"}
  <2>. HIDE DEF step, k
  <2>. QED  BY <1>k, <1>n, <1>1, WhoFlags
<1>g. /\ Len(gate.does) \in Nat
      /\ step \in {"create", "write"} => k.step + 1 = Len(gate.does)
  <2>1. Obeys(k.rpc, gate)
    BY <1>k, ServedObey DEF OnRecord
  <2>2. Len(gate.does) \in Nat
    BY <2>1 DEF Obeys
  <2>3. k.step + 1 \in 1 .. Len(gate.does)
    BY <1>k, <1>n, <2>2
  <2>. QED  BY <2>1, <2>2, <2>3 DEF Obeys
<1>3. Served' = Served /\ Paths' = Paths
  BY DEF Served, Paths
<1>4. \A d \in Caller : calls'[d] =
         IF d = c THEN [k EXCEPT !.step = @ + 1]
         ELSE [calls[d] EXCEPT !.late = @ \/ (Flags /\ calls[d].pc \notin {"idle", "form", "asked"})]
  BY DEF Acts
<1>5. ASSUME NEW d \in Caller, d # c
      PROVE  /\ calls'[d] \in MutationCall /\ OnRecord(calls[d])' /\ Knows(calls[d])'
             /\ calls'[d].step = calls[d].step
  <2>. DEFINE r == calls[d]
              late == r.late \/ (Flags /\ r.pc \notin {"idle", "form", "asked"})
              next == [r EXCEPT !.late = late]
  <2>1. r \in MutationCall /\ OnRecord(r) /\ Knows(r)
    BY DEF MutationsInv
  <2>2. late \in BOOLEAN
    BY <2>1 DEF MutationCall
  <2>3. /\ next \in MutationCall /\ next.pc = r.pc /\ next.rpc = r.rpc /\ next.dry = r.dry
        /\ next.allow = r.allow /\ next.seen = r.seen /\ next.entry = r.entry
        /\ next.step = r.step /\ next.late = late
    <3>. HIDE DEF r, late
    <3>. QED  BY <2>1, <2>2 DEF MutationCall
  <2>4. calls'[d] = next
    BY <1>4, <1>5
  <2>5. OnRecord(calls[d])'
    <3>. HIDE DEF next, r
    <3>. QED  BY <1>3, <2>1, <2>3, <2>4 DEF OnRecord
  <2>6. Knows(calls[d])'
    <3>1. box'.critical /\ r.pc \in {"loaded", "acting"} => box.critical \/ late
      BY DEF Flags
    <3>2. r.late => late
      OBVIOUS
    <3>. HIDE DEF next, r, late
    <3>. QED  BY <1>3, <2>1, <2>3, <2>4, <3>1, <3>2 DEF Knows
  <2>. QED  BY <2>3, <2>4, <2>5, <2>6
<1>6. calls'[c] \in MutationCall /\ OnRecord(calls[c])' /\ Knows(calls[c])'
  <2>. DEFINE next == [k EXCEPT !.step = @ + 1]
  <2>1. /\ next \in MutationCall /\ next.pc = k.pc /\ next.rpc = k.rpc /\ next.dry = k.dry
        /\ next.allow = k.allow /\ next.entry = k.entry /\ next.step = k.step + 1
        /\ next.late = k.late
    <3>. HIDE DEF k
    <3>. QED  BY <1>k, <1>n DEF MutationCall
  <2>2. calls'[c] = next
    BY <1>4
  <2>3. OnRecord(calls[c])'
    <3>. HIDE DEF next, k
    <3>. QED  BY <1>3, <1>k, <2>1, <2>2 DEF OnRecord
  <2>4. box'.critical /\ k.step + 1 < Len(gate.does) => box.critical
    <3>. HIDE DEF step, k, gate
    <3>. QED  BY <1>2, <1>g, <1>n, <1>k DEF BoxRow
  <2>5. Knows(calls[c])'
    <3>. HIDE DEF next, k, step
    <3>. QED  BY <1>3, <1>k, <1>n, <1>g, <2>1, <2>2, <2>4 DEF Knows
  <2>. QED  BY <2>1, <2>2, <2>3, <2>5
<1>7. calls' \in [Caller -> MutationCall]
  <2>1. \A d \in Caller : calls'[d] \in MutationCall
    BY <1>5, <1>6
  <2>2. DOMAIN calls' = Caller /\ calls' = [d \in Caller |-> calls'[d]]
    BY DEF Acts
  <2>. QED  BY <2>1, <2>2
<1>8. ~HasRow' => ~box'.critical
  BY DEF HasRow, Unborn, Gone, HostRow
<1>. QED  BY <1>2, <1>5, <1>6, <1>7, <1>8 DEF MutationsInv, BoxRow

LEMMA MutationsNext_Inv == MutationsInv /\ [MutationsNext]_mutationsVars => MutationsInv'
<1>. SUFFICES ASSUME MutationsInv, [MutationsNext]_mutationsVars PROVE MutationsInv'
  OBVIOUS
<1>1. CASE UNCHANGED mutationsVars
  <2>1. UNCHANGED <<boxKind, box, calls>>
    BY <1>1 DEF mutationsVars
  <2>. QED  BY <2>1 DEF MutationsInv, OnRecord, Knows, Served, Paths, HasRow
<1>2. CASE Stops /\ UNCHANGED boxKind
  <2>1. calls' \in [Caller -> MutationCall]
    BY <1>2, QuietIsACall DEF Stops, MutationsInv, Sound
  <2>2. Served' = Served /\ Paths' = Paths /\ UNCHANGED box
    BY <1>2 DEF Served, Paths, Stops
  <2>3. ASSUME NEW c \in Caller PROVE OnRecord(calls[c])' /\ Knows(calls[c])'
    <3>1. CASE calls[c].pc = "form" /\ calls'[c] = calls[c]
      BY <2>2, <3>1 DEF MutationsInv, OnRecord, Knows
    <3>2. CASE calls'[c] = Quiet
      BY <2>2, <3>2 DEF OnRecord, Knows, Quiet
    <3>. QED  BY <1>2, <3>1, <3>2 DEF Stops
  <2>. QED  BY <2>1, <2>2, <2>3 DEF MutationsInv, HasRow
<1>3. ASSUME NEW c \in Caller, Client(c) \/ ControlPlane(c), UNCHANGED boxKind PROVE MutationsInv'
  BY <1>3, ClientAsks, GateMoves, CallActs DEF ControlPlane
<1>. QED  BY <1>1, <1>2, <1>3 DEF MutationsNext

\* Nothing is done before an entry for it has been put to the log, and a dry run
\* does nothing, but for the calls the code exempts (authorize of
\* server/src/api/mod.rs as every handler uses it).
THEOREM NothingIsDoneOffRecord == MutationsSpec => []RecordTellsWhatWasDone
<1>1. MutationsInv => RecordTellsWhatWasDone
  <2>. SUFFICES ASSUME MutationsInv, NEW c \in Caller, calls[c].step > 0
                PROVE  /\ \/ calls[c].entry
                          \/ calls[c].rpc \in {"CheckTarget", "CheckBuildHost", "ExchangeCode"}
                       /\ calls[c].dry => calls[c].rpc \in {"CheckTarget", "CheckBuildHost", "CreateManifest", "CreateSession"}
    BY DEF RecordTellsWhatWasDone
  <2>1. calls[c].pc = "acting" /\ OnRecord(calls[c])
    <3>1. OnRecord(calls[c])
      BY DEF MutationsInv
    <3>. QED  BY <3>1 DEF OnRecord
  <2>2. Obeys(calls[c].rpc, Served[calls[c].rpc])
    BY <2>1, ServedObey DEF OnRecord
  <2>. QED  BY <2>1, <2>2 DEF OnRecord, Obeys
<1>. QED  BY <1>1, MutationsInit_Inv, MutationsNext_Inv, PTL DEF MutationsSpec

\* Whoever does something about a latency-critical host has said that it means
\* to, or the flag overtook it after its row was read (guard_latency_critical of
\* server/src/api/mod.rs).
THEOREM CriticalOnlyOnPurpose == MutationsSpec => CriticalIsTouchedOnPurpose
<1>1. ASSUME MutationsInv, MutationsNext, NEW c \in Caller, Acted(c), box.critical,
             calls[c].rpc \notin Unguarded
      PROVE  calls[c].allow \/ calls[c].late
  <2>1. Acts(c)
    <3>1. ~Stops
      <4>1. SUFFICES ASSUME Stops PROVE FALSE
        OBVIOUS
      <4>2. calls[c].step \in Nat /\ calls'[c] \in {Quiet, calls[c]}
        BY <1>1, <4>1 DEF Stops, MutationsInv, MutationCall
      <4>. QED  BY <1>1, <4>2 DEF Acted, Quiet
    <3>2. PICK d \in Caller : Client(d) \/ ControlPlane(d)
      BY <1>1, <3>1 DEF MutationsNext
    <3>3. Acts(d)
      BY <1>1, <3>2, ClientAsks, GateMoves DEF ControlPlane, MutationsNext
    <3>4. d # c => calls'[c].step = calls[c].step
      BY <1>1, <3>3, CallActs DEF MutationsNext
    <3>5. calls[c].step \in Nat
      BY <1>1 DEF MutationsInv, MutationCall
    <3>. QED  BY <1>1, <3>3, <3>4, <3>5 DEF Acted
  <2>2. /\ calls[c].pc = "acting" /\ calls[c].step < Len(Served[calls[c].rpc].does)
        /\ OnRecord(calls[c]) /\ Knows(calls[c]) /\ calls[c] \in MutationCall
        /\ box' \in Changed(Served[calls[c].rpc].does[calls[c].step + 1], calls[c].flag)
    BY <1>1, <2>1 DEF Acts, Does, MutationsInv
  <2>. DEFINE gate == Served[calls[c].rpc]
  <2>3. Obeys(calls[c].rpc, gate) /\ calls[c].step \in Nat /\ calls[c].flag \in BOOLEAN
    BY <2>2, ServedObey DEF OnRecord, MutationCall
  <2>4. gate.guard # "asked"
    <3>1. SUFFICES ASSUME gate.guard = "asked" PROVE FALSE
      OBVIOUS
    <3>2. gate.does = <<"create">>
      BY <2>3, <3>1 DEF Obeys
    <3>3. calls[c].step = 0 /\ gate.does[calls[c].step + 1] = "create"
      BY <2>2, <2>3, <3>2
    <3>4. box \in BoxRow
      BY <1>1 DEF MutationsInv, BoxRow
    <3>. QED  BY <1>1, <2>2, <2>3, <3>3, <3>4, WhoFlags
  <2>5. gate.guard = "row"
    BY <1>1, <2>3, <2>4 DEF Obeys
  <2>. QED  BY <1>1, <2>2, <2>5 DEF Knows
<1>2. MutationsInv /\ [MutationsNext]_mutationsVars =>
        [\A c \in Caller :
            Acted(c) /\ box.critical /\ calls[c].rpc \notin Unguarded
              => calls[c].allow \/ calls[c].late]_mutationsVars
  BY <1>1
<1>. QED  BY <1>2, MutationsInit_Inv, MutationsNext_Inv, PTL DEF MutationsSpec, CriticalIsTouchedOnPurpose

-----------------------------------------------------------------------------
(***************************************************************************)
(* Pushes.                                                                 *)
(***************************************************************************)
PushHandler ==
    [pc : {"next", "start"}, commit : Commit, found : SUBSET Pushed, left : SUBSET Pushed,
     at : Pushed \cup {"none"}, done : SUBSET Pushed, refused : SUBSET Pushed, raced : BOOLEAN]

PushType ==
    /\ watching \subseteq Pushed /\ standing \subseteq Pushed
    /\ sends \in [Commit -> Nat]
    /\ delivery \in [Delivery -> {NoDelivery} \cup PushHandler]
    /\ queued \in [Commit \X Pushed -> Nat]

\* A handler loses none of what it found, takes none twice, and has a service at
\* hand whose target was not flagged when it looked.
Handles(h) ==
    /\ h.found \cap standing \subseteq
         h.left \cup h.done \cup h.refused \cup (IF h.pc = "start" THEN {h.at} ELSE {})
    /\ h.left \cap h.done = {}
    /\ h.pc = "start" => /\ h.at \in Pushed /\ h.at \notin h.left \cup h.done
                         /\ h.at \in hot => h.raced

\* The deliveries that may still queue a push's deployment of a service.
Pending(c, s) ==
    {d \in Delivery : delivery[d] # NoDelivery /\ delivery[d].commit = c /\ s \notin delivery[d].done}

Counted(c, s) ==
    IsFiniteSet(Pending(c, s)) /\ queued[<<c, s>>] + Cardinality(Pending(c, s)) <= sends[c]

PushInv ==
    /\ PushType
    /\ \A d \in Delivery : delivery[d] # NoDelivery => Handles(delivery[d])
    /\ \A c \in Commit, s \in Pushed : Counted(c, s)

LEMMA PushInit_Inv == PushInit => PushInv
<1>. SUFFICES ASSUME PushInit PROVE PushInv
  OBVIOUS
<1>1. PushType
  BY DEF PushInit, PushType
<1>2. \A d \in Delivery : delivery[d] = NoDelivery
  BY DEF PushInit
<1>3. ASSUME NEW c \in Commit, NEW s \in Pushed PROVE Counted(c, s)
  <2>1. Pending(c, s) = {}
    BY <1>2 DEF Pending
  <2>2. queued[<<c, s>>] = 0 /\ sends[c] = 0
    BY DEF PushInit
  <2>. QED  BY <2>1, <2>2, FS_EmptySet DEF Counted
<1>. QED  BY <1>1, <1>2, <1>3 DEF PushInv

\* What is pending is what it was, or has one delivery more or less.
LEMMA SamePending ==
  ASSUME NEW c \in Commit, NEW s \in Pushed, PushInv, sends'[c] \in Nat, sends'[c] >= sends[c],
         queued'[<<c, s>>] = queued[<<c, s>>], Pending(c, s)' \subseteq Pending(c, s)
  PROVE  Counted(c, s)'
<1>1. /\ IsFiniteSet(Pending(c, s)) /\ queued[<<c, s>>] \in Nat /\ sends[c] \in Nat
      /\ queued[<<c, s>>] + Cardinality(Pending(c, s)) <= sends[c]
  BY DEF PushInv, Counted, PushType
<1>2. /\ IsFiniteSet(Pending(c, s)') /\ Cardinality(Pending(c, s)') <= Cardinality(Pending(c, s))
  BY <1>1, FS_Subset
<1>3. Cardinality(Pending(c, s)') \in Nat /\ Cardinality(Pending(c, s)) \in Nat
  BY <1>1, <1>2, FS_CardinalityType
<1>. QED  BY <1>1, <1>2, <1>3 DEF Counted

\* A step of one delivery that queues nothing.
LEMMA OneDelivery ==
  ASSUME PushInv, NEW d \in Delivery, NEW h \in PushHandler, delivery[d] \in PushHandler,
         h.commit = delivery[d].commit, h.done = delivery[d].done, Handles(h),
         delivery' = [delivery EXCEPT ![d] = h],
         UNCHANGED <<watching, standing, hot, sends, queued>>
  PROVE  PushInv'
<1>1. PushType'
  BY DEF PushInv, PushType
<1>2. \A e \in Delivery : delivery'[e] = IF e = d THEN h ELSE delivery[e]
  BY DEF PushInv, PushType
<1>3. h # NoDelivery /\ delivery[d] # NoDelivery
  BY DEF PushHandler, NoDelivery
<1>4. ASSUME NEW e \in Delivery, delivery'[e] # NoDelivery PROVE Handles(delivery[e])'
  <2>1. Handles(delivery'[e])
    BY <1>2, <1>4 DEF PushInv
  <2>. QED  BY <2>1 DEF Handles
<1>5. ASSUME NEW c \in Commit, NEW s \in Pushed PROVE Counted(c, s)'
  <2>1. Pending(c, s)' \subseteq Pending(c, s)
    BY <1>2, <1>3 DEF Pending
  <2>2. sends'[c] \in Nat /\ sends'[c] >= sends[c]
    BY DEF PushInv, PushType
  <2>. QED  BY <2>1, <2>2, SamePending
<1>. QED  BY <1>1, <1>4, <1>5 DEF PushInv

LEMMA PushNext_Inv == PushInv /\ [PushNext]_pushVars => PushInv'
<1>. SUFFICES ASSUME PushInv, [PushNext]_pushVars PROVE PushInv'
  OBVIOUS
<1>t. PushType
  BY DEF PushInv
\* Steps that leave the handlers and the counts alone.
<1>q. ASSUME PushType', UNCHANGED <<delivery, queued>>, standing' \subseteq standing, hot' = hot,
             \A c \in Commit : sends'[c] >= sends[c]
      PROVE  PushInv'
  <2>1. ASSUME NEW d \in Delivery, delivery'[d] # NoDelivery PROVE Handles(delivery[d])'
    <3>1. Handles(delivery[d])
      BY <1>q, <2>1 DEF PushInv
    <3>. QED  BY <1>q, <3>1 DEF Handles
  <2>2. ASSUME NEW c \in Commit, NEW s \in Pushed PROVE Counted(c, s)'
    <3>1. Pending(c, s)' = Pending(c, s)
      BY <1>q DEF Pending
    <3>2. sends'[c] \in Nat
      BY <1>q DEF PushType
    <3>. QED  BY <1>q, <3>1, <3>2, SamePending
  <2>. QED  BY <1>q, <2>1, <2>2 DEF PushInv
<1>1. ASSUME NEW s \in Pushed, Edit(s) PROVE PushInv'
  <2>1. PushType'
    BY <1>t, <1>1 DEF Edit, PushType
  <2>2. \A c \in Commit : sends'[c] >= sends[c]
    BY <1>t, <1>1 DEF Edit, PushType
  <2>. QED  BY <1>1, <1>q, <2>1, <2>2 DEF Edit
<1>2. ASSUME NEW s \in Pushed, RemoveWatcher(s) PROVE PushInv'
  <2>1. PushType'
    BY <1>t, <1>2 DEF RemoveWatcher, PushType
  <2>2. \A c \in Commit : sends'[c] >= sends[c]
    BY <1>t, <1>2 DEF RemoveWatcher, PushType
  <2>. QED  BY <1>2, <1>q, <2>1, <2>2 DEF RemoveWatcher
<1>3. ASSUME NEW c \in Commit, Dismiss(c) PROVE PushInv'
  <2>1. PushType'
    BY <1>t, <1>3 DEF Dismiss, PushType
  <2>2. \A e \in Commit : sends'[e] >= sends[e]
    BY <1>t, <1>3 DEF Dismiss, PushType
  <2>. QED  BY <1>3, <1>q, <2>1, <2>2 DEF Dismiss
<1>4. CASE UNCHANGED pushVars
  <2>1. UNCHANGED <<watching, standing, hot, sends, delivery, queued>>
    BY <1>4 DEF pushVars
  <2>2. PushType' /\ \A c \in Commit : sends'[c] >= sends[c]
    BY <1>t, <2>1 DEF PushType
  <2>. QED  BY <2>1, <2>2, <1>q
<1>5. ASSUME NEW s \in Pushed, Flag(s) PROVE PushInv'
  <2>1. ASSUME NEW d \in Delivery
        PROVE  /\ delivery'[d] \in {NoDelivery} \cup PushHandler
               /\ (delivery'[d] = NoDelivery) <=> (delivery[d] = NoDelivery)
               /\ delivery[d] # NoDelivery =>
                    /\ delivery'[d].commit = delivery[d].commit /\ delivery'[d].done = delivery[d].done
                    /\ Handles(delivery[d])'
    <3>1. CASE delivery[d] = NoDelivery
      <4>1. delivery[d].pc # "start"
        BY <3>1 DEF NoDelivery
      <4>. QED  BY <1>5, <3>1, <4>1 DEF Flag
    <3>2. CASE delivery[d] \in PushHandler
      <4>1. delivery[d] # NoDelivery /\ Handles(delivery[d])
        BY <3>2 DEF PushInv, PushHandler, NoDelivery
      <4>2. CASE delivery[d].pc = "start" /\ delivery[d].at = s
        <5>1. delivery'[d] = [delivery[d] EXCEPT !.raced = TRUE]
          BY <1>5, <4>2 DEF Flag
        <5>2. /\ delivery'[d] \in PushHandler /\ delivery'[d].pc = delivery[d].pc
              /\ delivery'[d].at = delivery[d].at /\ delivery'[d].raced = TRUE
              /\ delivery'[d].found = delivery[d].found /\ delivery'[d].left = delivery[d].left
              /\ delivery'[d].done = delivery[d].done /\ delivery'[d].refused = delivery[d].refused
              /\ delivery'[d].commit = delivery[d].commit
          BY <3>2, <5>1 DEF PushHandler
        <5>3. Handles(delivery[d])'
          BY <1>5, <4>1, <5>2 DEF Handles, Flag
        <5>4. delivery'[d] # NoDelivery
          BY <5>2 DEF PushHandler, NoDelivery
        <5>. QED  BY <4>1, <5>2, <5>3, <5>4
      <4>3. CASE ~(delivery[d].pc = "start" /\ delivery[d].at = s)
        <5>1. delivery'[d] = delivery[d]
          BY <1>5, <4>3 DEF Flag
        <5>2. Handles(delivery[d])'
          BY <1>5, <4>1, <4>3, <5>1 DEF Handles, Flag
        <5>. QED  BY <3>2, <4>1, <5>1, <5>2
      <4>. QED  BY <4>2, <4>3
    <3>. QED  BY <1>t, <3>1, <3>2 DEF PushType
  <2>2. PushType'
    <3>1. delivery' \in [Delivery -> {NoDelivery} \cup PushHandler]
      BY <1>5, <2>1 DEF Flag
    <3>. QED  BY <1>t, <1>5, <3>1 DEF PushType, Flag
  <2>3. ASSUME NEW c \in Commit, NEW e \in Pushed PROVE Counted(c, e)'
    <3>1. Pending(c, e)' \subseteq Pending(c, e)
      BY <2>1 DEF Pending
    <3>2. sends'[c] \in Nat /\ sends'[c] >= sends[c] /\ queued' = queued
      BY <1>t, <1>5 DEF PushType, Flag
    <3>. QED  BY <3>1, <3>2, SamePending
  <2>. QED  BY <2>1, <2>2, <2>3 DEF PushInv
\* A delivery that is over queues nothing more.
<1>a. ASSUME NEW d \in Delivery, Answer(d), UNCHANGED <<watching, standing, hot, sends, queued>>
      PROVE  PushInv'
  <2>1. \A e \in Delivery : delivery'[e] = IF e = d THEN NoDelivery ELSE delivery[e]
    BY <1>t, <1>a DEF Answer, PushType
  <2>2. PushType'
    BY <1>t, <1>a DEF Answer, PushType
  <2>3. ASSUME NEW e \in Delivery, delivery'[e] # NoDelivery PROVE Handles(delivery[e])'
    <3>1. Handles(delivery'[e])
      BY <2>1, <2>3 DEF PushInv
    <3>. QED  BY <1>a, <3>1 DEF Handles
  <2>4. ASSUME NEW c \in Commit, NEW s \in Pushed PROVE Counted(c, s)'
    <3>1. Pending(c, s)' \subseteq Pending(c, s)
      BY <2>1 DEF Pending
    <3>2. sends'[c] \in Nat /\ sends'[c] >= sends[c]
      BY <1>t, <1>a DEF PushType
    <3>. QED  BY <1>a, <3>1, <3>2, SamePending
  <2>. QED  BY <2>2, <2>3, <2>4 DEF PushInv
<1>6. ASSUME NEW d \in Delivery, Acknowledge(d) \/ Abandon(d) PROVE PushInv'
  BY <1>6, <1>a DEF Acknowledge, Abandon
<1>7. ASSUME NEW d \in Delivery, Look(d) PROVE PushInv'
  <2>. DEFINE h == delivery[d]
  <2>1. h \in PushHandler /\ h.pc = "next" /\ Handles(h)
    <3>1. h # NoDelivery
      BY <1>7 DEF Look, NoDelivery
    <3>2. h \in PushHandler /\ Handles(h)
      BY <1>t, <3>1 DEF PushType, PushInv
    <3>. QED  BY <1>7, <3>2 DEF Look
  <2>2. PICK s \in h.left :
          delivery' =
            CASE s \notin standing -> [delivery EXCEPT ![d].left = @ \ {s}]
              [] s \in standing \cap hot ->
                   [delivery EXCEPT ![d].left = @ \ {s}, ![d].refused = @ \cup {s}]
              [] OTHER -> [delivery EXCEPT ![d].left = @ \ {s}, ![d].at = s,
                                       ![d].pc = "start", ![d].raced = FALSE]
    BY <1>7 DEF Look
  <2>s. s \in Pushed
    BY <2>1, <2>2 DEF PushHandler
  <2>u. UNCHANGED <<watching, standing, hot, sends, queued>>
    BY <1>7 DEF Look
  <2>3. CASE s \notin standing
    <3>. DEFINE n == [h EXCEPT !.left = @ \ {s}]
    <3>1. delivery' = [delivery EXCEPT ![d] = n]
      BY <2>2, <2>3
    <3>2. /\ n \in PushHandler /\ n.commit = h.commit /\ n.done = h.done /\ n.pc = "next"
          /\ n.found = h.found /\ n.left = h.left \ {s} /\ n.refused = h.refused
      <4>. HIDE DEF h
      <4>. QED  BY <2>1 DEF PushHandler
    <3>3. Handles(n)
      <4>1. /\ h.found \cap standing \subseteq h.left \cup h.done \cup h.refused
            /\ h.left \cap h.done = {}
        <5>. HIDE DEF n, h
        <5>. QED  BY <2>1 DEF Handles
      <4>. HIDE DEF n, h
      <4>2. /\ n.found \cap standing \subseteq n.left \cup n.done \cup n.refused
            /\ n.left \cap n.done = {}
        BY <4>1, <2>3, <3>2
      <4>. QED  BY <4>2, <3>2 DEF Handles
    <3>. HIDE DEF n
    <3>. QED  BY <2>1, <2>u, <3>1, <3>2, <3>3, OneDelivery
  <2>4. CASE s \in standing /\ s \in hot
    <3>. DEFINE n == [h EXCEPT !.left = @ \ {s}, !.refused = @ \cup {s}]
    <3>1. delivery' = [delivery EXCEPT ![d] = n]
      BY <2>2, <2>4
    <3>2. /\ n \in PushHandler /\ n.commit = h.commit /\ n.done = h.done /\ n.pc = "next"
          /\ n.found = h.found /\ n.left = h.left \ {s} /\ n.refused = h.refused \cup {s}
      <4>. HIDE DEF h
      <4>. QED  BY <2>1, <2>s DEF PushHandler
    <3>3. Handles(n)
      <4>. HIDE DEF n, h
      <4>. QED  BY <2>1, <2>4, <3>2 DEF Handles
    <3>. HIDE DEF n
    <3>. QED  BY <2>1, <2>u, <3>1, <3>2, <3>3, OneDelivery
  <2>5. CASE s \in standing /\ s \notin hot
    <3>. DEFINE n == [h EXCEPT !.left = @ \ {s}, !.at = s, !.pc = "start", !.raced = FALSE]
    <3>1. delivery' = [delivery EXCEPT ![d] = n]
      BY <2>2, <2>5
    <3>2. /\ n \in PushHandler /\ n.commit = h.commit /\ n.done = h.done /\ n.pc = "start"
          /\ n.found = h.found /\ n.left = h.left \ {s} /\ n.refused = h.refused /\ n.at = s
      <4>. HIDE DEF h
      <4>. QED  BY <2>1, <2>s DEF PushHandler
    <3>3. Handles(n)
      <4>. HIDE DEF n, h
      <4>. QED  BY <2>1, <2>2, <2>s, <2>5, <3>2 DEF Handles
    <3>. HIDE DEF n
    <3>. QED  BY <2>1, <2>u, <3>1, <3>2, <3>3, OneDelivery
  <2>. QED  BY <2>3, <2>4, <2>5
<1>8. ASSUME NEW d \in Delivery, Start(d) PROVE PushInv'
  <2>. DEFINE h == delivery[d]
  <2>1. h \in PushHandler /\ h.pc = "start" /\ Handles(h)
    <3>1. h # NoDelivery
      BY <1>8 DEF Start, NoDelivery
    <3>2. h \in PushHandler /\ Handles(h)
      BY <1>t, <3>1 DEF PushType, PushInv
    <3>. QED  BY <1>8, <3>2 DEF Start
  <2>u. UNCHANGED <<watching, standing, hot, sends>>
    BY <1>8 DEF Start
  <2>2. CASE h.at \notin standing
    <3>. DEFINE n == [h EXCEPT !.pc = "next", !.refused = @ \cup {h.at}]
    <3>1. delivery' = [delivery EXCEPT ![d] = n] /\ UNCHANGED queued
      BY <1>8, <2>2 DEF Start
    <3>2. /\ n \in PushHandler /\ n.commit = h.commit /\ n.done = h.done /\ n.pc = "next"
          /\ n.found = h.found /\ n.left = h.left /\ n.refused = h.refused \cup {h.at}
      <4>1. h.at \in Pushed
        BY <2>1 DEF Handles
      <4>. HIDE DEF h
      <4>. QED  BY <2>1, <4>1 DEF PushHandler
    <3>3. Handles(n)
      <4>. HIDE DEF n, h
      <4>. QED  BY <2>1, <3>2 DEF Handles
    <3>. HIDE DEF n
    <3>. QED  BY <2>1, <2>u, <3>1, <3>2, <3>3, OneDelivery
  <2>3. CASE h.at \in standing
    <3>. DEFINE n == [h EXCEPT !.pc = "next", !.done = @ \cup {h.at}]
                c == h.commit
                s == h.at
    <3>0. h.at \in Pushed /\ h.at \notin h.left \cup h.done /\ h.commit \in Commit
      BY <2>1 DEF Handles, PushHandler
    <3>1. delivery' = [delivery EXCEPT ![d] = n] /\ queued' = [queued EXCEPT ![<<c, s>>] = @ + 1]
      BY <1>8, <2>3 DEF Start
    <3>2. /\ n \in PushHandler /\ n.commit = h.commit /\ n.done = h.done \cup {s} /\ n.pc = "next"
          /\ n.found = h.found /\ n.left = h.left /\ n.refused = h.refused
      <4>. HIDE DEF h
      <4>. QED  BY <2>1, <3>0 DEF PushHandler
    <3>3. Handles(n)
      <4>. HIDE DEF n, h
      <4>. QED  BY <2>1, <3>0, <3>2 DEF Handles
    <3>4. <<c, s>> \in Commit \X Pushed
      BY <3>0
    <3>5. PushType'
      <4>. HIDE DEF n, c, s
      <4>. QED  BY <1>t, <2>u, <3>1, <3>2, <3>4 DEF PushType
    <3>6. \A e \in Delivery : delivery'[e] = IF e = d THEN n ELSE delivery[e]
      <4>. HIDE DEF n
      <4>. QED  BY <1>t, <3>1 DEF PushType
    <3>7. ASSUME NEW e \in Delivery, delivery'[e] # NoDelivery PROVE Handles(delivery[e])'
      <4>1. Handles(delivery'[e])
        <5>. HIDE DEF n
        <5>. QED  BY <3>3, <3>6, <3>7 DEF PushInv
      <4>. QED  BY <2>u, <4>1 DEF Handles
    <3>8. ASSUME NEW x \in Commit, NEW y \in Pushed PROVE Counted(x, y)'
      <4>n. n # NoDelivery /\ h # NoDelivery
        <5>. HIDE DEF n, h
        <5>. QED  BY <2>1, <3>2 DEF PushHandler, NoDelivery
      <4>s. sends'[x] \in Nat /\ sends'[x] >= sends[x]
        BY <1>t, <2>u DEF PushType
      <4>1. CASE <<x, y>> # <<c, s>>
        <5>1. queued'[<<x, y>>] = queued[<<x, y>>]
          <6>. HIDE DEF c, s
          <6>. QED  BY <1>t, <3>1, <4>1 DEF PushType
        <5>2. Pending(x, y)' \subseteq Pending(x, y)
          <6>. HIDE DEF n, h
          <6>. QED  BY <3>2, <3>6, <4>n DEF Pending, h
        <5>. QED  BY <4>s, <5>1, <5>2, SamePending
      <4>2. CASE <<x, y>> = <<c, s>>
        <5>0. x = c /\ y = s
          BY <4>2
        <5>1. queued[<<x, y>>] \in Nat /\ queued'[<<x, y>>] = queued[<<x, y>>] + 1
          <6>. HIDE DEF c, s
          <6>. QED  BY <1>t, <3>1, <3>4, <4>2 DEF PushType
        <5>2. d \in Pending(x, y)
          BY <3>0, <4>n, <5>0 DEF Pending
        <5>3. Pending(x, y)' \subseteq Pending(x, y) \ {d}
          <6>. HIDE DEF n, h
          <6>. QED  BY <3>2, <3>6, <4>n, <5>0 DEF Pending, h, s
        <5>4. /\ IsFiniteSet(Pending(x, y)) /\ sends[x] \in Nat
              /\ queued[<<x, y>>] + Cardinality(Pending(x, y)) <= sends[x]
          BY <1>t DEF PushInv, Counted, PushType
        <5>5. /\ IsFiniteSet(Pending(x, y) \ {d})
              /\ Cardinality(Pending(x, y) \ {d}) = Cardinality(Pending(x, y)) - 1
          BY <5>2, <5>4, FS_RemoveElement
        <5>6. /\ IsFiniteSet(Pending(x, y)')
              /\ Cardinality(Pending(x, y)') <= Cardinality(Pending(x, y) \ {d})
          BY <5>3, <5>5, FS_Subset
        <5>7. Cardinality(Pending(x, y)') \in Nat /\ Cardinality(Pending(x, y)) \in Nat
          BY <5>4, <5>6, FS_CardinalityType
        <5>. QED  BY <2>u, <5>1, <5>4, <5>5, <5>6, <5>7 DEF Counted
      <4>. QED  BY <4>1, <4>2
    <3>. QED  BY <3>5, <3>7, <3>8 DEF PushInv
  <2>. QED  BY <2>2, <2>3
<1>9. ASSUME NEW d \in Delivery, NEW c \in Commit, Resolve(d, c) PROVE PushInv'
  <2>. DEFINE n == Handling(c)
  <2>1. /\ delivery[d] = NoDelivery /\ delivery' = [delivery EXCEPT ![d] = n]
        /\ sends' = [sends EXCEPT ![c] = @ + 1] /\ UNCHANGED <<watching, standing, hot, queued>>
    BY <1>t, <1>9 DEF Resolve, PushType, PushHandler
  <2>2. /\ n \in PushHandler /\ n.commit = c /\ n.done = {} /\ n # NoDelivery /\ Handles(n)
    BY <1>t DEF PushType, PushHandler, Handling, Handles, NoDelivery
  <2>. HIDE DEF n
  <2>3. PushType'
    BY <1>t, <2>1, <2>2 DEF PushType
  <2>4. \A e \in Delivery : delivery'[e] = IF e = d THEN n ELSE delivery[e]
    BY <1>t, <2>1 DEF PushType
  <2>5. ASSUME NEW e \in Delivery, delivery'[e] # NoDelivery PROVE Handles(delivery[e])'
    <3>1. Handles(delivery'[e])
      BY <2>2, <2>4, <2>5 DEF PushInv
    <3>. QED  BY <2>1, <3>1 DEF Handles
  <2>6. ASSUME NEW x \in Commit, NEW y \in Pushed PROVE Counted(x, y)'
    <3>1. CASE x # c
      <4>1. Pending(x, y)' \subseteq Pending(x, y)
        BY <2>2, <2>4, <3>1 DEF Pending
      <4>2. sends'[x] \in Nat /\ sends'[x] >= sends[x]
        BY <1>t, <2>1, <3>1 DEF PushType
      <4>. QED  BY <2>1, <4>1, <4>2, SamePending
    <3>2. CASE x = c
      <4>1. d \notin Pending(x, y) /\ Pending(x, y)' \subseteq Pending(x, y) \cup {d}
        BY <2>1, <2>4 DEF Pending
      <4>2. /\ IsFiniteSet(Pending(x, y)) /\ sends[x] \in Nat /\ queued[<<x, y>>] \in Nat
            /\ queued[<<x, y>>] + Cardinality(Pending(x, y)) <= sends[x]
        BY <1>t DEF PushInv, Counted, PushType
      <4>3. /\ IsFiniteSet(Pending(x, y) \cup {d})
            /\ Cardinality(Pending(x, y) \cup {d}) = Cardinality(Pending(x, y)) + 1
        BY <4>1, <4>2, FS_AddElement
      <4>4. /\ IsFiniteSet(Pending(x, y)')
            /\ Cardinality(Pending(x, y)') <= Cardinality(Pending(x, y) \cup {d})
        BY <4>1, <4>3, FS_Subset
      <4>5. Cardinality(Pending(x, y)') \in Nat /\ Cardinality(Pending(x, y)) \in Nat
        BY <4>2, <4>4, FS_CardinalityType
      <4>6. sends'[x] = sends[x] + 1 /\ queued'[<<x, y>>] = queued[<<x, y>>]
        BY <1>t, <2>1, <3>2 DEF PushType
      <4>. QED  BY <4>2, <4>3, <4>4, <4>5, <4>6 DEF Counted
    <3>. QED  BY <3>1, <3>2
  <2>. QED  BY <2>3, <2>5, <2>6 DEF PushInv
<1>. QED  BY <1>1, <1>2, <1>3, <1>4, <1>5, <1>6, <1>7, <1>8, <1>9 DEF PushNext

\* A push is deployed by every service that watches the branch and stands, or
\* refused by it; by none more often than it was delivered; and none restarts a
\* latency-critical host unattended, unless it was flagged in the moment after the
\* look (deliver of web/src/webhook.rs).
THEOREM PushesAreDeployed == PushSpec => PushDeploysItsWatchers
<1>1. ASSUME PushInv, NEW d \in Delivery, delivery[d].pc = "next", delivery[d].left = {}
      PROVE  delivery[d].found \cap standing \subseteq delivery[d].done \cup delivery[d].refused
  <2>1. delivery[d] # NoDelivery
    BY <1>1 DEF NoDelivery
  <2>2. Handles(delivery[d])
    BY <1>1, <2>1 DEF PushInv
  <2>. QED  BY <1>1, <2>2 DEF Handles
<1>2. ASSUME PushInv, NEW c \in Commit, NEW s \in Pushed PROVE queued[<<c, s>>] <= sends[c]
  <2>1. /\ IsFiniteSet(Pending(c, s)) /\ sends[c] \in Nat /\ queued[<<c, s>>] \in Nat
        /\ queued[<<c, s>>] + Cardinality(Pending(c, s)) <= sends[c]
    BY <1>2 DEF PushInv, Counted, PushType
  <2>2. Cardinality(Pending(c, s)) \in Nat
    BY <2>1, FS_CardinalityType
  <2>. QED  BY <2>1, <2>2
<1>3. ASSUME PushInv, PushNext, NEW d \in Delivery, queued' # queued, delivery'[d] # delivery[d],
             delivery[d].at \in hot
      PROVE  delivery[d].raced
  <2>1. PICK e \in Delivery : Start(e)
    BY <1>3 DEF PushNext, Edit, Flag, RemoveWatcher, Dismiss, Look, Acknowledge, Abandon, Resolve
  <2>2. d = e
    BY <1>3, <2>1 DEF Start, PushInv, PushType
  <2>3. delivery[d].pc = "start" /\ delivery[d] # NoDelivery
    BY <2>1, <2>2 DEF Start, NoDelivery
  <2>. QED  BY <1>3, <2>3 DEF PushInv, Handles
<1>4. PushInv => \A d \in Delivery : delivery[d].pc = "next" /\ delivery[d].left = {} =>
                    delivery[d].found \cap standing \subseteq delivery[d].done \cup delivery[d].refused
  BY <1>1
<1>5. PushInv => \A c \in Commit, s \in Pushed : queued[<<c, s>>] <= sends[c]
  BY <1>2
<1>6. PushInv /\ [PushNext]_pushVars =>
        [\A d \in Delivery :
             queued' # queued /\ delivery'[d] # delivery[d] /\ delivery[d].at \in hot
                => delivery[d].raced]_pushVars
  BY <1>3
<1>. QED  BY <1>4, <1>5, <1>6, PushInit_Inv, PushNext_Inv, PTL DEF PushSpec, PushDeploysItsWatchers

(***************************************************************************)
(* The form of a service.                                                  *)
(***************************************************************************)
HeldForm(f) ==
    /\ f = [name |-> f.name, after |-> f.after, restart |-> f.restart, exec |-> f.exec,
            directives |-> f.directives, artifact |-> f.artifact, check |-> f.check,
            ticked |-> f.ticked, env |-> f.env, routes |-> f.routes]
    /\ IsText(f.name) /\ f.after \in UnitText /\ IsText(f.exec)
    /\ IsArtifact(f.artifact) /\ f.ticked \subseteq Secret
    /\ f.routes \in [places : SUBSET Place, grpc : BOOLEAN]

(* What a save makes of the groups that were left alone and that the form  *)
(* could hold is what they were when it was opened.                        *)
SavesAs(base, shown, touched) ==
    \A g \in Groups : g \notin touched \cup Lossy(base, shown) => ToService(shown)[g] = base[g]

OpenForm(f) ==
    /\ HeldForm(f.held)
    /\ f.base # Unnamed => IsService(f.base) /\ SavesAs(f.base, f.held, f.touched)

FormInv ==
    /\ service # Unnamed => IsService(service)
    /\ form = [e \in Editor |-> form[e]]
    /\ \A e \in Editor : form[e].pc \in {"open", "routes"} =>
          /\ form[e] = [pc |-> form[e].pc, base |-> form[e].base,
                        held |-> form[e].held, touched |-> form[e].touched]
          /\ OpenForm(form[e])

LEMMA OneElement ==
  ASSUME NEW S, NEW x \in S
  PROVE  <<x>> \in Seq(S) /\ Len(<<x>>) = 1 /\ <<x>>[1] = x
OBVIOUS

LEMMA PlainText ==
  ASSUME NEW x PROVE IsText(Plainly(x))
BY DEF IsText, Plainly

LEMMA Tidied ==
  ASSUME NEW text, IsText(text)
  PROVE  IsText(Tidy(text)) /\ (~text.broken => Tidy(text) = text)
<1>1. text = [is |-> text.is, broken |-> text.broken] /\ text.broken \in BOOLEAN
  BY DEF IsText
<1>2. Tidy(text) = [is |-> text.is, broken |-> FALSE]
  BY DEF Tidy
<1>3. ~text.broken => text.broken = FALSE
  BY <1>1
<1>4. ~text.broken => Tidy(text) = text
  BY <1>1, <1>2, <1>3
<1>5. IsText(Tidy(text))
  BY <1>2 DEF IsText
<1>. QED  BY <1>4, <1>5

LEMMA EntryOf ==
  ASSUME NEW x \in SUBSET {"a", "b", ","}, NEW b \in BOOLEAN
  PROVE  [is |-> x, broken |-> b] \in UnitText
BY DEF UnitText

LEMMA EntryIsText ==
  ASSUME NEW text \in UnitText PROVE IsText(text) /\ Tidy(text) \in UnitText
<1>1. IsText(text)
  BY DEF UnitText, IsText
<1>2. Tidy(text) \in UnitText
  BY DEF UnitText, Tidy
<1>. QED  BY <1>1, <1>2

LEMMA JoinedIsText ==
  ASSUME NEW after \in Seq(UnitText) PROVE Joined(after) \in UnitText
<1>1. Len(after) \in Nat /\ DOMAIN after = 1 .. Len(after)
  BY LenProperties
<1>2. \A i \in DOMAIN after : after[i] \in UnitText
  BY <1>1, ElementOfSeq
<1>3. CASE Len(after) = 1
  BY <1>1, <1>2, <1>3 DEF Joined
<1>4. CASE Len(after) # 1
  <2>1. \A i \in DOMAIN after : after[i].is \subseteq {"a", "b", ","}
    BY <1>2 DEF UnitText
  <2>2. Pieces(after) \in SUBSET {"a", "b", ","}
    BY <2>1 DEF Pieces
  <2>3. AnyBroken(after) \in BOOLEAN
    BY DEF AnyBroken
  <2>4. Joined(after) = [is |-> Pieces(after), broken |-> AnyBroken(after)]
    BY <1>4 DEF Joined
  <2>. QED  BY <2>2, <2>3, <2>4, EntryOf
<1>. QED  BY <1>3, <1>4

LEMMA ReadIsUnits ==
  ASSUME NEW text \in UnitText PROVE ReadAfter(text) \in Seq(UnitText)
<1>1. CASE text.is = {}
  <2>1. <<>> \in Seq(UnitText)
    OBVIOUS
  <2>. QED  BY <1>1, <2>1 DEF ReadAfter
<1>2. CASE text.is # {}
  <2>1. <<Tidy(text)>> \in Seq(UnitText)
    BY EntryIsText, OneElement
  <2>. QED  BY <1>2, <2>1 DEF ReadAfter
<1>. QED  BY <1>1, <1>2

\* One unit, or none, that a box of one line holds.
LEMMA UnitsAsBefore ==
  ASSUME NEW after \in Seq(UnitText),
         after = <<>> \/ (Len(after) = 1 /\ after[1].is # {} /\ ~after[1].broken)
  PROVE  ReadAfter(Joined(after)) = after
<1>1. CASE after = <<>>
  <2>1. Len(after) # 1 /\ DOMAIN after = {}
    BY <1>1
  <2>2. Joined(after).is = {}
    BY <1>1, <2>1 DEF Joined, Pieces
  <2>. QED  BY <1>1, <2>2 DEF ReadAfter
<1>2. CASE Len(after) = 1 /\ after[1].is # {} /\ ~after[1].broken
  <2>1. after[1] \in UnitText
    <3>1. Len(after) \in Nat /\ 1 \in 1 .. Len(after)
      BY <1>2
    <3>. QED  BY <3>1, ElementOfSeq
  <2>2. Tidy(after[1]) = after[1]
    BY <1>2, <2>1, EntryIsText, Tidied
  <2>3. Joined(after) = after[1]
    BY <1>2 DEF Joined
  <2>. DEFINE text == after[1]
  <2>4. ReadAfter(Joined(after)) = <<text>>
    BY <1>2, <2>2, <2>3 DEF ReadAfter
  <2>5. text \in UnitText /\ text = after[1]
    BY <2>1
  <2>. HIDE DEF text
  <2>6. <<text>> \in Seq(UnitText) /\ Len(<<text>>) = 1 /\ <<text>>[1] = text
    BY <2>5, OneElement
  <2>7. \A i \in 1 .. Len(<<text>>) : <<text>>[i] = after[i]
    BY <2>5, <2>6
  <2>8. <<text>> = after
    BY <1>2, <2>6, <2>7, SeqEqual
  <2>. QED  BY <2>4, <2>8
<1>. QED  BY <1>1, <1>2

\* Written line by line and read back, a sound map is the same.
LEMMA LabelsAsBefore ==
  ASSUME NEW map, WellWritten(map) PROVE parse_labels(directives_text(map)) = map
<1>. DEFINE line(n) == [name |-> n, text |-> map[n].text]
            lines == directives_text(map)
            found(n) == CHOOSE a \in lines : a.name = n
<1>1. map = [n \in DOMAIN map |-> Assigned(n, map[n].text)]
  BY DEF WellWritten
<1>2. \A n \in DOMAIN map : map[n].lines = {line(n)}
  <2>1. \A n \in DOMAIN map : map[n] = Assigned(n, map[n].text)
    BY <1>1
  <2>. QED  BY <2>1 DEF Assigned
<1>3. lines = {line(n) : n \in DOMAIN map}
  BY <1>2 DEF directives_text
<1>4. \A n : line(n).name = n /\ line(n).text = map[n].text
  OBVIOUS
<1>5. parse_labels(lines) = [n \in {a.name : a \in lines} |-> Assigned(n, found(n).text)]
  BY DEF parse_labels
<1>. HIDE DEF line, lines
<1>6. {a.name : a \in lines} = DOMAIN map
  BY <1>3, <1>4
<1>7. \A n \in DOMAIN map : found(n) = line(n)
  <2>1. SUFFICES ASSUME NEW n \in DOMAIN map PROVE found(n) = line(n)
    OBVIOUS
  <2>2. line(n) \in lines /\ line(n).name = n
    BY <1>3, <1>4
  <2>3. \A a \in lines : a.name = n => a = line(n)
    BY <1>3, <1>4
  <2>4. found(n) \in lines /\ found(n).name = n
    BY <2>2
  <2>. QED  BY <2>3, <2>4
<1>. HIDE DEF found
<1>8. \A n \in DOMAIN map : found(n).text = map[n].text
  BY <1>4, <1>7
<1>9. parse_labels(lines) = [n \in DOMAIN map |-> Assigned(n, map[n].text)]
  BY <1>5, <1>6, <1>8
<1>. QED  BY <1>1, <1>9 DEF lines

LEMMA ChosenAsBefore ==
  ASSUME NEW a, IsArtifact(a), NEW sources
  PROVE  /\ IsArtifact(Chosen(a, sources)) /\ Chosen(a, sources).command = a.command
         /\ Chosen(a, sources).source = a.source => Chosen(a, sources) = a
<1>. DEFINE other == [kind |-> a.kind, source |-> "none", command |-> a.command]
<1>1. a = [kind |-> a.kind, source |-> a.source, command |-> a.command] /\ IsText(a.command)
  BY DEF IsArtifact
<1>2. [a EXCEPT !.source = "none"] = other
  BY <1>1
<1>3. IsArtifact(other) /\ other.command = a.command
  BY <1>1 DEF IsArtifact
<1>4. other.source = a.source => other = a
  BY <1>1
<1>5. Chosen(a, sources) = a \/ Chosen(a, sources) = other
  BY <1>2 DEF Chosen
<1>. HIDE DEF other
<1>. QED  BY <1>3, <1>4, <1>5

LEMMA ArtifactIsRead ==
  ASSUME NEW a, IsArtifact(a)
  PROVE  IsArtifact(ReadArtifact(a)) /\ (~a.command.broken => ReadArtifact(a) = a)
<1>. DEFINE tidied == [kind |-> a.kind, source |-> a.source, command |-> Tidy(a.command)]
<1>1. a = [kind |-> a.kind, source |-> a.source, command |-> a.command] /\ IsText(a.command)
  BY DEF IsArtifact
<1>2. ReadArtifact(a) = tidied
  <2>. DEFINE c == Tidy(a.command)
  <2>. HIDE DEF c
  <2>1. [a EXCEPT !.command = c] = [kind |-> a.kind, source |-> a.source, command |-> c]
    BY <1>1
  <2>. QED  BY <2>1 DEF ReadArtifact, c
<1>3. IsText(Tidy(a.command)) /\ (~a.command.broken => Tidy(a.command) = a.command)
  BY <1>1, Tidied
<1>4. tidied = [kind |-> tidied.kind, source |-> tidied.source, command |-> tidied.command]
      /\ tidied.command = Tidy(a.command)
  OBVIOUS
<1>5. ~a.command.broken => tidied = a
  BY <1>1, <1>3
<1>. HIDE DEF tidied
<1>6. IsArtifact(tidied)
  BY <1>3, <1>4 DEF IsArtifact
<1>. QED  BY <1>2, <1>5, <1>6

LEMMA RoutesAsBefore ==
  ASSUME NEW routes \in SUBSET RouteRow
  PROVE  /\ Typed(routes) \in [places : SUBSET Place, grpc : BOOLEAN]
         /\ (\A q, r \in routes : q.h2c = r.h2c)
            => {[at |-> p, h2c |-> Typed(routes).grpc] : p \in Typed(routes).places} = routes
<1>. DEFINE typed == Typed(routes)
<1>1. typed.places = {r.at : r \in routes} /\ typed.grpc = Boxed(routes)
  BY DEF Typed
<1>2. \A r \in routes : r.at \in Place /\ r.h2c \in BOOLEAN /\ r = [at |-> r.at, h2c |-> r.h2c]
  BY DEF RouteRow
<1>3. Boxed(routes) \in BOOLEAN
  BY DEF Boxed
<1>4. typed \in [places : SUBSET Place, grpc : BOOLEAN]
  BY <1>2, <1>3 DEF Typed
<1>. HIDE DEF typed
<1>5. ASSUME \A q, r \in routes : q.h2c = r.h2c
      PROVE  {[at |-> p, h2c |-> typed.grpc] : p \in typed.places} = routes
  <2>1. \A r \in routes : r.h2c = Boxed(routes)
    BY <1>2, <1>5 DEF Boxed
  <2>2. \A r \in routes : r = [at |-> r.at, h2c |-> typed.grpc]
    BY <1>1, <1>2, <2>1
  <2>. QED  BY <1>1, <2>2
<1>. QED  BY <1>4, <1>5 DEF typed

LEMMA RenderedIsHeld ==
  ASSUME NEW s, IsService(s), NEW sources, NEW secrets \in SUBSET Secret
  PROVE  HeldForm(Rendered(s, sources, secrets))
<1>. DEFINE f == Rendered(s, sources, secrets)
<1>1. /\ f.name = s.name /\ f.after = Joined(s.unit.after) /\ f.exec = s.unit.exec
      /\ f.artifact = Chosen(s.artifact, sources) /\ f.ticked = s.secret_ids \cap secrets
      /\ f.routes = Typed(s.routes)
  BY DEF Rendered
<1>2. f = [name |-> f.name, after |-> f.after, restart |-> f.restart, exec |-> f.exec,
           directives |-> f.directives, artifact |-> f.artifact, check |-> f.check,
           ticked |-> f.ticked, env |-> f.env, routes |-> f.routes]
  BY DEF Rendered
<1>. HIDE DEF f
<1>3. /\ IsText(s.name) /\ s.unit.after \in Seq(UnitText) /\ IsText(s.unit.exec)
      /\ IsArtifact(s.artifact) /\ s.routes \in SUBSET RouteRow
  BY DEF IsService, IsUnit
<1>4. IsText(f.name) /\ IsText(f.exec)
  BY <1>1, <1>3
<1>5. f.after \in UnitText
  BY <1>1, <1>3, JoinedIsText
<1>6. IsArtifact(f.artifact)
  BY <1>1, <1>3, ChosenAsBefore
<1>7. f.ticked \subseteq Secret
  BY <1>1
<1>8. f.routes \in [places : SUBSET Place, grpc : BOOLEAN]
  BY <1>1, <1>3, RoutesAsBefore
<1>9. HeldForm(f)
  BY ONLY <1>2, <1>4, <1>5, <1>6, <1>7, <1>8 DEF HeldForm
<1>. QED  BY <1>9 DEF f

LEMMA RenderedCarries ==
  ASSUME NEW s, IsService(s), NEW sources, NEW secrets \in SUBSET Secret
  PROVE  SavesAs(s, Rendered(s, sources, secrets), {})
<1>. DEFINE f == Rendered(s, sources, secrets)  lossy == Lossy(s, f)
            P(g) == g \notin {} \cup lossy => ToService(f)[g] = s[g]
<1>1. /\ f.name = s.name /\ f.after = Joined(s.unit.after) /\ f.restart = Selected(s.unit.restart)
      /\ f.exec = s.unit.exec /\ f.directives = directives_text(s.unit.directives)
      /\ f.artifact = Chosen(s.artifact, sources) /\ f.check = s.health_check
      /\ f.ticked = s.secret_ids \cap secrets /\ f.env = directives_text(s.env)
      /\ f.routes = Typed(s.routes)
  BY DEF Rendered
<1>2. /\ IsText(s.name) /\ IsUnit(s.unit) /\ IsArtifact(s.artifact)
      /\ s.routes \in SUBSET RouteRow /\ s.secret_ids \subseteq Secret
  BY DEF IsService
<1>. HIDE DEF f
<1>3. P("name")
  <2>1. SUFFICES ASSUME "name" \notin lossy PROVE Tidy(f.name) = s.name
    BY DEF ToService
  <2>2. ~s.name.broken
    BY <2>1 DEF Lossy
  <2>. QED  BY <1>1, <1>2, <2>2, Tidied
<1>4. P("env")
  <2>1. SUFFICES ASSUME "env" \notin lossy PROVE parse_labels(f.env) = s.env
    BY DEF ToService
  <2>2. WellWritten(s.env)
    BY <2>1 DEF Lossy
  <2>. QED  BY <1>1, <2>2, LabelsAsBefore
<1>5. P("health_check")
  BY DEF Lossy
<1>6. P("unit")
  <2>. DEFINE u == s.unit
  <2>1. SUFFICES ASSUME "unit" \notin lossy
                 PROVE  [after |-> ReadAfter(f.after), restart |-> f.restart, exec |-> Tidy(f.exec),
                         directives |-> parse_labels(f.directives)] = u
    BY DEF ToService
  <2>2. FormHolds(u)
    BY <2>1 DEF Lossy
  <2>3. /\ u = [after |-> u.after, restart |-> u.restart, exec |-> u.exec, directives |-> u.directives]
        /\ u.after \in Seq(UnitText) /\ IsText(u.exec)
    BY <1>2 DEF IsUnit
  <2>4. /\ f.after = Joined(u.after) /\ f.restart = Selected(u.restart) /\ f.exec = u.exec
        /\ f.directives = directives_text(u.directives)
    BY <1>1
  <2>. HIDE DEF u
  <2>5. ReadAfter(f.after) = u.after
    BY <2>2, <2>3, <2>4, UnitsAsBefore DEF FormHolds
  <2>6. f.restart = u.restart
    BY <2>2, <2>4 DEF FormHolds, Selected
  <2>7. Tidy(f.exec) = u.exec
    BY <2>2, <2>3, <2>4, Tidied DEF FormHolds
  <2>8. parse_labels(f.directives) = u.directives
    BY <2>2, <2>4, LabelsAsBefore DEF FormHolds
  <2>. QED  BY <2>3, <2>5, <2>6, <2>7, <2>8
<1>7. P("artifact")
  <2>1. SUFFICES ASSUME "artifact" \notin lossy PROVE ReadArtifact(f.artifact) = s.artifact
    BY DEF ToService
  <2>2. f.artifact.source = s.artifact.source /\ ~s.artifact.command.broken
    BY <2>1 DEF Lossy
  <2>3. f.artifact = s.artifact
    BY <1>1, <1>2, <2>2, ChosenAsBefore
  <2>. QED  BY <1>2, <2>2, <2>3, ArtifactIsRead
<1>8. P("secret_ids")
  BY <1>1 DEF ToService, Lossy
<1>9. P("routes")
  <2>1. SUFFICES ASSUME "routes" \notin lossy
                 PROVE {[at |-> p, h2c |-> f.routes.grpc] : p \in f.routes.places} = s.routes
    BY DEF ToService
  <2>2. \A q, r \in s.routes : q.h2c = r.h2c
    BY <2>1 DEF Lossy
  <2>. QED  BY <1>1, <1>2, <2>2, RoutesAsBefore
<1>. HIDE DEF P, lossy
<1>10. \A g \in Groups : P(g)
  BY <1>3, <1>4, <1>5, <1>6, <1>7, <1>8, <1>9 DEF Groups
<1>. QED  BY <1>10 DEF P, lossy, f, SavesAs

\* Two forms agree outside one group.
Agree(f, h, g) ==
    /\ g # "name" => h.name = f.name
    /\ g # "unit" => /\ h.after = f.after /\ h.restart = f.restart
                     /\ h.exec = f.exec /\ h.directives = f.directives
    /\ g # "artifact" => h.artifact = f.artifact
    /\ g # "health_check" => h.check = f.check
    /\ g # "secret_ids" => h.ticked = f.ticked
    /\ g # "env" => h.env = f.env
    /\ g # "routes" => h.routes = f.routes

LEMMA FilledAgrees ==
  ASSUME NEW f, HeldForm(f), NEW g \in Groups, NEW h \in Filled(f)[g]
  PROVE  HeldForm(h) /\ Agree(f, h, g)
<1>1. /\ f = [name |-> f.name, after |-> f.after, restart |-> f.restart, exec |-> f.exec,
              directives |-> f.directives, artifact |-> f.artifact, check |-> f.check,
              ticked |-> f.ticked, env |-> f.env, routes |-> f.routes]
      /\ IsText(f.name) /\ f.after \in UnitText /\ IsText(f.exec)
      /\ IsArtifact(f.artifact) /\ f.ticked \subseteq Secret
      /\ f.routes \in [places : SUBSET Place, grpc : BOOLEAN]
  BY DEF HeldForm
<1>2. CASE g = "name"
  <2>. DEFINE new == Plainly("new")
  <2>1. h = [f EXCEPT !.name = new]
    BY <1>2 DEF Filled
  <2>2. IsText(new)
    BY PlainText
  <2>. HIDE DEF new
  <2>3. h = [name |-> new, after |-> f.after, restart |-> f.restart, exec |-> f.exec,
             directives |-> f.directives, artifact |-> f.artifact, check |-> f.check,
             ticked |-> f.ticked, env |-> f.env, routes |-> f.routes]
    BY <1>1, <2>1
  <2>. QED  BY <1>1, <1>2, <2>2, <2>3 DEF HeldForm, Agree
<1>3. CASE g = "unit"
  <2>. DEFINE new == Plainly({"a"})
  <2>1. h = [f EXCEPT !.after = new, !.restart = "no"]
    BY <1>3 DEF Filled
  <2>2. new \in UnitText
    BY DEF UnitText, Plainly
  <2>. HIDE DEF new
  <2>3. h = [name |-> f.name, after |-> new, restart |-> "no", exec |-> f.exec,
             directives |-> f.directives, artifact |-> f.artifact, check |-> f.check,
             ticked |-> f.ticked, env |-> f.env, routes |-> f.routes]
    BY <1>1, <2>1
  <2>. QED  BY <1>1, <1>3, <2>2, <2>3 DEF HeldForm, Agree
<1>4. CASE g = "artifact"
  <2>. DEFINE new == [kind |-> "git", source |-> "app", command |-> Plainly("new")]
  <2>1. h = [f EXCEPT !.artifact = new]
    BY <1>4 DEF Filled
  <2>2. IsArtifact(new)
    BY PlainText DEF IsArtifact
  <2>. HIDE DEF new
  <2>3. h = [name |-> f.name, after |-> f.after, restart |-> f.restart, exec |-> f.exec,
             directives |-> f.directives, artifact |-> new, check |-> f.check,
             ticked |-> f.ticked, env |-> f.env, routes |-> f.routes]
    BY <1>1, <2>1
  <2>. QED  BY <1>1, <1>4, <2>2, <2>3 DEF HeldForm, Agree
<1>5. CASE g = "health_check"
  <2>. DEFINE new == [kind |-> "http", tuned |-> TRUE]
  <2>1. h = [f EXCEPT !.check = new]
    BY <1>5 DEF Filled
  <2>. HIDE DEF new
  <2>2. h = [name |-> f.name, after |-> f.after, restart |-> f.restart, exec |-> f.exec,
             directives |-> f.directives, artifact |-> f.artifact, check |-> new,
             ticked |-> f.ticked, env |-> f.env, routes |-> f.routes]
    BY <1>1, <2>1
  <2>. QED  BY <1>1, <1>5, <2>2 DEF HeldForm, Agree
<1>6. CASE g = "secret_ids"
  <2>1. PICK t \in SUBSET Secret : h = [f EXCEPT !.ticked = t]
    BY <1>6 DEF Filled
  <2>2. h = [name |-> f.name, after |-> f.after, restart |-> f.restart, exec |-> f.exec,
             directives |-> f.directives, artifact |-> f.artifact, check |-> f.check,
             ticked |-> t, env |-> f.env, routes |-> f.routes]
    BY <1>1, <2>1
  <2>. QED  BY <1>1, <1>6, <2>2 DEF HeldForm, Agree
<1>7. CASE g = "env"
  <2>. DEFINE new == {[name |-> "LOG", text |-> "new"]}
  <2>1. h = [f EXCEPT !.env = new]
    BY <1>7 DEF Filled
  <2>. HIDE DEF new
  <2>2. h = [name |-> f.name, after |-> f.after, restart |-> f.restart, exec |-> f.exec,
             directives |-> f.directives, artifact |-> f.artifact, check |-> f.check,
             ticked |-> f.ticked, env |-> new, routes |-> f.routes]
    BY <1>1, <2>1
  <2>. QED  BY <1>1, <1>7, <2>2 DEF HeldForm, Agree
<1>8. CASE g = "routes"
  <2>1. PICK ps \in SUBSET Place : \E b \in BOOLEAN : h = [f EXCEPT !.routes = [places |-> ps, grpc |-> b]]
    BY <1>8 DEF Filled
  <2>2. PICK b \in BOOLEAN : h = [f EXCEPT !.routes = [places |-> ps, grpc |-> b]]
    BY <2>1
  <2>. DEFINE new == [places |-> ps, grpc |-> b]
  <2>3. new \in [places : SUBSET Place, grpc : BOOLEAN]
    BY <2>1, <2>2
  <2>4. h = [f EXCEPT !.routes = new]
    BY <2>2
  <2>. HIDE DEF new
  <2>5. h = [name |-> f.name, after |-> f.after, restart |-> f.restart, exec |-> f.exec,
             directives |-> f.directives, artifact |-> f.artifact, check |-> f.check,
             ticked |-> f.ticked, env |-> f.env, routes |-> new]
    BY <1>1, <2>4
  <2>. QED  BY <1>1, <1>8, <2>3, <2>5 DEF HeldForm, Agree
<1>. QED  BY <1>2, <1>3, <1>4, <1>5, <1>6, <1>7, <1>8 DEF Groups

LEMMA AgreeingCarries ==
  ASSUME NEW base, NEW f, NEW h, NEW g \in Groups, Agree(f, h, g), SavesAs(base, f, {})
  PROVE  SavesAs(base, h, {g})
<1>1. SUFFICES ASSUME NEW k \in Groups, k # g, k \notin Lossy(base, h)
               PROVE  ToService(h)[k] = base[k]
  BY DEF SavesAs
<1>2. k \notin Lossy(base, f)
  <2>1. CASE k = "artifact"
    BY <1>1, <2>1 DEF Lossy, Agree
  <2>2. CASE k = "secret_ids"
    BY <1>1, <2>2 DEF Lossy, Agree
  <2>3. CASE k \notin {"artifact", "secret_ids"}
    BY <1>1, <2>3 DEF Lossy
  <2>. QED  BY <2>1, <2>2, <2>3
<1>3. ToService(f)[k] = base[k]
  BY <1>1, <1>2 DEF SavesAs
<1>4. ToService(h)[k] = ToService(f)[k]
  <2>1. CASE k = "name"
    BY <1>1, <2>1 DEF ToService, Agree
  <2>2. CASE k = "unit"
    BY <1>1, <2>2 DEF ToService, Agree
  <2>3. CASE k = "artifact"
    BY <1>1, <2>3 DEF ToService, Agree
  <2>4. CASE k = "health_check"
    BY <1>1, <2>4 DEF ToService, Agree
  <2>5. CASE k = "secret_ids"
    BY <1>1, <2>5 DEF ToService, Agree
  <2>6. CASE k = "env"
    BY <1>1, <2>6 DEF ToService, Agree
  <2>7. CASE k = "routes"
    BY <1>1, <2>7 DEF ToService, Agree
  <2>. QED  BY <2>1, <2>2, <2>3, <2>4, <2>5, <2>6, <2>7 DEF Groups
<1>. QED  BY <1>3, <1>4

LEMMA MessageIsService ==
  ASSUME NEW f, HeldForm(f)
  PROVE  IsService(ToService(f))
<1>. DEFINE s == ToService(f)
            typed == {[at |-> p, h2c |-> f.routes.grpc] : p \in f.routes.places}
<1>1. /\ s.name = Tidy(f.name) /\ s.artifact = ReadArtifact(f.artifact)
      /\ s.unit = [after |-> ReadAfter(f.after), restart |-> f.restart, exec |-> Tidy(f.exec),
                   directives |-> parse_labels(f.directives)]
      /\ s.secret_ids = f.ticked /\ s.routes = typed
      /\ DOMAIN s = Groups
  BY DEF ToService, Groups
<1>. HIDE DEF s
<1>2. typed \subseteq RouteRow
  BY DEF HeldForm, RouteRow
<1>. HIDE DEF typed
<1>3. /\ IsText(f.name) /\ f.after \in UnitText /\ IsText(f.exec)
      /\ IsArtifact(f.artifact) /\ f.ticked \subseteq Secret
  BY DEF HeldForm
<1>4. IsText(s.name) /\ IsArtifact(s.artifact)
  BY <1>1, <1>3, Tidied, ArtifactIsRead
<1>5. IsUnit(s.unit)
  <2>. DEFINE a == ReadAfter(f.after)  x == Tidy(f.exec)  d == parse_labels(f.directives)
              u == [after |-> a, restart |-> f.restart, exec |-> x, directives |-> d]
  <2>1. a \in Seq(UnitText) /\ IsText(x) /\ s.unit = u
    BY <1>1, <1>3, ReadIsUnits, Tidied
  <2>. HIDE DEF a, x, d
  <2>2. IsUnit(u)
    BY <2>1 DEF IsUnit
  <2>. QED  BY <2>1, <2>2
<1>6. IsService(s)
  BY <1>1, <1>2, <1>3, <1>4, <1>5 DEF IsService
<1>. QED  BY <1>6 DEF s

LEMMA UpdatedIsService ==
  ASSUME NEW s, NEW m, IsService(s), IsService(m), NEW mask \in SUBSET Groups
  PROVE  /\ IsService(Updated(s, m, mask))
         /\ \A g \in Groups : Updated(s, m, mask)[g] = IF g \in mask \ {"routes"} THEN m[g] ELSE s[g]
<1>. DEFINE u == Updated(s, m, mask)
<1>1. DOMAIN u = Groups /\ \A g \in Groups : u[g] = IF g \in mask \ {"routes"} THEN m[g] ELSE s[g]
  BY DEF Updated
<1>. HIDE DEF u
<1>2. /\ u.name \in {m.name, s.name} /\ u.unit \in {m.unit, s.unit}
      /\ u.artifact \in {m.artifact, s.artifact}
      /\ u.secret_ids \in {m.secret_ids, s.secret_ids} /\ u.routes = s.routes
  BY <1>1 DEF Groups
<1>3. IsText(m.name) /\ IsUnit(m.unit) /\ IsArtifact(m.artifact) /\ m.secret_ids \subseteq Secret
  BY DEF IsService
<1>4. /\ IsText(s.name) /\ IsUnit(s.unit) /\ IsArtifact(s.artifact)
      /\ s.secret_ids \subseteq Secret /\ s.routes \subseteq RouteRow
  BY DEF IsService
<1>5. IsText(u.name) /\ IsUnit(u.unit)
  BY <1>2, <1>3, <1>4
<1>6. IsArtifact(u.artifact)
  BY <1>2, <1>3, <1>4
<1>7. u.secret_ids \subseteq Secret /\ u.routes \subseteq RouteRow
  BY <1>2, <1>3, <1>4
<1>8. IsService(u)
  BY <1>1, <1>5, <1>6, <1>7 DEF IsService
<1>. QED  BY <1>1, <1>8 DEF u

LEMMA RoutedIsService ==
  ASSUME NEW s, IsService(s), NEW routes \in SUBSET RouteRow
  PROVE  IsService([s EXCEPT !.routes = routes]) /\ [s EXCEPT !.routes = routes].routes = routes
<1>. DEFINE u == [s EXCEPT !.routes = routes]
<1>1. DOMAIN s = Groups
  BY DEF IsService
<1>2. /\ DOMAIN u = Groups /\ u.name = s.name /\ u.unit = s.unit /\ u.artifact = s.artifact
      /\ u.secret_ids = s.secret_ids /\ u.routes = routes
  BY <1>1 DEF Groups
<1>. HIDE DEF u
<1>3. IsService(u)
  BY <1>2 DEF IsService
<1>. QED  BY <1>2, <1>3 DEF u

LEMMA BlankIsAForm == HeldForm(Blank)
<1>1. IsArtifact([kind |-> "upload", source |-> "none", command |-> Plainly("none")])
  BY PlainText DEF IsArtifact
<1>2. Plainly({}) \in UnitText /\ IsText(Plainly("old")) /\ IsText(Plainly("none"))
  BY PlainText DEF UnitText, Plainly
<1>. QED  BY <1>1, <1>2 DEF HeldForm, Blank

\* A form with everything in it.
IsOpen(f) ==
    /\ f = [pc |-> f.pc, base |-> f.base, held |-> f.held, touched |-> f.touched]
    /\ OpenForm(f)

\* One form is changed, into one that is in order.
LEMMA OneForm ==
  ASSUME FormInv, NEW e \in Editor, NEW f, form' = [form EXCEPT ![e] = f],
         f.pc \in {"open", "routes"} => IsOpen(f),
         service' # Unnamed => IsService(service')
  PROVE  FormInv'
<1>1. form = [d \in Editor |-> form[d]]
  BY DEF FormInv
<1>2. form' = [d \in Editor |-> form'[d]] /\ form'[e] = f /\ \A d \in Editor \ {e} : form'[d] = form[d]
  BY <1>1
<1>3. \A d \in Editor : form[d].pc \in {"open", "routes"} => IsOpen(form[d])
  BY DEF FormInv, IsOpen
<1>4. \A d \in Editor : form'[d].pc \in {"open", "routes"} => IsOpen(form'[d])
  BY <1>2, <1>3
<1>. QED  BY <1>2, <1>4 DEF FormInv, IsOpen

\* Without a change to any form.
LEMMA SameForms ==
  ASSUME FormInv, form' = form, service' # Unnamed => IsService(service')
  PROVE  FormInv'
BY DEF FormInv

LEMMA OpensAForm ==
  ASSUME FormInv, NEW e \in Editor, NEW base, NEW shown, Opens(e, base, shown), service' = service,
         HeldForm(shown), base # Unnamed => IsService(base) /\ SavesAs(base, shown, {})
  PROVE  FormInv'
<1>. DEFINE f == [pc |-> "open", base |-> base, held |-> shown, touched |-> {}]
<1>1. form' = [form EXCEPT ![e] = f]
  BY DEF Opens
<1>2. IsOpen(f)
  BY DEF IsOpen, OpenForm
<1>3. service' # Unnamed => IsService(service')
  BY DEF FormInv
<1>. HIDE DEF f
<1>. QED  BY <1>1, <1>2, <1>3, OneForm

LEMMA EditKeepsForms ==
  ASSUME FormInv, NEW e \in Editor, ServiceEdit(e) PROVE FormInv'
<1>1. PICK sources \in SUBSET {"app"}, secrets \in SUBSET Secret :
        Opens(e, service, Rendered(service, sources, secrets))
  BY DEF ServiceEdit
<1>2. service # Unnamed /\ service' = service /\ IsService(service)
  BY DEF ServiceEdit, FormInv
<1>3. /\ HeldForm(Rendered(service, sources, secrets))
      /\ SavesAs(service, Rendered(service, sources, secrets), {})
  BY <1>2, RenderedIsHeld, RenderedCarries
<1>. DEFINE shown == Rendered(service, sources, secrets)
<1>4. Opens(e, service, shown) /\ HeldForm(shown) /\ SavesAs(service, shown, {})
  BY <1>1, <1>3
<1>. HIDE DEF shown
<1>. QED  BY <1>2, <1>4, OpensAForm

LEMMA NewKeepsForms ==
  ASSUME FormInv, NEW e \in Editor, ServiceNew(e) PROVE FormInv'
<1>1. Opens(e, Unnamed, Blank) /\ service' = service
  BY DEF ServiceNew
<1>. QED  BY <1>1, BlankIsAForm, OpensAForm

LEMMA Refilled ==
  ASSUME NEW r, r = [pc |-> "open", base |-> r.base, held |-> r.held, touched |-> r.touched], NEW h, NEW t
  PROVE  [r EXCEPT !.held = h, !.touched = t] = [pc |-> "open", base |-> r.base, held |-> h, touched |-> t]
<1>. DEFINE s == [r EXCEPT !.held = h]
<1>1. s = [pc |-> "open", base |-> r.base, held |-> h, touched |-> r.touched]
  OBVIOUS
<1>. HIDE DEF s
<1>2. [s EXCEPT !.touched = t] = [pc |-> "open", base |-> r.base, held |-> h, touched |-> t]
  BY <1>1
<1>. QED  BY <1>2 DEF s

LEMMA FillKeepsForms ==
  ASSUME FormInv, NEW e \in Editor, Fill(e) PROVE FormInv'
<1>0. PICK g \in Groups : \E shown \in Filled(form[e].held)[g] :
        form' = [form EXCEPT ![e].held = shown, ![e].touched = {g}]
  BY DEF Fill
<1>1. PICK shown \in Filled(form[e].held)[g] :
        form' = [form EXCEPT ![e].held = shown, ![e].touched = {g}]
  BY <1>0
<1>2. form[e].pc = "open" /\ form[e].touched = {} /\ service' = service
  BY DEF Fill
<1>. DEFINE f == [pc |-> "open", base |-> form[e].base, held |-> shown, touched |-> {g}]
<1>3. /\ form[e] = [pc |-> "open", base |-> form[e].base, held |-> form[e].held, touched |-> {}]
      /\ OpenForm(form[e])
  BY <1>2 DEF FormInv
<1>4. form' = [form EXCEPT ![e] = f]
  <2>1. [form[e] EXCEPT !.held = shown, !.touched = {g}] = f
    <3>. DEFINE r == form[e]
    <3>1. r = [pc |-> "open", base |-> r.base, held |-> r.held, touched |-> r.touched]
      BY <1>3
    <3>. HIDE DEF r
    <3>2. \A h, t : [r EXCEPT !.held = h, !.touched = t] = [pc |-> "open", base |-> r.base, held |-> h, touched |-> t]
      BY <3>1, Refilled
    <3>. QED  BY <3>2 DEF r
  <2>2. form = [d \in Editor |-> form[d]]
    BY DEF FormInv
  <2>3. form'[e] = [form[e] EXCEPT !.held = shown, !.touched = {g}]
    BY <1>1, <1>3, <2>2
  <2>4. form' = [d \in Editor |-> form'[d]] /\ \A d \in Editor \ {e} : form'[d] = form[d]
    BY <1>1, <2>2
  <2>5. form'[e] = f
    BY <2>1, <2>3
  <2>. HIDE DEF f
  <2>. QED  BY <2>2, <2>4, <2>5
<1>5. HeldForm(shown) /\ Agree(form[e].held, shown, g)
  BY <1>3, FilledAgrees DEF OpenForm
<1>6. form[e].base # Unnamed => IsService(form[e].base) /\ SavesAs(form[e].base, shown, {g})
  BY <1>2, <1>3, <1>5, AgreeingCarries DEF OpenForm
<1>7. IsOpen(f)
  BY <1>5, <1>6 DEF IsOpen, OpenForm
<1>8. service' # Unnamed => IsService(service')
  BY <1>2 DEF FormInv
<1>. HIDE DEF f
<1>. QED  BY <1>4, <1>7, <1>8, OneForm

LEMMA LeaveKeepsForms ==
  ASSUME FormInv, NEW e \in Editor, Leave(e) PROVE FormInv'
<1>1. form' = [form EXCEPT ![e] = [pc |-> "left"]] /\ service' = service
  BY DEF Leave
<1>2. service' # Unnamed => IsService(service')
  BY <1>1 DEF FormInv
<1>3. [pc |-> "left"].pc \notin {"open", "routes"}
  OBVIOUS
<1>. QED  BY <1>1, <1>2, <1>3, OneForm

\* The details of a form are saved; its routes are next.
LEMMA HalfSaved ==
  ASSUME FormInv, NEW e \in Editor, form[e].pc = "open", form' = [form EXCEPT ![e].pc = "routes"],
         service' # Unnamed => IsService(service')
  PROVE  FormInv'
<1>. DEFINE f == [pc |-> "routes", base |-> form[e].base, held |-> form[e].held, touched |-> form[e].touched]
<1>1. /\ form[e] = [pc |-> "open", base |-> form[e].base, held |-> form[e].held, touched |-> form[e].touched]
      /\ OpenForm(form[e])
  BY DEF FormInv
<1>2. [form[e] EXCEPT !.pc = "routes"] = f
  BY <1>1
<1>3. form' = [form EXCEPT ![e] = f]
  BY <1>2
<1>4. IsOpen(f)
  BY <1>1 DEF IsOpen, OpenForm
<1>. HIDE DEF f
<1>. QED  BY <1>3, <1>4, OneForm

LEMMA UpdateKeepsForms ==
  ASSUME FormInv, NEW e \in Editor, ServiceUpdate(e) PROVE FormInv'
<1>1. /\ form[e].pc = "open" /\ service # Unnamed
      /\ service' = Updated(service, ToService(form[e].held), Groups)
      /\ form' = [form EXCEPT ![e].pc = "routes"]
  BY DEF ServiceUpdate
<1>2. IsService(ToService(form[e].held))
  BY <1>1, MessageIsService DEF FormInv, OpenForm
<1>3. IsService(service')
  BY <1>1, <1>2, UpdatedIsService DEF FormInv
<1>. QED  BY <1>1, <1>3, HalfSaved

LEMMA CreateKeepsForms ==
  ASSUME FormInv, NEW e \in Editor, ServiceCreate(e) PROVE FormInv'
<1>1. /\ form[e].pc = "open"
      /\ service' = [ToService(form[e].held) EXCEPT !.routes = {}]
      /\ form' = [form EXCEPT ![e].pc = "routes"]
  BY DEF ServiceCreate
<1>2. IsService(ToService(form[e].held))
  BY <1>1, MessageIsService DEF FormInv, OpenForm
<1>3. IsService(service')
  BY <1>1, <1>2, RoutedIsService
<1>. QED  BY <1>1, <1>3, HalfSaved

LEMMA RoutesOfAForm ==
  ASSUME NEW f, HeldForm(f) PROVE ToService(f).routes \in SUBSET RouteRow
BY MessageIsService DEF IsService

LEMMA ReplaceKeepsForms ==
  ASSUME FormInv, NEW e \in Editor, ReplaceRoutes(e) PROVE FormInv'
<1>. DEFINE routes == ToService(form[e].held).routes
<1>1. form[e].pc = "routes" /\ service # Unnamed
  BY DEF ReplaceRoutes
<1>2. routes \in SUBSET RouteRow /\ IsService(service)
  BY <1>1, RoutesOfAForm DEF FormInv, OpenForm
<1>3. CASE Accepted(routes)
  <2>1. service' = [service EXCEPT !.routes = routes] /\ form' = [form EXCEPT ![e] = [pc |-> "saved"]]
    BY <1>3 DEF ReplaceRoutes
  <2>2. IsService(service')
    BY <1>2, <2>1, RoutedIsService
  <2>3. [pc |-> "saved"].pc \notin {"open", "routes"}
    OBVIOUS
  <2>. QED  BY <2>1, <2>2, <2>3, OneForm
<1>4. CASE ~Accepted(routes)
  <2>1. service' \in {Unnamed, service} /\ form' = [form EXCEPT ![e] = [pc |-> "refused"]]
    BY <1>4 DEF ReplaceRoutes
  <2>2. service' # Unnamed => IsService(service')
    BY <1>2, <2>1
  <2>3. [pc |-> "refused"].pc \notin {"open", "routes"}
    OBVIOUS
  <2>. QED  BY <2>1, <2>2, <2>3, OneForm
<1>. QED  BY <1>3, <1>4

LEMMA DomainKeepsForms ==
  ASSUME FormInv, Domain PROVE FormInv'
<1>1. PICK places \in SUBSET (Place \ Unusable), grpc \in BOOLEAN :
        service' = [service EXCEPT !.routes = {[at |-> p, h2c |-> grpc] : p \in places}]
  BY DEF Domain
<1>2. service # Unnamed /\ form' = form /\ IsService(service)
  BY DEF Domain, FormInv
<1>3. {[at |-> p, h2c |-> grpc] : p \in places} \in SUBSET RouteRow
  BY DEF RouteRow
<1>4. IsService(service')
  BY <1>1, <1>2, <1>3, RoutedIsService
<1>. QED  BY <1>2, <1>4, SameForms

LEMMA ClientKeepsForms ==
  ASSUME FormInv, Update PROVE FormInv'
<1>1. PICK message \in Spelled, g \in Groups \ {"routes"} : service' = Updated(service, message, {g})
  BY DEF Update
<1>2. service # Unnamed /\ form' = form /\ IsService(service)
  BY DEF Update, FormInv
<1>3. IsService(message) /\ {g} \in SUBSET Groups
  BY FormAssumption
<1>4. IsService(service')
  BY <1>1, <1>2, <1>3, UpdatedIsService
<1>. QED  BY <1>2, <1>4, SameForms

LEMMA FormStart ==
  ASSUME FormInit PROVE FormInv
<1>1. service # Unnamed => IsService(service)
  BY FormAssumption DEF FormInit
<1>2. form = [e \in Editor |-> [pc |-> "unopened"]]
  BY DEF FormInit
<1>3. form = [e \in Editor |-> form[e]] /\ \A e \in Editor : form[e].pc \notin {"open", "routes"}
  BY <1>2
<1>. QED  BY <1>1, <1>3 DEF FormInv

LEMMA FormNextKeeps ==
  ASSUME FormInv, [FormNext]_formVars PROVE FormInv'
<1>1. CASE UNCHANGED formVars
  BY <1>1 DEF FormInv, formVars
<1>. QED  BY <1>1, EditKeepsForms, NewKeepsForms, FillKeepsForms, LeaveKeepsForms, UpdateKeepsForms,
             CreateKeepsForms, ReplaceKeepsForms, DomainKeepsForms, ClientKeepsForms DEF FormNext

\* What a step of another form, or of no form, leaves of this one.
LEMMA OtherForm ==
  ASSUME FormInv, NEW e \in Editor, NEW d \in Editor, d # e, NEW f, form' = [form EXCEPT ![d] = f]
  PROVE  form'[e] = form[e]
BY DEF FormInv

\* What one step may make of a form.
Saves(e) ==
    /\ form[e].pc = "open" /\ form'[e].pc = "routes" =>
          \A g \in Groups \ {"routes"} : Kept(e, g)
    /\ form[e].pc = "routes" /\ form'[e].pc = "saved" => Kept(e, "routes")

LEMMA OwnUpdate ==
  ASSUME FormInv, NEW e \in Editor, ServiceUpdate(e) PROVE Saves(e)
<1>1. /\ form[e].pc = "open" /\ service # Unnamed
      /\ service' = Updated(service, ToService(form[e].held), Groups)
  BY DEF ServiceUpdate
<1>2. IsService(ToService(form[e].held)) /\ IsService(service)
  BY <1>1, MessageIsService DEF FormInv, OpenForm
<1>3. \A g \in Groups \ {"routes"} : service'[g] = ToService(form[e].held)[g]
  BY <1>1, <1>2, UpdatedIsService
<1>4. form[e].base # Unnamed => SavesAs(form[e].base, form[e].held, form[e].touched)
  BY <1>1 DEF FormInv, OpenForm
<1>5. \A g \in Groups \ {"routes"} : Kept(e, g)
  BY <1>3, <1>4 DEF Kept, SavesAs
<1>. QED  BY <1>1, <1>5 DEF Saves

LEMMA OwnRoutes ==
  ASSUME FormInv, NEW e \in Editor, ReplaceRoutes(e) PROVE Saves(e)
<1>. DEFINE routes == ToService(form[e].held).routes
<1>1. form[e].pc = "routes" /\ service # Unnamed
  BY DEF ReplaceRoutes
<1>2. routes \in SUBSET RouteRow /\ IsService(service)
  BY <1>1, RoutesOfAForm DEF FormInv, OpenForm
<1>3. CASE Accepted(routes)
  <2>1. service' = [service EXCEPT !.routes = routes]
    BY <1>3 DEF ReplaceRoutes
  <2>2. service'["routes"] = ToService(form[e].held)["routes"]
    BY <1>2, <2>1, RoutedIsService
  <2>3. form[e].base # Unnamed => SavesAs(form[e].base, form[e].held, form[e].touched)
    BY <1>1 DEF FormInv, OpenForm
  <2>4. "routes" \in Groups
    BY DEF Groups
  <2>5. Kept(e, "routes")
    BY <2>2, <2>3, <2>4 DEF Kept, SavesAs
  <2>. QED  BY <1>1, <2>5 DEF Saves
<1>4. CASE ~Accepted(routes)
  <2>1. form'[e].pc = "refused"
    BY <1>4 DEF ReplaceRoutes, FormInv
  <2>. QED  BY <1>1, <2>1 DEF Saves
<1>. QED  BY <1>3, <1>4

LEMMA OwnCreate ==
  ASSUME FormInv, NEW e \in Editor, ServiceCreate(e) PROVE Saves(e)
BY DEF ServiceCreate, Saves, Kept

LEMMA OtherSteps ==
  ASSUME FormInv, NEW e \in Editor, NEW d \in Editor,
         \/ ServiceEdit(d) \/ ServiceNew(d) \/ Fill(d) \/ Leave(d)
         \/ d # e /\ (ServiceUpdate(d) \/ ServiceCreate(d) \/ ReplaceRoutes(d))
  PROVE  Saves(e)
<1>1. CASE d # e
  <2>1. PICK f : form' = [form EXCEPT ![d] = f]
    <3>1. CASE ServiceEdit(d)
      BY <3>1 DEF ServiceEdit, Opens
    <3>2. CASE ServiceNew(d)
      BY <3>2 DEF ServiceNew, Opens
    <3>3. CASE Fill(d)
      BY <3>3 DEF Fill
    <3>4. CASE Leave(d)
      BY <3>4 DEF Leave
    <3>5. CASE ServiceUpdate(d)
      BY <3>5 DEF ServiceUpdate
    <3>6. CASE ServiceCreate(d)
      BY <3>6 DEF ServiceCreate
    <3>7. CASE ReplaceRoutes(d)
      BY <3>7 DEF ReplaceRoutes
    <3>. QED  BY <3>1, <3>2, <3>3, <3>4, <3>5, <3>6, <3>7
  <2>2. form'[e] = form[e]
    BY <1>1, <2>1, OtherForm
  <2>. QED  BY <2>2 DEF Saves
<1>2. CASE d = e /\ (ServiceEdit(e) \/ ServiceNew(e))
  BY <1>2 DEF ServiceEdit, ServiceNew, Saves
<1>3. CASE d = e /\ Leave(e)
  <2>1. form'[e] = [pc |-> "left"]
    BY <1>3 DEF Leave, FormInv
  <2>. QED  BY <2>1 DEF Saves
<1>4. CASE d = e /\ Fill(e)
  <2>1. PICK shown, touched : form' = [form EXCEPT ![e].held = shown, ![e].touched = touched]
    BY <1>4 DEF Fill
  <2>2. form'[e].pc = "open" /\ form[e].pc = "open"
    <3>1. form[e].pc = "open"
      BY <1>4 DEF Fill
    <3>2. /\ form[e] = [pc |-> "open", base |-> form[e].base, held |-> form[e].held, touched |-> form[e].touched]
          /\ form = [c \in Editor |-> form[c]]
      BY <3>1 DEF FormInv
    <3>3. form'[e] = [form[e] EXCEPT !.held = shown, !.touched = touched]
      BY <2>1, <3>2
    <3>. QED  BY <3>1, <3>2, <3>3
  <2>. QED  BY <2>2 DEF Saves
<1>. QED  BY <1>1, <1>2, <1>3, <1>4

LEMMA FormNextSaves ==
  ASSUME FormInv, [FormNext]_formVars, NEW e \in Editor PROVE Saves(e)
<1>1. CASE UNCHANGED formVars
  BY <1>1 DEF formVars, Saves
<1>2. CASE Domain \/ Update
  BY <1>2 DEF Domain, Update, Saves
<1>3. CASE \E d \in Editor : ServiceEdit(d) \/ ServiceNew(d) \/ Fill(d) \/ Leave(d)
                           \/ ServiceUpdate(d) \/ ServiceCreate(d) \/ ReplaceRoutes(d)
  BY <1>3, OwnUpdate, OwnRoutes, OwnCreate, OtherSteps
<1>. QED  BY <1>1, <1>2, <1>3 DEF FormNext

(* Whoever saves a form gives every group it left alone the value it had   *)
(* when the form was opened, except for what the form could not hold, for  *)
(* any number of forms and of saves by other clients, whatever services    *)
(* those have written (render/services/form.rs, routes/services.rs).       *)
THEOREM SavedAsShown == FormSpec => SavesMakeNothingUp
<1>1. FormInit => FormInv
  BY FormStart
<1>2. FormInv /\ [FormNext]_formVars => FormInv'
  BY FormNextKeeps
<1>3. FormInv /\ [FormNext]_formVars
        => [\A e \in Editor :
              /\ form[e].pc = "open" /\ form'[e].pc = "routes" =>
                    \A g \in Groups \ {"routes"} : Kept(e, g)
              /\ form[e].pc = "routes" /\ form'[e].pc = "saved" => Kept(e, "routes")]_formVars
  BY FormNextSaves DEF Saves
<1>. QED  BY <1>1, <1>2, <1>3, PTL DEF FormSpec, SavesMakeNothingUp

=============================================================================
