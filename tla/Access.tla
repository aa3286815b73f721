------------------------------- MODULE Access -------------------------------
(***************************************************************************)
(* Who is logged in, in one browser: the tokens AuthService issues, the     *)
(* module variables of lib/api.ts, which hold the same tokens as the        *)
(* persisted authStore (every write sets both), and the calls under way.    *)
(*                                                                         *)
(* A call answered 401 asks for a new access token with the refresh token   *)
(* it finds then, and is sent once more.  The server may refuse at any      *)
(* time: tokens expire, and a login elsewhere replaces the refresh token.   *)
(***************************************************************************)
EXTENDS Integers, FiniteSets

CONSTANTS
  Users,
  Slots,      \* calls that may be under way
  MaxIssued,  \* bound: access tokens the server issues
  None

ASSUME AccessAssumption == MaxIssued \in Nat /\ None \notin Users

VARIABLES
  user,     \* authStore.user: who the screens show
  token,    \* the access token
  refresh,  \* the refresh token, as the user it was issued to
  granted,  \* users whose refreshTokenHash the server holds
  issued,   \* access tokens issued so far
  calls,    \* the calls under way
  clean     \* history: no call was past its 401 when somebody logged out

session    == <<user, token, refresh>>
accessVars == <<session, granted, issued, calls, clean>>

Token == [owner : Users, nr : 1..MaxIssued]

ASSUME TokenAssumption == None \notin Token

\* A call: where it is, the token it carries, the refresh token it has sent.
Free == [at |-> "free", kind |-> "work", auth |-> None, via |-> None]

Call(kind) == [at |-> "sent", kind |-> kind, auth |-> token, via |-> None]

Past401 == {"refreshing", "renewed", "refused"}

Renewing == {c \in Slots : calls[c].at \in Past401}

-----------------------------------------------------------------------------
\* login, register, verify2fa and the recovery: issueTokens, then the store,
\* lib/api.ts and the cookie.
Login(u) ==
  /\ user = None
  /\ issued < MaxIssued
  /\ issued' = issued + 1
  /\ granted' = granted \cup {u}
  /\ user' = u
  /\ token' = [owner |-> u, nr |-> issued']
  /\ refresh' = u
  /\ UNCHANGED <<calls, clean>>

Send(c) ==
  /\ user # None
  /\ calls[c] = Free
  /\ calls' = [calls EXCEPT ![c] = Call("work")]
  /\ UNCHANGED <<session, granted, issued, clean>>

LogOutInSlip(c) ==   \* forgets the refresh token of lib/api.ts
  /\ calls' = [calls EXCEPT ![c] = Call("logout")]
  /\ user' = None
  /\ token' = None
  /\ clean' = (clean /\ Renewing \subseteq {c})
  /\ UNCHANGED <<refresh, granted, issued>>

\* logout of the store: posts first, with the token it still has, and then
\* forgets everything.  The slot is the one the post goes out in.
LogOutIn(c) ==
  /\ calls' = [calls EXCEPT ![c] = Call("logout")]
  /\ user' = None
  /\ token' = None
  /\ refresh' = None
  /\ clean' = (clean /\ Renewing \subseteq {c})
  /\ UNCHANGED <<granted, issued>>

ClickLogout(c) ==
  /\ user # None
  /\ calls[c] = Free
  /\ LogOutIn(c)

\* AuthService.logout forgets the refresh token of whoever the call carries.
Ok(c) ==
  /\ calls[c].at \in {"sent", "again"}
  /\ calls[c].auth # None
  /\ granted' = IF calls[c].kind = "logout" THEN granted \ {calls[c].auth.owner} ELSE granted
  /\ calls' = [calls EXCEPT ![c] = Free]
  /\ UNCHANGED <<session, issued, clean>>

\* A 401, with the refresh token there is now; the second one ends the call.
Unauthorized(c) ==
  /\ calls[c].at \in {"sent", "again"}
  /\ calls' = [calls EXCEPT ![c] =
                 IF @.at = "sent" /\ refresh # None
                   THEN [@ EXCEPT !.at = "refreshing", !.via = refresh]
                   ELSE Free]
  /\ UNCHANGED <<session, granted, issued, clean>>

\* AuthService.refresh issues an access token; the refresh token stays.
RefreshServed(c) ==
  /\ calls[c].at = "refreshing"
  /\ calls[c].via \in granted
  /\ issued < MaxIssued
  /\ issued' = issued + 1
  /\ calls' = [calls EXCEPT ![c].at = "renewed",
                            ![c].auth = [owner |-> calls[c].via, nr |-> issued']]
  /\ UNCHANGED <<session, granted, clean>>

RefreshRefused(c) ==
  /\ calls[c].at = "refreshing"
  /\ calls' = [calls EXCEPT ![c].at = "refused"]
  /\ UNCHANGED <<session, granted, issued, clean>>

\* The new token is taken whoever is logged in by now, and the call goes again.
RefreshLands(c) ==
  /\ calls[c].at = "renewed"
  /\ token' = calls[c].auth
  /\ calls' = [calls EXCEPT ![c].at = "again"]
  /\ UNCHANGED <<user, refresh, granted, issued, clean>>

\* _onLogout: the call fails and its slot carries the post of the logout.
RefusedLands(c) ==
  /\ calls[c].at = "refused"
  /\ LogOutIn(c)

-----------------------------------------------------------------------------
AccessInit ==
  /\ user = None /\ token = None /\ refresh = None
  /\ granted = {}
  /\ issued = 0
  /\ calls = [c \in Slots |-> Free]
  /\ clean = TRUE

\* The steps that leave the access token alone, and those that change it.
KeepsToken(c) ==
  Send(c) \/ Ok(c) \/ Unauthorized(c) \/ RefreshServed(c) \/ RefreshRefused(c)

ChangesToken(c) == ClickLogout(c) \/ RefreshLands(c) \/ RefusedLands(c)

AccessTypeOK ==
  /\ user \in Users \cup {None}
  /\ token \in Token \cup {None}
  /\ refresh \in Users \cup {None}
  /\ granted \subseteq Users
  /\ issued \in 0..MaxIssued
  /\ clean \in BOOLEAN
  /\ calls \in [Slots -> [at : {"free", "sent", "again"} \cup Past401, kind : {"work", "logout"},
                          auth : Token \cup {None}, via : Users \cup {None}]]

\* The access token is that of the user the screens show, and so is every
\* refresh under way: what it brings, a token or a forced logout, falls on the
\* user who needed it.  This is what lib/api.ts hopes for; it is true as long
\* as nobody logs out while a refresh is under way (without `clean` TLC finds
\* the token of a user who has left, or a new user logged out by an old call).
\* Calls that were only sent, and the post of the logout itself, do no harm.
TokenFollowsUser ==
  clean =>
    /\ token = None <=> user = None
    /\ refresh = user
    /\ user # None => token.owner = user
    /\ \A c \in Renewing : user # None => calls[c].via = user
=============================================================================
