----------------------------- MODULE LinkProofs -----------------------------
(***************************************************************************)
(* Whose token a browser holds, and whether its pages hear, for any users,   *)
(* calls, pages and sockets.  The sockets only follow the token: the first    *)
(* argument is about Access alone, the second about the pool.                *)
(***************************************************************************)
EXTENDS Sockets, FiniteSetTheorems, TLAPS

AccessStep ==
  \/ \E u \in Users : Login(u)
  \/ \E c \in Slots : KeepsToken(c) \/ ChangesToken(c)

CallRecord ==
  [at : {"free", "sent", "again"} \cup Past401, kind : {"work", "logout"},
   auth : Token \cup {None}, via : Users \cup {None}]

\* Nothing in the line of sockets moves a variable of Access.
LEMMA LinkStep ==
  ASSUME [LinkNext]_linkVars
  PROVE  AccessStep \/ UNCHANGED accessVars
BY DEF LinkNext, linkVars, AccessStep, Authenticate, TokenChanges, Called, Navigate, Leave, Open,
       Close, Retarget, Rehook

-----------------------------------------------------------------------------
\* A call that is changed stays a call.
LEMMA CallsStay ==
  ASSUME calls \in [Slots -> CallRecord], NEW c \in Slots, NEW r \in CallRecord,
         calls' = [calls EXCEPT ![c] = r]
  PROVE  calls' \in [Slots -> CallRecord]
OBVIOUS

\* The store and the calls hold what they can hold from the start.
LEMMA AccessInitOK == AccessInit => AccessTypeOK
BY AccessAssumption DEF AccessInit, AccessTypeOK, Free, Past401

\* A token the server issues is a token, and it is counted.
LEMMA Issue ==
  ASSUME AccessTypeOK, issued < MaxIssued, NEW u \in Users, issued' = issued + 1
  PROVE  issued' \in 0..MaxIssued /\ [owner |-> u, nr |-> issued'] \in Token
BY AccessAssumption DEF AccessTypeOK, Token

\* Every step of Access keeps the types.
LEMMA AccessTypeStep ==
  ASSUME AccessTypeOK, AccessStep
  PROVE  AccessTypeOK'
<1> USE DEF AccessTypeOK
<1>0. calls \in [Slots -> CallRecord]
  BY DEF CallRecord
<1>1. ASSUME calls' \in [Slots -> CallRecord],
             user' \in Users \cup {None}, token' \in Token \cup {None},
             refresh' \in Users \cup {None}, granted' \subseteq Users,
             issued' \in 0..MaxIssued, clean' \in BOOLEAN
      PROVE  AccessTypeOK'
  BY <1>1 DEF CallRecord
<1>2. CASE \E u \in Users : Login(u)
  BY <1>0, <1>1, <1>2, Issue DEF Login
<1>3. ASSUME NEW c \in Slots, Send(c)  PROVE AccessTypeOK'
  <2>1. Call("work") \in CallRecord
    BY DEF Call, CallRecord
  <2> QED  BY <1>0, <1>1, <1>3, <2>1, CallsStay DEF Send, session
<1>4. ASSUME NEW c \in Slots, Ok(c)  PROVE AccessTypeOK'
  <2>1. Free \in CallRecord
    BY DEF Free, CallRecord
  <2> QED  BY <1>0, <1>1, <1>4, <2>1, CallsStay DEF Ok, session
<1>5. ASSUME NEW c \in Slots, Unauthorized(c)  PROVE AccessTypeOK'
  <2>1. Free \in CallRecord /\ (refresh # None => [calls[c] EXCEPT !.at = "refreshing", !.via = refresh] \in CallRecord)
    BY <1>0 DEF Free, CallRecord, Past401
  <2> QED  BY <1>0, <1>1, <1>5, <2>1, CallsStay DEF Unauthorized, session
<1>6. ASSUME NEW c \in Slots, RefreshServed(c)  PROVE AccessTypeOK'
  <2>1. calls[c].via \in Users
    BY <1>6 DEF RefreshServed
  <2>2. issued' \in 0..MaxIssued /\ [owner |-> calls[c].via, nr |-> issued'] \in Token
    BY <1>6, <2>1, Issue DEF RefreshServed
  <2>3. [calls[c] EXCEPT !.at = "renewed", !.auth = [owner |-> calls[c].via, nr |-> issued']] \in CallRecord
    BY <1>0, <2>2 DEF CallRecord, Past401
  <2>4. calls' = [calls EXCEPT ![c] = [calls[c] EXCEPT !.at = "renewed",
                                         !.auth = [owner |-> calls[c].via, nr |-> issued']]]
    BY <1>0, <1>6 DEF RefreshServed, CallRecord
  <2> QED  BY <1>0, <1>1, <1>6, <2>2, <2>3, <2>4, CallsStay DEF RefreshServed, session
<1>7. ASSUME NEW c \in Slots, RefreshRefused(c)  PROVE AccessTypeOK'
  <2>1. [calls[c] EXCEPT !.at = "refused"] \in CallRecord
    BY <1>0 DEF CallRecord, Past401
  <2>2. calls' = [calls EXCEPT ![c] = [calls[c] EXCEPT !.at = "refused"]]
    BY <1>0, <1>7 DEF RefreshRefused, CallRecord
  <2> QED  BY <1>0, <1>1, <1>7, <2>1, <2>2, CallsStay DEF RefreshRefused, session
<1>8. ASSUME NEW c \in Slots, RefreshLands(c)  PROVE AccessTypeOK'
  <2>1. [calls[c] EXCEPT !.at = "again"] \in CallRecord /\ calls[c].auth \in Token \cup {None}
    BY <1>0 DEF CallRecord
  <2>2. calls' = [calls EXCEPT ![c] = [calls[c] EXCEPT !.at = "again"]]
    BY <1>0, <1>8 DEF RefreshLands, CallRecord
  <2> QED  BY <1>0, <1>1, <1>8, <2>1, <2>2, CallsStay DEF RefreshLands
<1>9. ASSUME NEW c \in Slots, LogOutIn(c)  PROVE AccessTypeOK'
  <2>1. Call("logout") \in CallRecord
    BY DEF Call, CallRecord
  <2> QED  BY <1>0, <1>1, <1>9, <2>1, CallsStay DEF LogOutIn
<1> QED
  BY <1>2, <1>3, <1>4, <1>5, <1>6, <1>7, <1>8, <1>9
  DEF AccessStep, KeepsToken, ChangesToken, ClickLogout, RefusedLands

-----------------------------------------------------------------------------
(* The invariant behind TokenFollowsUser: with nobody logged in no refresh   *)
(* is under way either, and what a refresh has brought is its user's.        *)

Follows ==
  /\ token = None <=> user = None
  /\ refresh = user
  /\ user # None => token.owner = user
  /\ \A c \in Renewing : user # None /\ calls[c].via = user
  /\ \A c \in Slots : calls[c].at = "renewed" =>
       calls[c].auth \in Token /\ calls[c].auth.owner = calls[c].via

TokenInv == AccessTypeOK /\ (clean => Follows)

\* Before the first login nothing is held and nothing is under way.
LEMMA TokenInit == LinkInit => TokenInv
BY AccessInitOK DEF LinkInit, AccessInit, TokenInv, Follows, Renewing, Free, Past401

\* As long as no logout meets a refresh under way, every step leaves the tokens
\* with the user on the screen.
LEMMA TokenStep ==
  ASSUME TokenInv, AccessStep
  PROVE  TokenInv'
<1> USE DEF TokenInv
<1>1. AccessTypeOK'
  BY AccessTypeStep
<1>2. calls \in [Slots -> CallRecord]
  BY DEF AccessTypeOK, CallRecord
<1>3. SUFFICES ASSUME clean'  PROVE Follows'
  BY <1>1
<1>4. clean /\ Follows
  BY <1>3 DEF AccessStep, Login, KeepsToken, ChangesToken, Send, Ok, Unauthorized, RefreshServed,
              RefreshRefused, ClickLogout, RefreshLands, RefusedLands, LogOutIn
<1>5. ASSUME NEW u \in Users, Login(u)  PROVE Follows'
  <2>1. Renewing = {}
    BY <1>4, <1>5 DEF Login, Follows
  <2>2. Renewing' = Renewing /\ token' # None /\ u # None
    BY <1>5, Issue, TokenAssumption, AccessAssumption DEF Login, Renewing
  <2> QED  BY <1>4, <1>5, <2>1, <2>2 DEF Login, Follows, Renewing, Past401
<1>6. ASSUME NEW c \in Slots, Send(c)  PROVE Follows'
  BY <1>2, <1>4, <1>6 DEF Send, Call, Follows, Renewing, Past401, session
<1>7. ASSUME NEW c \in Slots, Ok(c)  PROVE Follows'
  BY <1>2, <1>4, <1>7 DEF Ok, Free, Follows, Renewing, Past401, session
<1>8. ASSUME NEW c \in Slots, Unauthorized(c)  PROVE Follows'
  <2>1. calls'[c].at \in Past401 => calls'[c].at = "refreshing" /\ calls'[c].via = refresh /\ refresh # None
    BY <1>2, <1>8 DEF Unauthorized, Free, Past401, CallRecord
  <2>2. \A d \in Slots \ {c} : calls'[d] = calls[d]
    BY <1>2, <1>8 DEF Unauthorized
  <2> QED  BY <1>4, <1>8, <2>1, <2>2 DEF Unauthorized, Follows, Renewing, Past401, session
<1>9. ASSUME NEW c \in Slots, RefreshServed(c)  PROVE Follows'
  <2>1. /\ calls'[c].at = "renewed" /\ calls'[c].via = calls[c].via
        /\ calls'[c].auth = [owner |-> calls[c].via, nr |-> issued']
    BY <1>2, <1>9 DEF RefreshServed, CallRecord
  <2>2. \A d \in Slots \ {c} : calls'[d] = calls[d]
    BY <1>2, <1>9 DEF RefreshServed
  <2>3. calls'[c].auth \in Token
    BY <1>9, <2>1, Issue DEF RefreshServed, AccessTypeOK
  <2>4. c \in Renewing /\ UNCHANGED session
    BY <1>9 DEF RefreshServed, Renewing, Past401
  <2>5. Renewing' \subseteq Renewing
    BY <2>2, <2>4 DEF Renewing
  <2>6. \A d \in Renewing' : user # None /\ calls'[d].via = user
    <3>1. \A d \in Renewing : d \in Slots /\ user # None /\ calls[d].via = user
      BY <1>4 DEF Follows, Renewing
    <3>2. TAKE d \in Renewing'
    <3>3. calls'[d].via = calls[d].via
      BY <2>1, <2>2, <2>5, <3>1, <3>2
    <3> QED  BY <2>5, <3>1, <3>2, <3>3
  <2>7. \A d \in Slots : calls'[d].at = "renewed" =>
          calls'[d].auth \in Token /\ calls'[d].auth.owner = calls'[d].via
    BY <1>4, <2>1, <2>2, <2>3 DEF Follows
  <2> QED  BY <1>4, <2>4, <2>6, <2>7 DEF Follows, session
<1>10. ASSUME NEW c \in Slots, RefreshRefused(c)  PROVE Follows'
  <2>1. calls'[c].at = "refused" /\ calls'[c].via = calls[c].via
    BY <1>2, <1>10 DEF RefreshRefused, CallRecord
  <2>2. \A d \in Slots \ {c} : calls'[d] = calls[d]
    BY <1>2, <1>10 DEF RefreshRefused
  <2> QED  BY <1>4, <1>10, <2>1, <2>2 DEF RefreshRefused, Follows, Renewing, Past401, session
<1>11. ASSUME NEW c \in Slots, RefreshLands(c)  PROVE Follows'
  <2>1. calls'[c].at = "again" /\ (\A d \in Slots \ {c} : calls'[d] = calls[d])
    BY <1>2, <1>11 DEF RefreshLands, CallRecord
  <2>2. c \in Renewing
    BY <1>11 DEF RefreshLands, Renewing, Past401
  <2>3. user # None /\ token' \in Token /\ token'.owner = user
    BY <1>4, <1>11, <2>2 DEF RefreshLands, Follows
  <2> QED  BY <1>4, <1>11, <2>1, <2>3, TokenAssumption DEF RefreshLands, Follows, Renewing, Past401
<1>12. ASSUME NEW c \in Slots, LogOutIn(c)  PROVE Follows'
  <2>1. Renewing \subseteq {c}
    BY <1>3, <1>12 DEF LogOutIn
  <2>2. calls'[c].at = "sent" /\ (\A d \in Slots \ {c} : calls'[d] = calls[d])
    BY <1>2, <1>12 DEF LogOutIn, Call
  <2>3. Renewing' = {}
    BY <2>1, <2>2 DEF Renewing, Past401
  <2> QED  BY <1>12, <2>2, <2>3 DEF LogOutIn, Follows, Renewing, Past401
<1> QED
  BY <1>5, <1>6, <1>7, <1>8, <1>9, <1>10, <1>11, <1>12
  DEF AccessStep, KeepsToken, ChangesToken, ClickLogout, RefusedLands

\* A step that leaves Access alone changes nothing about it.
LEMMA TokenStutter ==
  ASSUME TokenInv, UNCHANGED accessVars
  PROVE  TokenInv'
BY DEF TokenInv, accessVars, session, AccessTypeOK, Follows, Renewing

-----------------------------------------------------------------------------
\* The browser's store and its calls stay well formed, whatever is mounted and
\* however the calls of any number of users' sessions follow one another.
THEOREM AccessTypeCorrect == LinkSpec => []AccessTypeOK
<1>1. TokenInv /\ [LinkNext]_linkVars => TokenInv'
  BY LinkStep, TokenStep, TokenStutter
<1>2. TokenInv => AccessTypeOK
  BY DEF TokenInv
<1> QED  BY <1>1, <1>2, TokenInit, PTL DEF LinkSpec

\* For any users and any number of calls the token in the browser, and every
\* refresh under way, belong to the user on the screen, as long as no logout has
\* met a refresh under way.
THEOREM TokenTheorem == LinkSpec => []TokenFollowsUser
<1>1. TokenInv /\ [LinkNext]_linkVars => TokenInv'
  BY LinkStep, TokenStep, TokenStutter
<1>2. TokenInv => TokenFollowsUser
  BY DEF TokenInv, Follows, TokenFollowsUser
<1> QED  BY <1>1, <1>2, TokenInit, PTL DEF LinkSpec
-----------------------------------------------------------------------------
(* The pool.  What acquireSocket and releaseSocket do to it, for h holders:   *)
(* its count never exceeds them.                                            *)

PoolState == [pool : Line \cup {None}, made : Nat]

Counted(x, h) == x.pool # None => x.pool.refs <= h

\* There are finitely many components.
LEMMA FiniteParts == IsFiniteSet(Parts) /\ Cardinality(Parts) \in Nat
BY SocketsAssumption, FS_Union, FS_CardinalityType DEF Parts

\* Sets that share nothing are counted apart.
LEMMA CountApart ==
  ASSUME NEW S, NEW T, IsFiniteSet(S), IsFiniteSet(T), S \cap T = {}
  PROVE  Cardinality(S \cup T) = Cardinality(S) + Cardinality(T)
<1>1. Cardinality(S \cup T) = Cardinality(S) + Cardinality(T) - Cardinality(S \cap T)
  BY FS_Union
<1>2. Cardinality(S \cap T) = 0 /\ Cardinality(S) \in Nat /\ Cardinality(T) \in Nat
  BY FS_EmptySet, FS_CardinalityType
<1> QED  BY <1>1, <1>2

\* Releasing takes as much from the count as there are holders less.
LEMMA ReleaseCounts ==
  ASSUME NEW x \in PoolState, NEW h \in Nat, NEW n \in 0..h, Counted(x, h)
  PROVE  /\ Release(x, n) \in PoolState
         /\ Release(x, n).made = x.made
         /\ Counted(Release(x, n), h - n)
         /\ n = h => Release(x, n).pool = None
         /\ Release(x, n).pool # None =>
              /\ x.pool # None
              /\ Release(x, n).pool = [x.pool EXCEPT !.refs = @ - n]
              /\ x.pool.refs > n
BY FiniteParts, LineAssumption DEF Release, PoolState, Counted, Line

\* Acquiring adds to the count of a line for the same token, and otherwise
\* opens a new one, counted for those who acquire.
LEMMA AcquireCounts ==
  ASSUME NEW x \in PoolState, NEW h \in Nat, NEW n \in Nat, Counted(x, h),
         h + n <= Cardinality(Parts),
         NEW t, n > 0 => t \in Token,
         Acquire(x, t, n).made <= MaxMade
  PROVE  /\ Acquire(x, t, n) \in PoolState
         /\ x.made <= Acquire(x, t, n).made
         /\ Counted(Acquire(x, t, n), h + n)
         /\ n = 0 => Acquire(x, t, n) = x
         /\ n > 0 => Acquire(x, t, n).pool # None /\ Acquire(x, t, n).pool.token = t
<1>1. CASE n = 0
  BY <1>1 DEF Acquire, Counted, PoolState
<1>2. CASE n > 0 /\ x.pool # None /\ x.pool.token = t
  <2>1. Acquire(x, t, n) = [x EXCEPT !.pool = [x.pool EXCEPT !.refs = @ + n]]
    BY <1>2 DEF Acquire, PoolState
  <2>2. [x.pool EXCEPT !.refs = @ + n] \in Line
    BY <1>2, FiniteParts DEF Counted, PoolState, Line
  <2>3. [x.pool EXCEPT !.refs = @ + n] # None
    BY <2>2, LineAssumption
  <2> QED  BY <1>2, <2>1, <2>2, <2>3, FiniteParts DEF Counted, PoolState, Line
<1>3. CASE n > 0 /\ ~(x.pool # None /\ x.pool.token = t)
  <2> DEFINE fresh == [sock |-> x.made + 1, token |-> t, refs |-> n]
  <2>1. Acquire(x, t, n) = [pool |-> fresh, made |-> x.made + 1]
    BY <1>3 DEF Acquire
  <2>2. fresh \in Line
    BY <1>3, <2>1, FiniteParts, SocketsAssumption DEF PoolState, Line
  <2> QED  BY <1>3, <2>1, <2>2, LineAssumption DEF Counted, PoolState
<1> QED  BY <1>1, <1>2, <1>3
-----------------------------------------------------------------------------
(* One commit of React: dots first, then pages; releases before acquires.   *)

Now == [pool |-> pool, made |-> made]

Undone(outs, C) == {c \in outs \cap C : held[c] # 0}

Redone(ins, C, t) == IF t = None THEN {} ELSE ins \cap C

DotsDone(outs, ins, t) ==
  Acquire(Release(Now, Cardinality(Undone(outs, Dots))), t, Cardinality(Redone(ins, Dots, t)))

PagesDone(outs, ins, t) ==
  Acquire(Release(DotsDone(outs, ins, t), Cardinality(Undone(outs, Pages))), t,
          Cardinality(Redone(ins, Pages, t)))

\* Commit, by its two halves.
LEMMA CommitHalves ==
  ASSUME NEW outs, NEW ins, NEW t, Commit(outs, ins, t)
  PROVE  /\ PagesDone(outs, ins, t).made <= MaxMade
         /\ pool' = PagesDone(outs, ins, t).pool
         /\ made' = PagesDone(outs, ins, t).made
         /\ held' = [c \in Parts |->
              IF c \in ins
              THEN IF t = None THEN 0
                   ELSE IF c \in Dots THEN DotsDone(outs, ins, t).pool.sock
                                      ELSE PagesDone(outs, ins, t).pool.sock
              ELSE IF c \in outs THEN 0 ELSE held[c]]
<1>1. /\ Cardinality(Redone(ins, Dots, t)) = IF t = None THEN 0 ELSE Cardinality(ins \cap Dots)
      /\ Cardinality(Redone(ins, Pages, t)) = IF t = None THEN 0 ELSE Cardinality(ins \cap Pages)
  BY FS_EmptySet DEF Redone
<1>2. /\ Cardinality(Undone(outs, Dots)) = Cardinality({c \in outs \cap Dots : held[c] # 0})
      /\ Cardinality(Undone(outs, Pages)) = Cardinality({c \in outs \cap Pages : held[c] # 0})
  BY DEF Undone
<1> DEFINE dots  == Acquire(Release(Now, Cardinality({c \in outs \cap Dots : held[c] # 0})), t,
                            IF t = None THEN 0 ELSE Cardinality(ins \cap Dots))
           pages == Acquire(Release(dots, Cardinality({c \in outs \cap Pages : held[c] # 0})), t,
                            IF t = None THEN 0 ELSE Cardinality(ins \cap Pages))
<1>3. dots = DotsDone(outs, ins, t) /\ pages = PagesDone(outs, ins, t)
  BY <1>1, <1>2 DEF DotsDone, PagesDone
<1>4. /\ pages.made <= MaxMade /\ pool' = pages.pool /\ made' = pages.made
      /\ held' = [c \in Parts |->
           IF c \in ins
           THEN IF t = None THEN 0 ELSE IF c \in Dots THEN dots.pool.sock ELSE pages.pool.sock
           ELSE IF c \in outs THEN 0 ELSE held[c]]
  BY Zenon DEF Commit, Now
<1> HIDE DEF dots, pages
<1> QED  BY <1>3, <1>4

\* Who holds a socket, half by half; the count of the pool follows.
AfterDots(outs, ins, t)  == (Holders \ (outs \cap Dots)) \cup Redone(ins, Dots, t)
AfterPages(outs, ins, t) == (AfterDots(outs, ins, t) \ (outs \cap Pages)) \cup Redone(ins, Pages, t)

LineOK ==
  /\ pool \in Line \cup {None}
  /\ made \in 0..MaxMade
  /\ mounted \subseteq Parts
  /\ held \in [Parts -> 0..MaxMade]
  /\ ears \in [Pages -> SUBSET (1..MaxMade)]
  /\ steady \in BOOLEAN

\* The count of holders through a commit, where what is done anew was undone first.
LEMMA HoldersCount ==
  ASSUME NEW outs \in SUBSET Parts, NEW ins \in SUBSET Parts, NEW t, ins \cap Holders \subseteq outs
  PROVE  /\ IsFiniteSet(Holders) /\ Cardinality(Holders) \in Nat
         /\ Cardinality(Undone(outs, Dots)) \in 0..Cardinality(Holders)
         /\ Cardinality(Redone(ins, Dots, t)) \in Nat
         /\ IsFiniteSet(AfterDots(outs, ins, t)) /\ Cardinality(AfterDots(outs, ins, t)) \in Nat
         /\ Cardinality(AfterDots(outs, ins, t)) =
              Cardinality(Holders) - Cardinality(Undone(outs, Dots)) + Cardinality(Redone(ins, Dots, t))
         /\ Cardinality(AfterDots(outs, ins, t)) <= Cardinality(Parts)
         /\ Cardinality(Undone(outs, Pages)) \in 0..Cardinality(AfterDots(outs, ins, t))
         /\ Cardinality(Redone(ins, Pages, t)) \in Nat
         /\ Cardinality(AfterPages(outs, ins, t)) =
              Cardinality(AfterDots(outs, ins, t)) - Cardinality(Undone(outs, Pages))
                + Cardinality(Redone(ins, Pages, t))
         /\ Cardinality(AfterPages(outs, ins, t)) <= Cardinality(Parts)
<1> DEFINE U1 == Undone(outs, Dots)    D1 == Redone(ins, Dots, t)
           U2 == Undone(outs, Pages)   D2 == Redone(ins, Pages, t)
           H1 == Holders \ (outs \cap Dots)
           A1 == AfterDots(outs, ins, t)
           H2 == A1 \ (outs \cap Pages)
           A2 == AfterPages(outs, ins, t)
<1>1. IsFiniteSet(Parts) /\ Cardinality(Parts) \in Nat
  BY FiniteParts
<1>2. /\ Holders \in SUBSET Parts /\ D1 \in SUBSET Parts /\ D2 \in SUBSET Parts
      /\ A1 \in SUBSET Parts /\ A2 \in SUBSET Parts /\ U1 \in SUBSET Holders /\ H1 \in SUBSET Holders
  BY DEF Holders, Undone, Redone, AfterDots, AfterPages
<1>3. Dots \cap Pages = {}
  BY SocketsAssumption
<1>4. Holders \cap (outs \cap Dots) = U1 /\ A1 \cap (outs \cap Pages) = U2
  <2>1. Holders \cap (outs \cap Dots) = U1 /\ Holders \cap (outs \cap Pages) = U2
    BY DEF Holders, Undone
  <2>2. H1 \cap Pages = Holders \cap Pages /\ D1 \cap Pages = {}
    BY <1>3 DEF Redone
  <2> QED  BY <2>1, <2>2 DEF AfterDots
<1>5. H1 \cap D1 = {} /\ H2 \cap D2 = {}
  <2>1. H1 \cap D1 = {}
    BY DEF Redone
  <2>2. H2 \cap D2 = {}
    BY <1>3 DEF Redone, AfterDots
  <2> QED  BY <2>1, <2>2
<1>6. \A S \in SUBSET Parts : IsFiniteSet(S) /\ Cardinality(S) \in Nat /\ Cardinality(S) <= Cardinality(Parts)
  BY <1>1, FS_Subset, FS_CardinalityType
<1>7. Cardinality(H1) = Cardinality(Holders) - Cardinality(U1)
  BY <1>2, <1>4, <1>6, FS_Difference
<1>8. Cardinality(A1) = Cardinality(H1) + Cardinality(D1)
  <2>1. IsFiniteSet(H1) /\ IsFiniteSet(D1) /\ A1 = H1 \cup D1
    BY <1>2, <1>6 DEF AfterDots
  <2> HIDE DEF H1, D1, A1
  <2> QED  BY <1>5, <2>1, CountApart
<1>9. Cardinality(H2) = Cardinality(A1) - Cardinality(U2)
  BY <1>2, <1>4, <1>6, FS_Difference
<1>10. Cardinality(A2) = Cardinality(H2) + Cardinality(D2)
  <2>1. IsFiniteSet(H2) /\ IsFiniteSet(D2) /\ A2 = H2 \cup D2
    BY <1>2, <1>6 DEF AfterPages
  <2> HIDE DEF H2, D2, A2
  <2> QED  BY <1>5, <2>1, CountApart
<1>11. U2 \in SUBSET A1 /\ H2 \in SUBSET Parts /\ U1 \in SUBSET Parts /\ U2 \in SUBSET Parts
       /\ H1 \in SUBSET Parts
  BY <1>2, <1>4
<1>12. Cardinality(U1) <= Cardinality(Holders) /\ Cardinality(U2) <= Cardinality(A1)
  BY <1>2, <1>6, <1>11, FS_Subset
<1> HIDE DEF U1, D1, U2, D2, H1, A1, H2, A2
<1>13. /\ Cardinality(U1) \in Nat /\ Cardinality(U2) \in Nat /\ Cardinality(D1) \in Nat
       /\ Cardinality(D2) \in Nat /\ Cardinality(A1) \in Nat /\ Cardinality(A2) \in Nat
       /\ Cardinality(H1) \in Nat /\ Cardinality(H2) \in Nat
       /\ Cardinality(A1) <= Cardinality(Parts) /\ Cardinality(A2) <= Cardinality(Parts)
       /\ IsFiniteSet(Holders) /\ IsFiniteSet(A1) /\ Cardinality(Holders) \in Nat
  BY <1>2, <1>6, <1>11
<1>14. /\ Cardinality(A1) = Cardinality(Holders) - Cardinality(U1) + Cardinality(D1)
       /\ Cardinality(A2) = Cardinality(A1) - Cardinality(U2) + Cardinality(D2)
       /\ Cardinality(U1) \in 0..Cardinality(Holders) /\ Cardinality(U2) \in 0..Cardinality(A1)
  BY <1>7, <1>8, <1>9, <1>10, <1>12, <1>13
<1> QED  BY <1>13, <1>14 DEF U1, D1, U2, D2, A1, A2
\* What the pool says of its users: never more than hold a socket, and under the
\* token of the moment.
PoolFits == pool # None => pool.refs <= Cardinality(Holders) /\ pool.token = token

\* A commit under the same token, or one that undoes every holder, leaves a pool
\* that fits; the holders are those that stay and those that were done anew.
LEMMA CommitFits ==
  ASSUME LineOK, PoolFits,
         NEW outs \in SUBSET Parts, NEW ins \in SUBSET Parts, NEW t \in Token \cup {None},
         ins \cap Holders \subseteq outs,
         t = token \/ Holders \subseteq outs,
         Commit(outs, ins, t)
  PROVE  /\ pool' \in Line \cup {None} /\ made' \in 0..MaxMade
         /\ held' \in [Parts -> 0..MaxMade]
         /\ Holders' = (Holders \ outs) \cup (IF t = None THEN {} ELSE ins)
         /\ pool' # None => pool'.refs <= Cardinality(Holders') /\ pool'.token = t
<1> DEFINE U1 == Cardinality(Undone(outs, Dots))    D1 == Cardinality(Redone(ins, Dots, t))
           U2 == Cardinality(Undone(outs, Pages))   D2 == Cardinality(Redone(ins, Pages, t))
           H0 == Cardinality(Holders)
           H2 == Cardinality(AfterDots(outs, ins, t))
           H4 == Cardinality(AfterPages(outs, ins, t))
           x1 == Release(Now, U1)
           x2 == DotsDone(outs, ins, t)
           x3 == Release(x2, U2)
           x4 == PagesDone(outs, ins, t)
<1>1. /\ H0 \in Nat /\ U1 \in 0..H0 /\ D1 \in Nat /\ H2 \in Nat /\ H2 = H0 - U1 + D1
      /\ H2 <= Cardinality(Parts) /\ U2 \in 0..H2 /\ D2 \in Nat /\ H4 = H2 - U2 + D2
      /\ H4 <= Cardinality(Parts) /\ IsFiniteSet(Holders)
  BY HoldersCount
<1>2. /\ x4.made <= MaxMade /\ pool' = x4.pool /\ made' = x4.made
      /\ held' = [c \in Parts |->
           IF c \in ins
           THEN IF t = None THEN 0 ELSE IF c \in Dots THEN x2.pool.sock ELSE x4.pool.sock
           ELSE IF c \in outs THEN 0 ELSE held[c]]
  BY CommitHalves
<1>3. x2 = Acquire(x1, t, D1) /\ x4 = Acquire(x3, t, D2)
  BY DEF DotsDone, PagesDone
<1>4. /\ D1 > 0 => t \in Token
      /\ D2 > 0 => t \in Token
      /\ D1 > 0 <=> t # None /\ ins \cap Dots # {}
      /\ D2 > 0 <=> t # None /\ ins \cap Pages # {}
  <2>1. IsFiniteSet(Redone(ins, Dots, t)) /\ IsFiniteSet(Redone(ins, Pages, t))
    BY FiniteParts, FS_Subset DEF Redone
  <2>2. (D1 > 0 <=> Redone(ins, Dots, t) # {}) /\ (D2 > 0 <=> Redone(ins, Pages, t) # {})
    BY <1>1, <2>1, FS_EmptySet
  <2> QED  BY <2>2 DEF Redone
<1>5. Now \in PoolState /\ Counted(Now, H0) /\ Now.pool = pool /\ Now.made = made
  BY SocketsAssumption DEF Now, PoolState, Counted, LineOK, PoolFits
<1> HIDE DEF U1, D1, U2, D2, H0, H2, H4, x2, x4
<1>6. /\ x1 \in PoolState /\ Counted(x1, H0 - U1)
      /\ U1 = H0 => x1.pool = None
      /\ x1.pool # None => pool # None /\ x1.pool.token = token
  <2>1. /\ x1 \in PoolState /\ Counted(x1, H0 - U1) /\ (U1 = H0 => x1.pool = None)
        /\ x1.pool # None => Now.pool # None /\ x1.pool = [Now.pool EXCEPT !.refs = @ - U1]
    BY <1>1, <1>5, ReleaseCounts
  <2>2. ASSUME x1.pool # None
        PROVE  pool # None /\ pool \in Line /\ pool.token = token /\ x1.pool = [pool EXCEPT !.refs = @ - U1]
    BY <1>5, <2>1, <2>2 DEF LineOK, PoolFits
  <2>3. x1.pool # None => pool # None /\ x1.pool.token = token
    BY <2>2 DEF Line
  <2> QED  BY <2>1, <2>3
<1> HIDE DEF x1
<1>7. x3.made = x2.made /\ x2.made <= MaxMade /\ x1.made \in Nat
  <2>1. x3.made = x2.made
    BY DEF Release
  <2> QED  BY <1>1, <1>2, <1>3, <1>6, <2>1, SocketsAssumption DEF Acquire, PoolState
<1>8. /\ x2 \in PoolState /\ Counted(x2, H2)
      /\ D1 = 0 => x2 = x1
      /\ D1 > 0 => x2.pool # None /\ x2.pool.token = t
  <2>1. H0 - U1 \in Nat /\ (H0 - U1) + D1 = H2
    BY <1>1
  <2> QED  BY <1>1, <1>3, <1>4, <1>6, <1>7, <2>1, AcquireCounts
<1>9. /\ x3 \in PoolState /\ Counted(x3, H2 - U2)
      /\ U2 = H2 => x3.pool = None
      /\ x3.pool # None => x2.pool # None /\ x3.pool.token = x2.pool.token
  <2>1. /\ x3 \in PoolState /\ Counted(x3, H2 - U2) /\ (U2 = H2 => x3.pool = None)
        /\ x3.pool # None => x2.pool # None /\ x3.pool = [x2.pool EXCEPT !.refs = @ - U2]
    BY <1>1, <1>8, ReleaseCounts
  <2>2. x2.pool # None => x2.pool \in Line
    BY <1>8 DEF PoolState
  <2> QED  BY <2>1, <2>2 DEF Line
<1> HIDE DEF x3
<1>10. /\ x4 \in PoolState /\ Counted(x4, H4) /\ x3.made <= x4.made
       /\ D2 = 0 => x4 = x3
       /\ D2 > 0 => x4.pool # None /\ x4.pool.token = t
  <2>1. H2 - U2 \in Nat /\ (H2 - U2) + D2 = H4
    BY <1>1
  <2> QED  BY <1>1, <1>2, <1>3, <1>4, <1>9, <2>1, AcquireCounts
<1>11. pool' \in Line \cup {None} /\ made' \in 0..MaxMade
  BY <1>2, <1>10, SocketsAssumption DEF PoolState
<1>12. /\ \A c \in ins \cap Dots : t # None => x2.pool \in Line
       /\ \A c \in ins \cap Pages : t # None => x4.pool \in Line
  BY <1>4, <1>8, <1>10 DEF PoolState
<1>13. held' \in [Parts -> 0..MaxMade] /\ \A c \in ins : held'[c] # 0 <=> t # None
  <2>1. \A l \in Line : l.sock \in 1..MaxMade
    BY DEF Line
  <2>2. /\ \A c \in ins \cap Dots : t # None => x2.pool.sock \in 1..MaxMade
        /\ \A c \in ins \cap Pages : t # None => x4.pool.sock \in 1..MaxMade
    BY <1>12, <2>1
  <2> QED  BY <1>2, <2>2, SocketsAssumption DEF LineOK, Parts
<1>14. Holders' = (Holders \ outs) \cup (IF t = None THEN {} ELSE ins)
  BY <1>2, <1>13 DEF Holders
<1>15. Holders' = AfterPages(outs, ins, t)
  <2>1. Dots \cap Pages = {}
    BY SocketsAssumption
  <2> QED  BY <1>14, <2>1 DEF AfterPages, AfterDots, Redone, Parts, Holders
<1>16. pool' # None => pool'.refs <= Cardinality(Holders')
  BY <1>2, <1>10, <1>15 DEF Counted, H4
<1>17. ASSUME pool' # None  PROVE pool'.token = t
  <2>1. CASE D2 > 0
    BY <1>2, <1>10, <2>1
  <2>2. CASE D2 = 0 /\ D1 > 0
    BY <1>2, <1>8, <1>9, <1>10, <1>17, <2>2
  <2>3. CASE D2 = 0 /\ D1 = 0 /\ t = token
    BY <1>2, <1>6, <1>8, <1>9, <1>10, <1>17, <2>3
  <2>4. CASE D2 = 0 /\ D1 = 0 /\ Holders \subseteq outs
    <3>1. Redone(ins, Dots, t) = {}
      BY <1>4, <2>4, <1>1 DEF Redone
    <3>2. AfterDots(outs, ins, t) = Undone(outs, Pages)
      BY <2>4, <3>1, SocketsAssumption DEF AfterDots, Undone, Holders, Parts
    <3>3. U2 = H2
      BY <3>2 DEF U2, H2
    <3> QED  BY <1>2, <1>9, <1>10, <1>17, <2>4, <3>3
  <2> QED  BY <1>1, <2>1, <2>2, <2>3, <2>4
<1> QED  BY <1>11, <1>13, <1>14, <1>16, <1>17
-----------------------------------------------------------------------------
(* Every step of the browser leaves a pool that fits.                       *)

LineInv == AccessTypeOK /\ LineOK /\ PoolFits /\ Holders \subseteq mounted

\* Handlers are registered on sockets that were opened.
LEMMA EarsStay ==
  ASSUME LineOK, held' \in [Parts -> 0..MaxMade], NEW pages, Register(pages)
  PROVE  ears' \in [Pages -> SUBSET (1..MaxMade)]
BY SocketsAssumption DEF LineOK, Register, Parts

\* Before the first login nothing is open.
LEMMA LineInit == LinkInit => LineInv
BY AccessInitOK, SocketsAssumption DEF LinkInit, LineInv, LineOK, PoolFits, Holders

\* What is on the screen changes; the tokens do not.
LEMMA ScreenStep ==
  ASSUME LineInv,
         \/ \E pages \in SUBSET Pages : Navigate(pages)
         \/ Leave
         \/ \E p \in Pages : Open(p) \/ Close(p) \/ Retarget(p) \/ Rehook(p)
  PROVE  LineInv'
<1> USE DEF LineInv
<1>0. token \in Token \cup {None} /\ mounted \subseteq Parts
  BY DEF AccessTypeOK, LineOK
<1>1. ASSUME NEW outs \in SUBSET Parts, NEW ins \in SUBSET Parts, ins \cap Holders \subseteq outs,
             Commit(outs, ins, token), UNCHANGED accessVars,
             mounted' \subseteq Parts, (Holders \ outs) \cup ins \subseteq mounted',
             steady' \in BOOLEAN,
             (\E pages : Register(pages)) \/ UNCHANGED ears
      PROVE  LineInv'
  <2>1. /\ pool' \in Line \cup {None} /\ made' \in 0..MaxMade /\ held' \in [Parts -> 0..MaxMade]
        /\ Holders' = (Holders \ outs) \cup (IF token = None THEN {} ELSE ins)
        /\ pool' # None => pool'.refs <= Cardinality(Holders') /\ pool'.token = token
    BY <1>0, <1>1, CommitFits
  <2>2. ears' \in [Pages -> SUBSET (1..MaxMade)]
    BY <1>1, <2>1, EarsStay DEF LineOK
  <2>3. AccessTypeOK' /\ token' = token
    BY <1>1 DEF accessVars, session, AccessTypeOK
  <2>4. LineOK' /\ PoolFits'
    BY <1>1, <2>1, <2>2, <2>3 DEF LineOK, PoolFits
  <2>5. Holders' \subseteq mounted'
    BY <1>1, <2>1
  <2> QED  BY <2>3, <2>4, <2>5
<1>2. ASSUME NEW pages \in SUBSET Pages, Navigate(pages)  PROVE LineInv'
  BY <1>0, <1>1, <1>2 DEF Navigate, LineOK, Parts
<1>3. CASE Leave
  BY <1>0, <1>1, <1>3 DEF Leave
<1>4. ASSUME NEW p \in Pages, Open(p)  PROVE LineInv'
  BY <1>0, <1>1, <1>4 DEF Open, LineOK, Parts
<1>5. ASSUME NEW p \in Pages, Close(p)  PROVE LineInv'
  <2>1. mounted' \subseteq Parts /\ (Holders \ {p}) \cup {} \subseteq mounted'
    BY <1>0, <1>5 DEF Close
  <2> QED  BY <1>0, <1>1, <1>5, <2>1 DEF Close, LineOK, Parts
<1>6. ASSUME NEW p \in Pages, Retarget(p)  PROVE LineInv'
  BY <1>0, <1>1, <1>6 DEF Retarget, LineOK, Parts
<1>7. ASSUME NEW p \in Pages, Rehook(p)  PROVE LineInv'
  <2>1. ears' \in [Pages -> SUBSET (1..MaxMade)]
    BY <1>7, EarsStay DEF Rehook, LineOK
  <2>2. UNCHANGED <<accessVars, pool, made, mounted, held, steady>>
    BY <1>7 DEF Rehook
  <2> QED  BY <2>1, <2>2 DEF accessVars, session, AccessTypeOK, LineOK, PoolFits, Holders
<1> QED  BY <1>2, <1>3, <1>4, <1>5, <1>6, <1>7

\* A change of the token is one commit that undoes and redoes all that is mounted.
LEMMA RerenderStep ==
  ASSUME LineInv, AccessTypeOK', Rerender
  PROVE  LineInv'
<1> USE DEF LineInv
<1>1. CASE token' = token
  BY <1>1 DEF Rerender, LineOK, PoolFits, Holders
<1>2. CASE token' # token
  <2>1. Commit(mounted, mounted, token') /\ UNCHANGED <<mounted, ears>> /\ steady' \in BOOLEAN
    BY <1>2 DEF Rerender
  <2>2. token' \in Token \cup {None} /\ mounted \in SUBSET Parts
    BY DEF AccessTypeOK, LineOK
  <2>3. /\ pool' \in Line \cup {None} /\ made' \in 0..MaxMade /\ held' \in [Parts -> 0..MaxMade]
        /\ Holders' = (Holders \ mounted) \cup (IF token' = None THEN {} ELSE mounted)
        /\ pool' # None => pool'.refs <= Cardinality(Holders') /\ pool'.token = token'
    BY <2>1, <2>2, CommitFits
  <2> QED  BY <2>1, <2>3 DEF LineOK, PoolFits
<1> QED  BY <1>1, <1>2

\* Every step of the browser.
LEMMA LineStep ==
  ASSUME LineInv, [LinkNext]_linkVars
  PROVE  LineInv'
<1>1. AccessTypeOK'
  <2>1. CASE AccessStep
    BY <2>1, AccessTypeStep DEF LineInv
  <2>2. CASE UNCHANGED accessVars
    BY <2>2 DEF accessVars, session, AccessTypeOK, LineInv
  <2> QED  BY <2>1, <2>2, LinkStep
<1>2. CASE (\E u \in Users : Authenticate(u)) \/ (\E c \in Slots : TokenChanges(c))
  BY <1>1, <1>2, RerenderStep DEF Authenticate, TokenChanges
<1>3. CASE (\E c \in Slots : Called(c)) \/ UNCHANGED linkVars
  <2>1. UNCHANGED token /\ UNCHANGED lineVars
    BY <1>3 DEF Called, KeepsToken, Send, Ok, Unauthorized, RefreshServed, RefreshRefused, session,
               linkVars, accessVars
  <2> QED  BY <1>1, <2>1 DEF lineVars, LineInv, LineOK, PoolFits, Holders
<1> QED  BY <1>2, <1>3, ScreenStep DEF LinkNext

\* The types of the whole browser, for any number of sockets, pages and tokens.
THEOREM LinkTypeCorrect == LinkSpec => []LinkTypeOK
<1>1. LineInv => LinkTypeOK
  BY DEF LineInv, LineOK, LinkTypeOK
<1>2. LineInv /\ [LinkNext]_linkVars => LineInv'
  BY LineStep
<1> QED  BY <1>1, <1>2, LineInit, PTL DEF LinkSpec

\* For any number of pages, and however tokens change under them, the open line
\* is counted for no more components than hold one and is the current token's.
THEOREM LineTheorem == LinkSpec => []LineIsHeld
<1>1. LineInv => LineIsHeld
  BY DEF LineInv, PoolFits, LineIsHeld
<1>2. LineInv /\ [LinkNext]_linkVars => LineInv'
  BY LineStep
<1> QED  BY <1>1, <1>2, LineInit, PTL DEF LinkSpec
-----------------------------------------------------------------------------
(* While the token stays the count is exact, and a line that is still held    *)
(* stays the same line: it is never closed under a page.                     *)

Exact(x, h) ==
  /\ x.pool = None => h = 0
  /\ x.pool # None => x.pool.refs = h /\ x.pool.token = token

\* Releasing part of the holders leaves the same socket open.
LEMMA ReleaseExact ==
  ASSUME NEW x \in PoolState, NEW h \in Nat, NEW n \in 0..h, Exact(x, h)
  PROVE  /\ Exact(Release(x, n), h - n)
         /\ n < h => Release(x, n).pool # None /\ Release(x, n).pool.sock = x.pool.sock
<1>1. CASE x.pool = None
  BY <1>1 DEF Release, Exact
<1>2. CASE x.pool # None /\ n = h
  BY <1>2 DEF Release, Exact, PoolState
<1>3. CASE x.pool # None /\ n < h
  <2>1. Release(x, n) = [x EXCEPT !.pool.refs = @ - n]
    BY <1>3 DEF Release, Exact
  <2>2. [x.pool EXCEPT !.refs = @ - n] \in Line /\ x.pool \in Line
    BY <1>3, FiniteParts DEF PoolState, Exact, Line
  <2>3. Release(x, n).pool = [x.pool EXCEPT !.refs = @ - n]
    BY <2>1 DEF PoolState
  <2>4. Release(x, n).pool # None
    BY <2>2, <2>3, LineAssumption
  <2> QED  BY <1>3, <2>2, <2>3, <2>4 DEF Exact, Line
<1> QED  BY <1>1, <1>2, <1>3

\* Acquiring under the same token joins the open socket, if there is one.
LEMMA AcquireExact ==
  ASSUME NEW x \in PoolState, NEW h \in Nat, NEW n \in Nat, Exact(x, h),
         h + n <= Cardinality(Parts), token \in Token, Acquire(x, token, n).made <= MaxMade
  PROVE  /\ Exact(Acquire(x, token, n), h + n)
         /\ h > 0 => Acquire(x, token, n).pool.sock = x.pool.sock
<1>1. CASE n = 0
  BY <1>1 DEF Acquire, Exact
<1>2. CASE n > 0 /\ x.pool # None
  <2>1. Acquire(x, token, n).pool = [x.pool EXCEPT !.refs = @ + n]
    BY <1>2 DEF Acquire, Exact, PoolState
  <2>2. [x.pool EXCEPT !.refs = @ + n] \in Line /\ x.pool \in Line
    BY <1>2, FiniteParts DEF PoolState, Exact, Line
  <2>3. Acquire(x, token, n).pool # None
    BY <2>1, <2>2, LineAssumption
  <2> QED  BY <1>2, <2>1, <2>2, <2>3 DEF Exact, Line
<1>3. CASE n > 0 /\ x.pool = None
  <2> DEFINE fresh == [sock |-> x.made + 1, token |-> token, refs |-> n]
  <2>1. Acquire(x, token, n) = [pool |-> fresh, made |-> x.made + 1] /\ h = 0
    BY <1>3 DEF Acquire, Exact
  <2>2. fresh \in Line
    BY <1>3, <2>1, FiniteParts, SocketsAssumption DEF PoolState, Line
  <2>3. fresh # None
    BY <2>2, LineAssumption
  <2> HIDE DEF fresh
  <2>4. Acquire(x, token, n).pool = fresh
    BY <2>1
  <2> QED  BY <1>3, <2>1, <2>3, <2>4 DEF Exact, fresh
<1> QED  BY <1>1, <1>2, <1>3

\* Everybody who holds a socket holds the open one, and is counted.
Together ==
  /\ Exact(Now, Cardinality(Holders))
  /\ \A c \in Holders : held[c] = pool.sock

\* A commit under the same token in which the dots stay, or all start anew, keeps
\* everybody together.
LEMMA CommitTogether ==
  ASSUME LineOK, PoolFits, Together, token \in Token, token' = token,
         NEW outs \in SUBSET Parts, NEW ins \in SUBSET Parts, ins \cap Holders \subseteq outs,
         Dots \subseteq (Holders \ outs) \cup ins,
         Holders \subseteq outs \/ (outs \cup ins) \cap Dots = {},
         Commit(outs, ins, token)
  PROVE  /\ Together' /\ pool' # None
         /\ (outs \cup ins) \cap Dots = {} => pool'.sock = pool.sock
<1> DEFINE U1 == Cardinality(Undone(outs, Dots))    D1 == Cardinality(Redone(ins, Dots, token))
           U2 == Cardinality(Undone(outs, Pages))   D2 == Cardinality(Redone(ins, Pages, token))
           H0 == Cardinality(Holders)
           H2 == Cardinality(AfterDots(outs, ins, token))
           H4 == Cardinality(AfterPages(outs, ins, token))
           x1 == Release(Now, U1)
           x2 == DotsDone(outs, ins, token)
           x3 == Release(x2, U2)
           x4 == PagesDone(outs, ins, token)
<1>1. /\ H0 \in Nat /\ U1 \in 0..H0 /\ D1 \in Nat /\ H2 \in Nat /\ H2 = H0 - U1 + D1
      /\ H2 <= Cardinality(Parts) /\ U2 \in 0..H2 /\ D2 \in Nat /\ H4 = H2 - U2 + D2
      /\ H4 <= Cardinality(Parts) /\ IsFiniteSet(Holders) /\ IsFiniteSet(AfterDots(outs, ins, token))
  BY HoldersCount
<1>2. token # None /\ Dots \cap Pages = {} /\ Dots # {}
  BY TokenAssumption, SocketsAssumption
<1>3. /\ x4.made <= MaxMade /\ pool' = x4.pool
      /\ held' = [c \in Parts |->
           IF c \in ins THEN IF c \in Dots THEN x2.pool.sock ELSE x4.pool.sock
           ELSE IF c \in outs THEN 0 ELSE held[c]]
  BY <1>2, CommitHalves
<1>4. x2 = Acquire(x1, token, D1) /\ x4 = Acquire(x3, token, D2)
  BY DEF DotsDone, PagesDone
<1>5. Now \in PoolState /\ Exact(Now, H0) /\ Counted(Now, H0)
  BY SocketsAssumption DEF Now, PoolState, LineOK, Together, Counted, PoolFits
<1>6. U2 < H2
  <2>1. Undone(outs, Pages) \subseteq AfterDots(outs, ins, token)
    BY <1>2 DEF Undone, AfterDots, Holders, Parts
  <2>2. AfterDots(outs, ins, token) # Undone(outs, Pages)
    BY <1>2 DEF Undone, AfterDots, Redone, Holders
  <2> QED  BY <1>1, <2>1, <2>2, FS_Subset
<1>7. Holders' = (Holders \ outs) \cup ins /\ Holders' = AfterPages(outs, ins, token)
  <2>1. Holders' = (Holders \ outs) \cup ins
    BY <1>2, CommitFits
  <2> QED  BY <1>2, <2>1 DEF AfterPages, AfterDots, Redone, Parts, Holders
<1> HIDE DEF U1, D1, U2, D2, H0, H2, H4, x2, x4
<1>8. x1 \in PoolState /\ Exact(x1, H0 - U1)
  BY <1>1, <1>5, ReleaseCounts, ReleaseExact
<1> HIDE DEF x1
<1>9. x3.made = x2.made /\ x2.made <= MaxMade
  <2>1. x3.made = x2.made
    BY DEF Release
  <2> QED  BY <1>1, <1>3, <1>4, <1>8, <2>1, SocketsAssumption DEF Acquire, PoolState
<1>10. /\ x2 \in PoolState /\ Exact(x2, H2) /\ Counted(x2, H2)
       /\ D1 = 0 => x2 = x1
  <2>1. H0 - U1 \in Nat /\ (H0 - U1) + D1 = H2
    BY <1>1
  <2>2. Counted(x1, H0 - U1)
    BY <1>1, <1>8 DEF Exact, Counted
  <2> QED  BY <1>1, <1>4, <1>8, <1>9, <2>1, <2>2, AcquireCounts, AcquireExact
<1>11. /\ x3 \in PoolState /\ Exact(x3, H2 - U2) /\ Counted(x3, H2 - U2)
       /\ x3.pool.sock = x2.pool.sock
  BY <1>1, <1>6, <1>10, ReleaseCounts, ReleaseExact
<1> HIDE DEF x3
<1>12. Exact(x4, H4) /\ x4.pool.sock = x3.pool.sock
  <2>1. H2 - U2 \in Nat /\ H2 - U2 > 0 /\ (H2 - U2) + D2 = H4
    BY <1>1, <1>6
  <2> QED  BY <1>1, <1>3, <1>4, <1>11, <2>1, AcquireExact
<1>13. pool' # None /\ Exact(Now, Cardinality(Holders))'
  <2>1. H4 > 0
    BY <1>1, <1>6
  <2>2. H4 = Cardinality(Holders')
    BY <1>7 DEF H4
  <2>3. pool' # None /\ pool'.refs = H4 /\ pool'.token = token
    BY <1>3, <1>12, <2>1 DEF Exact
  <2> QED  BY <2>2, <2>3 DEF Exact, Now
<1>14. ASSUME (outs \cup ins) \cap Dots = {}  PROVE pool'.sock = pool.sock
  <2>1. Undone(outs, Dots) = {} /\ Redone(ins, Dots, token) = {}
    BY <1>14 DEF Undone, Redone
  <2>2. U1 = 0 /\ D1 = 0
    BY <2>1, FS_EmptySet DEF U1, D1
  <2>3. Holders # {}
    BY <1>2, <1>14
  <2>4. H0 > 0
    BY <1>1, <2>3, FS_EmptySet DEF H0
  <2>5. x1.pool.sock = pool.sock
    BY <1>1, <1>5, <2>2, <2>4, ReleaseExact DEF x1, Now
  <2> QED  BY <1>3, <1>10, <1>11, <1>12, <2>2, <2>5
<1>15. ASSUME NEW c \in Holders'  PROVE held'[c] = pool'.sock
  <2>1. CASE c \in ins
    BY <1>3, <1>7, <1>11, <1>12, <1>15, <2>1 DEF Holders
  <2>2. CASE c \in Holders \ outs /\ c \notin ins
    <3>1. held'[c] = held[c] /\ held[c] = pool.sock
      BY <1>3, <2>2 DEF Holders, Together
    <3> QED  BY <1>14, <2>2, <3>1
  <2> QED  BY <1>7, <1>15, <2>1, <2>2
<1> QED  BY <1>13, <1>14, <1>15 DEF Together

-----------------------------------------------------------------------------
(* Why a page hears: as long as the screen is steady, somebody is logged in,  *)
(* everything mounted holds the open line, and each page has its handlers on  *)
(* it.  A dot is mounted with every page, and no change on the screen undoes   *)
(* it without undoing everything.                                           *)

LoggedIn ==
  /\ user # None => token # None
  /\ \A c \in Slots : calls[c].at = "renewed" => calls[c].auth \in Token

InStep ==
  mounted # {} =>
    /\ token # None
    /\ Holders = mounted
    /\ pool # None
    /\ Together
    /\ \A p \in mounted \cap Pages : pool.sock \in ears[p]

HearInv ==
  /\ LineInv
  /\ LoggedIn
  /\ mounted # {} => Dots \subseteq mounted
  /\ steady => InStep

\* Before the first login nobody is on the screen.
LEMMA HearInit == LinkInit => HearInv
BY LineInit DEF LinkInit, AccessInit, HearInv, LoggedIn, InStep, Free

\* Who is on the screen has a token, and so does a refresh that was served,
\* whoever logs out meanwhile.
LEMMA LoggedInStep ==
  ASSUME AccessTypeOK, LoggedIn, AccessStep \/ UNCHANGED accessVars
  PROVE  LoggedIn'
<1>1. calls \in [Slots -> CallRecord]
  BY DEF AccessTypeOK, CallRecord
<1>2. ASSUME NEW u \in Users, Login(u)  PROVE LoggedIn'
  BY <1>2, Issue, TokenAssumption DEF Login, LoggedIn
<1>3. ASSUME NEW c \in Slots, Send(c) \/ Ok(c) \/ Unauthorized(c)  PROVE LoggedIn'
  <2>1. CASE Send(c) \/ Ok(c)
    <3>1. calls'[c].at # "renewed" /\ \A d \in Slots \ {c} : calls'[d] = calls[d]
      BY <1>1, <2>1 DEF Send, Ok, Call, Free
    <3> QED  BY <2>1, <3>1 DEF Send, Ok, LoggedIn, session
  <2>2. CASE Unauthorized(c)
    <3>1. calls'[c].at # "renewed" /\ \A d \in Slots \ {c} : calls'[d] = calls[d]
      BY <1>1, <2>2 DEF Unauthorized, Free, CallRecord
    <3> QED  BY <2>2, <3>1 DEF Unauthorized, LoggedIn, session
  <2> QED  BY <1>3, <2>1, <2>2
<1>4. ASSUME NEW c \in Slots, RefreshServed(c)  PROVE LoggedIn'
  <2>1. [owner |-> calls[c].via, nr |-> issued'] \in Token
    BY <1>4, Issue DEF RefreshServed, AccessTypeOK
  <2>2. calls'[c].auth \in Token /\ \A d \in Slots \ {c} : calls'[d] = calls[d]
    BY <1>1, <1>4, <2>1 DEF RefreshServed, CallRecord
  <2> QED  BY <1>4, <2>2 DEF RefreshServed, LoggedIn, session
<1>5. ASSUME NEW c \in Slots, RefreshRefused(c) \/ RefreshLands(c)  PROVE LoggedIn'
  <2>1. calls'[c].at # "renewed" /\ \A d \in Slots \ {c} : calls'[d] = calls[d]
    BY <1>1, <1>5 DEF RefreshRefused, RefreshLands, CallRecord
  <2> QED  BY <1>5, <2>1, TokenAssumption DEF RefreshRefused, RefreshLands, LoggedIn, session
<1>6. ASSUME NEW c \in Slots, LogOutIn(c)  PROVE LoggedIn'
  <2>1. calls'[c].at # "renewed" /\ \A d \in Slots \ {c} : calls'[d] = calls[d]
    BY <1>1, <1>6 DEF LogOutIn, Call
  <2> QED  BY <1>6, <2>1 DEF LogOutIn, LoggedIn
<1>7. CASE UNCHANGED accessVars
  BY <1>7 DEF accessVars, session, LoggedIn
<1> QED
  BY <1>2, <1>3, <1>4, <1>5, <1>6, <1>7
  DEF AccessStep, KeepsToken, ChangesToken, ClickLogout, RefusedLands

\* With nothing mounted, nobody holds a socket and none is open.
LEMMA EmptyScreen ==
  ASSUME LineInv, mounted = {}
  PROVE  Holders = {} /\ pool = None /\ Together
<1>1. Holders = {} /\ Cardinality(Holders) = 0
  BY FS_EmptySet DEF LineInv
<1>2. pool = None
  BY <1>1, FiniteParts DEF LineInv, LineOK, PoolFits, Line
<1> QED  BY <1>1, <1>2 DEF Together, Exact, Now

\* On a steady screen a change of what is mounted leaves everybody in step, if
\* those that are done anew register their handlers.
LEMMA ScreenInStep ==
  ASSUME LineInv, LineInv', steady => InStep, mounted # {} => Dots \subseteq mounted,
         NEW outs \in SUBSET Parts, NEW ins \in SUBSET Parts, ins \cap mounted \subseteq outs,
         Commit(outs, ins, token), token # None, UNCHANGED <<accessVars, steady>>,
         mounted' = (mounted \ outs) \cup ins, Dots \subseteq mounted',
         mounted \subseteq outs \/ (outs \cup ins) \cap Dots = {},
         \/ Register(ins \cap Pages)
         \/ UNCHANGED ears /\ ins \subseteq mounted /\ (outs \cup ins) \cap Dots = {}
  PROVE  steady' => InStep'
<1>1. SUFFICES ASSUME steady  PROVE InStep'
  OBVIOUS
<1>2. Holders = mounted /\ Together
  BY <1>1, EmptyScreen DEF InStep
<1>3. token \in Token /\ token' = token
  BY DEF LineInv, AccessTypeOK, accessVars, session
<1>4. ins \cap Holders \subseteq outs /\ Dots \subseteq (Holders \ outs) \cup ins
  BY <1>2
<1>5. Together' /\ pool' # None
  BY <1>2, <1>3, <1>4, CommitTogether DEF LineInv
<1>6. Holders' = mounted'
  BY <1>2, <1>3, <1>4, CommitFits DEF LineInv
<1>7. ASSUME NEW p \in mounted' \cap Pages  PROVE pool'.sock \in ears'[p]
  <2>1. held'[p] = pool'.sock /\ held'[p] # 0
    BY <1>5, <1>6, <1>7 DEF Together, Holders
  <2>2. CASE p \in ins /\ Register(ins \cap Pages)
    BY <1>7, <2>1, <2>2 DEF Register
  <2>3. CASE ~(p \in ins /\ Register(ins \cap Pages))
    <3>1. p \in mounted /\ (outs \cup ins) \cap Dots = {}
      BY <1>7, <2>3
    <3>2. pool.sock \in ears[p] /\ pool'.sock = pool.sock
      BY <1>1, <1>2, <1>3, <1>4, <1>7, <3>1, CommitTogether DEF InStep, LineInv
    <3>3. ears[p] \subseteq ears'[p]
      BY <1>7 DEF Register
    <3> QED  BY <3>2, <3>3
  <2> QED  BY <2>2, <2>3
<1> QED  BY <1>3, <1>5, <1>6, <1>7 DEF InStep
\* What is mounted always includes the dot, and a steady screen stays in step.
LEMMA HearScreen ==
  ASSUME HearInv, LineInv',
         \/ \E pages \in SUBSET Pages : Navigate(pages)
         \/ Leave
         \/ \E p \in Pages : Open(p) \/ Close(p) \/ Retarget(p) \/ Rehook(p)
  PROVE  HearInv'
<1> USE DEF HearInv
<1>0. mounted \subseteq Parts /\ Dots \cap Pages = {} /\ Dots # {}
  BY SocketsAssumption DEF LineInv, LineOK
<1>1. ASSUME UNCHANGED accessVars  PROVE LoggedIn'
  BY <1>1 DEF accessVars, session, LoggedIn
<1>2. ASSUME NEW pages \in SUBSET Pages, Navigate(pages)  PROVE HearInv'
  <2>1. Dots \cup pages \in SUBSET Parts /\ (Dots \cup pages) \cap Pages = pages
    BY <1>0 DEF Parts
  <2>2. token # None
    BY <1>2 DEF Navigate, LoggedIn
  <2>3. steady' => InStep'
    BY <1>0, <1>2, <2>1, <2>2, ScreenInStep DEF Navigate
  <2> QED  BY <1>1, <1>2, <2>3 DEF Navigate
<1>3. CASE Leave
  BY <1>1, <1>3 DEF Leave, InStep
<1>4. ASSUME NEW p \in Pages, Open(p)  PROVE HearInv'
  <2>1. Dots \subseteq mounted' /\ {p} \cap Pages = {p} /\ {p} \in SUBSET Parts /\ {} \in SUBSET Parts
    BY <1>4 DEF Open, Parts
  <2>2. ({} \cup {p}) \cap Dots = {} /\ {p} \cap mounted \subseteq {} /\ mounted' = (mounted \ {}) \cup {p}
    BY <1>0, <1>4 DEF Open
  <2>3. steady => token # None
    BY <1>4 DEF Open, InStep
  <2>4. steady' => InStep'
    BY <1>4, <2>1, <2>2, <2>3, ScreenInStep DEF Open
  <2> QED  BY <1>1, <1>4, <2>1, <2>4 DEF Open
<1>5. ASSUME NEW p \in Pages, Close(p)  PROVE HearInv'
  <2>1. Dots \subseteq mounted' /\ {p} \in SUBSET Parts /\ {} \in SUBSET Parts
    BY <1>0, <1>5 DEF Close, Parts
  <2>2. ({p} \cup {}) \cap Dots = {} /\ {} \cap mounted \subseteq {p} /\ mounted' = (mounted \ {p}) \cup {}
    BY <1>0, <1>5 DEF Close
  <2>3. steady => token # None
    BY <1>5 DEF Close, InStep
  <2>4. steady' => InStep'
    BY <1>5, <2>1, <2>2, <2>3, ScreenInStep DEF Close
  <2> QED  BY <1>1, <1>5, <2>1, <2>4 DEF Close
<1>6. ASSUME NEW p \in Pages, Retarget(p)  PROVE HearInv'
  <2>1. Dots \subseteq mounted' /\ {p} \in SUBSET Parts
    BY <1>0, <1>6 DEF Retarget, Parts
  <2>2. ({p} \cup {p}) \cap Dots = {} /\ mounted' = (mounted \ {p}) \cup {p}
    BY <1>0, <1>6 DEF Retarget
  <2>3. steady => token # None
    BY <1>6 DEF Retarget, InStep
  <2>4. steady' => InStep'
    BY <1>6, <2>1, <2>2, <2>3, ScreenInStep DEF Retarget
  <2> QED  BY <1>1, <1>6, <2>1, <2>4 DEF Retarget
<1>7. ASSUME NEW p \in Pages, Rehook(p)  PROVE HearInv'
  <2>1. UNCHANGED <<accessVars, pool, made, mounted, steady, held>>
    BY <1>7 DEF Rehook
  <2>2. \A q \in Pages : ears[q] \subseteq ears'[q]
    BY <1>7 DEF Rehook, Register
  <2>3. steady' => InStep'
    BY <2>1, <2>2 DEF InStep, Holders, Together, Exact, Now, accessVars, session
  <2> QED  BY <1>1, <2>1, <2>3
<1> QED  BY <1>2, <1>3, <1>4, <1>5, <1>6, <1>7

\* A change of the token under something mounted ends the steadiness.
LEMMA HearStep ==
  ASSUME HearInv, [LinkNext]_linkVars
  PROVE  HearInv'
<1>1. LineInv'
  BY LineStep DEF HearInv
<1>2. LoggedIn'
  BY LinkStep, LoggedInStep DEF HearInv, LineInv
<1>3. CASE (\E u \in Users : Authenticate(u)) \/ (\E c \in Slots : TokenChanges(c))
  <2>1. Rerender
    BY <1>3 DEF Authenticate, TokenChanges
  <2>2. CASE token' = token
    BY <1>1, <1>2, <2>1, <2>2 DEF Rerender, HearInv, InStep, Holders, Together, Exact, Now
  <2>3. CASE token' # token
    BY <1>1, <1>2, <2>1, <2>3 DEF Rerender, HearInv, InStep
  <2> QED  BY <2>2, <2>3
<1>4. CASE (\E c \in Slots : Called(c)) \/ UNCHANGED linkVars
  <2>1. UNCHANGED token /\ UNCHANGED lineVars
    BY <1>4 DEF Called, KeepsToken, Send, Ok, Unauthorized, RefreshServed, RefreshRefused, session,
               linkVars, accessVars
  <2> QED  BY <1>1, <1>2, <2>1 DEF lineVars, HearInv, InStep, Holders, Together, Exact, Now
<1> QED  BY <1>1, <1>3, <1>4, HearScreen DEF LinkNext

\* For any number of dots, pages and sockets: while the token does not change
\* under it, every page on the screen holds the open line and has its handlers
\* on it, whatever else is mounted, unmounted or joins another room.
THEOREM HeardTheorem == LinkSpec => []HeardWhileSteady
<1>1. HearInv => HeardWhileSteady
  BY DEF HearInv, LineInv, InStep, Together, Live, HeardWhileSteady
<1>2. HearInv /\ [LinkNext]_linkVars => HearInv'
  BY HearStep
<1> QED  BY <1>1, <1>2, HearInit, PTL DEF LinkSpec
=============================================================================
