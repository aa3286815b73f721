------------------------------ MODULE Sockets ------------------------------
(***************************************************************************)
(* The live line of one browser: the pool of useSocket.ts, the status dot   *)
(* of the shell and the pages that listen, over the tokens of Access.       *)
(*                                                                         *)
(* React settles a commit in this order: the layout effects of the dot are  *)
(* undone and done, then the effects of the pages are undone and done.  A   *)
(* page registers its handlers once, on the socket it is mounted with.      *)
(***************************************************************************)
EXTENDS Access

CONSTANTS
  Dots,      \* status dots: one for each shell
  Pages,     \* components that listen through useSocket
  MaxMade    \* bound: sockets opened

ASSUME SocketsAssumption ==
  /\ MaxMade \in Nat
  /\ IsFiniteSet(Dots) /\ IsFiniteSet(Pages)
  /\ Dots # {} /\ Dots \cap Pages = {}   \* a shell has its dot

Parts == Dots \cup Pages

VARIABLES
  pool,     \* the pooled socket, its token and its count of users, or None
  made,     \* sockets opened so far; those that are not in the pool are closed
  mounted,  \* the dots and pages on the screen
  held,     \* the socket the effect of each of them has acquired; 0 is none
  ears,     \* the sockets that the handlers of each page are registered on
  steady    \* history: no change of the token has met something mounted, since
            \* the screen was last empty

lineVars == <<pool, made, mounted, held, ears, steady>>
linkVars == <<accessVars, lineVars>>

Line == [sock : 1..MaxMade, token : Token, refs : 1..Cardinality(Parts)]

ASSUME LineAssumption == None \notin Line

Live == IF pool = None THEN 0 ELSE pool.sock

-----------------------------------------------------------------------------
(* acquireSocket and releaseSocket, n times each, on x = [pool, made].      *)

AcquireSlip(x, t, n) ==   \* an open socket is good for any token
  LET fresh == [sock |-> x.made + 1, token |-> t, refs |-> n]
  IN  IF n = 0 THEN x
      ELSE IF x.pool # None THEN [x EXCEPT !.pool.refs = @ + n]
      ELSE [pool |-> fresh, made |-> x.made + 1]

Acquire(x, t, n) ==
  LET same  == x.pool # None /\ x.pool.token = t
      fresh == [sock |-> x.made + 1, token |-> t, refs |-> n]
  IN  IF n = 0 THEN x
      ELSE IF same THEN [x EXCEPT !.pool.refs = @ + n]
      ELSE [pool |-> fresh, made |-> x.made + 1]

Release(x, n) ==
  CASE x.pool = None      -> x
    [] x.pool.refs <= n   -> [x EXCEPT !.pool = None]
    [] OTHER              -> [x EXCEPT !.pool.refs = @ - n]

\* The effects of the components in outs are undone, where they hold a socket,
\* and those of the components in ins are done, under token t.
Commit(outs, ins, t) ==
  LET now == [pool |-> pool, made |-> made]
      undone(C) == Cardinality({c \in outs \cap C : held[c] # 0})
      done(C)   == IF t = None THEN 0 ELSE Cardinality(ins \cap C)
      dots  == Acquire(Release(now, undone(Dots)), t, done(Dots))
      pages == Acquire(Release(dots, undone(Pages)), t, done(Pages))
      sockOf(c) == IF t = None THEN 0 ELSE IF c \in Dots THEN dots.pool.sock ELSE pages.pool.sock
  IN  /\ pages.made <= MaxMade
      /\ pool' = pages.pool
      /\ made' = pages.made
      /\ held' = [c \in Parts |-> IF c \in ins THEN sockOf(c)
                                   ELSE IF c \in outs THEN 0 ELSE held[c]]

\* on(): registers where the ref points; its cleanup finds the ref empty.
Register(pages) ==
  ears' = [p \in Pages |->
             IF p \in pages /\ held'[p] # 0 THEN ears[p] \cup {held'[p]} ELSE ears[p]]

-----------------------------------------------------------------------------
(* The screen.                                                             *)

NavigateSlip(pages) ==   \* a shell without its dot
  /\ user # None
  /\ Commit(mounted, pages, token)
  /\ mounted' = pages
  /\ Register(pages)
  /\ UNCHANGED <<accessVars, steady>>

\* A navigation remounts everything below its key, the shell with its dot too.
Navigate(pages) ==
  /\ user # None
  /\ Commit(mounted, Dots \cup pages, token)
  /\ mounted' = Dots \cup pages
  /\ Register(pages)
  /\ UNCHANGED <<accessVars, steady>>

\* The login screen has no shell; the pages go.
Leave ==
  /\ mounted # {}
  /\ Commit(mounted, {}, token)
  /\ mounted' = {}
  /\ steady' = TRUE
  /\ UNCHANGED <<accessVars, ears>>

Open(p) ==
  /\ mounted # {} /\ p \notin mounted
  /\ Commit({}, {p}, token)
  /\ mounted' = mounted \cup {p}
  /\ Register({p})
  /\ UNCHANGED <<accessVars, steady>>

Close(p) ==
  /\ p \in mounted
  /\ Commit({p}, {}, token)
  /\ mounted' = mounted \ {p}
  /\ UNCHANGED <<accessVars, ears, steady>>

\* The session of a page has been loaded: useSocket joins its room anew.
Retarget(p) ==
  /\ p \in mounted
  /\ Commit({p}, {p}, token)
  /\ UNCHANGED <<accessVars, mounted, ears, steady>>

\* A handler that depends on what the page shows is registered anew.
Rehook(p) ==
  /\ p \in mounted
  /\ UNCHANGED held
  /\ Register({p})
  /\ UNCHANGED <<accessVars, pool, made, mounted, steady>>

-----------------------------------------------------------------------------
(* The tokens.                                                             *)

\* Every effect depends on the token.
Rerender ==
  /\ IF token' = token THEN UNCHANGED <<pool, made, held>> ELSE Commit(mounted, mounted, token')
  /\ steady' = (steady /\ (token' = token \/ mounted = {}))
  /\ UNCHANGED <<mounted, ears>>

Authenticate(u) == mounted = {} /\ Login(u) /\ Rerender

TokenChanges(c) == ChangesToken(c) /\ Rerender

Called(c) == KeepsToken(c) /\ UNCHANGED lineVars

-----------------------------------------------------------------------------
LinkInit ==
  /\ AccessInit
  /\ pool = None
  /\ made = 0
  /\ mounted = {}
  /\ held = [c \in Parts |-> 0]
  /\ ears = [p \in Pages |-> {}]
  /\ steady = TRUE

LinkNext ==
  \/ \E u \in Users : Authenticate(u)
  \/ \E c \in Slots : TokenChanges(c) \/ Called(c)
  \/ \E pages \in SUBSET Pages : Navigate(pages)
  \/ Leave
  \/ \E p \in Pages : Open(p) \/ Close(p) \/ Retarget(p) \/ Rehook(p)

LinkSpec == LinkInit /\ [][LinkNext]_linkVars

-----------------------------------------------------------------------------
LinkTypeOK ==
  /\ AccessTypeOK
  /\ pool \in Line \cup {None}
  /\ made \in 0..MaxMade
  /\ mounted \subseteq Parts
  /\ held \in [Parts -> 0..MaxMade]
  /\ ears \in [Pages -> SUBSET (1..MaxMade)]
  /\ steady \in BOOLEAN

Holders == {c \in Parts : held[c] # 0}

\* useSocket.ts:27 ("when the last hook unmounts, the socket is closed"): the
\* open line is counted for no more components than hold one, and belongs to
\* the token of the moment, also where a change of the token makes the dot
\* and the pages replace it one after the other.
LineIsHeld ==
  pool # None =>
    /\ pool.refs <= Cardinality(Holders)
    /\ pool.token = token
    /\ Holders \subseteq mounted

\* While the token does not change under it, a page hears: the socket it
\* registered its handlers on is the open one, whatever else is mounted,
\* unmounted or joins another room.  That a page that loads its session does
\* not close the line under its own handlers is owed to the dot of the shell.
HeardWhileSteady ==
  steady /\ token # None =>
    /\ \A p \in mounted \cap Pages : held[p] = Live /\ Live \in ears[p]
    /\ \A d \in mounted \cap Dots : held[d] = Live
=============================================================================
