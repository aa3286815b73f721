------------------------------- MODULE Roster -------------------------------
(***************************************************************************)
(* Who sits in which store of one session: StoresService (create, join,    *)
(* transfer, swap, remove) together with the part of SessionsService that  *)
(* closes the reconfiguration (advanceStatus, assertMandatoryTransfers).   *)
(*                                                                         *)
(* Every handler is a chain of awaited Prisma queries with no lock between *)
(* them, so a request is a process: one action per query, what the handler *)
(* read kept in req[w] until it writes.  Only the last step of a handler   *)
(* writes; transfer, swap and remove write inside one $transaction.        *)
(*                                                                         *)
(* A handler throws where one of its guards fails, where the database      *)
(* rejects its write (unique key, foreign key, missing row, deadlock) and  *)
(* where the process dies.  None of them is caught, so all of them are the *)
(* one action Fail: the request is gone and nothing more is written.       *)
(***************************************************************************)
EXTENDS SessionPhases, FiniteSets

CONSTANTS
  Workers,         \* requests the server may be handling at the same time
  Stores,          \* identities a store row of this session can take
  Users,
  Roles,           \* ALL_STORE_ROLES
  Manager,         \* STORE_MANAGER, the role that never changes store
  MaxStores,       \* MAX_STORES_PER_SESSION
  Mix,             \* the operations clients call in this instance
  InitialStatus,   \* the session as earlier requests left it
  InitialStores,
  InitialMembers,
  RowIds,          \* identities a StoreMember row can take
  None             \* a field of a request that is not set

Operations == {"join", "transfer", "swap", "advance", "create", "remove", "round"}

Member == [id : RowIds, store : Stores, user : Users, role : Roles]

\* PlayerTransfer rows that say the same are told apart by a number.
Transfer ==
  [user : Users, from : Stores, to : Stores, role : Roles, copy : Nat \ {0}]

ASSUME ConstantsAssumption ==
  /\ IsFiniteSet(Workers)
  /\ Manager \in Roles
  /\ MaxStores \in Nat
  /\ Mix \subseteq Operations
  /\ InitialStatus \in Status
  /\ InitialStores \subseteq Stores
  /\ RowIds \subseteq Nat
  /\ None \notin Member \cup Stores \cup Users \cup Roles

\* The seats taken so far respect the two unique keys of StoreMember.
ASSUME InitialMembersAssumption ==
  /\ InitialMembers \subseteq Member
  /\ \A m \in InitialMembers : m.store \in InitialStores
  /\ \A m, n \in InitialMembers : m.id = n.id => m = n
  /\ \A m, n \in InitialMembers :
       m.store = n.store /\ (m.role = n.role \/ m.user = n.user) => m = n

\* The session starts within its limit of stores.
ASSUME InitialStoresAssumption ==
  /\ IsFiniteSet(InitialStores) /\ IsFiniteSet(InitialMembers)
  /\ Cardinality(InitialStores) <= MaxStores

\* At most two players may leave a store in one session.
MaxOutbound == 2

VARIABLES
  status,      \* Session.status
  life,        \* the Store rows: see Life
  members,     \* the StoreMember rows
  transfers,   \* the PlayerTransfer rows, the history of the reconfiguration
  req          \* what each worker's handler has read so far

db   == <<status, life, members, transfers>>
vars == <<status, life, members, transfers, req>>

\* A store does not exist yet, exists, exists and has RandomEvent rows of a
\* round the engine ran for it, or was deleted.
Life == {"unborn", "open", "played", "gone"}

\* The next query of a handler; a transfer past its quota query is cleared.
ClearedSteps  == {"transfer_role", "transfer_user", "transfer_commit"}
HoldingSteps  == {"transfer_quota"} \cup ClearedSteps
TransferSteps == {"transfer_member"} \cup HoldingSteps
PairedSteps   == {"swap_quota", "swap_commit"}
SwapSteps     == {"swap_members"} \cup PairedSteps

AdvanceSteps  == {"advance_stores", "advance_gate", "advance_write"}

Steps ==
  TransferSteps \cup SwapSteps \cup AdvanceSteps
    \cup {"idle", "join_insert", "create_insert", "remove_commit"}

Sides == {"a", "b"}

Request ==
  [ step  : Steps,
    user  : Users \cup {None},     \* join, transfer: the player; swap: player A
    peer  : Users \cup {None},     \* swap: player B
    from  : Stores \cup {None},    \* transfer: the store of origin
    to    : Stores \cup {None},    \* join, transfer, remove: the target store
    role  : Roles \cup {None},     \* join: the seat asked for
    a     : Member \cup {None},    \* the StoreMember row read (swap: of player A)
    b     : Member \cup {None},    \* swap: the row read of player B
    todo  : SUBSET Sides,          \* swap: queries of a Promise.all not yet back
    scope : SUBSET Stores,         \* the stores of the session, as read
    seen  : Status ]               \* advance: the status, as read

Idle ==
  [ step |-> "idle", user |-> None, peer |-> None, from |-> None, to |-> None,
    role |-> None, a |-> None, b |-> None, todo |-> {}, scope |-> {},
    seen |-> InitialStatus ]

-----------------------------------------------------------------------------
(* What the queries return and what the database accepts.                  *)

OpenStores == {s \in Stores : life[s] \in {"open", "played"}}

MembersOf(s) == {m \in members : m.store = s}

Outbound(s) == {t \in transfers : t.from = s}

SeatFree(rows, s, r) == \A m \in rows : ~(m.store = s /\ m.role = r)

NotIn(rows, s, u) == \A m \in rows : ~(m.store = s /\ m.user = u)

\* The keys @@unique([storeId, role]) and @@unique([storeId, userId]) and the
\* foreign key to Store, for a row about to join rows.
Insertable(rows, s, u, r) ==
  /\ s \in OpenStores
  /\ SeatFree(rows, s, r)
  /\ NotIn(rows, s, u)

SeatRow(i, s, u, r) == [id |-> i, store |-> s, user |-> u, role |-> r]

\* A UUID nobody knows: neither in the table nor in a handler's hands.
IdsInUse ==
  {m.id : m \in members}
    \cup {req[w].a.id : w \in {v \in Workers : req[v].a # None}}
    \cup {req[w].b.id : w \in {v \in Workers : req[v].b # None}}

Fresh(i, used) ==
  /\ i \in RowIds \ used
  /\ \A j \in RowIds \ used : i <= j

LogRowSlip(u, s, t, r) ==
  [user |-> u, from |-> t, to |-> s, role |-> r, copy |-> Cardinality(transfers) + 1]

LogRow(u, s, t, r) ==
  LET same == {x \in transfers : x.user = u /\ x.from = s /\ x.to = t /\ x.role = r}
  IN  [user |-> u, from |-> s, to |-> t, role |-> r, copy |-> Cardinality(same) + 1]

-----------------------------------------------------------------------------
(* The conditions the handlers check.  Each comes with the slip that the    *)
(* properties below are there to notice: the slip is part of no behaviour.  *)

WindowOpen == status = "RECONFIGURATION"

MovableSlip(m) == TRUE
Movable(m) == m.role # Manager

MayLeaveSlip(s) == Cardinality(Outbound(s)) <= MaxOutbound
MayLeave(s) == Cardinality(Outbound(s)) < MaxOutbound

GateOpenSlip(s) == Cardinality(Outbound(s)) <= MaxOutbound
GateOpen(s) == Cardinality(Outbound(s)) \in 1..MaxOutbound

RoomForStoreSlip == Cardinality(OpenStores) <= MaxStores
RoomForStore == Cardinality(OpenStores) < MaxStores

-----------------------------------------------------------------------------
(* Requests.                                                               *)

Arrives(w, op) == op \in Mix /\ req[w] = Idle

At(w, step) == req[w].step = step

Goto(w, step) == req' = [req EXCEPT ![w].step = step]

Done(w) == req' = [req EXCEPT ![w] = Idle]

Fail(w) ==
  /\ ~At(w, "idle")
  /\ Done(w)
  /\ UNCHANGED db

-----------------------------------------------------------------------------
(* join: read the store with its members, then insert.                     *)

JoinRead(w, u, s, r) ==
  /\ Arrives(w, "join")
  /\ s \in OpenStores
  /\ NotIn(members, s, u)
  /\ SeatFree(members, s, r)
  /\ Cardinality(MembersOf(s)) < Cardinality(Roles)
  /\ req' = [req EXCEPT ![w] =
       [Idle EXCEPT !.step = "join_insert", !.user = u, !.to = s, !.role = r]]
  /\ UNCHANGED db

JoinInsert(w) ==
  LET q == req[w] IN
  /\ At(w, "join_insert")
  /\ Insertable(members, q.to, q.user, q.role)
  /\ \E i \in RowIds :
       /\ Fresh(i, IdsInUse)
       /\ members' = members \cup {SeatRow(i, q.to, q.user, q.role)}
  /\ Done(w)
  /\ UNCHANGED <<status, life, transfers>>

-----------------------------------------------------------------------------
(* transfer: five reads, then one transaction that moves the row by its id  *)
(* and appends to the history.                                              *)

TransferSession(w, u, s, t) ==
  /\ Arrives(w, "transfer")
  /\ WindowOpen
  /\ s \in OpenStores /\ t \in OpenStores /\ s # t
  /\ req' = [req EXCEPT ![w] =
       [Idle EXCEPT !.step = "transfer_member", !.user = u, !.from = s, !.to = t]]
  /\ UNCHANGED db

TransferMember(w) ==
  /\ At(w, "transfer_member")
  /\ \E m \in MembersOf(req[w].from) :
       /\ m.user = req[w].user
       /\ Movable(m)
       /\ req' = [req EXCEPT ![w].a = m, ![w].step = "transfer_quota"]
  /\ UNCHANGED db

TransferQuota(w) ==
  /\ At(w, "transfer_quota")
  /\ MayLeave(req[w].from)
  /\ Goto(w, "transfer_role")
  /\ UNCHANGED db

TransferRole(w) ==
  /\ At(w, "transfer_role")
  /\ SeatFree(members, req[w].to, req[w].a.role)
  /\ Goto(w, "transfer_user")
  /\ UNCHANGED db

TransferUser(w) ==
  /\ At(w, "transfer_user")
  /\ NotIn(members, req[w].to, req[w].user)
  /\ Goto(w, "transfer_commit")
  /\ UNCHANGED db

TransferCommitSlip(w) ==   \* no transaction: the line stays, the update was refused
  LET q == req[w] IN
  /\ At(w, "transfer_commit")
  /\ transfers' = transfers \cup {LogRow(q.user, q.from, q.to, q.a.role)}
  /\ Done(w)
  /\ UNCHANGED <<status, life, members>>

\* The update names the row by its id alone: where the row is by now does not
\* matter to it, and the history gets the store read at the first step.
TransferCommit(w) ==
  LET q == req[w] IN
  /\ At(w, "transfer_commit")
  /\ \E m \in members :
       /\ m.id = q.a.id
       /\ Insertable(members \ {m}, q.to, m.user, m.role)
       /\ members' = (members \ {m}) \cup {SeatRow(m.id, q.to, m.user, m.role)}
  /\ q.from \in OpenStores
  /\ transfers' = transfers \cup {LogRow(q.user, q.from, q.to, q.a.role)}
  /\ Done(w)
  /\ UNCHANGED <<status, life>>

-----------------------------------------------------------------------------
(* swap: the session, then both players' rows (in either order), then both  *)
(* stores' counts (in either order), then one transaction that deletes the  *)
(* two rows, inserts two and appends two lines to the history.              *)

SwapSession(w, u, v) ==
  /\ Arrives(w, "swap")
  /\ u # v
  /\ WindowOpen
  /\ req' = [req EXCEPT ![w] =
       [Idle EXCEPT !.step = "swap_members", !.user = u, !.peer = v,
                    !.scope = OpenStores, !.todo = Sides]]
  /\ UNCHANGED db

SwapMember(w, side) ==
  /\ At(w, "swap_members")
  /\ side \in req[w].todo
  /\ \E m \in members :
       /\ m.store \in req[w].scope
       /\ m.user = IF side = "a" THEN req[w].user ELSE req[w].peer
       /\ req' = [req EXCEPT ![w][side] = m, ![w].todo = @ \ {side}]
  /\ UNCHANGED db

SwapCheck(w) ==
  LET q == req[w] IN
  /\ At(w, "swap_members")
  /\ q.todo = {}
  /\ q.a.store # q.b.store
  /\ Movable(q.a) /\ Movable(q.b)
  /\ q.a.role = q.b.role
  /\ req' = [req EXCEPT ![w].step = "swap_quota", ![w].todo = Sides]
  /\ UNCHANGED db

\* Both counts are taken before either is looked at; a count at the limit ends
\* the request whichever side it is.
SwapQuota(w, side) ==
  LET q == req[w] IN
  /\ At(w, "swap_quota")
  /\ side \in q.todo
  /\ MayLeave(q[side].store)
  /\ req' = [req EXCEPT ![w].todo = @ \ {side},
                        ![w].step = IF q.todo = {side} THEN "swap_commit" ELSE @]
  /\ UNCHANGED db

SwapInPlaceSlip(w) ==   \* the rows trade players instead of being replaced
  LET q == req[w] IN
  /\ At(w, "swap_commit")
  /\ members' = {IF m.id = q.a.id THEN [m EXCEPT !.user = q.b.user]
                  ELSE IF m.id = q.b.id THEN [m EXCEPT !.user = q.a.user] ELSE m :
                    m \in members}
  /\ Done(w)
  /\ UNCHANGED <<status, life, transfers>>

SwapTornSlip(w) ==   \* no transaction: the process dies after the deletes
  /\ At(w, "swap_commit")
  /\ members' = {m \in members : m.id \notin {req[w].a.id, req[w].b.id}}
  /\ Done(w)
  /\ UNCHANGED <<status, life, transfers>>

SwapCommit(w) ==
  LET q    == req[w]
      role == q.a.role
      rest == {m \in members : m.id \notin {q.a.id, q.b.id}}
  IN
  /\ At(w, "swap_commit")
  /\ \E m \in members : m.id = q.a.id
  /\ \E m \in members : m.id = q.b.id
  /\ Insertable(rest, q.b.store, q.a.user, role)
  /\ Insertable(rest, q.a.store, q.b.user, role)
  /\ \E i, j \in RowIds :
       /\ Fresh(i, IdsInUse) /\ Fresh(j, IdsInUse \cup {i})
       /\ members' = rest \cup {SeatRow(i, q.b.store, q.a.user, role),
                                SeatRow(j, q.a.store, q.b.user, role)}
  /\ transfers' = transfers \cup
       {LogRow(q.a.user, q.a.store, q.b.store, role),
        LogRow(q.b.user, q.b.store, q.a.store, role)}
  /\ Done(w)
  /\ UNCHANGED <<status, life>>

-----------------------------------------------------------------------------
(* advanceStatus by the owner: the status, on RECONFIGURATION the gate in   *)
(* two queries, then an update that does not look at the status again.      *)

AdvanceRead(w) ==
  /\ Arrives(w, "advance")
  /\ status # "FINISHED"
  /\ req' = [req EXCEPT ![w] =
       [Idle EXCEPT !.seen = status,
                    !.step = IF status = "RECONFIGURATION" THEN "advance_stores"
                                                           ELSE "advance_write"]]
  /\ UNCHANGED db

AdvanceStores(w) ==
  /\ At(w, "advance_stores")
  /\ OpenStores # {}
  /\ req' = [req EXCEPT ![w].scope = OpenStores, ![w].step = "advance_gate"]
  /\ UNCHANGED db

AdvanceGate(w) ==
  /\ At(w, "advance_gate")
  /\ \A s \in req[w].scope : GateOpen(s)
  /\ Goto(w, "advance_write")
  /\ UNCHANGED db

AdvanceWrite(w) ==
  /\ At(w, "advance_write")
  /\ status' = NextStatus[req[w].seen]
  /\ Done(w)
  /\ UNCHANGED <<life, members, transfers>>

-----------------------------------------------------------------------------
(* create and remove a store; the engine leaves RandomEvent rows behind.    *)

CreateRead(w) ==
  /\ Arrives(w, "create")
  /\ RoomForStore
  /\ req' = [req EXCEPT ![w] = [Idle EXCEPT !.step = "create_insert"]]
  /\ UNCHANGED db

CreateInsert(w, s) ==
  /\ At(w, "create_insert")
  /\ life[s] = "unborn"
  /\ life' = [life EXCEPT ![s] = "open"]
  /\ Done(w)
  /\ UNCHANGED <<status, members, transfers>>

RemoveRead(w, s) ==
  /\ Arrives(w, "remove")
  /\ s \in OpenStores
  /\ req' = [req EXCEPT ![w] = [Idle EXCEPT !.step = "remove_commit", !.to = s]]
  /\ UNCHANGED db

\* The transaction deletes what hangs off the store except its RandomEvent
\* rows, whose foreign key (ON DELETE RESTRICT) then refuses the store itself.
RemoveCommit(w) ==
  LET s == req[w].to IN
  /\ At(w, "remove_commit")
  /\ life[s] = "open"
  /\ life' = [life EXCEPT ![s] = "gone"]
  /\ members' = members \ MembersOf(s)
  /\ transfers' = {t \in transfers : t.from # s /\ t.to # s}
  /\ Done(w)
  /\ UNCHANGED status

\* runRound persists the events of a store that has a plan.
EnginePersistsEvents(s) ==
  /\ "round" \in Mix
  /\ life[s] = "open"
  /\ life' = [life EXCEPT ![s] = "played"]
  /\ UNCHANGED <<status, members, transfers, req>>

-----------------------------------------------------------------------------
Init ==
  /\ status = InitialStatus
  /\ life = [s \in Stores |-> IF s \in InitialStores THEN "open" ELSE "unborn"]
  /\ members = InitialMembers
  /\ transfers = {}
  /\ req = [w \in Workers |-> Idle]

JoinStep(w) ==
  \/ \E u \in Users, s \in Stores, r \in Roles : JoinRead(w, u, s, r)
  \/ JoinInsert(w)

TransferStep(w) ==
  \/ \E u \in Users, s, t \in Stores : TransferSession(w, u, s, t)
  \/ TransferMember(w) \/ TransferQuota(w)
  \/ TransferRole(w) \/ TransferUser(w)
  \/ TransferCommit(w)

SwapStep(w) ==
  \/ \E u, v \in Users : SwapSession(w, u, v)
  \/ \E side \in Sides : SwapMember(w, side) \/ SwapQuota(w, side)
  \/ SwapCheck(w)
  \/ SwapCommit(w)

AdvanceStep(w) ==
  AdvanceRead(w) \/ AdvanceStores(w) \/ AdvanceGate(w) \/ AdvanceWrite(w)

StoreStep(w) ==
  \/ CreateRead(w)
  \/ \E s \in Stores : CreateInsert(w, s) \/ RemoveRead(w, s)
  \/ RemoveCommit(w)

RequestStep(w) ==
  JoinStep(w) \/ TransferStep(w) \/ SwapStep(w) \/ AdvanceStep(w) \/ StoreStep(w)

Next ==
  \/ \E w \in Workers : RequestStep(w) \/ Fail(w)
  \/ \E s \in Stores : EnginePersistsEvents(s)

Spec == Init /\ [][Next]_vars

-----------------------------------------------------------------------------
\* What a handler has in its variables by the time it reaches a query.
Shape(q) ==
  /\ q.step = "join_insert" => q.user \in Users /\ q.to \in Stores /\ q.role \in Roles
  /\ q.step \in TransferSteps =>
       q.user \in Users /\ q.from \in Stores /\ q.to \in Stores /\ q.from # q.to
  /\ q.step \in HoldingSteps => q.a \in Member /\ q.a.user = q.user
  /\ q.step \in SwapSteps => q.user \in Users /\ q.peer \in Users
  /\ q.step = "swap_members" =>
       ("a" \notin q.todo => q.a \in Member) /\ ("b" \notin q.todo => q.b \in Member)
  /\ q.step \in PairedSteps => q.a \in Member /\ q.b \in Member
  /\ q.step \in AdvanceSteps => q.seen # "FINISHED"
  /\ q.step = "remove_commit" => q.to \in Stores

\* The rows are well formed and so is what each handler holds at each query.
TypeOK ==
  /\ status \in Status
  /\ life \in [Stores -> Life]
  /\ members \subseteq Member
  /\ transfers \subseteq Transfer
  /\ req \in [Workers -> Request]
  /\ \A w \in Workers : Shape(req[w])

\* A row in a handler's hands may have moved or be gone by the time the handler
\* writes, but its identity never comes to mean another player or another role:
\* what was checked of them at the first reads still holds at the write.
HeldRowsKeepOwner ==
  \A w \in Workers, m \in members :
    \A h \in {req[w].a, req[w].b} \ {None} :
       m.id = h.id => m.user = h.user /\ m.role = h.role

\* The documented limit "no máximo 2 saídas por loja": what a client is told,
\* and what assertMandatoryTransfers takes for granted.
OutboundWithinQuota ==
  \A s \in Stores : Cardinality(Outbound(s)) <= MaxOutbound

\* The limit the code does keep: requests that counted before the limit was
\* reached may still be on their way, at most one per worker.
OverrunBounded ==
  \A s \in Stores :
    Cardinality(Outbound(s)) <= MaxOutbound - 1 + Cardinality(Workers)

\* "Por que limitar a 4: a dinâmica e o motor assumem no máximo quatro": what
\* create keeps of it is one store over the limit per overlapping request, so
\* the limit itself when requests come one at a time.
StoresOverrunBounded ==
  Cardinality(OpenStores) <= MaxStores - 1 + Cardinality(Workers)

\* "O Gerente da Loja permanece âncora da unidade": no step, whatever rows the
\* requests in flight have read, moves or drops a manager's row; it goes only
\* with its store.
ManagerStays ==
  [][\A m \in members :
       m.role = Manager => m \in members' \/ life'[m.store] = "gone"]_vars

\* "Evita jogador sumido": a step leaves a player as many seats of a role as he
\* had, except those of a store it deletes.
PlayersKeepTheirSeats ==
  [][\A u \in Users, r \in Roles :
       Cardinality({m \in members : m.user = u /\ m.role = r /\ life'[m.store] # "gone"})
         <= Cardinality({m \in members' : m.user = u /\ m.role = r})]_vars

\* A line of the history is true of the destination when it is written: the
\* player sits there, in the role the line names.
ArrivalLogged ==
  [][\A t \in transfers' \ transfers :
       \E m \in members' : m.user = t.user /\ m.store = t.to /\ m.role = t.role]_vars

\* ... and of the origin: the player left it in that very step.
DepartureTruthful ==
  [][\A t \in transfers' \ transfers :
       \E m \in members \ members' :
          m.user = t.user /\ m.store = t.from /\ m.role = t.role]_vars

\* "Ao sair da reconfiguração, cada loja precisa ter feito 1 a 2 transferências".
GateHolds ==
  [][status = "RECONFIGURATION" /\ status' = "ROUND_2" =>
       \A s \in OpenStores : Cardinality(Outbound(s)) \in 1..MaxOutbound]_vars
=============================================================================
