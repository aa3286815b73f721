---------------------------- MODULE RosterProofs ----------------------------
(***************************************************************************)
(* Theorems about Roster, for any number of stores, players and concurrent *)
(* requests.                                                               *)
(***************************************************************************)
EXTENDS Roster, FiniteSetTheorems, TLAPS

\* The history is finite: it starts empty and grows by one or two lines.
FiniteLog == IsFiniteSet(transfers)

TypeInv == TypeOK /\ FiniteLog

\* A worker without a request holds a well-formed empty one.
LEMMA IdleType == Idle \in Request /\ Shape(Idle)
BY ConstantsAssumption
DEF Idle, Request, Shape, Steps, Sides, TransferSteps, HoldingSteps, ClearedSteps,
    SwapSteps, PairedSteps, AdvanceSteps

\* The request table stays well formed when one request becomes another
\* well-formed one.
ReqOK == req \in [Workers -> Request] /\ \A w \in Workers : Shape(req[w])

\* The request table stays well formed when a well-formed request enters it.
LEMMA UpdateType ==
  ASSUME ReqOK, NEW w \in Workers, NEW q \in Request, Shape(q),
         req' = [req EXCEPT ![w] = q]
  PROVE  ReqOK'
<1>1. \A v \in Workers : req'[v] = IF v = w THEN q ELSE req[v]
  BY DEF ReqOK
<1>2. \A v \in Workers : Shape(req'[v])
  BY <1>1 DEF ReqOK
<1>3. \A v \in Workers : Shape(req[v])'
  BY <1>2 DEF Shape
<1> QED
  BY <1>3 DEF ReqOK

\* A handler that ends leaves a well-formed request table.
LEMMA DoneType ==
  ASSUME ReqOK, NEW w \in Workers, Done(w)
  PROVE  ReqOK'
BY IdleType, UpdateType DEF Done

\* So does a handler that goes on to its next query.
LEMMA GotoType ==
  ASSUME ReqOK, NEW w \in Workers, NEW step \in Steps, Goto(w, step),
         Shape([req[w] EXCEPT !.step = step])
  PROVE  ReqOK'
<1>1. [req[w] EXCEPT !.step = step] \in Request
  BY DEF ReqOK, Request
<1>2. req' = [req EXCEPT ![w] = [req[w] EXCEPT !.step = step]]
  BY DEF Goto
<1> QED
  BY <1>1, <1>2, UpdateType

\* A new line of the history is well formed.
LEMMA LogRowType ==
  ASSUME FiniteLog, NEW u \in Users, NEW s \in Stores, NEW t \in Stores, NEW r \in Roles
  PROVE  LogRow(u, s, t, r) \in Transfer
<1> DEFINE same == {x \in transfers : x.user = u /\ x.from = s /\ x.to = t /\ x.role = r}
<1>1. IsFiniteSet(same)
  BY FS_Subset DEF FiniteLog
<1>2. Cardinality(same) \in Nat
  BY <1>1, FS_CardinalityType
<1>3. Cardinality(same) + 1 \in Nat \ {0}
  BY <1>2
<1> QED
  BY <1>3 DEF LogRow, Transfer

\* The type invariant, part by part.
LEMMA TypeInvParts ==
  TypeInv <=> /\ status \in Status /\ life \in [Stores -> Life]
              /\ members \subseteq Member /\ transfers \subseteq Transfer
              /\ ReqOK /\ FiniteLog
BY DEF TypeInv, TypeOK, ReqOK

\* A step that only reads: all it changes is its own request.
LEMMA ReadType ==
  ASSUME TypeInv, UNCHANGED db, ReqOK'
  PROVE  TypeInv'
BY DEF TypeInv, TypeOK, FiniteLog, ReqOK, db

-----------------------------------------------------------------------------
(* Type correctness, one lemma per operation.                              *)

\* join keeps the type invariant.
LEMMA JoinType ==
  ASSUME TypeInv, NEW w \in Workers, JoinStep(w)
  PROVE  TypeInv'
<1> USE TypeInvParts
<1>1. ASSUME NEW u \in Users, NEW s \in Stores, NEW r \in Roles, JoinRead(w, u, s, r)
      PROVE  TypeInv'
  <2> DEFINE q == [Idle EXCEPT !.step = "join_insert", !.user = u, !.to = s, !.role = r]
  <2>1. q \in Request
    BY IdleType DEF Request, Steps
  <2>2. Shape(q)
    BY DEF Shape, Idle, TransferSteps, HoldingSteps, ClearedSteps, SwapSteps, PairedSteps, AdvanceSteps
  <2> QED
    BY <1>1, <2>1, <2>2, UpdateType, ReadType DEF JoinRead
<1>2. ASSUME JoinInsert(w) PROVE TypeInv'
  <2>1. ReqOK'
    BY <1>2, DoneType DEF JoinInsert
  <2>2. PICK i \in RowIds :
          members' = members \cup {SeatRow(i, req[w].to, req[w].user, req[w].role)}
    BY <1>2 DEF JoinInsert
  <2>3. req[w].to \in Stores /\ req[w].user \in Users /\ req[w].role \in Roles
    BY <1>2 DEF JoinInsert, ReqOK, Shape, At
  <2>4. members' \subseteq Member
    BY <2>2, <2>3 DEF SeatRow, Member
  <2> QED
    BY <1>2, <2>1, <2>4 DEF JoinInsert, FiniteLog, TypeInv, TypeOK, ReqOK
<1> QED
  BY <1>1, <1>2 DEF JoinStep

\* transfer keeps the type invariant, at each of its queries.
LEMMA TransferType ==
  ASSUME TypeInv, NEW w \in Workers, TransferStep(w)
  PROVE  TypeInv'
<1> USE TypeInvParts
<1>1. ASSUME NEW u \in Users, NEW s \in Stores, NEW t \in Stores, TransferSession(w, u, s, t)
      PROVE  TypeInv'
  <2> DEFINE q == [Idle EXCEPT !.step = "transfer_member", !.user = u, !.from = s, !.to = t]
  <2>1. q \in Request
    BY IdleType DEF Request, Steps, TransferSteps
  <2>2. Shape(q)
    BY <1>1 DEF Shape, Idle, TransferSession, TransferSteps, HoldingSteps, ClearedSteps,
                SwapSteps, PairedSteps, AdvanceSteps
  <2> QED
    BY <1>1, <2>1, <2>2, UpdateType, ReadType DEF TransferSession
<1>2. ASSUME TransferMember(w) PROVE TypeInv'
  <2>1. PICK m \in MembersOf(req[w].from) :
          /\ m.user = req[w].user
          /\ req' = [req EXCEPT ![w].a = m, ![w].step = "transfer_quota"]
    BY <1>2 DEF TransferMember
  <2> DEFINE q == [req[w] EXCEPT !.a = m, !.step = "transfer_quota"]
  <2>2. m \in Member
    BY DEF MembersOf
  <2>3. q \in Request
    BY <2>2 DEF ReqOK, Request, Steps, TransferSteps, HoldingSteps
  <2>4. Shape(q)
    BY <1>2, <2>1, <2>2
    DEF ReqOK, Shape, Request, At, TransferMember, TransferSteps, HoldingSteps, ClearedSteps,
        SwapSteps, PairedSteps, AdvanceSteps
  <2>5. req' = [req EXCEPT ![w] = q]
    BY <2>1
  <2> QED
    BY <1>2, <2>3, <2>4, <2>5, UpdateType, ReadType DEF TransferMember
<1>3. ASSUME TransferQuota(w) \/ TransferRole(w) \/ TransferUser(w) PROVE TypeInv'
  <2>1. PICK step \in ClearedSteps : Goto(w, step)
    BY <1>3 DEF TransferQuota, TransferRole, TransferUser, ClearedSteps
  <2>2. req[w].step \in HoldingSteps
    BY <1>3 DEF TransferQuota, TransferRole, TransferUser, At, HoldingSteps, ClearedSteps
  <2>3. Shape([req[w] EXCEPT !.step = step])
    BY <2>1, <2>2
    DEF ReqOK, Shape, Request, TransferSteps, HoldingSteps, ClearedSteps, SwapSteps, PairedSteps, AdvanceSteps
  <2>4. step \in Steps
    BY <2>1 DEF Steps, TransferSteps, HoldingSteps
  <2> QED
    BY <1>3, <2>1, <2>3, <2>4, GotoType, ReadType DEF TransferQuota, TransferRole, TransferUser
<1>4. ASSUME TransferCommit(w) PROVE TypeInv'
  <2>1. ReqOK'
    BY <1>4, DoneType DEF TransferCommit
  <2>2. req[w].user \in Users /\ req[w].from \in Stores /\ req[w].to \in Stores /\ req[w].a \in Member
    BY <1>4 DEF TransferCommit, ReqOK, Shape, At, TransferSteps, HoldingSteps, ClearedSteps
  <2>3. PICK m \in members :
          members' = (members \ {m}) \cup {SeatRow(m.id, req[w].to, m.user, m.role)}
    BY <1>4 DEF TransferCommit
  <2>4. members' \subseteq Member
    BY <2>2, <2>3 DEF SeatRow, Member
  <2>5. transfers' = transfers \cup {LogRow(req[w].user, req[w].from, req[w].to, req[w].a.role)}
    BY <1>4 DEF TransferCommit
  <2>6. LogRow(req[w].user, req[w].from, req[w].to, req[w].a.role) \in Transfer
    BY <2>2, LogRowType DEF Member
  <2>7. FiniteLog'
    BY <2>5, FS_AddElement DEF FiniteLog
  <2> QED
    BY <1>4, <2>1, <2>4, <2>5, <2>6, <2>7 DEF TransferCommit, TypeInv, TypeOK, ReqOK
<1> QED
  BY <1>1, <1>2, <1>3, <1>4 DEF TransferStep

\* The reads of swap keep the type invariant.
LEMMA SwapReadType ==
  ASSUME TypeInv, NEW w \in Workers,
         \/ \E u, v \in Users : SwapSession(w, u, v)
         \/ \E side \in Sides : SwapMember(w, side) \/ SwapQuota(w, side)
         \/ SwapCheck(w)
  PROVE  TypeInv'
<1> USE TypeInvParts
<1>1. ASSUME NEW u \in Users, NEW v \in Users, SwapSession(w, u, v)
      PROVE  TypeInv'
  <2> DEFINE q == [Idle EXCEPT !.step = "swap_members", !.user = u, !.peer = v,
                               !.scope = OpenStores, !.todo = Sides]
  <2>1. q \in Request
    BY IdleType DEF Request, Steps, SwapSteps, OpenStores
  <2>2. Shape(q)
    BY DEF Shape, Idle, Sides, TransferSteps, HoldingSteps, ClearedSteps, SwapSteps, PairedSteps, AdvanceSteps
  <2> QED
    BY <1>1, <2>1, <2>2, UpdateType, ReadType DEF SwapSession
<1>2. ASSUME NEW side \in Sides, SwapMember(w, side)
      PROVE  TypeInv'
  <2>1. PICK m \in members :
          req' = [req EXCEPT ![w][side] = m, ![w].todo = @ \ {side}]
    BY <1>2 DEF SwapMember
  <2>2. m \in Member
    OBVIOUS
  <2>3. CASE side = "a"
    <3> DEFINE q == [req[w] EXCEPT !.a = m, !.todo = req[w].todo \ {"a"}]
    <3>1. q \in Request
      BY <2>2 DEF ReqOK, Request
    <3>2. Shape(q)
      <4>1. /\ q.step = "swap_members" /\ q.user = req[w].user /\ q.peer = req[w].peer
            /\ q.a = m /\ q.b = req[w].b /\ q.todo = req[w].todo \ {"a"}
        <5>1. req[w].step = "swap_members" /\ req[w] \in Request
          BY <1>2 DEF ReqOK, SwapMember, At
        <5> QED
          BY <5>1 DEF Request
      <4>2. /\ req[w].user \in Users /\ req[w].peer \in Users
            /\ "b" \notin req[w].todo => req[w].b \in Member
        BY <1>2 DEF ReqOK, Shape, SwapMember, At, SwapSteps
      <4> QED
        BY <2>2, <4>1, <4>2
        DEF Shape, TransferSteps, HoldingSteps, ClearedSteps, SwapSteps, PairedSteps, AdvanceSteps
    <3>3. req' = [req EXCEPT ![w] = q]
      BY <2>1, <2>3
    <3> QED
      BY <1>2, <3>1, <3>2, <3>3, UpdateType, ReadType DEF SwapMember
  <2>4. CASE side = "b"
    <3> DEFINE q == [req[w] EXCEPT !.b = m, !.todo = req[w].todo \ {"b"}]
    <3>1. q \in Request
      BY <2>2 DEF ReqOK, Request
    <3>2. Shape(q)
      <4>1. /\ q.step = "swap_members" /\ q.user = req[w].user /\ q.peer = req[w].peer
            /\ q.b = m /\ q.a = req[w].a /\ q.todo = req[w].todo \ {"b"}
        <5>1. req[w].step = "swap_members" /\ req[w] \in Request
          BY <1>2 DEF ReqOK, SwapMember, At
        <5> QED
          BY <5>1 DEF Request
      <4>2. /\ req[w].user \in Users /\ req[w].peer \in Users
            /\ "a" \notin req[w].todo => req[w].a \in Member
        BY <1>2 DEF ReqOK, Shape, SwapMember, At, SwapSteps
      <4> QED
        BY <2>2, <4>1, <4>2
        DEF Shape, TransferSteps, HoldingSteps, ClearedSteps, SwapSteps, PairedSteps, AdvanceSteps
    <3>3. req' = [req EXCEPT ![w] = q]
      BY <2>1, <2>4
    <3> QED
      BY <1>2, <3>1, <3>2, <3>3, UpdateType, ReadType DEF SwapMember
  <2> QED
    BY <2>3, <2>4 DEF Sides
<1>3. ASSUME SwapCheck(w) PROVE TypeInv'
  <2> DEFINE q == [req[w] EXCEPT !.step = "swap_quota", !.todo = Sides]
  <2>1. q \in Request
    BY DEF ReqOK, Request, Steps, SwapSteps, PairedSteps, AdvanceSteps
  <2>2. Shape(q)
    BY <1>3
    DEF ReqOK, Shape, Request, At, SwapCheck, Sides, TransferSteps, HoldingSteps, ClearedSteps,
        SwapSteps, PairedSteps, AdvanceSteps
  <2>3. req' = [req EXCEPT ![w] = q]
    BY <1>3 DEF SwapCheck
  <2> QED
    BY <1>3, <2>1, <2>2, <2>3, UpdateType, ReadType DEF SwapCheck
<1>4. ASSUME NEW side \in Sides, SwapQuota(w, side)
      PROVE  TypeInv'
  <2>1. PICK next \in PairedSteps :
          req' = [req EXCEPT ![w].todo = @ \ {side}, ![w].step = next]
    BY <1>4 DEF SwapQuota, At, PairedSteps
  <2>2. req[w] \in Request /\ req[w].step \in PairedSteps /\ next \in Steps
    BY <1>4 DEF SwapQuota, At, ReqOK, PairedSteps, SwapSteps, Steps
  <2> DEFINE q == [req[w] EXCEPT !.todo = req[w].todo \ {side}, !.step = next]
  <2>3. q \in Request
    BY <2>2 DEF Request
  <2>4. Shape(q)
    BY <2>2
    DEF ReqOK, Shape, Request, TransferSteps, HoldingSteps, ClearedSteps, SwapSteps, PairedSteps,
        AdvanceSteps
  <2>5. req' = [req EXCEPT ![w] = q]
    BY <2>1
  <2> QED
    BY <1>4, <2>3, <2>4, <2>5, UpdateType, ReadType DEF SwapQuota
<1> QED
  BY <1>1, <1>2, <1>3, <1>4

\* The transaction of swap keeps the type invariant.
LEMMA SwapCommitType ==
  ASSUME TypeInv, NEW w \in Workers, SwapCommit(w)
  PROVE  TypeInv'
<1> USE TypeInvParts
<1> DEFINE a == req[w].a
           b == req[w].b
           fromA == LogRow(a.user, a.store, b.store, a.role)
           fromB == LogRow(b.user, b.store, a.store, a.role)
<1>1. a \in Member /\ b \in Member
  BY DEF SwapCommit, ReqOK, Shape, At, PairedSteps
<1>2. ReqOK'
  BY DoneType DEF SwapCommit
<1>3. PICK i \in RowIds, j \in RowIds :
        members' = {m \in members : m.id \notin {a.id, b.id}}
                     \cup {SeatRow(i, b.store, a.user, a.role), SeatRow(j, a.store, b.user, a.role)}
  BY DEF SwapCommit
<1>4. members' \subseteq Member
  BY <1>1, <1>3 DEF SeatRow, Member
<1>5. transfers' = transfers \cup {fromA, fromB}
  BY DEF SwapCommit
<1>6. fromA \in Transfer /\ fromB \in Transfer
  BY <1>1, LogRowType DEF Member
<1>7. IsFiniteSet(transfers \cup {fromA}) /\ IsFiniteSet((transfers \cup {fromA}) \cup {fromB})
  BY FS_AddElement DEF FiniteLog
<1>8. FiniteLog'
  <2>1. transfers' = (transfers \cup {fromA}) \cup {fromB}
    BY <1>5
  <2> QED
    BY <1>7, <2>1 DEF FiniteLog
<1> QED
  BY <1>2, <1>4, <1>5, <1>6, <1>8 DEF SwapCommit, TypeInv, TypeOK, ReqOK

\* advanceStatus keeps the type invariant.
LEMMA AdvanceType ==
  ASSUME TypeInv, NEW w \in Workers, AdvanceStep(w)
  PROVE  TypeInv'
<1> USE TypeInvParts
<1>1. ASSUME AdvanceRead(w) PROVE TypeInv'
  <2> DEFINE next == IF status = "RECONFIGURATION" THEN "advance_stores" ELSE "advance_write"
  <2> DEFINE q == [Idle EXCEPT !.seen = status, !.step = next]
  <2>0. next \in Steps
    BY DEF Steps, AdvanceSteps
  <2>1. q \in Request
    BY <2>0, IdleType DEF Request
  <2>2. Shape(q)
    BY <1>1
    DEF Shape, Idle, AdvanceRead, TransferSteps, HoldingSteps, ClearedSteps, SwapSteps, PairedSteps, AdvanceSteps
  <2> QED
    BY <1>1, <2>1, <2>2, UpdateType, ReadType DEF AdvanceRead
<1>2. ASSUME AdvanceStores(w) PROVE TypeInv'
  <2> DEFINE q == [req[w] EXCEPT !.scope = OpenStores, !.step = "advance_gate"]
  <2>1. q \in Request
    BY DEF ReqOK, Request, Steps, AdvanceSteps, OpenStores
  <2>2. Shape(q)
    BY <1>2
    DEF AdvanceStores, At, ReqOK, Shape, Request, TransferSteps, HoldingSteps, ClearedSteps,
        SwapSteps, PairedSteps, AdvanceSteps
  <2> QED
    BY <1>2, <2>1, <2>2, UpdateType, ReadType DEF AdvanceStores
<1>3. ASSUME AdvanceGate(w) PROVE TypeInv'
  <2>0. "advance_write" \in Steps
    BY DEF Steps, AdvanceSteps
  <2>1. Shape([req[w] EXCEPT !.step = "advance_write"])
    BY <1>3
    DEF AdvanceGate, At, ReqOK, Shape, Request, TransferSteps, HoldingSteps, ClearedSteps,
        SwapSteps, PairedSteps, AdvanceSteps
  <2> QED
    BY <1>3, <2>0, <2>1, GotoType, ReadType DEF AdvanceGate
<1>4. ASSUME AdvanceWrite(w) PROVE TypeInv'
  <2>1. ReqOK'
    BY <1>4, DoneType DEF AdvanceWrite
  <2>2. req[w].seen \in Status \ {"FINISHED"}
    BY <1>4 DEF AdvanceWrite, At, ReqOK, Shape, Request, AdvanceSteps
  <2>3. status' \in Status
    BY <1>4, <2>2 DEF AdvanceWrite, NextStatus, Status
  <2> QED
    BY <1>4, <2>1, <2>3 DEF AdvanceWrite, TypeInv, TypeOK, ReqOK, FiniteLog
<1> QED
  BY <1>1, <1>2, <1>3, <1>4 DEF AdvanceStep

\* create and remove keep the type invariant.
LEMMA StoreType ==
  ASSUME TypeInv, NEW w \in Workers, StoreStep(w)
  PROVE  TypeInv'
<1> USE TypeInvParts
<1>1. ASSUME CreateRead(w) PROVE TypeInv'
  <2> DEFINE q == [Idle EXCEPT !.step = "create_insert"]
  <2>1. q \in Request
    BY IdleType DEF Request, Steps
  <2>2. Shape(q)
    BY DEF Shape, Idle, TransferSteps, HoldingSteps, ClearedSteps, SwapSteps, PairedSteps,
           AdvanceSteps
  <2> QED
    BY <1>1, <2>1, <2>2, UpdateType, ReadType DEF CreateRead
<1>2. ASSUME NEW s \in Stores, CreateInsert(w, s) PROVE TypeInv'
  <2>1. ReqOK'
    BY <1>2, DoneType DEF CreateInsert
  <2> QED
    BY <1>2, <2>1 DEF CreateInsert, Life, TypeInv, TypeOK, ReqOK, FiniteLog
<1>3. ASSUME NEW s \in Stores, RemoveRead(w, s) PROVE TypeInv'
  <2> DEFINE q == [Idle EXCEPT !.step = "remove_commit", !.to = s]
  <2>1. q \in Request
    BY IdleType DEF Request, Steps
  <2>2. Shape(q)
    BY DEF Shape, Idle, TransferSteps, HoldingSteps, ClearedSteps, SwapSteps, PairedSteps,
           AdvanceSteps
  <2> QED
    BY <1>3, <2>1, <2>2, UpdateType, ReadType DEF RemoveRead
<1>4. ASSUME RemoveCommit(w) PROVE TypeInv'
  <2>1. ReqOK'
    BY <1>4, DoneType DEF RemoveCommit
  <2>2. life' \in [Stores -> Life] /\ members' \subseteq members /\ transfers' \subseteq transfers
    BY <1>4 DEF RemoveCommit, Life
  <2>3. FiniteLog'
    BY <2>2, FS_Subset DEF FiniteLog
  <2> QED
    BY <1>4, <2>1, <2>2, <2>3 DEF RemoveCommit, TypeInv, TypeOK, ReqOK
<1> QED
  BY <1>1, <1>2, <1>3, <1>4 DEF StoreStep

\* The initial rows are well formed.
LEMMA InitType == Init => TypeInv
<1> SUFFICES ASSUME Init PROVE TypeInv
  OBVIOUS
<1>1. ReqOK
  BY IdleType DEF Init, ReqOK
<1>2. FiniteLog
  BY FS_EmptySet DEF Init, FiniteLog
<1> QED
  BY <1>1, <1>2, TypeInvParts, ConstantsAssumption, InitialMembersAssumption DEF Init, Life

\* Every step keeps the type invariant.
LEMMA NextType == TypeInv /\ [Next]_vars => TypeInv'
<1> SUFFICES ASSUME TypeInv, [Next]_vars PROVE TypeInv'
  OBVIOUS
<1>1. ASSUME NEW w \in Workers, RequestStep(w) PROVE TypeInv'
  BY <1>1, JoinType, TransferType, SwapReadType, SwapCommitType, AdvanceType, StoreType
  DEF RequestStep, SwapStep
<1>2. ASSUME NEW w \in Workers, Fail(w) PROVE TypeInv'
  BY <1>2, DoneType, ReadType, TypeInvParts DEF Fail
<1>3. ASSUME NEW s \in Stores, EnginePersistsEvents(s) PROVE TypeInv'
  BY <1>3 DEF EnginePersistsEvents, Life, TypeInv, TypeOK, FiniteLog
<1>4. ASSUME UNCHANGED vars PROVE TypeInv'
  BY <1>4 DEF vars, TypeInv, TypeOK, FiniteLog
<1> QED
  BY <1>1, <1>2, <1>3, <1>4 DEF Next

\* Whatever requests overlap, the rows stay well formed and every handler holds
\* at each query the values the query needs.
THEOREM TypeCorrect == Spec => []TypeOK
<1>1. TypeInv => TypeOK
  BY DEF TypeInv
<1> QED
  BY <1>1, InitType, NextType, PTL DEF Spec

\* The same with the finiteness of the history, which the counts need.
THEOREM TypeInvariant == Spec => []TypeInv
BY InitType, NextType, PTL DEF Spec

-----------------------------------------------------------------------------
(* What the rows in a handler's hands are worth when it writes.  The rows a *)
(* request read may be moved or deleted by others before it writes, so the  *)
(* checks it made on them survive only because an identity is never reused  *)
(* and no operation changes the player or the role of a row.                *)

IdsUnique == \A m, n \in members : m.id = n.id => m = n

HeldMovable ==
  \A w \in Workers :
    /\ req[w].step \in HoldingSteps => req[w].a.role # Manager
    /\ req[w].step \in PairedSteps =>
         /\ req[w].a.role # Manager
         /\ req[w].b.role = req[w].a.role
         /\ req[w].a.store # req[w].b.store

IInv == TypeInv /\ IdsUnique /\ HeldRowsKeepOwner /\ HeldMovable

Held(w) == {req[w].a, req[w].b} \ {None}

\* A row after the step is a row from before it, with its identity, its player
\* and its role, or has an identity nobody knew.
RowsEvolve ==
  \A n \in members' :
    \/ \E m \in members : m.id = n.id /\ m.user = n.user /\ m.role = n.role
    \/ n.id \notin IdsInUse

\* A handler that ends holds no row it did not hold before.
LEMMA DoneHeld ==
  ASSUME ReqOK, NEW w \in Workers, Done(w), NEW v \in Workers
  PROVE  Held(v)' \subseteq Held(v)
BY DEF Done, Idle, Held, ReqOK

\* A write that changes rows only as RowsEvolve allows leaves held rows their owner.
LEMMA HeldWrite ==
  ASSUME ReqOK, HeldRowsKeepOwner, RowsEvolve,
         \A w \in Workers : Held(w)' \subseteq Held(w)
  PROVE  HeldRowsKeepOwner'
<1> SUFFICES ASSUME NEW w \in Workers, NEW n \in members', NEW h \in Held(w)', n.id = h.id
             PROVE  n.user = h.user /\ n.role = h.role
  BY DEF HeldRowsKeepOwner, Held
<1>1. h \in {req[w].a, req[w].b} /\ h # None
  BY DEF Held
<1>2. h.id \in IdsInUse
  BY <1>1 DEF IdsInUse
<1>3. PICK m \in members : m.id = n.id /\ m.user = n.user /\ m.role = n.role
  BY <1>2 DEF RowsEvolve
<1> QED
  BY <1>1, <1>3 DEF HeldRowsKeepOwner

\* A read adds to the rows held only rows of the table.
LEMMA HeldRead ==
  ASSUME IdsUnique, HeldRowsKeepOwner, UNCHANGED members,
         \A w \in Workers : Held(w)' \subseteq Held(w) \cup members
  PROVE  HeldRowsKeepOwner'
<1> SUFFICES ASSUME NEW w \in Workers, NEW n \in members, NEW h \in Held(w)', n.id = h.id
             PROVE  n.user = h.user /\ n.role = h.role
  BY DEF HeldRowsKeepOwner, Held
<1>1. CASE h \in members
  BY <1>1 DEF IdsUnique
<1>2. CASE h \in Held(w)
  BY <1>2 DEF Held, HeldRowsKeepOwner
<1> QED
  BY <1>1, <1>2

\* Reading: a handler picks up rows of the table and lets rows go.
LEMMA ReadsHold ==
  ASSUME ReqOK, NEW w \in Workers, RequestStep(w) \/ Fail(w), ~Done(w), NEW v \in Workers
  PROVE  Held(v)' \subseteq Held(v) \cup members
<1>1. CASE \E u \in Users, s \in Stores, r \in Roles : JoinRead(w, u, s, r)
  BY <1>1 DEF JoinRead, Idle, Held, ReqOK
<1>2. CASE \E u \in Users, s, t \in Stores : TransferSession(w, u, s, t)
  BY <1>2 DEF TransferSession, Idle, Held, ReqOK
<1>3. CASE TransferMember(w)
  <2>1. PICK m \in members : req' = [req EXCEPT ![w].a = m, ![w].step = "transfer_quota"]
    BY <1>3 DEF TransferMember, MembersOf
  <2> QED
    BY <2>1 DEF Held, ReqOK, Request
<1>4. CASE TransferQuota(w) \/ TransferRole(w) \/ TransferUser(w) \/ AdvanceGate(w)
  BY <1>4 DEF TransferQuota, TransferRole, TransferUser, AdvanceGate, Goto, Held, ReqOK, Request
<1>5. CASE \E u, x \in Users : SwapSession(w, u, x)
  BY <1>5 DEF SwapSession, Idle, Held, ReqOK
<1>6. CASE \E side \in Sides : SwapMember(w, side)
  <2>1. PICK side \in Sides, m \in members :
          req' = [req EXCEPT ![w][side] = m, ![w].todo = @ \ {side}]
    BY <1>6 DEF SwapMember
  <2>2. CASE side = "a"
    <3>1. req' = [req EXCEPT ![w] = [req[w] EXCEPT !.a = m, !.todo = req[w].todo \ {"a"}]]
      BY <2>1, <2>2
    <3> QED
      BY <3>1 DEF Held, ReqOK, Request
  <2>3. CASE side = "b"
    <3>1. req' = [req EXCEPT ![w] = [req[w] EXCEPT !.b = m, !.todo = req[w].todo \ {"b"}]]
      BY <2>1, <2>3
    <3> QED
      BY <3>1 DEF Held, ReqOK, Request
  <2> QED
    BY <2>2, <2>3 DEF Sides
<1>7. CASE SwapCheck(w) \/ AdvanceStores(w)
  BY <1>7 DEF SwapCheck, AdvanceStores, Held, ReqOK, Request
<1>8. CASE \E side \in Sides : SwapQuota(w, side)
  BY <1>8 DEF SwapQuota, Held, ReqOK, Request
<1>9. CASE AdvanceRead(w) \/ CreateRead(w) \/ \E s \in Stores : RemoveRead(w, s)
  BY <1>9 DEF AdvanceRead, CreateRead, RemoveRead, Idle, Held, ReqOK
<1> QED
  BY <1>1, <1>2, <1>3, <1>4, <1>5, <1>6, <1>7, <1>8, <1>9
  DEF RequestStep, JoinStep, TransferStep, SwapStep, AdvanceStep, StoreStep, Fail,
      JoinInsert, TransferCommit, SwapCommit, AdvanceWrite, CreateInsert, RemoveCommit

\* A fresh identity is one nobody knew.
LEMMA FreshFacts ==
  ASSUME NEW i, NEW used, Fresh(i, used)
  PROVE  i \in RowIds /\ i \notin used
BY DEF Fresh

\* The rows under the three writes that change them.
LEMMA JoinRows ==
  ASSUME IdsUnique, NEW w \in Workers, JoinInsert(w)
  PROVE  RowsEvolve /\ IdsUnique'
<1>1. PICK i \in RowIds :
        /\ i \notin IdsInUse
        /\ members' = members \cup {SeatRow(i, req[w].to, req[w].user, req[w].role)}
  BY FreshFacts DEF JoinInsert
<1>2. \A m \in members : m.id # i
  BY <1>1 DEF IdsInUse
<1>3. SeatRow(i, req[w].to, req[w].user, req[w].role).id = i
  BY DEF SeatRow
<1> QED
  BY <1>1, <1>2, <1>3 DEF RowsEvolve, IdsUnique

\* transfer moves one row and keeps its identity.
LEMMA TransferRows ==
  ASSUME IdsUnique, NEW w \in Workers, TransferCommit(w)
  PROVE  RowsEvolve /\ IdsUnique'
<1>1. PICK m \in members :
          members' = (members \ {m}) \cup {SeatRow(m.id, req[w].to, m.user, m.role)}
  BY DEF TransferCommit
<1> DEFINE n == SeatRow(m.id, req[w].to, m.user, m.role)
<1>2. n.id = m.id /\ n.user = m.user /\ n.role = m.role
  BY DEF SeatRow
<1> HIDE DEF n
<1>3. members' = (members \ {m}) \cup {n}
  BY <1>1 DEF n
<1> QED
  BY <1>2, <1>3 DEF RowsEvolve, IdsUnique

\* swap replaces two rows by two of fresh identities.
LEMMA SwapRows ==
  ASSUME IdsUnique, NEW w \in Workers, SwapCommit(w)
  PROVE  RowsEvolve /\ IdsUnique'
<1> DEFINE rest == {m \in members : m.id \notin {req[w].a.id, req[w].b.id}}
<1>1. PICK i \in RowIds, j \in RowIds :
        /\ i \notin IdsInUse /\ j \notin IdsInUse \cup {i}
        /\ members' = rest \cup {SeatRow(i, req[w].b.store, req[w].a.user, req[w].a.role),
                                 SeatRow(j, req[w].a.store, req[w].b.user, req[w].a.role)}
  BY FreshFacts DEF SwapCommit
<1> DEFINE x == SeatRow(i, req[w].b.store, req[w].a.user, req[w].a.role)
           y == SeatRow(j, req[w].a.store, req[w].b.user, req[w].a.role)
<1>2. x.id = i /\ y.id = j /\ i # j
  BY <1>1 DEF SeatRow
<1>3. \A m \in members : m.id # i /\ m.id # j
  BY <1>1 DEF IdsInUse
<1>4. members' = rest \cup {x, y} /\ rest \subseteq members
  BY <1>1
<1> HIDE DEF x, y, rest
<1> QED
  BY <1>1, <1>2, <1>3, <1>4 DEF RowsEvolve, IdsUnique

\* A step that does not touch members, or only deletes from them.
LEMMA OtherRows ==
  ASSUME IdsUnique, members' \subseteq members
  PROVE  RowsEvolve /\ IdsUnique'
BY DEF RowsEvolve, IdsUnique

\* A handler touches no request but its own.
LEMMA OwnRequest ==
  ASSUME ReqOK, NEW w \in Workers, RequestStep(w) \/ Fail(w), NEW v \in Workers, v # w
  PROVE  req'[v] = req[v]
<1> USE DEF ReqOK, Done, Goto
<1>1. CASE JoinStep(w)
  BY <1>1 DEF JoinStep, JoinRead, JoinInsert
<1>2. CASE TransferStep(w)
  <2>1. CASE TransferMember(w)
    BY <2>1 DEF TransferMember
  <2> QED
    BY <1>2, <2>1
    DEF TransferStep, TransferSession, TransferQuota, TransferRole, TransferUser, TransferCommit
<1>3. CASE SwapStep(w)
  <2>1. CASE \E side \in Sides : SwapMember(w, side)
    BY <2>1 DEF SwapMember
  <2>2. CASE \E side \in Sides : SwapQuota(w, side)
    BY <2>2 DEF SwapQuota
  <2> QED
    BY <1>3, <2>1, <2>2 DEF SwapStep, SwapSession, SwapCheck, SwapCommit
<1>4. CASE AdvanceStep(w)
  BY <1>4 DEF AdvanceStep, AdvanceRead, AdvanceStores, AdvanceGate, AdvanceWrite
<1>5. CASE StoreStep(w)
  BY <1>5 DEF StoreStep, CreateRead, CreateInsert, RemoveRead, RemoveCommit
<1>6. CASE Fail(w)
  BY <1>6 DEF Fail
<1> QED
  BY <1>1, <1>2, <1>3, <1>4, <1>5, <1>6 DEF RequestStep

\* What a handler checked of the role of the rows it holds stays checked.
LEMMA MovableStep ==
  ASSUME IInv, NEW w \in Workers, RequestStep(w) \/ Fail(w)
  PROVE  HeldMovable'
<1> USE TypeInvParts DEF IInv
<1> SUFFICES ASSUME NEW v \in Workers
             PROVE  /\ req'[v].step \in HoldingSteps => req'[v].a.role # Manager
                    /\ req'[v].step \in PairedSteps =>
                         /\ req'[v].a.role # Manager
                         /\ req'[v].b.role = req'[v].a.role
                         /\ req'[v].a.store # req'[v].b.store
  BY DEF HeldMovable
<1> USE DEF HoldingSteps, ClearedSteps, PairedSteps
<1>1. CASE v # w
  <2>1. req'[v] = req[v]
    BY <1>1, OwnRequest
  <2> QED
    BY <2>1 DEF HeldMovable
<1>2. CASE v = w /\ TransferMember(w)
  <2>1. PICK m \in members :
          /\ m.role # Manager
          /\ req' = [req EXCEPT ![w].a = m, ![w].step = "transfer_quota"]
    BY <1>2 DEF TransferMember, MembersOf, Movable
  <2> QED
    BY <1>2, <2>1 DEF ReqOK, Request
<1>3. CASE v = w /\ (TransferQuota(w) \/ TransferRole(w) \/ TransferUser(w))
  BY <1>3 DEF TransferQuota, TransferRole, TransferUser, Goto, At, HeldMovable, ReqOK, Request
<1>4. CASE v = w /\ SwapCheck(w)
  BY <1>4 DEF SwapCheck, Movable, ReqOK, Request
<1>5. CASE v = w /\ \E side \in Sides : SwapQuota(w, side)
  BY <1>5 DEF SwapQuota, At, HeldMovable, ReqOK, Request
<1>6. CASE v = w /\ req'[w].step \notin HoldingSteps \cup PairedSteps
  BY <1>6
<1>7. v = w /\ ~TransferMember(w) /\ ~TransferQuota(w) /\ ~TransferRole(w) /\ ~TransferUser(w)
        /\ ~SwapCheck(w) /\ ~(\E side \in Sides : SwapQuota(w, side))
        => req'[w].step \notin HoldingSteps \cup PairedSteps
  <2>1. CASE Done(w)
    BY <2>1 DEF Done, Idle, ReqOK
  <2>2. CASE \E side \in Sides : SwapMember(w, side)
    <3>1. PICK side \in Sides, m \in members :
            req' = [req EXCEPT ![w][side] = m, ![w].todo = @ \ {side}]
      BY <2>2 DEF SwapMember
    <3>2. req'[w].step = req[w].step
      BY <3>1 DEF Sides, ReqOK, Request
    <3> QED
      BY <2>2, <3>2 DEF SwapMember, At
  <2>3. CASE \E u \in Users, s \in Stores, r \in Roles : JoinRead(w, u, s, r)
    BY <2>3 DEF JoinRead, Idle, ReqOK
  <2>4. CASE \E u \in Users, s, t \in Stores : TransferSession(w, u, s, t)
    BY <2>4 DEF TransferSession, Idle, ReqOK
  <2>5. CASE \E u, x \in Users : SwapSession(w, u, x)
    BY <2>5 DEF SwapSession, Idle, ReqOK
  <2>6. CASE CreateRead(w) \/ \E s \in Stores : RemoveRead(w, s)
    BY <2>6 DEF CreateRead, RemoveRead, Idle, ReqOK
  <2>7. CASE AdvanceRead(w)
    BY <2>7 DEF AdvanceRead, Idle, ReqOK
  <2>8. CASE AdvanceStores(w) \/ AdvanceGate(w)
    BY <2>8 DEF AdvanceStores, AdvanceGate, Goto, ReqOK, Request
  <2> QED
    BY <2>1, <2>2, <2>3, <2>4, <2>5, <2>6, <2>7, <2>8
    DEF RequestStep, JoinStep, TransferStep, SwapStep, AdvanceStep, StoreStep, Fail,
        JoinInsert, TransferCommit, SwapCommit, AdvanceWrite, CreateInsert, RemoveCommit
<1> QED
  BY <1>1, <1>2, <1>3, <1>4, <1>5, <1>6, <1>7

\* The inductive invariant holds at the start.
LEMMA InitInv == Init => IInv
<1> SUFFICES ASSUME Init PROVE IInv
  OBVIOUS
<1>1. \A w \in Workers : req[w] = Idle
  BY DEF Init
<1>2. IdsUnique
  BY InitialMembersAssumption DEF Init, IdsUnique
<1>3. HeldRowsKeepOwner
  BY <1>1 DEF HeldRowsKeepOwner, Idle
<1>4. HeldMovable
  BY <1>1 DEF HeldMovable, Idle, HoldingSteps, ClearedSteps, PairedSteps
<1> QED
  BY <1>2, <1>3, <1>4, InitType DEF IInv

\* The handlers that write rows or history, and when.
LEMMA Writers ==
  ASSUME NEW w \in Workers, RequestStep(w) \/ Fail(w)
  PROVE  \/ JoinInsert(w) \/ TransferCommit(w) \/ SwapCommit(w) \/ RemoveCommit(w)
         \/ UNCHANGED <<members, transfers>>
<1> USE DEF db
<1>1. CASE JoinStep(w)
  BY <1>1 DEF JoinStep, JoinRead
<1>2. CASE TransferStep(w)
  BY <1>2
  DEF TransferStep, TransferSession, TransferMember, TransferQuota, TransferRole, TransferUser
<1>3. CASE SwapStep(w)
  BY <1>3 DEF SwapStep, SwapSession, SwapMember, SwapCheck, SwapQuota
<1>4. CASE AdvanceStep(w)
  BY <1>4 DEF AdvanceStep, AdvanceRead, AdvanceStores, AdvanceGate, AdvanceWrite
<1>5. CASE StoreStep(w)
  BY <1>5 DEF StoreStep, CreateRead, CreateInsert, RemoveRead
<1>6. CASE Fail(w)
  BY <1>6 DEF Fail
<1> QED
  BY <1>1, <1>2, <1>3, <1>4, <1>5, <1>6 DEF RequestStep

\* Every operation, as far as the rows and the rows held are concerned: it reads
\* without writing rows, or it writes and is done.
LEMMA RowsStep ==
  ASSUME IInv, NEW w \in Workers, RequestStep(w) \/ Fail(w)
  PROVE  IdsUnique' /\ HeldRowsKeepOwner'
<1> USE TypeInvParts DEF IInv
<1>1. CASE Done(w)
  <2>1. RowsEvolve /\ IdsUnique'
    <3>1. CASE members' \subseteq members
      BY <3>1, OtherRows
    <3>2. JoinInsert(w) \/ TransferCommit(w) \/ SwapCommit(w) \/ members' \subseteq members
      BY Writers DEF RemoveCommit
    <3> QED
      BY <3>1, <3>2, JoinRows, TransferRows, SwapRows
  <2> QED
    BY <1>1, <2>1, DoneHeld, HeldWrite
<1>2. CASE ~Done(w)
  <2>1. UNCHANGED members
    BY <1>2, Writers DEF JoinInsert, TransferCommit, SwapCommit, RemoveCommit
  <2>2. IdsUnique'
    BY <2>1 DEF IdsUnique
  <2> QED
    BY <1>2, <2>1, <2>2, ReadsHold, HeldRead
<1> QED
  BY <1>1, <1>2

\* Every step keeps the inductive invariant.
LEMMA NextInv == IInv /\ [Next]_vars => IInv'
<1> SUFFICES ASSUME IInv, [Next]_vars PROVE IInv'
  OBVIOUS
<1>1. TypeInv'
  BY NextType DEF IInv
<1>2. CASE \E w \in Workers : RequestStep(w) \/ Fail(w)
  BY <1>1, <1>2, RowsStep, MovableStep DEF IInv
<1>3. CASE UNCHANGED <<members, req>>
  BY <1>1, <1>3 DEF IInv, IdsUnique, HeldRowsKeepOwner, HeldMovable
<1> QED
  BY <1>2, <1>3 DEF Next, EnginePersistsEvents, vars

\* What a handler checked of the player and the role of a row still holds when
\* it writes, however many requests ran in between.
THEOREM HeldRowsTheorem == Spec => []HeldRowsKeepOwner
<1>1. IInv => HeldRowsKeepOwner
  BY DEF IInv
<1> QED
  BY <1>1, InitInv, NextInv, PTL DEF Spec

-----------------------------------------------------------------------------
(* The action properties.                                                  *)

\* A step moves or drops a manager's row only with its store.
LEMMA ManagerStep ==
  ASSUME IInv, [Next]_vars, NEW m \in members, m.role = Manager
  PROVE  m \in members' \/ life'[m.store] = "gone"
<1> USE TypeInvParts DEF IInv
<1>1. ASSUME NEW w \in Workers, TransferCommit(w) PROVE m \in members'
  <2>1. PICK n \in members :
          n.id = req[w].a.id /\ members' = (members \ {n}) \cup {SeatRow(n.id, req[w].to, n.user, n.role)}
    BY <1>1 DEF TransferCommit
  <2>2. req[w].step \in HoldingSteps
    BY <1>1 DEF TransferCommit, At, HoldingSteps, ClearedSteps
  <2>3. req[w].a \in Member /\ req[w].a.role # Manager
    BY <2>2 DEF ReqOK, Shape, HeldMovable
  <2>4. req[w].a # None
    BY <2>3, ConstantsAssumption
  <2>5. n.role = req[w].a.role
    BY <2>1, <2>4 DEF HeldRowsKeepOwner
  <2> QED
    BY <2>1, <2>3, <2>5
<1>2. ASSUME NEW w \in Workers, SwapCommit(w) PROVE m \in members'
  <2>1. {n \in members : n.id \notin {req[w].a.id, req[w].b.id}} \subseteq members'
    BY <1>2 DEF SwapCommit
  <2>2. req[w].step \in PairedSteps
    BY <1>2 DEF SwapCommit, At, PairedSteps
  <2>3. /\ req[w].a \in Member /\ req[w].a.role # Manager
        /\ req[w].b \in Member /\ req[w].b.role # Manager
    BY <2>2 DEF ReqOK, Shape, HeldMovable
  <2>4. req[w].a # None /\ req[w].b # None
    BY <2>3, ConstantsAssumption
  <2>5. m.id # req[w].a.id /\ m.id # req[w].b.id
    BY <2>3, <2>4 DEF HeldRowsKeepOwner
  <2> QED
    BY <2>1, <2>5
<1>3. ASSUME NEW w \in Workers, RemoveCommit(w) PROVE m \in members' \/ life'[m.store] = "gone"
  <2>1. req[w].to \in Stores
    BY <1>3 DEF RemoveCommit, At, ReqOK, Shape
  <2>2. life'[req[w].to] = "gone"
    BY <1>3, <2>1 DEF RemoveCommit
  <2>3. members' = members \ MembersOf(req[w].to)
    BY <1>3 DEF RemoveCommit
  <2> QED
    BY <2>2, <2>3 DEF MembersOf
<1>4. CASE members \subseteq members'
  BY <1>4
<1>5. \/ members \subseteq members'
      \/ \E w \in Workers : TransferCommit(w) \/ SwapCommit(w) \/ RemoveCommit(w)
  <2>1. CASE \E w \in Workers : RequestStep(w) \/ Fail(w)
    <3>1. PICK w \in Workers : RequestStep(w) \/ Fail(w)
      BY <2>1
    <3>2. CASE JoinInsert(w)
      BY <3>2 DEF JoinInsert
    <3> QED
      BY <3>1, <3>2, Writers
  <2>2. CASE UNCHANGED members
    BY <2>2
  <2> QED
    BY <2>1, <2>2 DEF Next, EnginePersistsEvents, vars
<1> QED
  BY <1>1, <1>2, <1>3, <1>4, <1>5

\* No transfer or swap in flight, with whatever stale rows, moves a manager.
THEOREM ManagerTheorem == Spec => ManagerStays
<1>1. IInv /\ [Next]_vars =>
        [\A m \in members : m.role = Manager => m \in members' \/ life'[m.store] = "gone"]_vars
  BY ManagerStep
<1> QED
  BY <1>1, InitInv, NextInv, PTL DEF Spec, ManagerStays

\* A line a step appends is true of its destination.
LEMMA ArrivalStep ==
  ASSUME IInv, [Next]_vars, NEW t \in transfers', t \notin transfers
  PROVE  \E m \in members' : m.user = t.user /\ m.store = t.to /\ m.role = t.role
<1> USE TypeInvParts DEF IInv
<1>1. ASSUME NEW w \in Workers, TransferCommit(w)
      PROVE  \E m \in members' : m.user = t.user /\ m.store = t.to /\ m.role = t.role
  <2>1. t = LogRow(req[w].user, req[w].from, req[w].to, req[w].a.role)
    BY <1>1 DEF TransferCommit
  <2>2. t.user = req[w].user /\ t.to = req[w].to /\ t.role = req[w].a.role
    BY <2>1 DEF LogRow
  <2>3. PICK n \in members :
          n.id = req[w].a.id /\ members' = (members \ {n}) \cup {SeatRow(n.id, req[w].to, n.user, n.role)}
    BY <1>1 DEF TransferCommit
  <2>4. req[w].step \in HoldingSteps
    BY <1>1 DEF TransferCommit, At, HoldingSteps, ClearedSteps
  <2>5. req[w].a \in Member /\ req[w].a.user = req[w].user
    BY <2>4 DEF ReqOK, Shape
  <2>6. req[w].a # None
    BY <2>5, ConstantsAssumption
  <2>7. n.role = req[w].a.role /\ n.user = req[w].user
    BY <2>3, <2>5, <2>6 DEF HeldRowsKeepOwner
  <2> DEFINE moved == SeatRow(n.id, req[w].to, n.user, n.role)
  <2>8. moved \in members'
    BY <2>3
  <2>9. moved.user = n.user /\ moved.store = req[w].to /\ moved.role = n.role
    BY DEF SeatRow
  <2> HIDE DEF moved
  <2> QED
    BY <2>2, <2>7, <2>8, <2>9
<1>2. ASSUME NEW w \in Workers, SwapCommit(w)
      PROVE  \E m \in members' : m.user = t.user /\ m.store = t.to /\ m.role = t.role
  <2> DEFINE a == req[w].a
             b == req[w].b
  <2>1. \/ t = LogRow(a.user, a.store, b.store, a.role)
        \/ t = LogRow(b.user, b.store, a.store, a.role)
    BY <1>2 DEF SwapCommit
  <2>2. PICK i \in RowIds, j \in RowIds :
          /\ SeatRow(i, b.store, a.user, a.role) \in members'
          /\ SeatRow(j, a.store, b.user, a.role) \in members'
    BY <1>2 DEF SwapCommit
  <2> QED
    BY <2>1, <2>2 DEF LogRow, SeatRow
<1>3. \E w \in Workers : TransferCommit(w) \/ SwapCommit(w)
  <2>1. CASE \E w \in Workers : RequestStep(w) \/ Fail(w)
    <3>1. PICK w \in Workers : RequestStep(w) \/ Fail(w)
      BY <2>1
    <3>2. ~JoinInsert(w) /\ ~RemoveCommit(w)
      BY DEF JoinInsert, RemoveCommit
    <3> QED
      BY <3>1, <3>2, Writers
  <2>2. CASE UNCHANGED transfers
    BY <2>2
  <2> QED
    BY <2>1, <2>2 DEF Next, EnginePersistsEvents, vars
<1> QED
  BY <1>1, <1>2, <1>3

\* Each line appended to the history names the store and the role the player
\* really has after the step.
THEOREM ArrivalTheorem == Spec => ArrivalLogged
<1>1. IInv /\ [Next]_vars =>
        [\A t \in transfers' \ transfers :
           \E m \in members' : m.user = t.user /\ m.store = t.to /\ m.role = t.role]_vars
  BY ArrivalStep
<1> QED
  BY <1>1, InitInv, NextInv, PTL DEF Spec, ArrivalLogged

-----------------------------------------------------------------------------
(* How far the limit of two departures can be overrun.  A request is cleared *)
(* for a store from the moment it counts fewer than two departures until it  *)
(* writes or fails.  Nobody is cleared once the count is two, so the count   *)
(* and the requests still cleared trade places one for one from there on.    *)

Cleared(w, s) ==
  \/ req[w].step \in ClearedSteps /\ req[w].from = s
  \/ req[w].step = "swap_quota" /\ "a" \notin req[w].todo /\ req[w].a.store = s
  \/ req[w].step = "swap_quota" /\ "b" \notin req[w].todo /\ req[w].b.store = s
  \/ req[w].step = "swap_commit" /\ (req[w].a.store = s \/ req[w].b.store = s)

ClearedFor(s) == {w \in Workers : Cleared(w, s)}

ClearedBound(s) ==
  Cardinality(Outbound(s)) >= MaxOutbound =>
    Cardinality(Outbound(s)) + Cardinality(ClearedFor(s))
      <= MaxOutbound - 1 + Cardinality(Workers)

BoundInv == IInv /\ \A s \in Stores : ClearedBound(s)

\* The sets that are counted are finite.
LEMMA FiniteParts ==
  ASSUME TypeInv, NEW s \in Stores
  PROVE  /\ IsFiniteSet(Outbound(s)) /\ Cardinality(Outbound(s)) \in Nat
         /\ IsFiniteSet(ClearedFor(s)) /\ Cardinality(ClearedFor(s)) \in Nat
         /\ IsFiniteSet(Workers) /\ Cardinality(Workers) \in Nat
         /\ Cardinality(ClearedFor(s)) <= Cardinality(Workers)
<1>1. IsFiniteSet(Outbound(s))
  BY FS_Subset DEF TypeInv, FiniteLog, Outbound
<1>2. /\ IsFiniteSet(Workers) /\ IsFiniteSet(ClearedFor(s))
      /\ Cardinality(ClearedFor(s)) <= Cardinality(Workers)
  BY ConstantsAssumption, FS_Subset DEF ClearedFor
<1> QED
  BY <1>1, <1>2, FS_CardinalityType

\* No new departure from s, nobody newly cleared for it.
LEMMA BoundShrinks ==
  ASSUME TypeInv, NEW s \in Stores, ClearedBound(s),
         Outbound(s)' \subseteq Outbound(s), ClearedFor(s)' \subseteq ClearedFor(s)
  PROVE  ClearedBound(s)'
<1>1. /\ Cardinality(Outbound(s)') <= Cardinality(Outbound(s)) /\ IsFiniteSet(Outbound(s)')
      /\ Cardinality(ClearedFor(s)') <= Cardinality(ClearedFor(s)) /\ IsFiniteSet(ClearedFor(s)')
  BY FiniteParts, FS_Subset
<1>2. Cardinality(Outbound(s)') \in Nat /\ Cardinality(ClearedFor(s)') \in Nat
  BY <1>1, FS_CardinalityType
<1> QED
  BY <1>1, <1>2, FiniteParts DEF ClearedBound, MaxOutbound

\* Somebody is cleared for s, and the count he saw is still the count.
LEMMA BoundCounts ==
  ASSUME TypeInv, NEW s \in Stores, Cardinality(Outbound(s)) < MaxOutbound,
         Outbound(s)' = Outbound(s)
  PROVE  ClearedBound(s)'
BY FiniteParts DEF ClearedBound, MaxOutbound

\* A cleared request writes its departure and is done.
LEMMA BoundCommits ==
  ASSUME TypeInv, NEW s \in Stores, ClearedBound(s), NEW w \in ClearedFor(s), NEW x,
         Outbound(s)' \subseteq Outbound(s) \cup {x},
         ClearedFor(s)' \subseteq ClearedFor(s) \ {w}
  PROVE  ClearedBound(s)'
<1> DEFINE out == Outbound(s) \cup {x}
           left == ClearedFor(s) \ {w}
<1>1. /\ IsFiniteSet(out) /\ Cardinality(out) <= Cardinality(Outbound(s)) + 1
      /\ IsFiniteSet(left) /\ Cardinality(left) = Cardinality(ClearedFor(s)) - 1
  BY FiniteParts, FS_AddElement, FS_RemoveElement
<1>2. /\ Cardinality(Outbound(s)') <= Cardinality(out) /\ IsFiniteSet(Outbound(s)')
      /\ Cardinality(ClearedFor(s)') <= Cardinality(left) /\ IsFiniteSet(ClearedFor(s)')
  BY <1>1, FS_Subset
<1>3. /\ Cardinality(Outbound(s)') \in Nat /\ Cardinality(ClearedFor(s)') \in Nat
      /\ Cardinality(out) \in Nat
  BY <1>1, <1>2, FS_CardinalityType
<1> QED
  BY <1>1, <1>2, <1>3, FiniteParts DEF ClearedBound, MaxOutbound

\* A step that clears nothing of its own request clears nothing at all.
LEMMA OthersCleared ==
  ASSUME ReqOK, NEW w \in Workers, RequestStep(w) \/ Fail(w), NEW s \in Stores,
         Cleared(w, s)' => Cleared(w, s)
  PROVE  ClearedFor(s)' \subseteq ClearedFor(s)
<1> SUFFICES ASSUME NEW v \in Workers, Cleared(v, s)' PROVE Cleared(v, s)
  BY DEF ClearedFor
<1>1. CASE v = w
  BY <1>1
<1>2. CASE v # w
  BY <1>2, OwnRequest DEF Cleared
<1> QED
  BY <1>1, <1>2

\* A handler that ended is cleared for nothing.
LEMMA DoneNotCleared ==
  ASSUME ReqOK, NEW w \in Workers, RequestStep(w) \/ Fail(w), Done(w), NEW s \in Stores
  PROVE  ClearedFor(s)' \subseteq ClearedFor(s) \ {w}
<1>1. ~Cleared(w, s)'
  BY DEF Done, Idle, Cleared, ClearedSteps, ReqOK
<1>2. ClearedFor(s)' \subseteq ClearedFor(s)
  BY <1>1, OthersCleared
<1> QED
  BY <1>1, <1>2 DEF ClearedFor

\* A step of transfer keeps the bound: a line is appended by a request that counted.
LEMMA BoundTransfer ==
  ASSUME TypeInv, NEW w \in Workers, TransferStep(w), NEW s \in Stores, ClearedBound(s)
  PROVE  ClearedBound(s)'
<1> USE TypeInvParts
<1>0. RequestStep(w)
  BY DEF RequestStep
<1>1. ASSUME UNCHANGED transfers, Cleared(w, s)' => Cleared(w, s)
      PROVE  ClearedBound(s)'
  <2>1. ClearedFor(s)' \subseteq ClearedFor(s)
    BY <1>0, <1>1, OthersCleared
  <2>2. Outbound(s)' \subseteq Outbound(s)
    BY <1>1 DEF Outbound
  <2> QED
    BY <2>1, <2>2, BoundShrinks
<1>2. CASE \E u \in Users, x, y \in Stores : TransferSession(w, u, x, y)
  BY <1>1, <1>2 DEF TransferSession, Cleared, ClearedSteps, Idle, ReqOK, db
<1>3. CASE TransferMember(w)
  <2>1. PICK m \in members : req' = [req EXCEPT ![w].a = m, ![w].step = "transfer_quota"]
    BY <1>3 DEF TransferMember, MembersOf
  <2>2. req'[w].step = "transfer_quota"
    BY <2>1 DEF ReqOK, Request
  <2> QED
    BY <1>1, <1>3, <2>2 DEF TransferMember, Cleared, ClearedSteps, db
<1>4. CASE TransferQuota(w)
  <2>1. CASE req[w].from = s
    BY <1>4, <2>1, BoundCounts DEF TransferQuota, MayLeave, Outbound, db
  <2>2. CASE req[w].from # s
    BY <1>1, <1>4, <2>2 DEF TransferQuota, Goto, Cleared, ClearedSteps, ReqOK, Request, db
  <2> QED
    BY <2>1, <2>2
<1>5. CASE TransferRole(w) \/ TransferUser(w)
  BY <1>1, <1>5
  DEF TransferRole, TransferUser, Goto, At, Cleared, ClearedSteps, ReqOK, Request, db
<1>6. CASE TransferCommit(w)
  <2> DEFINE x == LogRow(req[w].user, req[w].from, req[w].to, req[w].a.role)
  <2>1. ClearedFor(s)' \subseteq ClearedFor(s) \ {w}
    BY <1>0, <1>6, DoneNotCleared DEF TransferCommit
  <2>2. transfers' = transfers \cup {x}
    BY <1>6 DEF TransferCommit
  <2>3. x.from = req[w].from
    BY DEF LogRow
  <2>4. CASE req[w].from = s
    <3>1. w \in ClearedFor(s)
      BY <1>6, <2>4 DEF TransferCommit, At, ClearedFor, Cleared, ClearedSteps
    <3>2. Outbound(s)' \subseteq Outbound(s) \cup {x}
      BY <2>2 DEF Outbound
    <3> QED
      BY <2>1, <3>1, <3>2, BoundCommits
  <2>5. CASE req[w].from # s
    <3>1. Outbound(s)' \subseteq Outbound(s)
      BY <2>2, <2>3, <2>5 DEF Outbound
    <3> QED
      BY <2>1, <3>1, BoundShrinks
  <2> QED
    BY <2>4, <2>5
<1> QED
  BY <1>2, <1>3, <1>4, <1>5, <1>6 DEF TransferStep

\* A step of swap keeps the bound in both stores.
LEMMA BoundSwap ==
  ASSUME IInv, NEW w \in Workers, SwapStep(w), NEW s \in Stores, ClearedBound(s)
  PROVE  ClearedBound(s)'
<1> USE TypeInvParts DEF IInv
<1>0. RequestStep(w)
  BY DEF RequestStep
<1>1. ASSUME UNCHANGED transfers, Cleared(w, s)' => Cleared(w, s)
      PROVE  ClearedBound(s)'
  <2>1. ClearedFor(s)' \subseteq ClearedFor(s)
    BY <1>0, <1>1, OthersCleared
  <2>2. Outbound(s)' \subseteq Outbound(s)
    BY <1>1 DEF Outbound
  <2> QED
    BY <2>1, <2>2, BoundShrinks
<1>2. CASE \E u, v \in Users : SwapSession(w, u, v)
  BY <1>1, <1>2 DEF SwapSession, Cleared, ClearedSteps, Idle, ReqOK, db
<1>3. CASE \E side \in Sides : SwapMember(w, side)
  <2>1. PICK side \in Sides, m \in members :
          req' = [req EXCEPT ![w][side] = m, ![w].todo = @ \ {side}]
    BY <1>3 DEF SwapMember
  <2>2. req'[w].step = "swap_members"
    BY <1>3, <2>1 DEF SwapMember, At, Sides, ReqOK, Request
  <2> QED
    BY <1>1, <1>3, <2>2 DEF SwapMember, Cleared, ClearedSteps, db
<1>4. CASE SwapCheck(w)
  BY <1>1, <1>4 DEF SwapCheck, Cleared, ClearedSteps, Sides, ReqOK, Request, db
<1>5. ASSUME NEW side \in Sides, SwapQuota(w, side) PROVE ClearedBound(s)'
  <2>1. CASE req[w][side].store = s
    BY <1>5, <2>1, BoundCounts DEF SwapQuota, MayLeave, Outbound, db
  <2>2. CASE req[w][side].store # s
    <3>1. /\ req[w].step = "swap_quota" /\ req[w].todo \subseteq Sides
          /\ req'[w].todo = req[w].todo \ {side}
          /\ req'[w].a = req[w].a /\ req'[w].b = req[w].b
          /\ req'[w].step = IF req[w].todo = {side} THEN "swap_commit" ELSE "swap_quota"
      BY <1>5 DEF SwapQuota, At, ReqOK, Request
    <3>2. CASE side = "a"
      <4>1. req[w].a.store # s
        BY <2>2, <3>2
      <4>2. ASSUME Cleared(w, s)'
            PROVE  "b" \notin req[w].todo /\ req[w].b.store = s
        BY <3>1, <3>2, <4>1, <4>2 DEF Cleared, ClearedSteps, Sides
      <4>3. Cleared(w, s)' => Cleared(w, s)
        BY <3>1, <4>2 DEF Cleared
      <4> QED
        BY <1>1, <1>5, <4>3 DEF SwapQuota, db
    <3>3. CASE side = "b"
      <4>1. req[w].b.store # s
        BY <2>2, <3>3
      <4>2. ASSUME Cleared(w, s)'
            PROVE  "a" \notin req[w].todo /\ req[w].a.store = s
        BY <3>1, <3>3, <4>1, <4>2 DEF Cleared, ClearedSteps, Sides
      <4>3. Cleared(w, s)' => Cleared(w, s)
        BY <3>1, <4>2 DEF Cleared
      <4> QED
        BY <1>1, <1>5, <4>3 DEF SwapQuota, db
    <3> QED
      BY <3>2, <3>3 DEF Sides
  <2> QED
    BY <2>1, <2>2
<1>6. CASE SwapCommit(w)
  <2> DEFINE a == req[w].a
             b == req[w].b
             x == LogRow(a.user, a.store, b.store, a.role)
             y == LogRow(b.user, b.store, a.store, a.role)
  <2>1. ClearedFor(s)' \subseteq ClearedFor(s) \ {w}
    BY <1>0, <1>6, DoneNotCleared DEF SwapCommit
  <2>2. transfers' = transfers \cup {x, y}
    BY <1>6 DEF SwapCommit
  <2>3. x.from = a.store /\ y.from = b.store
    BY DEF LogRow
  <2>4. req[w].step = "swap_commit" /\ a.store # b.store
    BY <1>6 DEF SwapCommit, At, HeldMovable, PairedSteps
  <2> HIDE DEF x, y
  <2>5. CASE a.store = s
    <3>1. w \in ClearedFor(s)
      BY <2>4, <2>5 DEF ClearedFor, Cleared
    <3>2. Outbound(s)' \subseteq Outbound(s) \cup {x}
      BY <2>2, <2>3, <2>4, <2>5 DEF Outbound
    <3> QED
      BY <2>1, <3>1, <3>2, BoundCommits
  <2>6. CASE b.store = s
    <3>1. w \in ClearedFor(s)
      BY <2>4, <2>6 DEF ClearedFor, Cleared
    <3>2. Outbound(s)' \subseteq Outbound(s) \cup {y}
      BY <2>2, <2>3, <2>4, <2>6 DEF Outbound
    <3> QED
      BY <2>1, <3>1, <3>2, BoundCommits
  <2>7. CASE a.store # s /\ b.store # s
    <3>1. Outbound(s)' \subseteq Outbound(s)
      BY <2>2, <2>3, <2>7 DEF Outbound
    <3> QED
      BY <2>1, <3>1, BoundShrinks
  <2> QED
    BY <2>5, <2>6, <2>7
<1> QED
  BY <1>2, <1>3, <1>4, <1>5, <1>6 DEF SwapStep

\* join, advance, create and remove clear nobody and add no departure.
LEMMA BoundOther ==
  ASSUME TypeInv, NEW w \in Workers, NEW s \in Stores, ClearedBound(s),
         JoinStep(w) \/ AdvanceStep(w) \/ StoreStep(w) \/ Fail(w)
  PROVE  ClearedBound(s)'
<1> USE TypeInvParts
<1>1. RemoveCommit(w) \/ UNCHANGED transfers
  BY DEF JoinStep, JoinRead, JoinInsert, AdvanceStep, AdvanceRead, AdvanceStores, AdvanceGate,
         AdvanceWrite, StoreStep, CreateRead, CreateInsert, RemoveRead, Fail, db
<1>2. Outbound(s)' \subseteq Outbound(s)
  BY <1>1 DEF RemoveCommit, Outbound
<1>3. req'[w].step \in {"idle", "join_insert", "create_insert", "remove_commit"} \cup AdvanceSteps
  <2> USE DEF ReqOK, Done, Goto, Idle, AdvanceSteps
  <2>1. CASE Done(w)
    BY <2>1
  <2>2. CASE \E u \in Users, x \in Stores, r \in Roles : JoinRead(w, u, x, r)
    BY <2>2 DEF JoinRead
  <2>3. CASE AdvanceRead(w)
    BY <2>3 DEF AdvanceRead
  <2>4. CASE AdvanceStores(w) \/ AdvanceGate(w)
    BY <2>4 DEF AdvanceStores, AdvanceGate, Request
  <2>5. CASE CreateRead(w)
    BY <2>5 DEF CreateRead
  <2>6. CASE \E x \in Stores : RemoveRead(w, x)
    BY <2>6 DEF RemoveRead
  <2> QED
    BY <2>1, <2>2, <2>3, <2>4, <2>5, <2>6
    DEF JoinStep, JoinInsert, AdvanceStep, AdvanceWrite, StoreStep, CreateInsert, RemoveCommit, Fail
<1>4. ~Cleared(w, s)'
  BY <1>3 DEF Cleared, ClearedSteps, AdvanceSteps
<1>5. ClearedFor(s)' \subseteq ClearedFor(s)
  BY <1>4, OthersCleared DEF RequestStep
<1> QED
  BY <1>2, <1>5, BoundShrinks

\* The history is empty at the start.
LEMMA InitBound == Init => BoundInv
<1> SUFFICES ASSUME Init, NEW s \in Stores PROVE ClearedBound(s)
  BY InitInv DEF BoundInv
<1>1. Outbound(s) = {}
  BY DEF Init, Outbound
<1> QED
  BY <1>1, FS_EmptySet DEF ClearedBound, MaxOutbound

\* Every step keeps the bound on lines written and lines cleared to be written.
LEMMA NextBound == BoundInv /\ [Next]_vars => BoundInv'
<1> SUFFICES ASSUME BoundInv, [Next]_vars, NEW s \in Stores PROVE ClearedBound(s)'
  BY NextInv DEF BoundInv
<1> USE DEF BoundInv
<1>1. ASSUME NEW w \in Workers, RequestStep(w) \/ Fail(w) PROVE ClearedBound(s)'
  BY <1>1, BoundTransfer, BoundSwap, BoundOther DEF RequestStep, IInv
<1>2. CASE UNCHANGED <<transfers, req>>
  BY <1>2 DEF ClearedBound, Outbound, ClearedFor, Cleared
<1> QED
  BY <1>1, <1>2 DEF Next, EnginePersistsEvents, vars

\* At most one request per worker is cleared, which gives the overrun.
LEMMA BoundGivesOverrun == BoundInv => OverrunBounded
<1> SUFFICES ASSUME BoundInv, NEW s \in Stores
             PROVE  Cardinality(Outbound(s)) <= MaxOutbound - 1 + Cardinality(Workers)
  BY DEF OverrunBounded
<1>1. TypeInv /\ ClearedBound(s)
  BY DEF BoundInv, IInv
<1> QED
  BY <1>1, FiniteParts DEF ClearedBound, MaxOutbound

\* However many requests are in flight, a store loses at most one player more
\* than one per request: the limit of two is overrun by the overlap alone.
THEOREM OverrunTheorem == Spec => []OverrunBounded
BY InitBound, NextBound, BoundGivesOverrun, PTL DEF Spec

\* With one request at a time the limit stated to the players holds.
THEOREM QuotaTheorem ==
  ASSUME Cardinality(Workers) = 1
  PROVE  Spec => []OutboundWithinQuota
<1>1. BoundInv => OutboundWithinQuota
  BY BoundGivesOverrun DEF OverrunBounded, OutboundWithinQuota, MaxOutbound
<1> QED
  BY <1>1, InitBound, NextBound, PTL DEF Spec
-----------------------------------------------------------------------------
(* How far the limit of stores can be overrun.  A request of create that saw  *)
(* room is counted with the stores there are: it either becomes one or fails. *)

Creating == {w \in Workers : req[w].step = "create_insert"}

StoresInv ==
  /\ TypeInv
  /\ IsFiniteSet(OpenStores)
  /\ Cardinality(OpenStores) + Cardinality(Creating) <= MaxStores - 1 + Cardinality(Workers)

\* The requests that are creating are finitely many, at most all.
LEMMA CreatingFacts ==
  /\ IsFiniteSet(Creating) /\ Cardinality(Creating) \in Nat
  /\ Cardinality(Workers) \in Nat /\ Cardinality(Creating) <= Cardinality(Workers)
BY ConstantsAssumption, FS_Subset, FS_CardinalityType DEF Creating

\* Neither more stores nor more requests that create one.
LEMMA StoresShrink ==
  ASSUME StoresInv, TypeInv', OpenStores' \subseteq OpenStores, Creating' \subseteq Creating
  PROVE  StoresInv'
<1>1. /\ IsFiniteSet(OpenStores') /\ Cardinality(OpenStores') <= Cardinality(OpenStores)
      /\ Cardinality(OpenStores) \in Nat /\ Cardinality(OpenStores') \in Nat
  BY FS_Subset, FS_CardinalityType DEF StoresInv
<1>2. Cardinality(Creating') <= Cardinality(Creating) /\ Cardinality(Creating') \in Nat
  BY CreatingFacts, FS_Subset, FS_CardinalityType
<1> QED  BY <1>1, <1>2, CreatingFacts, ConstantsAssumption DEF StoresInv

\* Only create and remove touch the stores that exist, and only a create that
\* saw room is a create that will insert.
LEMMA StoresWriters ==
  ASSUME TypeInv, NEW w \in Workers, RequestStep(w) \/ Fail(w)
  PROVE  \/ CreateRead(w) \/ (\E s \in Stores : CreateInsert(w, s))
         \/ RemoveCommit(w) /\ Creating' \subseteq Creating
         \/ UNCHANGED life /\ Creating' \subseteq Creating
<1> USE TypeInvParts
<1>1. ASSUME ~CreateRead(w), ~(\E s \in Stores : CreateInsert(w, s)), ~RemoveCommit(w)
      PROVE  UNCHANGED life
  BY <1>1
  DEF RequestStep, JoinStep, JoinRead, JoinInsert, TransferStep, TransferSession, TransferMember,
      TransferQuota, TransferRole, TransferUser, TransferCommit, SwapStep, SwapSession, SwapMember,
      SwapCheck, SwapQuota, SwapCommit, AdvanceStep, AdvanceRead, AdvanceStores, AdvanceGate,
      AdvanceWrite, StoreStep, RemoveRead, Fail, db
<1>2. ASSUME ~CreateRead(w)  PROVE req'[w].step # "create_insert"
  <2>1. CASE Done(w)
    BY <2>1 DEF Done, Idle, ReqOK
  <2>2. CASE \E u \in Users, s \in Stores, r \in Roles : JoinRead(w, u, s, r)
    BY <2>2 DEF JoinRead, Idle, ReqOK
  <2>3. CASE \E u \in Users, s, t \in Stores : TransferSession(w, u, s, t)
    BY <2>3 DEF TransferSession, Idle, ReqOK
  <2>4. CASE TransferMember(w)
    BY <2>4 DEF TransferMember, ReqOK, Request
  <2>5. CASE TransferQuota(w) \/ TransferRole(w) \/ TransferUser(w) \/ AdvanceGate(w)
    BY <2>5 DEF TransferQuota, TransferRole, TransferUser, AdvanceGate, Goto, ReqOK, Request
  <2>6. CASE \E u, x \in Users : SwapSession(w, u, x)
    BY <2>6 DEF SwapSession, Idle, ReqOK
  <2>7. CASE \E side \in Sides : SwapMember(w, side)
    <3>1. PICK side \in Sides, m \in members :
            req' = [req EXCEPT ![w][side] = m, ![w].todo = @ \ {side}]
      BY <2>7 DEF SwapMember
    <3>2. req'[w].step = req[w].step
      BY <3>1 DEF Sides, ReqOK, Request
    <3> QED  BY <2>7, <3>2 DEF SwapMember, At
  <2>8. CASE SwapCheck(w) \/ AdvanceStores(w)
    BY <2>8 DEF SwapCheck, AdvanceStores, ReqOK, Request
  <2>9. CASE \E side \in Sides : SwapQuota(w, side)
    BY <2>9 DEF SwapQuota, At, ReqOK, Request
  <2>10. CASE AdvanceRead(w) \/ \E s \in Stores : RemoveRead(w, s)
    BY <2>10 DEF AdvanceRead, RemoveRead, Idle, ReqOK
  <2> QED
    BY <1>2, <2>1, <2>2, <2>3, <2>4, <2>5, <2>6, <2>7, <2>8, <2>9, <2>10
    DEF RequestStep, JoinStep, TransferStep, SwapStep, AdvanceStep, StoreStep, Fail,
        JoinInsert, TransferCommit, SwapCommit, AdvanceWrite, CreateInsert, RemoveCommit
<1>3. ASSUME ~CreateRead(w)  PROVE Creating' \subseteq Creating
  BY <1>2, <1>3, OwnRequest DEF Creating
<1> QED  BY <1>1, <1>3

\* Every step keeps the bound on the stores there are and those on their way.
LEMMA StoresStep ==
  ASSUME StoresInv, [Next]_vars
  PROVE  StoresInv'
<1>0. TypeInv /\ TypeInv'
  BY NextType DEF StoresInv
<1> USE TypeInvParts
<1>1. ASSUME NEW w \in Workers, RequestStep(w), CreateRead(w)  PROVE StoresInv'
  <2>1. OpenStores' = OpenStores /\ Cardinality(OpenStores) < MaxStores
    BY <1>1 DEF CreateRead, RoomForStore, OpenStores, db
  <2>2. Cardinality(OpenStores) \in Nat
    BY FS_CardinalityType DEF StoresInv
  <2>3. Cardinality(Creating') \in Nat /\ Cardinality(Creating') <= Cardinality(Workers)
    BY ConstantsAssumption, FS_Subset, FS_CardinalityType DEF Creating
  <2> QED  BY <1>0, <2>1, <2>2, <2>3, CreatingFacts, ConstantsAssumption DEF StoresInv
<1>2. ASSUME NEW w \in Workers, NEW s \in Stores, RequestStep(w), CreateInsert(w, s)  PROVE StoresInv'
  <2>1. OpenStores' = OpenStores \cup {s}
    BY <1>0, <1>2 DEF CreateInsert, OpenStores
  <2>2. /\ IsFiniteSet(OpenStores') /\ Cardinality(OpenStores') <= Cardinality(OpenStores) + 1
        /\ Cardinality(OpenStores') \in Nat /\ Cardinality(OpenStores) \in Nat
    <3>1. IsFiniteSet(OpenStores) /\ Cardinality(OpenStores) \in Nat
      BY FS_CardinalityType DEF StoresInv
    <3>2. /\ IsFiniteSet(OpenStores \cup {s})
          /\ Cardinality(OpenStores \cup {s}) <= Cardinality(OpenStores) + 1
      <4>1. IsFiniteSet(OpenStores \cup {s})
        BY <3>1, FS_AddElement
      <4>2. \/ Cardinality(OpenStores \cup {s}) = Cardinality(OpenStores)
            \/ Cardinality(OpenStores \cup {s}) = Cardinality(OpenStores) + 1
        BY <3>1, FS_AddElement
      <4> QED  BY <3>1, <4>1, <4>2
    <3> QED  BY <2>1, <3>1, <3>2, FS_CardinalityType
  <2>3. w \in Creating /\ Creating' = Creating \ {w}
    <3>1. req' = [req EXCEPT ![w] = Idle] /\ req[w].step = "create_insert"
      BY <1>2 DEF CreateInsert, Done, At
    <3> QED  BY <1>0, <3>1 DEF Creating, Idle, ReqOK
  <2>4. Cardinality(Creating') = Cardinality(Creating) - 1
    BY <2>3, CreatingFacts, FS_RemoveElement
  <2> QED  BY <1>0, <2>2, <2>4, CreatingFacts, ConstantsAssumption DEF StoresInv
<1>3. ASSUME NEW w \in Workers, RemoveCommit(w), Creating' \subseteq Creating  PROVE StoresInv'
  <2>1. OpenStores' \subseteq OpenStores
    BY <1>0, <1>3 DEF RemoveCommit, OpenStores
  <2> QED  BY <1>0, <1>3, <2>1, StoresShrink
<1>4. ASSUME UNCHANGED life, Creating' \subseteq Creating  PROVE StoresInv'
  BY <1>0, <1>4, StoresShrink DEF OpenStores
<1>5. ASSUME NEW s \in Stores, EnginePersistsEvents(s)  PROVE StoresInv'
  <2>1. OpenStores' \subseteq OpenStores /\ Creating' = Creating
    BY <1>0, <1>5 DEF EnginePersistsEvents, OpenStores, Creating
  <2> QED  BY <1>0, <2>1, StoresShrink
<1>6. ASSUME NEW w \in Workers, RequestStep(w) \/ Fail(w)  PROVE StoresInv'
  <2>1. CreateRead(w) \/ (\E s \in Stores : CreateInsert(w, s)) => RequestStep(w)
    BY DEF RequestStep, StoreStep
  <2> QED  BY <1>0, <1>1, <1>2, <1>3, <1>4, <1>6, <2>1, StoresWriters
<1>7. CASE UNCHANGED vars
  BY <1>4, <1>7 DEF vars, Creating
<1> QED  BY <1>5, <1>6, <1>7 DEF Next

\* A session starts within its limit, with nobody creating a store.
LEMMA StoresInit ==
  ASSUME Cardinality(Workers) >= 1, Init
  PROVE  StoresInv
<1>1. OpenStores = InitialStores
  BY ConstantsAssumption DEF Init, OpenStores
<1>2. Creating = {} /\ Cardinality(Creating) = 0
  BY FS_EmptySet DEF Init, Creating, Idle
<1>3. Cardinality(InitialStores) \in Nat
  BY InitialStoresAssumption, FS_CardinalityType
<1> QED
  BY <1>1, <1>2, <1>3, InitType, InitialStoresAssumption, ConstantsAssumption, CreatingFacts DEF StoresInv

\* With any number of requests at a time (at least one) the limit of stores is
\* overrun by the overlap alone: one request at a time keeps it.
THEOREM StoresTheorem ==
  ASSUME Cardinality(Workers) >= 1
  PROVE  Spec => []StoresOverrunBounded
<1>1. StoresInv => StoresOverrunBounded
  <2>1. ASSUME StoresInv  PROVE Cardinality(OpenStores) \in Nat
    BY <2>1, FS_CardinalityType DEF StoresInv
  <2> QED  BY <2>1, CreatingFacts, ConstantsAssumption DEF StoresInv, StoresOverrunBounded
<1>2. StoresInv /\ [Next]_vars => StoresInv'
  BY StoresStep
<1>3. Init => StoresInv
  BY StoresInit
<1> QED  BY <1>1, <1>2, <1>3, PTL DEF Spec
-----------------------------------------------------------------------------
(* No player goes missing.  What a step takes from a player it gives back in   *)
(* another row, so that the seats before map one to one into those after.    *)

SeatsKept(u, r) == {m \in members : m.user = u /\ m.role = r /\ life'[m.store] # "gone"}

SeatsOf(u, r) == {m \in members : m.user = u /\ m.role = r}

FiniteSeats == IsFiniteSet(members)

\* The rows stay finite: a step adds two at most.
LEMMA FiniteSeatsStep ==
  ASSUME FiniteSeats, [Next]_vars
  PROVE  FiniteSeats'
<1>1. ASSUME NEW a, NEW b, members' \subseteq (members \cup {a}) \cup {b}  PROVE FiniteSeats'
  BY <1>1, FS_AddElement, FS_Subset DEF FiniteSeats
<1>2. ASSUME NEW w \in Workers, JoinInsert(w)  PROVE FiniteSeats'
  BY <1>1, <1>2 DEF JoinInsert
<1>3. ASSUME NEW w \in Workers, TransferCommit(w)  PROVE FiniteSeats'
  BY <1>1, <1>3 DEF TransferCommit
<1>4. ASSUME NEW w \in Workers, SwapCommit(w)  PROVE FiniteSeats'
  <2> DEFINE rest == {m \in members : m.id \notin {req[w].a.id, req[w].b.id}}
  <2>1. rest \subseteq members /\ \E a, b : members' = rest \cup {a, b}
    BY <1>4 DEF SwapCommit
  <2>2. \E a, b : members' \subseteq (members \cup {a}) \cup {b}
    BY <2>1
  <2> QED  BY <1>1, <2>2
<1>5. ASSUME members' \subseteq members  PROVE FiniteSeats'
  BY <1>5, FS_Subset DEF FiniteSeats
<1>6. ASSUME NEW w \in Workers, RequestStep(w) \/ Fail(w)  PROVE FiniteSeats'
  BY <1>2, <1>3, <1>4, <1>5, <1>6, Writers DEF RemoveCommit
<1> QED  BY <1>5, <1>6 DEF Next, EnginePersistsEvents, vars

\* Seats that map one to one into seats are no more than those.
LEMMA NoFewer ==
  ASSUME NEW S, NEW T, IsFiniteSet(T), NEW f \in [S -> T],
         \A x, y \in S : f[x] = f[y] => x = y
  PROVE  Cardinality(S) <= Cardinality(T)
<1>1. f \in Injection(S, T)
  BY DEF Injection, IsInjective
<1> QED  BY <1>1, FS_Injection

\* A step leaves a player as many seats of a role as he had, whatever the rows it
\* was decided on have become.
LEMMA SeatsStep ==
  ASSUME IInv, FiniteSeats, [Next]_vars, NEW u \in Users, NEW r \in Roles
  PROVE  Cardinality(SeatsKept(u, r)) <= Cardinality(SeatsOf(u, r)')
<1> USE TypeInvParts DEF IInv
<1>0. IsFiniteSet(SeatsOf(u, r)')
  BY FiniteSeatsStep, FS_Subset DEF FiniteSeats, SeatsOf
<1>1. ASSUME SeatsKept(u, r) \subseteq members'
      PROVE  Cardinality(SeatsKept(u, r)) <= Cardinality(SeatsOf(u, r)')
  <2>1. SeatsKept(u, r) \in SUBSET SeatsOf(u, r)'
    BY <1>1 DEF SeatsKept, SeatsOf
  <2> QED  BY <1>0, <2>1, FS_Subset
<1>2. ASSUME NEW w \in Workers, TransferCommit(w)
      PROVE  Cardinality(SeatsKept(u, r)) <= Cardinality(SeatsOf(u, r)')
  <2>1. PICK m \in members :
          members' = (members \ {m}) \cup {SeatRow(m.id, req[w].to, m.user, m.role)}
    BY <1>2 DEF TransferCommit
  <2> DEFINE n == SeatRow(m.id, req[w].to, m.user, m.role)
             f == [k \in SeatsKept(u, r) |-> IF k = m THEN n ELSE k]
  <2>2. n.id = m.id /\ n.user = m.user /\ n.role = m.role /\ members' = (members \ {m}) \cup {n}
    BY <2>1 DEF SeatRow
  <2> HIDE DEF n
  <2>3. \A k \in SeatsKept(u, r) : k \in members /\ k.user = u /\ k.role = r
    BY DEF SeatsKept
  <2>4. f \in [SeatsKept(u, r) -> SeatsOf(u, r)']
    BY <2>2, <2>3 DEF SeatsOf
  <2>5. \A k \in members : k = n => k = m
    BY <2>2 DEF IdsUnique
  <2>6. \A k, l \in SeatsKept(u, r) : f[k] = f[l] => k = l
    BY <2>3, <2>5
  <2> HIDE DEF f
  <2> QED  BY <1>0, <2>4, <2>6, NoFewer
<1>3. ASSUME NEW w \in Workers, SwapCommit(w)
      PROVE  Cardinality(SeatsKept(u, r)) <= Cardinality(SeatsOf(u, r)')
  <2> DEFINE a == req[w].a
             b == req[w].b
             rest == {m \in members : m.id \notin {a.id, b.id}}
  <2>1. PICK i \in RowIds, j \in RowIds :
          /\ i \notin IdsInUse /\ j \notin IdsInUse \cup {i}
          /\ members' = rest \cup {SeatRow(i, b.store, a.user, a.role), SeatRow(j, a.store, b.user, a.role)}
    BY <1>3, FreshFacts DEF SwapCommit
  <2> DEFINE x == SeatRow(i, b.store, a.user, a.role)
             y == SeatRow(j, a.store, b.user, a.role)
             f == [k \in SeatsKept(u, r) |-> IF k.id = a.id THEN x ELSE IF k.id = b.id THEN y ELSE k]
  <2>2. /\ x.id = i /\ x.user = a.user /\ x.role = a.role
        /\ y.id = j /\ y.user = b.user /\ y.role = a.role
        /\ i # j /\ \A m \in members : m.id # i /\ m.id # j
    BY <2>1 DEF SeatRow, IdsInUse
  <2>3. x \in members' /\ y \in members'
    BY <2>1
  <2>4. \A m \in members : m.id \notin {a.id, b.id} => m \in members'
    BY <2>1
  <2>5. req[w].step \in PairedSteps
    BY <1>3 DEF SwapCommit, At, PairedSteps
  <2>6. a \in Member /\ b \in Member /\ a # None /\ b # None /\ b.role = a.role
    BY <2>5, ConstantsAssumption DEF ReqOK, Shape, HeldMovable
  <2>7. \A m \in members : /\ m.id = a.id => m.user = a.user /\ m.role = a.role
                           /\ m.id = b.id => m.user = b.user /\ m.role = b.role
    BY <2>6 DEF HeldRowsKeepOwner
  <2> HIDE DEF x, y, a, b
  <2>8. \A k \in SeatsKept(u, r) : k \in members /\ k.user = u /\ k.role = r
    BY DEF SeatsKept
  <2>9. f \in [SeatsKept(u, r) -> SeatsOf(u, r)']
    BY <2>2, <2>3, <2>4, <2>6, <2>7, <2>8 DEF SeatsOf
  <2>10. \A k, l \in SeatsKept(u, r) : f[k] = f[l] => k = l
    BY <2>2, <2>8 DEF IdsUnique
  <2> HIDE DEF f
  <2> QED  BY <1>0, <2>9, <2>10, NoFewer
<1>4. ASSUME NEW w \in Workers, RemoveCommit(w)
      PROVE  SeatsKept(u, r) \subseteq members'
  <2>1. req[w].to \in Stores
    BY <1>4 DEF RemoveCommit, At, ReqOK, Shape
  <2>2. life'[req[w].to] = "gone"
    BY <1>4, <2>1 DEF RemoveCommit
  <2> QED  BY <1>4, <2>2 DEF RemoveCommit, MembersOf, SeatsKept
<1>5. ASSUME members \subseteq members'  PROVE SeatsKept(u, r) \subseteq members'
  BY <1>5 DEF SeatsKept
<1>6. \/ members \subseteq members'
      \/ \E w \in Workers : TransferCommit(w) \/ SwapCommit(w) \/ RemoveCommit(w)
  <2>1. CASE \E w \in Workers : RequestStep(w) \/ Fail(w)
    <3>1. PICK w \in Workers : RequestStep(w) \/ Fail(w)
      BY <2>1
    <3>2. CASE JoinInsert(w)
      BY <3>2 DEF JoinInsert
    <3> QED
      BY <3>1, <3>2, Writers
  <2>2. CASE UNCHANGED members
    BY <2>2
  <2> QED
    BY <2>1, <2>2 DEF Next, EnginePersistsEvents, vars
<1> QED
  BY <1>1, <1>2, <1>3, <1>4, <1>5, <1>6

\* However many transfers and swaps overlap, no step costs a player a seat, but
\* for the store it deletes.
THEOREM SeatsTheorem == Spec => PlayersKeepTheirSeats
<1>1. IInv /\ FiniteSeats /\ [Next]_vars =>
        [\A u \in Users, r \in Roles :
           Cardinality({m \in members : m.user = u /\ m.role = r /\ life'[m.store] # "gone"})
             <= Cardinality({m \in members' : m.user = u /\ m.role = r})]_vars
  BY SeatsStep DEF SeatsKept, SeatsOf
<1>2. Init => FiniteSeats
  BY InitialStoresAssumption DEF Init, FiniteSeats
<1> QED
  BY <1>1, <1>2, InitInv, NextInv, FiniteSeatsStep, PTL DEF Spec, PlayersKeepTheirSeats

-----------------------------------------------------------------------------
(* One request at a time.  What a handler read is then still so when it      *)
(* writes, which is what the gate and the origin of a departure rest on and  *)
(* what overlapping requests take from them.                                 *)

InHand(q) ==
  /\ q.step \in HoldingSteps => q.a \in members /\ q.a.store = q.from
  /\ q.step = "swap_members" => \A side \in Sides \ q.todo : q[side] \in members
  /\ q.step \in PairedSteps => q.a \in members /\ q.b \in members
  /\ q.step = "advance_gate" => q.scope = OpenStores
  /\ q.step = "advance_write" /\ q.seen = "RECONFIGURATION" =>
       \A s \in OpenStores : GateOpen(s)

SoloInv == IInv /\ \A w \in Workers : InHand(req[w])

\* A read leaves what the lone handler holds true of the tables.
LEMMA SoloRead ==
  ASSUME ReqOK, NEW w, Workers = {w}, UNCHANGED db, NEW q, InHand(q),
         req' = [req EXCEPT ![w] = q]
  PROVE  \A v \in Workers : InHand(req[v])'
<1>1. req'[w] = q
  BY DEF ReqOK
<1>2. /\ members' = members /\ OpenStores' = OpenStores
      /\ \A s : GateOpen(s)' <=> GateOpen(s)
  BY DEF db, OpenStores, GateOpen, Outbound
<1> QED
  BY <1>1, <1>2 DEF InHand

\* Each query of transfer, swap and advance keeps it: the query itself is what
\* makes the new part true.
LEMMA SoloReads ==
  ASSUME SoloInv, NEW w, Workers = {w}, RequestStep(w), ~Done(w)
  PROVE  \A v \in Workers : InHand(req[v])'
<1> USE TypeInvParts DEF IInv, SoloInv
<1>0. InHand(req[w]) /\ ReqOK /\ Shape(req[w]) /\ req[w] \in Request
  BY DEF ReqOK
<1> USE DEF HoldingSteps, ClearedSteps, PairedSteps
<1>1. ASSUME TransferMember(w)  PROVE \A v \in Workers : InHand(req[v])'
  <2>1. PICK m \in MembersOf(req[w].from) :
          req' = [req EXCEPT ![w] = [req[w] EXCEPT !.a = m, !.step = "transfer_quota"]]
    BY <1>1 DEF TransferMember
  <2> DEFINE q == [req[w] EXCEPT !.a = m, !.step = "transfer_quota"]
  <2>2. InHand(q)
    BY <1>0 DEF InHand, MembersOf, Request
  <2> QED  BY <1>0, <1>1, <2>1, <2>2, SoloRead DEF TransferMember
<1>2. ASSUME NEW step \in ClearedSteps, Goto(w, step), req[w].step \in HoldingSteps, UNCHANGED db
      PROVE  \A v \in Workers : InHand(req[v])'
  <2> DEFINE q == [req[w] EXCEPT !.step = step]
  <2>1. InHand(q)
    BY <1>0, <1>2 DEF InHand, Request
  <2>2. req' = [req EXCEPT ![w] = q]
    BY <1>2 DEF Goto
  <2> QED  BY <1>0, <1>2, <2>1, <2>2, SoloRead
<1>3. ASSUME NEW side \in Sides, SwapMember(w, side)  PROVE \A v \in Workers : InHand(req[v])'
  <2>1. PICK m \in members :
          req' = [req EXCEPT ![w][side] = m, ![w].todo = @ \ {side}]
    BY <1>3 DEF SwapMember
  <2>2. CASE side = "a"
    <3> DEFINE q == [req[w] EXCEPT !.a = m, !.todo = req[w].todo \ {"a"}]
    <3>1. req' = [req EXCEPT ![w] = q]
      BY <2>1, <2>2
    <3>2. /\ q.step = "swap_members" /\ q.a = m /\ q.b = req[w].b
          /\ q.todo = req[w].todo \ {"a"}
      BY <1>0, <1>3 DEF SwapMember, At, Request
    <3>3. InHand(q)
      BY <1>0, <1>3, <3>2 DEF InHand, Sides, SwapMember, At
    <3> QED  BY <1>0, <1>3, <3>1, <3>3, SoloRead DEF SwapMember
  <2>3. CASE side = "b"
    <3> DEFINE q == [req[w] EXCEPT !.b = m, !.todo = req[w].todo \ {"b"}]
    <3>1. req' = [req EXCEPT ![w] = q]
      BY <2>1, <2>3
    <3>2. /\ q.step = "swap_members" /\ q.b = m /\ q.a = req[w].a
          /\ q.todo = req[w].todo \ {"b"}
      BY <1>0, <1>3 DEF SwapMember, At, Request
    <3>3. InHand(q)
      BY <1>0, <1>3, <3>2 DEF InHand, Sides, SwapMember, At
    <3> QED  BY <1>0, <1>3, <3>1, <3>3, SoloRead DEF SwapMember
  <2> QED  BY <2>2, <2>3 DEF Sides
<1>4. ASSUME SwapCheck(w)  PROVE \A v \in Workers : InHand(req[v])'
  <2> DEFINE q == [req[w] EXCEPT !.step = "swap_quota", !.todo = Sides]
  <2>1. req[w].a \in members /\ req[w].b \in members
    BY <1>0, <1>4 DEF SwapCheck, InHand, At, Sides
  <2>2. InHand(q)
    BY <1>0, <2>1 DEF InHand, Request
  <2>3. req' = [req EXCEPT ![w] = q]
    BY <1>4 DEF SwapCheck
  <2> QED  BY <1>0, <1>4, <2>2, <2>3, SoloRead DEF SwapCheck
<1>5. ASSUME NEW side \in Sides, SwapQuota(w, side)  PROVE \A v \in Workers : InHand(req[v])'
  <2> DEFINE next == IF req[w].todo = {side} THEN "swap_commit" ELSE req[w].step
             q == [req[w] EXCEPT !.todo = req[w].todo \ {side}, !.step = next]
  <2>1. req[w].a \in members /\ req[w].b \in members
    BY <1>0, <1>5 DEF SwapQuota, InHand, At
  <2>2. q.a = req[w].a /\ q.b = req[w].b /\ q.step \in PairedSteps
    BY <1>0, <1>5 DEF Request, SwapQuota, At
  <2>3. InHand(q)
    BY <2>1, <2>2 DEF InHand
  <2>4. req' = [req EXCEPT ![w] = q]
    BY <1>5 DEF SwapQuota
  <2> QED  BY <1>0, <1>5, <2>3, <2>4, SoloRead DEF SwapQuota
<1>6. ASSUME AdvanceStores(w)  PROVE \A v \in Workers : InHand(req[v])'
  <2> DEFINE q == [req[w] EXCEPT !.scope = OpenStores, !.step = "advance_gate"]
  <2>1. InHand(q)
    BY <1>0 DEF InHand, Request
  <2>2. req' = [req EXCEPT ![w] = q]
    BY <1>6 DEF AdvanceStores
  <2> QED  BY <1>0, <1>6, <2>1, <2>2, SoloRead DEF AdvanceStores
<1>7. ASSUME AdvanceGate(w)  PROVE \A v \in Workers : InHand(req[v])'
  <2> DEFINE q == [req[w] EXCEPT !.step = "advance_write"]
  <2>1. \A s \in OpenStores : GateOpen(s)
    BY <1>0, <1>7 DEF AdvanceGate, InHand, At
  <2>2. InHand(q)
    BY <1>0, <2>1 DEF InHand, Request
  <2>3. req' = [req EXCEPT ![w] = q]
    BY <1>7 DEF AdvanceGate, Goto
  <2> QED  BY <1>0, <1>7, <2>2, <2>3, SoloRead DEF AdvanceGate
<1>8. ASSUME NEW u \in Users, NEW s \in Stores, NEW r \in Roles, JoinRead(w, u, s, r)
      PROVE  \A v \in Workers : InHand(req[v])'
  <2>1. InHand([Idle EXCEPT !.step = "join_insert", !.user = u, !.to = s, !.role = r])
    BY DEF InHand, Idle
  <2> QED  BY <1>0, <1>8, <2>1, SoloRead DEF JoinRead
<1>9. ASSUME NEW u \in Users, NEW s \in Stores, NEW t \in Stores, TransferSession(w, u, s, t)
      PROVE  \A v \in Workers : InHand(req[v])'
  <2>1. InHand([Idle EXCEPT !.step = "transfer_member", !.user = u, !.from = s, !.to = t])
    BY DEF InHand, Idle
  <2> QED  BY <1>0, <1>9, <2>1, SoloRead DEF TransferSession
<1>10. ASSUME NEW u \in Users, NEW v \in Users, SwapSession(w, u, v)
      PROVE  \A x \in Workers : InHand(req[x])'
  <2>1. InHand([Idle EXCEPT !.step = "swap_members", !.user = u, !.peer = v,
                            !.scope = OpenStores, !.todo = Sides])
    BY DEF InHand, Idle
  <2> QED  BY <1>0, <1>10, <2>1, SoloRead DEF SwapSession
<1>11. ASSUME AdvanceRead(w)  PROVE \A v \in Workers : InHand(req[v])'
  <2>1. InHand([Idle EXCEPT !.seen = status,
                  !.step = IF status = "RECONFIGURATION" THEN "advance_stores"
                                                         ELSE "advance_write"])
    BY DEF InHand, Idle
  <2> QED  BY <1>0, <1>11, <2>1, SoloRead DEF AdvanceRead
<1>12. ASSUME CreateRead(w)  PROVE \A v \in Workers : InHand(req[v])'
  <2>1. InHand([Idle EXCEPT !.step = "create_insert"])
    BY DEF InHand, Idle
  <2> QED  BY <1>0, <1>12, <2>1, SoloRead DEF CreateRead
<1>13. ASSUME NEW s \in Stores, RemoveRead(w, s)  PROVE \A v \in Workers : InHand(req[v])'
  <2>1. InHand([Idle EXCEPT !.step = "remove_commit", !.to = s])
    BY DEF InHand, Idle
  <2> QED  BY <1>0, <1>13, <2>1, SoloRead DEF RemoveRead
<1>14. TransferQuota(w) \/ TransferRole(w) \/ TransferUser(w) =>
         \E step \in ClearedSteps : Goto(w, step) /\ req[w].step \in HoldingSteps /\ UNCHANGED db
  BY DEF TransferQuota, TransferRole, TransferUser, At
<1> QED
  BY <1>1, <1>2, <1>3, <1>4, <1>5, <1>6, <1>7, <1>8, <1>9, <1>10, <1>11, <1>12, <1>13, <1>14
  DEF RequestStep, JoinStep, TransferStep, SwapStep, AdvanceStep, StoreStep,
      JoinInsert, TransferCommit, SwapCommit, AdvanceWrite, CreateInsert, RemoveCommit

\* With one request at a time every step keeps what the handler holds true: a
\* write ends the only request there is, and the engine touches neither rows
\* nor the set of stores.
LEMMA SoloStep ==
  ASSUME Cardinality(Workers) = 1, SoloInv, [Next]_vars
  PROVE  SoloInv'
<1> USE TypeInvParts DEF IInv
<1>0. ReqOK /\ IInv'
  BY NextInv DEF SoloInv
<1>1. PICK w : Workers = {w}
  BY FS_Singleton, ConstantsAssumption
<1>2. ASSUME Done(w)  PROVE SoloInv'
  <2>1. req'[w] = Idle
    BY <1>0, <1>1, <1>2 DEF Done, ReqOK
  <2>2. InHand(req[w])'
    BY <2>1 DEF InHand, Idle, HoldingSteps, ClearedSteps, PairedSteps
  <2> QED  BY <1>0, <1>1, <2>2 DEF SoloInv
<1>3. ASSUME NEW s \in Stores, EnginePersistsEvents(s)  PROVE SoloInv'
  <2>1. OpenStores' = OpenStores
    BY <1>3 DEF EnginePersistsEvents, OpenStores, SoloInv
  <2>2. \A x : GateOpen(x)' <=> GateOpen(x)
    BY <1>3 DEF EnginePersistsEvents, GateOpen, Outbound
  <2> QED
    BY <1>0, <1>3, <2>1, <2>2 DEF SoloInv, InHand, EnginePersistsEvents
<1>4. ASSUME UNCHANGED vars  PROVE SoloInv'
  BY <1>0, <1>4 DEF vars, SoloInv, InHand, OpenStores, GateOpen, Outbound
<1>5. ASSUME RequestStep(w), ~Done(w)  PROVE SoloInv'
  BY <1>0, <1>1, <1>5, SoloReads DEF SoloInv
<1> QED
  BY <1>1, <1>2, <1>3, <1>4, <1>5 DEF Next, Fail

\* At the start nobody holds anything.
LEMMA SoloInit == Init => SoloInv
BY InitInv DEF Init, SoloInv, InHand, Idle, HoldingSteps, ClearedSteps, PairedSteps

\* With one request at a time the reconfiguration is left only by a session in
\* which every store has made its one or two transfers.
THEOREM GateTheorem ==
  ASSUME Cardinality(Workers) = 1
  PROVE  Spec => GateHolds
<1>1. SoloInv /\ [Next]_vars =>
        [status = "RECONFIGURATION" /\ status' = "ROUND_2" =>
           \A s \in OpenStores : Cardinality(Outbound(s)) \in 1..MaxOutbound]_vars
  <2> SUFFICES ASSUME SoloInv, Next, status = "RECONFIGURATION", status' = "ROUND_2"
               PROVE  \A s \in OpenStores : GateOpen(s)
    BY DEF GateOpen
  <2>1. PICK w \in Workers : AdvanceWrite(w)
    BY DEF Next, RequestStep, JoinStep, JoinRead, JoinInsert,
           TransferStep, TransferSession, TransferMember, TransferQuota, TransferRole,
           TransferUser, TransferCommit, SwapStep, SwapSession, SwapMember, SwapCheck,
           SwapQuota, SwapCommit, AdvanceStep, AdvanceRead, AdvanceStores, AdvanceGate,
           StoreStep, CreateRead, CreateInsert, RemoveRead, RemoveCommit,
           Fail, EnginePersistsEvents, db
  <2>2. req[w].seen \in Status \ {"FINISHED"} /\ req[w].step = "advance_write"
    BY <2>1, TypeInvParts DEF AdvanceWrite, At, SoloInv, IInv, ReqOK, Request, Shape, AdvanceSteps
  <2>3. NextStatus[req[w].seen] = "ROUND_2"
    BY <2>1 DEF AdvanceWrite
  <2>4. req[w].seen = "RECONFIGURATION"
    BY <2>2, <2>3 DEF NextStatus, Status
  <2> QED
    BY <2>2, <2>4 DEF SoloInv, InHand
<1> QED
  BY <1>1, SoloInit, SoloStep, PTL DEF Spec, GateHolds

\* A move takes the player out of the store its line of the history names.
LEMMA DepartureStep ==
  ASSUME SoloInv, [Next]_vars, NEW t \in transfers' \ transfers
  PROVE  \E m \in members \ members' :
           m.user = t.user /\ m.store = t.from /\ m.role = t.role
<1> USE TypeInvParts DEF IInv, SoloInv
<1>1. ASSUME NEW w \in Workers, TransferCommit(w)
      PROVE  \E m \in members \ members' :
               m.user = t.user /\ m.store = t.from /\ m.role = t.role
  <2> DEFINE q == req[w]
  <2>1. /\ q.a \in members /\ q.a.store = q.from /\ q.a.user = q.user /\ q.from # q.to
    BY <1>1 DEF TransferCommit, At, InHand, ReqOK, Shape, HoldingSteps, TransferSteps, ClearedSteps
  <2>2. t = LogRow(q.user, q.from, q.to, q.a.role)
    BY <1>1 DEF TransferCommit
  <2>3. PICK m \in members : /\ m.id = q.a.id
                            /\ members' = (members \ {m}) \cup {SeatRow(m.id, q.to, m.user, m.role)}
    BY <1>1 DEF TransferCommit
  <2>4. m = q.a
    BY <2>1, <2>3 DEF IdsUnique
  <2>5. SeatRow(m.id, q.to, m.user, m.role).store = q.to
    BY DEF SeatRow
  <2>6. m \notin members'
    BY <2>1, <2>3, <2>4, <2>5
  <2>7. t.user = q.user /\ t.from = q.from /\ t.role = q.a.role
    BY <2>2 DEF LogRow
  <2> QED  BY <2>1, <2>4, <2>6, <2>7
<1>2. ASSUME NEW w \in Workers, SwapCommit(w)
      PROVE  \E m \in members \ members' :
               m.user = t.user /\ m.store = t.from /\ m.role = t.role
  <2> DEFINE q == req[w]
             rest == {m \in members : m.id \notin {q.a.id, q.b.id}}
  <2>1. q.a \in members /\ q.b \in members /\ q.b.role = q.a.role
    BY <1>2 DEF SwapCommit, At, InHand, HeldMovable, PairedSteps
  <2>2. \/ t = LogRow(q.a.user, q.a.store, q.b.store, q.a.role)
        \/ t = LogRow(q.b.user, q.b.store, q.a.store, q.a.role)
    BY <1>2 DEF SwapCommit
  <2>3. PICK i \in RowIds, j \in RowIds :
          /\ i \notin IdsInUse /\ j \notin IdsInUse
          /\ members' = rest \cup {SeatRow(i, q.b.store, q.a.user, q.a.role),
                                  SeatRow(j, q.a.store, q.b.user, q.a.role)}
    BY <1>2, FreshFacts DEF SwapCommit
  <2>4. \A x \in members' : x \in rest \/ x.id = i \/ x.id = j
    BY <2>3 DEF SeatRow
  <2>5. \A m \in members : m.id # i /\ m.id # j
    BY <2>3 DEF IdsInUse
  <2>6. q.a \notin members' /\ q.b \notin members'
    BY <2>1, <2>4, <2>5
  <2>7. \/ t.user = q.a.user /\ t.from = q.a.store /\ t.role = q.a.role
        \/ t.user = q.b.user /\ t.from = q.b.store /\ t.role = q.a.role
    BY <2>2 DEF LogRow
  <2> QED  BY <2>1, <2>6, <2>7
<1>3. \/ \E w \in Workers : TransferCommit(w) \/ SwapCommit(w)
      \/ transfers' \subseteq transfers
  <2>1. ASSUME NEW w \in Workers, RequestStep(w) \/ Fail(w)
        PROVE  TransferCommit(w) \/ SwapCommit(w) \/ transfers' \subseteq transfers
    BY <2>1, Writers DEF JoinInsert, RemoveCommit
  <2> QED  BY <2>1 DEF Next, EnginePersistsEvents, vars
<1> QED
  BY <1>1, <1>2, <1>3

\* With one request at a time every line of the history names the store its
\* player left in that very step.
THEOREM DepartureTheorem ==
  ASSUME Cardinality(Workers) = 1
  PROVE  Spec => DepartureTruthful
<1>1. SoloInv /\ [Next]_vars =>
        [\A t \in transfers' \ transfers :
           \E m \in members \ members' :
              m.user = t.user /\ m.store = t.from /\ m.role = t.role]_vars
  BY DepartureStep
<1> QED
  BY <1>1, SoloInit, SoloStep, PTL DEF Spec, DepartureTruthful
=============================================================================
