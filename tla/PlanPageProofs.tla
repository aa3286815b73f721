---------------------------- MODULE PlanPageProofs ----------------------------
(***************************************************************************)
(* What the plan page keeps for any number of browsers, decisions, values,  *)
(* configurations and writes.                                              *)
(***************************************************************************)
EXTENDS PlanPage, TLAPS

(* Types.                                                                  *)

CallSteps == {"idle", "load", "write", "read", "emit", "answer"}

Call ==
  [ step : CallSteps, version : Versions \cup {None}, field : Fields \cup {None},
    decisions : Decisions \cup {None}, answer : Sent \cup {None}, basis : Nat \cup {None} ]

\* A call is at a step its kind has, and holds what the steps to come need.
Shaped(k, q) ==
  /\ q.step # "idle" => q.version \in Versions
  /\ q.step \in {"emit", "answer"} => q.answer \in Sent
  /\ k = "save" /\ q.step \in {"load", "write"} => q.field \in Fields /\ q.decisions \in Decisions
  /\ k = "get" => q.step \in {"idle", "read", "answer"}
  /\ k = "confirm" => q.step # "emit"

CallOK == call \in [Pages -> [Calls -> Call]] /\ \A c \in Pages, k \in Calls : Shaped(k, call[c][k])

\* Every variable holds what the server or a browser can hold.
PageTypeOK ==
  /\ plans \in [Versions -> Plan]
  /\ phase \in Versions
  /\ writes \in Nat
  /\ view \in [Pages -> Sent \cup {None}]
  /\ CallOK
  /\ joined \subseteq Pages
  /\ events \in [Pages -> Seq(Sent)]
  /\ heard \in [Pages -> Nat]
  /\ fresh \subseteq Pages

LEMMA IdleCall == Idle \in Call /\ \A k : Shaped(k, Idle)
BY DEF Idle, Call, CallSteps, Shaped

\* A step that changes one call.
Becomes(c, k, q) == call' = [call EXCEPT ![c][k] = q]

\* A call that goes on leaves the other calls of all pages alone.
LEMMA CallChange ==
  ASSUME CallOK, NEW c \in Pages, NEW k \in Calls, NEW q \in Call, Shaped(k, q), Becomes(c, k, q)
  PROVE  /\ CallOK' /\ call'[c][k] = q
         /\ \A d \in Pages, l \in Calls : d # c \/ l # k => call'[d][l] = call[d][l]
<1>1. call \in [Pages -> [Calls -> Call]] /\ call[c] \in [Calls -> Call]
  BY DEF CallOK
<1>2. call' = [call EXCEPT ![c] = [call[c] EXCEPT ![k] = q]]
  BY DEF Becomes
<1>3. /\ call' \in [Pages -> [Calls -> Call]] /\ call'[c][k] = q
      /\ \A d \in Pages, l \in Calls : d # c \/ l # k => call'[d][l] = call[d][l]
  BY <1>1, <1>2
<1>4. \A d \in Pages, l \in Calls : Shaped(l, call'[d][l])
  BY <1>3 DEF CallOK
<1>5. \A d \in Pages, l \in Calls : Shaped(l, call[d][l])'
  BY <1>4 DEF Shaped
<1> QED  BY <1>3, <1>5 DEF CallOK

\* A call that only takes its next step keeps what it holds.
LEMMA GoesOn ==
  ASSUME CallOK, NEW c \in Pages, NEW k \in Calls, NEW step \in CallSteps, Goes(c, k, step),
         Shaped(k, [call[c][k] EXCEPT !.step = step])
  PROVE  /\ CallOK' /\ call'[c][k] = [call[c][k] EXCEPT !.step = step]
         /\ \A d \in Pages, l \in Calls : d # c \/ l # k => call'[d][l] = call[d][l]
<1>1. PICK q : q = [call[c][k] EXCEPT !.step = step]
  OBVIOUS
<1>2. q \in Call
  <2>1. call[c][k] \in Call
    BY DEF CallOK
  <2> QED  BY <1>1, <2>1 DEF Call
<1>3. Becomes(c, k, q) /\ Shaped(k, q)
  BY <1>1 DEF Goes, Becomes
<1> QED  BY <1>1, <1>2, <1>3, CallChange

Others(c, k) == \A d \in Pages, l \in Calls : d # c \/ l # k => call'[d][l] = call[d][l]

\* What each kind of step does to the calls.
LEMMA VisitForm ==
  ASSUME PageTypeOK, NEW c \in Pages, Visit(c)
  PROVE  CallOK' /\ Others(c, "get") /\ call'[c]["get"].step = "read"
<1>1. PICK q : q = [Idle EXCEPT !.step = "read", !.version = phase]
  OBVIOUS
<1>2. q \in Call /\ Shaped("get", q) /\ q.step = "read"
  BY <1>1 DEF Idle, Call, CallSteps, Shaped, PageTypeOK
<1>3. Becomes(c, "get", q)
  BY <1>1 DEF Visit, Becomes
<1> QED  BY <1>2, <1>3, CallChange DEF PageTypeOK, Others, Calls

LEMMA DecideForm ==
  ASSUME PageTypeOK, NEW c \in Pages, NEW f \in Fields, NEW n \in Values, Decide(c, f, n)
  PROVE  /\ view[c] \in Sent /\ Wanted(c, f, n) \in Decisions /\ CallOK' /\ Others(c, "save")
         /\ call'[c]["save"] = [Idle EXCEPT !.step = "load", !.version = view[c].version, !.field = f,
              !.decisions = Wanted(c, f, n), !.basis = IF c \in fresh THEN heard[c] ELSE None]
<1>1. view[c] \in Sent
  BY DEF PageTypeOK, Decide, Editable
<1>2. Wanted(c, f, n) \in Decisions
  <2>1. view[c].plan.decisions \in [Fields -> Values]
    BY <1>1 DEF Sent, Plan, Decisions
  <2> QED  BY <2>1 DEF Wanted, Decisions
<1>3. PICK q : q = [Idle EXCEPT !.step = "load", !.version = view[c].version, !.field = f,
                      !.decisions = Wanted(c, f, n), !.basis = IF c \in fresh THEN heard[c] ELSE None]
  OBVIOUS
<1>4. q \in Call /\ Shaped("save", q)
  <2>1. view[c].version \in Versions /\ heard[c] \in Nat
    BY <1>1 DEF Sent, PageTypeOK
  <2> QED  BY <1>2, <1>3, <2>1 DEF Idle, Call, CallSteps, Shaped
<1>5. Becomes(c, "save", q)
  BY <1>3 DEF Decide, Becomes
<1> QED  BY <1>1, <1>2, <1>3, <1>4, <1>5, CallChange DEF PageTypeOK, Others, Calls

LEMMA DecideHolds ==
  ASSUME PageTypeOK, NEW c \in Pages, NEW f \in Fields, NEW n \in Values, Decide(c, f, n)
  PROVE  LET t == call'[c]["save"] IN
         /\ t.step = "load" /\ t.version = view[c].version /\ t.field = f /\ t.decisions = Wanted(c, f, n)
         /\ t.basis = IF c \in fresh THEN heard[c] ELSE None
<1>1. PICK t : t = call'[c]["save"]
  OBVIOUS
<1>2. PICK b : b = IF c \in fresh THEN heard[c] ELSE None
  OBVIOUS
<1>3. t = [Idle EXCEPT !.step = "load", !.version = view[c].version, !.field = f,
             !.decisions = Wanted(c, f, n), !.basis = IF c \in fresh THEN heard[c] ELSE None]
  BY <1>1, DecideForm
<1> HIDE DEF Wanted
<1>4. t.step = "load" /\ t.version = view[c].version /\ t.field = f /\ t.decisions = Wanted(c, f, n)
  BY <1>3 DEF Idle
<1>5. t.basis = b
  BY <1>2, <1>3 DEF Idle
<1> QED  BY <1>1, <1>2, <1>4, <1>5

LEMMA DecideShows ==
  ASSUME PageTypeOK, NEW c \in Pages, NEW f \in Fields, NEW n \in Values, Decide(c, f, n)
  PROVE  view'[c] \in Sent /\ view'[c].at = view[c].at /\ view'[c].version = view[c].version
<1>1. view[c] \in Sent /\ Wanted(c, f, n) \in Decisions
  BY DecideForm
<1>2. view' = view \/ view' = [view EXCEPT ![c] = [view[c] EXCEPT !.plan =
                                 [view[c].plan EXCEPT !.decisions = Wanted(c, f, n)]]]
  BY DEF Decide
<1>3. view \in [Pages -> Sent \cup {None}]
  BY DEF PageTypeOK
<1> HIDE DEF Wanted, Decisions
<1>4. PICK m : m = [view[c] EXCEPT !.plan = [view[c].plan EXCEPT !.decisions = Wanted(c, f, n)]]
  OBVIOUS
<1>5. m \in Sent /\ m.at = view[c].at /\ m.version = view[c].version
  BY <1>1, <1>4 DEF Sent, Plan
<1>6. view' = view \/ view' = [view EXCEPT ![c] = m]
  BY <1>2, <1>4
<1> QED  BY <1>1, <1>3, <1>5, <1>6

LEMMA ConfirmForm ==
  ASSUME PageTypeOK, NEW c \in Pages, Confirm(c)
  PROVE  CallOK' /\ Others(c, "confirm") /\ call'[c]["confirm"].step = "load"
<1>1. PICK q : q = [Idle EXCEPT !.step = "load", !.version = view[c].version]
  OBVIOUS
<1>2. view[c].version \in Versions
  BY DEF PageTypeOK, Confirm, Editable, Sent
<1>3. q \in Call /\ Shaped("confirm", q) /\ q.step = "load"
  BY <1>1, <1>2 DEF Idle, Call, CallSteps, Shaped
<1>4. Becomes(c, "confirm", q)
  BY <1>1 DEF Confirm, Becomes
<1> QED  BY <1>3, <1>4, CallChange DEF PageTypeOK, Others, Calls

LEMMA EndForm ==
  ASSUME PageTypeOK, NEW c \in Pages, NEW k \in Calls, call' = [call EXCEPT ![c][k] = Idle]
  PROVE  CallOK' /\ Others(c, k) /\ call'[c][k] = Idle
<1>1. Becomes(c, k, Idle)
  BY DEF Becomes
<1> QED  BY <1>1, IdleCall, CallChange DEF PageTypeOK, Others

LEMMA StepForm ==
  ASSUME PageTypeOK, NEW c \in Pages, NEW k \in Calls, NEW step \in CallSteps, Goes(c, k, step),
         Shaped(k, [call[c][k] EXCEPT !.step = step])
  PROVE  /\ CallOK' /\ Others(c, k)
         /\ call'[c][k].step = step /\ call'[c][k].version = call[c][k].version
         /\ call'[c][k].field = call[c][k].field /\ call'[c][k].decisions = call[c][k].decisions
         /\ call'[c][k].answer = call[c][k].answer /\ call'[c][k].basis = call[c][k].basis
<1>1. call'[c][k] = [call[c][k] EXCEPT !.step = step] /\ CallOK' /\ Others(c, k)
  BY GoesOn DEF PageTypeOK, Others
<1>2. call[c][k] \in Call
  BY DEF PageTypeOK, CallOK
<1> QED  BY <1>1, <1>2 DEF Call

LEMMA LoadForm ==
  ASSUME PageTypeOK, NEW c \in Pages, NEW k \in {"save", "confirm"}, LoadPlan(c, k)
  PROVE  /\ CallOK' /\ Others(c, k)
         /\ call'[c][k].step = "write" /\ call'[c][k].version = call[c][k].version
         /\ call'[c][k].field = call[c][k].field /\ call'[c][k].decisions = call[c][k].decisions
         /\ call'[c][k].basis = call[c][k].basis
<1>1. k \in Calls /\ call[c][k] \in Call /\ Shaped(k, call[c][k])
  BY DEF PageTypeOK, CallOK, Calls
<1>2. Shaped(k, [call[c][k] EXCEPT !.step = "write"])
  BY <1>1 DEF LoadPlan, Shaped, Call
<1> QED  BY <1>1, <1>2, StepForm DEF LoadPlan, CallSteps

LEMMA WriteForm ==
  ASSUME PageTypeOK, NEW c \in Pages, NEW k \in {"save", "confirm"},
         call[c][k].step = "write", Goes(c, k, "read")
  PROVE  /\ CallOK' /\ Others(c, k) /\ call[c][k].version \in Versions
         /\ call'[c][k].step = "read" /\ call'[c][k].version = call[c][k].version
<1>1. k \in Calls /\ call[c][k] \in Call /\ Shaped(k, call[c][k])
  BY DEF PageTypeOK, CallOK, Calls
<1>2. Shaped(k, [call[c][k] EXCEPT !.step = "read"])
  BY <1>1 DEF Shaped, Call
<1> QED  BY <1>1, <1>2, StepForm DEF Shaped, CallSteps

LEMMA EmitForm ==
  ASSUME PageTypeOK, NEW c \in Pages, EmitPlanUpdated(c)
  PROVE  /\ CallOK' /\ Others(c, "save") /\ call[c]["save"].answer \in Sent
         /\ call'[c]["save"].step = "answer" /\ call'[c]["save"].answer = call[c]["save"].answer
<1>1. "save" \in Calls /\ call[c]["save"] \in Call /\ Shaped("save", call[c]["save"])
  BY DEF PageTypeOK, CallOK, Calls
<1>2. Shaped("save", [call[c]["save"] EXCEPT !.step = "answer"])
  BY <1>1 DEF EmitPlanUpdated, Shaped, Call
<1> QED  BY <1>1, <1>2, StepForm DEF EmitPlanUpdated, Shaped, CallSteps

LEMMA RefreshForm ==
  ASSUME PageTypeOK, NEW c \in Pages, NEW k \in Calls, Refresh(c, k)
  PROVE  /\ CallOK' /\ Others(c, k) /\ call[c][k].version \in Versions
         /\ call'[c][k].step = IF k = "save" THEN "emit" ELSE "answer"
         /\ call'[c][k].answer = Message(call[c][k].version)
         /\ Message(call[c][k].version) \in Sent
<1>1. call[c][k] \in Call /\ Shaped(k, call[c][k]) /\ call[c][k].step = "read"
  BY DEF PageTypeOK, CallOK, Refresh
<1>2. PICK q : q = [call[c][k] EXCEPT !.step = IF k = "save" THEN "emit" ELSE "answer",
                                     !.answer = Message(call[c][k].version)]
  OBVIOUS
<1>3. call[c][k].version \in Versions
  BY <1>1 DEF Shaped
<1>4. Message(call[c][k].version) \in Sent
  BY <1>3 DEF Message, Sent, PageTypeOK
<1> HIDE DEF Message
<1>5. /\ q \in Call /\ q.step = (IF k = "save" THEN "emit" ELSE "answer")
      /\ q.answer = Message(call[c][k].version)
  BY <1>1, <1>2, <1>4 DEF Call, CallSteps
<1>6. Shaped(k, q)
  BY <1>3, <1>4, <1>5, <1>1, <1>2 DEF Shaped, Call
<1>7. Becomes(c, k, q)
  <2>1. call \in [Pages -> [Calls -> Call]] /\ call[c] \in [Calls -> Call]
    BY DEF PageTypeOK, CallOK
  <2> QED  BY <1>1, <1>2, <2>1 DEF Refresh, Becomes
<1> QED  BY <1>3, <1>4, <1>5, <1>6, <1>7, CallChange DEF PageTypeOK, Others

LEMMA MessageStamp == \A v : Message(v).at = writes
BY DEF Message

\* What a page is shown takes the place of what it showed.
LEMMA ShowForm ==
  ASSUME PageTypeOK, NEW c \in Pages, NEW m \in Sent, Show(c, m)
  PROVE  /\ view' \in [Pages -> Sent \cup {None}] /\ heard' \in [Pages -> Nat] /\ fresh' \subseteq Pages
         /\ view'[c] = m /\ heard'[c] = IF m.at > heard[c] THEN m.at ELSE heard[c]
         /\ heard'[c] >= m.at /\ heard'[c] >= heard[c]
         /\ c \in fresh' <=> m.at >= heard[c]
         /\ \A d \in Pages \ {c} : view'[d] = view[d] /\ heard'[d] = heard[d] /\ (d \in fresh' <=> d \in fresh)
<1>1. m.at \in Nat
  BY DEF Sent
<1>2. /\ view \in [Pages -> Sent \cup {None}] /\ heard \in [Pages -> Nat] /\ fresh \subseteq Pages
  BY DEF PageTypeOK
<1> QED  BY <1>1, <1>2 DEF Show

\* The events under way to a page.
Carried(q) == {q[i] : i \in 1..Len(q)}

LEMMA HeadTail ==
  ASSUME NEW q \in Seq(Sent), q # <<>>
  PROVE  /\ Head(q) \in Sent /\ Tail(q) \in Seq(Sent)
         /\ Head(q) \in Carried(q) /\ Carried(q) = Carried(Tail(q)) \cup {Head(q)}
<1>1. Len(q) \in Nat \ {0} /\ Head(q) = q[1] /\ Tail(q) \in Seq(Sent) /\ Len(Tail(q)) = Len(q) - 1
  OBVIOUS
<1>2. \A i \in 1..(Len(q) - 1) : Tail(q)[i] = q[i + 1]
  OBVIOUS
<1>3. \A i \in 1..Len(q) : q[i] \in Sent
  OBVIOUS
<1>4. ASSUME NEW i \in 1..Len(q)  PROVE q[i] \in Carried(Tail(q)) \cup {Head(q)}
  <2>1. CASE i = 1
    BY <1>1, <2>1
  <2>2. CASE i # 1
    <3>1. i - 1 \in 1..Len(Tail(q)) /\ (i - 1) + 1 = i
      BY <1>1, <2>2
    <3>2. Tail(q)[i - 1] = q[i]
      BY <1>1, <1>2, <3>1
    <3> QED  BY <3>1, <3>2 DEF Carried
  <2> QED  BY <2>1, <2>2
<1>5. ASSUME NEW i \in 1..Len(Tail(q))  PROVE Tail(q)[i] \in Carried(q)
  <2>1. i + 1 \in 1..Len(q) /\ Tail(q)[i] = q[i + 1]
    BY <1>1, <1>2
  <2> QED  BY <2>1 DEF Carried
<1>6. Head(q) \in Carried(q)
  BY <1>1 DEF Carried
<1> QED  BY <1>1, <1>3, <1>4, <1>5, <1>6 DEF Carried

LEMMA AppendCarried ==
  ASSUME NEW q \in Seq(Sent), NEW m \in Sent
  PROVE  Append(q, m) \in Seq(Sent) /\ Carried(Append(q, m)) = Carried(q) \cup {m}
<1>1. /\ Append(q, m) \in Seq(Sent) /\ Len(Append(q, m)) = Len(q) + 1 /\ Len(q) \in Nat
      /\ Append(q, m)[Len(q) + 1] = m /\ \A i \in 1..Len(q) : Append(q, m)[i] = q[i]
  OBVIOUS
<1>2. 1..(Len(q) + 1) = (1..Len(q)) \cup {Len(q) + 1}
  BY <1>1
<1> QED  BY <1>1, <1>2 DEF Carried

LEMMA PageTypeInit == PageInit => PageTypeOK
<1> SUFFICES ASSUME PageInit  PROVE PageTypeOK
  OBVIOUS
<1>1. NewPlan \in Plan
  BY PlanPageAssumption DEF NewPlan, Plan, Decisions
<1>2. CallOK
  <2>1. \A c \in Pages, k \in Calls : call[c][k] = Idle
    BY DEF PageInit
  <2> QED  BY <2>1, IdleCall DEF PageInit, CallOK
<1>3. <<>> \in Seq(Sent)
  OBVIOUS
<1>4. events \in [Pages -> Seq(Sent)]
  BY <1>3 DEF PageInit
<1> QED  BY <1>1, <1>2, <1>4 DEF PageInit, PageTypeOK

\* The event an emission sends reaches the pages in the room.
LEMMA EmitEvents ==
  ASSUME PageTypeOK, NEW c \in Pages, EmitPlanUpdated(c)
  PROVE  LET m == call[c]["save"].answer IN
         /\ events' \in [Pages -> Seq(Sent)] /\ heard' \in [Pages -> Nat]
         /\ \A d \in Pages :
              /\ Carried(events'[d]) = Carried(events[d]) \cup (IF d \in joined THEN {m} ELSE {})
              /\ heard'[d] >= heard[d] /\ (Deaf(d) => heard'[d] >= m.at)
              /\ heard'[d] # heard[d] => Deaf(d) /\ heard'[d] = m.at
<1> DEFINE m == call[c]["save"].answer
<1>1. m \in Sent /\ m.at \in Nat
  BY EmitForm DEF Sent
<1>2. /\ events' = [d \in Pages |-> IF d \in joined THEN Append(events[d], m) ELSE events[d]]
      /\ heard' = [d \in Pages |-> IF Deaf(d) /\ m.at > heard[d] THEN m.at ELSE heard[d]]
  BY DEF EmitPlanUpdated
<1>3. heard \in [Pages -> Nat] /\ events \in [Pages -> Seq(Sent)]
  BY DEF PageTypeOK
<1> HIDE DEF m
<1>4. \A d \in Pages : Append(events[d], m) \in Seq(Sent) /\ Carried(Append(events[d], m)) = Carried(events[d]) \cup {m}
  BY <1>1, <1>3, AppendCarried
<1>5. events' \in [Pages -> Seq(Sent)] /\ heard' \in [Pages -> Nat]
  BY <1>1, <1>2, <1>3, <1>4
<1>6. ASSUME NEW d \in Pages
      PROVE  Carried(events'[d]) = Carried(events[d]) \cup (IF d \in joined THEN {m} ELSE {})
  BY <1>2, <1>4
<1>7. ASSUME NEW d \in Pages
      PROVE  /\ heard'[d] >= heard[d] /\ (Deaf(d) => heard'[d] >= m.at)
             /\ heard'[d] # heard[d] => Deaf(d) /\ heard'[d] = m.at
  <2> HIDE DEF Deaf
  <2>1. heard'[d] = IF Deaf(d) /\ m.at > heard[d] THEN m.at ELSE heard[d]
    BY <1>2
  <2> QED  BY <1>1, <1>3, <2>1
<1> QED  BY <1>5, <1>6, <1>7 DEF m

\* Every step keeps the types.
LEMMA PageTypeNext ==
  ASSUME PageTypeOK, [PageNext]_pvars
  PROVE  PageTypeOK'
<1> USE DEF PageTypeOK
<1>1. CASE UNCHANGED pvars
  BY <1>1 DEF pvars, server, history, CallOK, Shaped
<1>2. CASE Advance
  <2>1. phase' \in Versions /\ UNCHANGED <<plans, writes, view, call, joined, events, history>>
    BY <1>2 DEF Advance
  <2> QED  BY <2>1 DEF history, CallOK, Shaped
<1>3. ASSUME NEW c \in Pages, Visit(c)  PROVE PageTypeOK'
  BY <1>3, VisitForm DEF Visit, server, history
<1>4. ASSUME NEW c \in Pages, JoinStore(c)  PROVE PageTypeOK'
  BY <1>4 DEF JoinStore, server, history, CallOK, Shaped
<1>5. ASSUME NEW c \in Pages, NEW f \in Fields, NEW n \in Values, Decide(c, f, n)  PROVE PageTypeOK'
  <2>1. view[c] \in Sent /\ Wanted(c, f, n) \in Decisions /\ CallOK'
    BY <1>5, DecideForm
  <2>2. view' = view \/ view' = [view EXCEPT ![c].plan.decisions = Wanted(c, f, n)]
    BY <1>5 DEF Decide
  <2>3. [view[c] EXCEPT !.plan.decisions = Wanted(c, f, n)] \in Sent
    <3> HIDE DEF Wanted, Decisions
    <3> QED  BY <2>1 DEF Sent, Plan
  <2>4. view' \in [Pages -> Sent \cup {None}]
    BY <2>2, <2>3
  <2> QED  BY <1>5, <2>1, <2>4 DEF Decide, server, history
<1>6. ASSUME NEW c \in Pages, Confirm(c)  PROVE PageTypeOK'
  BY <1>6, ConfirmForm DEF Confirm, server, history
<1>7. ASSUME NEW c \in Pages, PlanUpdated(c)  PROVE PageTypeOK'
  <2>1. Head(events[c]) \in Sent /\ Tail(events[c]) \in Seq(Sent)
    BY <1>7, HeadTail DEF PlanUpdated
  <2>2. events' \in [Pages -> Seq(Sent)]
    BY <1>7, <2>1 DEF PlanUpdated
  <2>3. view' \in [Pages -> Sent \cup {None}] /\ heard' \in [Pages -> Nat] /\ fresh' \subseteq Pages
    BY <1>7, <2>1, ShowForm DEF PlanUpdated
  <2> QED  BY <1>7, <2>2, <2>3 DEF PlanUpdated, server, CallOK, Shaped
<1>8. ASSUME NEW c \in Pages, NEW k \in Calls, Respond(c, k)  PROVE PageTypeOK'
  <2>1. call[c][k].answer \in Sent
    BY <1>8 DEF Respond, CallOK, Shaped
  <2>2. view' \in [Pages -> Sent \cup {None}] /\ heard' \in [Pages -> Nat] /\ fresh' \subseteq Pages
    BY <1>8, <2>1, ShowForm DEF Respond
  <2>3. CallOK'
    BY <1>8, EndForm DEF Respond
  <2> QED  BY <1>8, <2>2, <2>3 DEF Respond, server
<1>9. ASSUME NEW c \in Pages, NEW k \in {"save", "confirm"}, LoadPlan(c, k)  PROVE PageTypeOK'
  BY <1>9, LoadForm DEF LoadPlan, server, history
<1>10. ASSUME NEW c \in Pages, NEW k \in {"save", "confirm"}, Refuse(c, k)  PROVE PageTypeOK'
  <2>1. CallOK' /\ fresh' \subseteq Pages
    BY <1>10, EndForm DEF Refuse, Calls
  <2> QED  BY <1>10, <2>1 DEF Refuse, server
<1>11. ASSUME NEW c \in Pages, WriteDecision(c)  PROVE PageTypeOK'
  <2> DEFINE s == call[c]["save"]
  <2>1. CallOK' /\ s.version \in Versions
    BY <1>11, WriteForm DEF WriteDecision
  <2>2. s.decisions \in Decisions
    BY <1>11 DEF WriteDecision, CallOK, Shaped, Calls
  <2>3. plans' = [plans EXCEPT ![s.version].decisions =
          [g \in Fields |-> IF g \in Named(s.field) THEN s.decisions[g] ELSE @[g]]]
    BY <1>11 DEF WriteDecision
  <2> HIDE DEF s
  <2>4. plans[s.version] \in Plan
    BY <2>1
  <2>5. [g \in Fields |-> IF g \in Named(s.field) THEN s.decisions[g] ELSE plans[s.version].decisions[g]] \in Decisions
    BY <2>2, <2>4 DEF Decisions, Plan
  <2>6. plans' \in [Versions -> Plan]
    BY <2>1, <2>3, <2>4, <2>5 DEF Plan
  <2> QED  BY <1>11, <2>1, <2>6 DEF WriteDecision, history
<1>12. ASSUME NEW c \in Pages, WriteConfirm(c)  PROVE PageTypeOK'
  <2>1. CallOK' /\ call[c]["confirm"].version \in Versions
    BY <1>12, WriteForm DEF WriteConfirm
  <2>2. plans' \in [Versions -> Plan]
    BY <1>12, <2>1 DEF WriteConfirm, Plan
  <2> QED  BY <1>12, <2>1, <2>2 DEF WriteConfirm, history
<1>13. ASSUME NEW c \in Pages, NEW k \in Calls, Refresh(c, k)  PROVE PageTypeOK'
  BY <1>13, RefreshForm DEF Refresh, server, history
<1>14. ASSUME NEW c \in Pages, EmitPlanUpdated(c)  PROVE PageTypeOK'
  BY <1>14, EmitForm, EmitEvents DEF EmitPlanUpdated, server
<1> QED
  BY <1>1, <1>2, <1>3, <1>4, <1>5, <1>6, <1>7, <1>8, <1>9, <1>10, <1>11, <1>12, <1>13, <1>14
  DEF PageNext, Browser, Server

\* Plans, calls, events and copies stay well formed with any number of browsers.
THEOREM PageTypeCorrect == PageSpec => []PageTypeOK
BY PageTypeInit, PageTypeNext, PTL DEF PageSpec

-----------------------------------------------------------------------------
(* Messages.  What is under way to a page was read from the database, and    *)
(* what the page shows was under way to it, but for what its player decides. *)

Answered(d, k) == call[d][k].step \in {"emit", "answer"}

\* A call is changed only by the steps of its page that are about it.
LEMMA OwnSteps ==
  ASSUME PageTypeOK, [PageNext]_pvars, NEW d \in Pages, NEW k \in Calls
  PROVE  \/ call'[d][k] = call[d][k]
         \/ Refresh(d, k)
         \/ Respond(d, k)
         \/ k = "get" /\ Visit(d)
         \/ k = "confirm" /\ (Confirm(d) \/ WriteConfirm(d))
         \/ k \in {"save", "confirm"} /\ (LoadPlan(d, k) \/ Refuse(d, k))
         \/ k = "save" /\ (WriteDecision(d) \/ EmitPlanUpdated(d) \/ \E f \in Fields, n \in Values : Decide(d, f, n))
<1> DEFINE Same == call'[d][k] = call[d][k]
           Goal == \/ Same
                   \/ Refresh(d, k)
                   \/ Respond(d, k)
                   \/ k = "get" /\ Visit(d)
                   \/ k = "confirm" /\ (Confirm(d) \/ WriteConfirm(d))
                   \/ k \in {"save", "confirm"} /\ (LoadPlan(d, k) \/ Refuse(d, k))
                   \/ k = "save" /\ (WriteDecision(d) \/ EmitPlanUpdated(d) \/ \E f \in Fields, n \in Values : Decide(d, f, n))
<1>1. ASSUME NEW c \in Pages, NEW l \in Calls, Others(c, l), c # d \/ l # k  PROVE Same
  BY <1>1 DEF Others
<1>2. ASSUME UNCHANGED call  PROVE Same
  BY <1>2
<1> HIDE DEF Same
<1>3. ASSUME NEW c \in Pages, NEW l \in Calls, Refresh(c, l) \/ Respond(c, l)  PROVE Goal
  <2>1. Others(c, l)
    BY <1>3, RefreshForm, EndForm DEF Respond
  <2> QED  BY <1>1, <1>3, <2>1
<1>4. ASSUME NEW c \in Pages, NEW l \in {"save", "confirm"}, LoadPlan(c, l) \/ Refuse(c, l)  PROVE Goal
  <2>1. Others(c, l)
    BY <1>4, LoadForm, EndForm DEF Refuse, Calls
  <2> QED  BY <1>1, <1>4, <2>1 DEF Calls
<1>5. ASSUME NEW c \in Pages, Visit(c)  PROVE Goal
  BY <1>1, <1>5, VisitForm DEF Calls
<1>6. ASSUME NEW c \in Pages, Confirm(c) \/ WriteConfirm(c)  PROVE Goal
  <2>1. Others(c, "confirm")
    BY <1>6, ConfirmForm, WriteForm DEF WriteConfirm
  <2> QED  BY <1>1, <1>6, <2>1 DEF Calls
<1>7. ASSUME NEW c \in Pages, WriteDecision(c) \/ EmitPlanUpdated(c) \/ \E f \in Fields, n \in Values : Decide(c, f, n)
      PROVE  Goal
  <2>1. Others(c, "save")
    BY <1>7, WriteForm, EmitForm, DecideForm DEF WriteDecision
  <2> QED  BY <1>1, <1>7, <2>1 DEF Calls
<1>8. ASSUME NEW c \in Pages, JoinStore(c) \/ PlanUpdated(c)  PROVE Goal
  BY <1>2, <1>8 DEF JoinStore, PlanUpdated
<1>9. ASSUME Advance \/ UNCHANGED pvars  PROVE Goal
  BY <1>2, <1>9 DEF Advance, pvars
<1> HIDE DEF Goal
<1>10. Goal
  BY <1>3, <1>4, <1>5, <1>6, <1>7, <1>8, <1>9 DEF PageNext, Browser, Server
<1> QED  BY <1>10 DEF Goal, Same

\* An answer under way was so before, or has just been read.
LEMMA AnswerSteps ==
  ASSUME PageTypeOK, [PageNext]_pvars, NEW d \in Pages, NEW k \in Calls, Answered(d, k)'
  PROVE  \/ Answered(d, k) /\ call'[d][k].answer = call[d][k].answer
         \/ /\ UNCHANGED <<plans, writes, heard, events>>
            /\ \E v \in Versions : call'[d][k].answer = Message(v)
<1>1. CASE call'[d][k] = call[d][k]
  BY <1>1 DEF Answered
<1>2. CASE Refresh(d, k)
  BY <1>2, RefreshForm DEF Refresh, server, history
<1>3. CASE k = "save" /\ EmitPlanUpdated(d)
  BY <1>3, EmitForm DEF EmitPlanUpdated, Answered
<1>4. ASSUME Respond(d, k) \/ Refuse(d, k)  PROVE FALSE
  <2>1. call'[d][k] = Idle
    BY <1>4, EndForm DEF Respond, Refuse
  <2> QED  BY <2>1 DEF Answered, Idle
<1>5. ASSUME k \in {"save", "confirm"}, LoadPlan(d, k)  PROVE FALSE
  BY <1>5, LoadForm DEF Answered
<1>6. ASSUME \/ k = "get" /\ Visit(d)
             \/ k = "confirm" /\ (Confirm(d) \/ WriteConfirm(d))
             \/ k = "save" /\ (WriteDecision(d) \/ \E f \in Fields, n \in Values : Decide(d, f, n))
      PROVE  FALSE
  <2>1. call'[d][k].step \in {"read", "load"}
    BY <1>6, VisitForm, ConfirmForm, WriteForm, DecideHolds DEF WriteConfirm, WriteDecision
  <2> QED  BY <2>1 DEF Answered
<1> QED  BY <1>1, <1>2, <1>3, <1>4, <1>5, <1>6, OwnSteps

\* An event under way to a page was so before, or is the answer to a save.
LEMMA EventSteps ==
  ASSUME PageTypeOK, [PageNext]_pvars, NEW c \in Pages, NEW m \in Carried(events'[c])
  PROVE  \/ m \in Carried(events[c])
         \/ c \in joined /\ \E d \in Pages : EmitPlanUpdated(d) /\ m = call[d]["save"].answer
<1>1. UNCHANGED events => m \in Carried(events[c])
  OBVIOUS
<1>2. ASSUME NEW d \in Pages, PlanUpdated(d)  PROVE m \in Carried(events[c])
  <2>1. /\ events[d] \in Seq(Sent) /\ events[d] # <<>>
        /\ events' = [events EXCEPT ![d] = Tail(events[d])] /\ events \in [Pages -> Seq(Sent)]
    BY <1>2 DEF PlanUpdated, PageTypeOK
  <2>2. CASE c = d
    <3>1. events'[c] = Tail(events[c])
      BY <2>1, <2>2
    <3> QED  BY <2>1, <2>2, <3>1, HeadTail
  <2>3. CASE c # d
    BY <2>1, <2>3
  <2> QED  BY <2>2, <2>3
<1>3. ASSUME NEW d \in Pages, EmitPlanUpdated(d)
      PROVE  m \in Carried(events[c]) \/ (c \in joined /\ m = call[d]["save"].answer)
  <2>1. Carried(events'[c]) = Carried(events[c]) \cup (IF c \in joined THEN {call[d]["save"].answer} ELSE {})
    BY <1>3, EmitEvents
  <2> QED  BY <2>1
<1>4. CASE UNCHANGED pvars
  BY <1>1, <1>4 DEF pvars
<1>5. CASE PageNext /\ \A d \in Pages : ~PlanUpdated(d) /\ ~EmitPlanUpdated(d)
  BY <1>1, <1>5
  DEF PageNext, Browser, Server, Advance, Visit, JoinStore, Decide, Confirm, Respond, LoadPlan, Refuse,
      WriteDecision, WriteConfirm, Refresh
<1> QED  BY <1>2, <1>3, <1>4, <1>5

\* What a page is shown was under way to it.
Delivered(c, m) ==
  m \in Sent /\ (m \in Carried(events[c]) \/ \E k \in Calls : call[c][k].step = "answer" /\ m = call[c][k].answer)

\* What a page shows is as before, or its player decides, or something arrives.
LEMMA ViewSteps ==
  ASSUME PageTypeOK, [PageNext]_pvars, NEW c \in Pages
  PROVE  \/ view'[c] = view[c] /\ (c \in fresh' => c \in fresh /\ heard'[c] = heard[c])
         \/ \E f \in Fields, n \in Values : Decide(c, f, n)
         \/ \E m : /\ Delivered(c, m) /\ view'[c] = m
                   /\ heard'[c] = IF m.at > heard[c] THEN m.at ELSE heard[c]
                   /\ c \in fresh' <=> m.at >= heard[c]
<1> DEFINE Same == view'[c] = view[c] /\ (c \in fresh' => c \in fresh /\ heard'[c] = heard[c])
           Shows(m) == /\ Delivered(c, m) /\ view'[c] = m
                       /\ heard'[c] = IF m.at > heard[c] THEN m.at ELSE heard[c]
                       /\ c \in fresh' <=> m.at >= heard[c]
<1>1. UNCHANGED <<view, history>> => Same
  BY DEF history
<1>2. ASSUME NEW d \in Pages, NEW m \in Sent, Show(d, m), Delivered(d, m)  PROVE Same \/ Shows(m)
  BY <1>2, ShowForm
<1>3. ASSUME NEW d \in Pages, PlanUpdated(d)  PROVE Same \/ \E m : Shows(m)
  <2>1. /\ events[d] \in Seq(Sent) /\ events[d] # <<>> /\ Show(d, Head(events[d]))
    BY <1>3 DEF PlanUpdated, PageTypeOK
  <2>2. Head(events[d]) \in Sent /\ Delivered(d, Head(events[d]))
    BY <2>1, HeadTail DEF Delivered
  <2> QED  BY <1>2, <2>1, <2>2
<1>4. ASSUME NEW d \in Pages, NEW k \in Calls, Respond(d, k)  PROVE Same \/ \E m : Shows(m)
  <2>1. call[d][k].answer \in Sent /\ Show(d, call[d][k].answer) /\ Delivered(d, call[d][k].answer)
    BY <1>4 DEF Respond, Delivered, PageTypeOK, CallOK, Shaped
  <2> QED  BY <1>2, <2>1
<1>5. ASSUME NEW d \in Pages, NEW f \in Fields, NEW n \in Values, Decide(d, f, n), d # c  PROVE Same
  BY <1>5 DEF Decide, PageTypeOK, history
<1>6. ASSUME NEW d \in Pages, EmitPlanUpdated(d)  PROVE Same
  BY <1>6, EmitEvents DEF EmitPlanUpdated
<1>7. ASSUME NEW d \in Pages, NEW k \in {"save", "confirm"}, Refuse(d, k)  PROVE Same
  BY <1>7 DEF Refuse
<1>8. ASSUME UNCHANGED pvars  PROVE Same
  BY <1>1, <1>8 DEF pvars
<1> HIDE DEF Same, Shows
<1>9. ASSUME NEW d \in Pages, Visit(d) \/ JoinStore(d) \/ Confirm(d) \/ WriteDecision(d) \/ WriteConfirm(d)
      PROVE  Same
  BY <1>1, <1>9 DEF Visit, JoinStore, Confirm, WriteDecision, WriteConfirm, history
<1>10. ASSUME NEW d \in Pages, NEW k, LoadPlan(d, k) \/ Refresh(d, k)  PROVE Same
  BY <1>1, <1>10 DEF LoadPlan, Refresh
<1>11. ASSUME Advance  PROVE Same
  BY <1>1, <1>11 DEF Advance
<1>12. Same \/ (\E f \in Fields, n \in Values : Decide(c, f, n)) \/ \E m : Shows(m)
  BY <1>3, <1>4, <1>5, <1>6, <1>7, <1>8, <1>9, <1>10, <1>11 DEF PageNext, Browser, Server
<1> QED  BY <1>12 DEF Same, Shows

-----------------------------------------------------------------------------
(* Confirmations.  A plan is never opened again, so that of two messages     *)
(* about it the one read later says so if the other does.                    *)

\* A write is counted, and opens no plan that is confirmed.
LEMMA PlanSteps ==
  ASSUME PageTypeOK, [PageNext]_pvars
  PROVE  \/ plans' = plans /\ writes' = writes
         \/ writes' = writes + 1 /\ \A v \in Versions : plans[v].confirmed => plans'[v].confirmed
<1>1. ASSUME NEW c \in Pages, WriteDecision(c)
      PROVE  writes' = writes + 1 /\ \A v \in Versions : plans[v].confirmed => plans'[v].confirmed
  <2> DEFINE v == call[c]["save"].version
  <2>1. PICK row : plans' = [plans EXCEPT ![v] = [plans[v] EXCEPT !.decisions = row]] /\ writes' = writes + 1
    BY <1>1 DEF WriteDecision
  <2>2. plans \in [Versions -> Plan] /\ v \in Versions
    BY <1>1, WriteForm DEF WriteDecision, PageTypeOK
  <2>3. [plans[v] EXCEPT !.decisions = row].confirmed = plans[v].confirmed
    BY <2>2 DEF Plan
  <2> QED  BY <2>1, <2>2, <2>3
<1>2. ASSUME NEW c \in Pages, WriteConfirm(c)
      PROVE  writes' = writes + 1 /\ \A v \in Versions : plans[v].confirmed => plans'[v].confirmed
  <2>1. plans \in [Versions -> Plan] /\ call[c]["confirm"].version \in Versions
    BY <1>2, WriteForm DEF WriteConfirm, PageTypeOK
  <2> QED  BY <1>2, <2>1 DEF WriteConfirm, Plan
<1>3. CASE UNCHANGED pvars
  BY <1>3 DEF pvars, server
<1>4. CASE PageNext /\ \A c \in Pages : ~WriteDecision(c) /\ ~WriteConfirm(c)
  BY <1>4
  DEF PageNext, Browser, Server, Advance, Visit, JoinStore, Decide, Confirm, Respond, LoadPlan, Refuse,
      PlanUpdated, Refresh, EmitPlanUpdated, server
<1> QED  BY <1>1, <1>2, <1>3, <1>4

\* What is shown or under way to be.
Circulates(m) ==
  \/ m \in Sent /\ \E c \in Pages : m = view[c]
  \/ \E c \in Pages : m \in Carried(events[c])
  \/ \E d \in Pages, k \in Calls : Answered(d, k) /\ m = call[d][k].answer

LEMMA CirculatesType ==
  ASSUME PageTypeOK, NEW m, Circulates(m)
  PROVE  m \in Sent
<1>1. ASSUME NEW c \in Pages, m \in Carried(events[c])  PROVE m \in Sent
  <2>1. events[c] \in Seq(Sent)
    BY DEF PageTypeOK
  <2> QED  BY <1>1, <2>1 DEF Carried
<1>2. ASSUME NEW d \in Pages, NEW k \in Calls, Answered(d, k)  PROVE call[d][k].answer \in Sent
  BY <1>2 DEF Answered, PageTypeOK, CallOK, Shaped
<1> QED  BY <1>1, <1>2 DEF Circulates

\* Whether the plan is confirmed comes with what is read and stays with it.
SameStamp(x, m) == x.version = m.version /\ x.at = m.at /\ x.plan.confirmed = m.plan.confirmed

LEMMA CirculatesSteps ==
  ASSUME PageTypeOK, [PageNext]_pvars, NEW m, Circulates(m)'
  PROVE  \/ \E x : Circulates(x) /\ SameStamp(x, m)
         \/ plans' = plans /\ writes' = writes /\ \E v \in Versions : m = Message(v)
<1> DEFINE Old == \E x : Circulates(x) /\ SameStamp(x, m)
           Read == plans' = plans /\ writes' = writes /\ \E v \in Versions : m = Message(v)
<1>1. Circulates(m) => Old
  BY DEF SameStamp
<1>2. ASSUME NEW c \in Pages, m = view'[c], m \in Sent  PROVE Old
  <2>1. CASE view'[c] = view[c]
    <3>1. Circulates(m)
      BY <1>2, <2>1 DEF Circulates
    <3> QED  BY <1>1, <3>1
  <2>2. CASE Delivered(c, m)
    <3>1. Circulates(m)
      BY <2>2 DEF Delivered, Circulates, Answered
    <3> QED  BY <1>1, <3>1
  <2>3. ASSUME NEW f \in Fields, NEW n \in Values, Decide(c, f, n)  PROVE Old
    <3>1. view[c] \in Sent
      BY <2>3, DecideForm
    <3>2. Circulates(view[c])
      BY <3>1 DEF Circulates
    <3>3. view' = view \/ view' = [view EXCEPT ![c] = [view[c] EXCEPT !.plan =
                                     [view[c].plan EXCEPT !.decisions = Wanted(c, f, n)]]]
      BY <2>3 DEF Decide
    <3>4. view \in [Pages -> Sent \cup {None}]
      BY DEF PageTypeOK
    <3>5. SameStamp(view[c], m)
      <4> HIDE DEF Wanted, Decisions
      <4> QED  BY <1>2, <3>1, <3>3, <3>4 DEF SameStamp, Sent, Plan
    <3> QED  BY <3>2, <3>5
  <2> QED  BY <1>2, <2>1, <2>2, <2>3, ViewSteps
<1>3. ASSUME NEW c \in Pages, m \in Carried(events'[c])  PROVE Old
  <2>1. Circulates(m)
    BY <1>3, EventSteps DEF EmitPlanUpdated, Circulates, Answered, Calls
  <2> QED  BY <1>1, <2>1
<1>4. ASSUME NEW d \in Pages, NEW k \in Calls, Answered(d, k)', m = call'[d][k].answer  PROVE Old \/ Read
  <2>1. CASE Answered(d, k) /\ call'[d][k].answer = call[d][k].answer
    <3>1. Circulates(m)
      BY <1>4, <2>1 DEF Circulates
    <3> QED  BY <1>1, <3>1
  <2> QED  BY <1>4, <2>1, AnswerSteps
<1> HIDE DEF Old, Read
<1>5. Old \/ Read
  <2>1. \/ m \in Sent /\ \E c \in Pages : m = view'[c]
        \/ \E c \in Pages : m \in Carried(events'[c])
        \/ \E d \in Pages, k \in Calls : Answered(d, k)' /\ m = call'[d][k].answer
    BY DEF Circulates, Carried
  <2> QED  BY <1>2, <1>3, <1>4, <2>1
<1> QED  BY <1>5 DEF Old, Read

\* A message says of its plan what the plan was when it was read.
StampOK(m) ==
  /\ m.at <= writes
  /\ m.plan.confirmed => plans[m.version].confirmed
  /\ m.at = writes => (m.plan.confirmed <=> plans[m.version].confirmed)

StampOrder(x, y) ==
  x.version = y.version /\ x.plan.confirmed /\ x.at <= y.at => y.plan.confirmed

StampInv ==
  /\ \A m : Circulates(m) => StampOK(m)
  /\ \A x, y : Circulates(x) /\ Circulates(y) => StampOrder(x, y)

LEMMA StampInit == PageInit => StampInv
<1> SUFFICES ASSUME PageInit, NEW m  PROVE ~Circulates(m)
  BY DEF StampInv
<1>1. \A c \in Pages : view[c] \notin Sent /\ Carried(events[c]) = {}
  BY PlanPageAssumption DEF PageInit, Carried
<1>2. \A c \in Pages, k \in Calls : ~Answered(c, k)
  BY DEF PageInit, Answered, Idle
<1> QED  BY <1>1, <1>2 DEF Circulates

LEMMA StampNext ==
  ASSUME PageTypeOK, StampInv, [PageNext]_pvars
  PROVE  StampInv'
<1> DEFINE Read(m) == plans' = plans /\ writes' = writes /\ \E v \in Versions : m = Message(v)
           Now(m) == m.at <= writes' /\ (m.plan.confirmed => plans'[m.version].confirmed)
                     /\ (m.at = writes' => (m.plan.confirmed <=> plans'[m.version].confirmed))
<1>1. ASSUME NEW m, Circulates(m)  PROVE m \in Sent /\ m.at \in Nat /\ m.version \in Versions /\ StampOK(m)
  BY <1>1, CirculatesType DEF Sent, StampInv
<1>2. writes \in Nat /\ plans \in [Versions -> Plan]
  BY DEF PageTypeOK
<1>3. ASSUME NEW m, Circulates(m)  PROVE Now(m)
  BY <1>1, <1>2, <1>3, PlanSteps DEF StampOK
<1>4. ASSUME NEW m, Read(m)  PROVE Now(m)
  BY <1>2, <1>4 DEF Message
<1>5. ASSUME NEW m, Circulates(m)'
      PROVE  Now(m) /\ ((\E x : Circulates(x) /\ SameStamp(x, m)) \/ Read(m))
  <2>1. (\E x : Circulates(x) /\ SameStamp(x, m)) \/ Read(m)
    BY <1>5, CirculatesSteps
  <2>2. ASSUME NEW x, Circulates(x), SameStamp(x, m)  PROVE Now(m)
    <3>1. Now(x)
      BY <1>3, <2>2
    <3> QED  BY <2>2, <3>1 DEF SameStamp
  <2> HIDE DEF Now
  <2> QED  BY <1>4, <2>1, <2>2
<1>6. ASSUME NEW x, NEW y, Circulates(x), Circulates(y)  PROVE StampOrder(x, y)
  BY <1>6 DEF StampInv
<1>7. ASSUME NEW x, NEW y, Circulates(x), Read(y)  PROVE StampOrder(x, y) /\ StampOrder(y, x)
  BY <1>1, <1>2, <1>7 DEF StampOK, StampOrder, Message
<1>8. ASSUME NEW x, NEW y, Read(x), Read(y)  PROVE StampOrder(x, y)
  BY <1>8 DEF StampOrder, Message
<1>9. ASSUME NEW x, NEW y, Circulates(x)', Circulates(y)'  PROVE StampOrder(x, y)
  <2> HIDE DEF Read, Now
  <2>1. PICK v : SameStamp(v, x) /\ (Circulates(v) \/ Read(v))
    <3>1. SameStamp(x, x)
      BY DEF SameStamp
    <3> QED  BY <1>5, <1>9, <3>1
  <2>2. PICK w : SameStamp(w, y) /\ (Circulates(w) \/ Read(w))
    <3>1. SameStamp(y, y)
      BY DEF SameStamp
    <3> QED  BY <1>5, <1>9, <3>1
  <2>3. StampOrder(v, w)
    BY <1>6, <1>7, <1>8, <2>1, <2>2
  <2> QED  BY <2>1, <2>2, <2>3 DEF SameStamp, StampOrder
<1>10. \A m : Circulates(m)' => StampOK(m)'
  BY <1>5 DEF StampOK
<1>11. \A x, y : Circulates(x)' /\ Circulates(y)' => StampOrder(x, y)'
  BY <1>9 DEF StampOrder
<1> QED  BY <1>10, <1>11 DEF StampInv

\* A page that shows its plan confirmed goes back to an open one only for a
\* message that was read earlier: nobody opens the plan again, and deciding is
\* not possible on it.
THEOREM ConfirmationTheorem == PageSpec => ConfirmationSticks
<1>1. ASSUME PageTypeOK, StampInv, [PageNext]_pvars, NEW c \in Pages,
             view[c] # None, view[c].plan.confirmed, view'[c].version = view[c].version,
             ~view'[c].plan.confirmed
      PROVE  view'[c].at < view[c].at
  <2>1. view[c] \in Sent /\ view[c].at \in Nat
    BY <1>1 DEF PageTypeOK, Sent
  <2>2. ASSUME NEW f \in Fields, NEW n \in Values, Decide(c, f, n)  PROVE FALSE
    BY <1>1, <2>2 DEF Decide, Editable
  <2>3. PICK m : Delivered(c, m) /\ view'[c] = m
    BY <1>1, <2>2, ViewSteps
  <2>4. m \in Sent /\ m.at \in Nat /\ Circulates(m) /\ Circulates(view[c])
    BY <2>1, <2>3 DEF Delivered, Circulates, Answered, Sent
  <2>5. StampOrder(view[c], m)
    BY <1>1, <2>4 DEF StampInv
  <2> QED  BY <1>1, <2>1, <2>3, <2>4, <2>5 DEF StampOrder
<1>2. ASSUME PageTypeOK, StampInv, [PageNext]_pvars
      PROVE  [\A c \in Pages :
                /\ view[c] # None /\ view[c].plan.confirmed
                /\ view'[c].version = view[c].version /\ ~view'[c].plan.confirmed
                => view'[c].at < view[c].at]_pvars
  BY <1>1, <1>2
<1> QED  BY <1>2, PageTypeInit, PageTypeNext, StampInit, StampNext, PTL DEF PageSpec, ConfirmationSticks

-----------------------------------------------------------------------------
(* The other cell of a category.  A page that has heard of the last write     *)
(* shows its plan as it is, so what it then sends of the other cell is right  *)
(* until somebody writes.                                                    *)

\* A save asked for and not written yet.
Deciding(c) == call[c]["save"].step \in {"load", "write"}

\* What becomes of a page's save in a step.
LEMMA SaveSteps ==
  ASSUME PageTypeOK, [PageNext]_pvars, NEW c \in Pages
  PROVE  \/ /\ Deciding(c)' <=> Deciding(c)
            /\ LET s == call[c]["save"]  t == call'[c]["save"] IN
               Deciding(c) => /\ t.version = s.version /\ t.field = s.field
                              /\ t.decisions = s.decisions /\ t.basis = s.basis
         \/ \E f \in Fields, n \in Values : Decide(c, f, n)
         \/ WriteDecision(c)
         \/ Refuse(c, "save")
<1>1. ASSUME LoadPlan(c, "save")
      PROVE  /\ Deciding(c)' /\ Deciding(c)
             /\ LET s == call[c]["save"]  t == call'[c]["save"] IN
                t.version = s.version /\ t.field = s.field /\ t.decisions = s.decisions /\ t.basis = s.basis
  BY <1>1, LoadForm DEF LoadPlan, Deciding
<1>2. ASSUME Refresh(c, "save") \/ EmitPlanUpdated(c) \/ Respond(c, "save")
      PROVE  ~Deciding(c)' /\ ~Deciding(c)
  <2>1. ASSUME Respond(c, "save")  PROVE call'[c]["save"].step = "idle"
    <3>1. call'[c]["save"] = Idle
      BY <2>1, EndForm DEF Respond, Calls
    <3> QED  BY <3>1 DEF Idle
  <2> QED  BY <1>2, <2>1, RefreshForm, EmitForm DEF Refresh, EmitPlanUpdated, Respond, Deciding, Calls
<1> QED  BY <1>1, <1>2, OwnSteps DEF Deciding, Calls

\* The page shows a decision of its player's on top of the plan it was sent.
Pending(c) == Deciding(c) /\ call[c]["save"].version = view[c].version

UnderWay(m) ==
  \/ \E c \in Pages : m \in Carried(events[c])
  \/ \E d \in Pages, k \in Calls : Answered(d, k) /\ m = call[d][k].answer

\* What is under way was so before, or has just been read.
LEMMA UnderWaySteps ==
  ASSUME PageTypeOK, [PageNext]_pvars, NEW m, UnderWay(m)'
  PROVE  UnderWay(m) \/ (plans' = plans /\ writes' = writes /\ \E v \in Versions : m = Message(v))
<1>1. ASSUME NEW c \in Pages, m \in Carried(events'[c])  PROVE UnderWay(m)
  BY <1>1, EventSteps DEF EmitPlanUpdated, UnderWay, Answered, Calls
<1>2. ASSUME NEW d \in Pages, NEW k \in Calls, Answered(d, k)', m = call'[d][k].answer
      PROVE  UnderWay(m) \/ (plans' = plans /\ writes' = writes /\ \E v \in Versions : m = Message(v))
  <2>1. CASE Answered(d, k) /\ call'[d][k].answer = call[d][k].answer
    BY <1>2, <2>1 DEF UnderWay
  <2> QED  BY <1>2, <2>1, AnswerSteps
<1>3. \/ \E c \in Pages : m \in Carried(events'[c])
      \/ \E d \in Pages, k \in Calls : Answered(d, k)' /\ m = call'[d][k].answer
  BY DEF UnderWay, Carried
<1> QED  BY <1>1, <1>2, <1>3

\* What a page has heard of was under way to some page.
LEMMA HeardSteps ==
  ASSUME PageTypeOK, [PageNext]_pvars, NEW c \in Pages
  PROVE  heard'[c] = heard[c] \/ \E m \in Sent : UnderWay(m) /\ heard'[c] = m.at
<1>1. ASSUME NEW d \in Pages, EmitPlanUpdated(d)
      PROVE  heard'[c] = heard[c] \/ \E m \in Sent : UnderWay(m) /\ heard'[c] = m.at
  <2>1. heard'[c] = heard[c] \/ heard'[c] = call[d]["save"].answer.at
    BY <1>1, EmitEvents
  <2>2. UnderWay(call[d]["save"].answer) /\ call[d]["save"].answer \in Sent
    BY <1>1, EmitForm DEF UnderWay, Answered, EmitPlanUpdated, Calls
  <2> QED  BY <2>1, <2>2
<1>2. ASSUME NEW d \in Pages, NEW x \in Sent, Show(d, x), UnderWay(x)
      PROVE  heard'[c] = heard[c] \/ \E m \in Sent : UnderWay(m) /\ heard'[c] = m.at
  BY <1>2, ShowForm
<1>3. ASSUME NEW d \in Pages, PlanUpdated(d)
      PROVE  heard'[c] = heard[c] \/ \E m \in Sent : UnderWay(m) /\ heard'[c] = m.at
  <2>1. events[d] \in Seq(Sent) /\ events[d] # <<>> /\ Show(d, Head(events[d]))
    BY <1>3 DEF PlanUpdated, PageTypeOK
  <2>2. Head(events[d]) \in Sent /\ UnderWay(Head(events[d]))
    BY <2>1, HeadTail DEF UnderWay
  <2> QED  BY <1>2, <2>1, <2>2
<1>4. ASSUME NEW d \in Pages, NEW k \in Calls, Respond(d, k)
      PROVE  heard'[c] = heard[c] \/ \E m \in Sent : UnderWay(m) /\ heard'[c] = m.at
  <2>1. call[d][k].answer \in Sent /\ Show(d, call[d][k].answer) /\ UnderWay(call[d][k].answer)
    BY <1>4 DEF Respond, UnderWay, Answered, PageTypeOK, CallOK, Shaped
  <2> QED  BY <1>2, <2>1
<1>5. CASE UNCHANGED pvars
  BY <1>5 DEF pvars, history
<1>6. CASE PageNext /\ \A d \in Pages : ~EmitPlanUpdated(d) /\ ~PlanUpdated(d) /\ \A k \in Calls : ~Respond(d, k)
  BY <1>6
  DEF PageNext, Browser, Server, Advance, Visit, JoinStore, Decide, Confirm, LoadPlan, Refuse,
      WriteDecision, WriteConfirm, Refresh, history
<1> QED  BY <1>1, <1>3, <1>4, <1>5, <1>6

\* A message read since the last write says what the plan is.
SnapshotOK(m) == m.at <= writes /\ (m.at = writes => m.plan = plans[m.version])

Stale(m) == m.plan.decisions # plans[m.version].decisions

\* A save whose page had heard of the last write names the other decisions right.
BasisOK(s) ==
  s.basis = writes =>
    \A g \in Fields \ {s.field} : s.decisions[g] = plans[s.version].decisions[g]

NeighbourInv ==
  /\ \A m : UnderWay(m) => SnapshotOK(m)
  /\ \A c \in Pages : heard[c] <= writes
  /\ \A c \in fresh : view[c] \in Sent /\ view[c].at = heard[c]
  /\ \A c \in fresh : heard[c] = writes /\ ~Pending(c) => ~Stale(view[c])
  /\ \A c \in Pages : Deciding(c) =>
       (call[c]["save"].basis # None => call[c]["save"].basis <= writes) /\ BasisOK(call[c]["save"])

LEMMA NeighbourInit == PageInit => NeighbourInv
<1> SUFFICES ASSUME PageInit  PROVE NeighbourInv
  OBVIOUS
<1>1. \A c \in Pages : Carried(events[c]) = {} /\ ~Deciding(c) /\ \A k \in Calls : ~Answered(c, k)
  BY DEF PageInit, Carried, Deciding, Answered, Idle, Calls
<1>2. \A m : ~UnderWay(m)
  BY <1>1 DEF UnderWay
<1> QED  BY <1>1, <1>2 DEF PageInit, NeighbourInv

\* A write is counted; nothing else touches the plans.
LEMMA WritesSteps ==
  ASSUME PageTypeOK, [PageNext]_pvars
  PROVE  /\ writes' \in Nat /\ ((writes' = writes /\ plans' = plans) \/ writes' = writes + 1)
         /\ \A c \in Pages : WriteDecision(c) => writes' = writes + 1
BY PlanSteps DEF WriteDecision, PageTypeOK

LEMMA NeighbourNext ==
  ASSUME PageTypeOK, NeighbourInv, [PageNext]_pvars
  PROVE  NeighbourInv'
<1>1. /\ writes \in Nat /\ writes' \in Nat /\ ((writes' = writes /\ plans' = plans) \/ writes' = writes + 1)
  BY WritesSteps DEF PageTypeOK
<1>2. ASSUME NEW m, UnderWay(m)  PROVE SnapshotOK(m)
  BY <1>2 DEF NeighbourInv
<1>3. ASSUME NEW m \in Sent, SnapshotOK(m)  PROVE SnapshotOK(m)'
  <2>1. m.at \in Nat
    BY DEF Sent
  <2> QED  BY <1>1, <1>3, <2>1 DEF SnapshotOK
<1>4. ASSUME NEW m, UnderWay(m)  PROVE m \in Sent
  <2>1. Circulates(m)
    BY <1>4 DEF UnderWay, Circulates
  <2> QED  BY <2>1, CirculatesType
<1>5. ASSUME NEW m, UnderWay(m)'  PROVE SnapshotOK(m)'
  <2>1. CASE UnderWay(m)
    BY <1>2, <1>3, <1>4, <2>1
  <2>2. CASE plans' = plans /\ writes' = writes /\ \E v \in Versions : m = Message(v)
    BY <1>1, <2>2 DEF SnapshotOK, Message
  <2> QED  BY <1>5, <2>1, <2>2, UnderWaySteps
<1>6. ASSUME NEW c \in Pages  PROVE (heard[c] <= writes)'
  <2>1. heard[c] \in Nat /\ heard[c] <= writes
    BY DEF NeighbourInv, PageTypeOK
  <2>2. CASE heard'[c] = heard[c]
    BY <1>1, <2>1, <2>2
  <2>3. ASSUME NEW m \in Sent, UnderWay(m), heard'[c] = m.at  PROVE heard'[c] <= writes'
    <3>1. m.at \in Nat /\ m.at <= writes
      BY <1>2, <2>3 DEF SnapshotOK, Sent
    <3> QED  BY <1>1, <2>3, <3>1
  <2> QED  BY <2>2, <2>3, HeardSteps
<1>7. ASSUME NEW c \in Pages, c \in fresh'
      PROVE  /\ view'[c] \in Sent /\ view'[c].at = heard'[c]
             /\ heard'[c] = writes' /\ ~Pending(c)' => ~Stale(view[c])'
  <2>1. heard[c] \in Nat /\ heard[c] <= writes
    BY DEF NeighbourInv, PageTypeOK
  <2>2. CASE view'[c] = view[c] /\ c \in fresh /\ heard'[c] = heard[c]
    <3>1. /\ view[c] \in Sent /\ view[c].at = heard[c]
          /\ heard[c] = writes /\ ~Pending(c) => ~Stale(view[c])
      BY <2>2 DEF NeighbourInv
    <3>2. ASSUME heard'[c] = writes', ~Pending(c)'  PROVE ~Stale(view[c])'
      <4>1. writes' = writes /\ plans' = plans /\ heard[c] = writes
        BY <1>1, <2>1, <2>2, <3>2
      <4>2. ~WriteDecision(c)
        BY <1>1, <4>1, WritesSteps
      <4>3. ~Refuse(c, "save")
        BY <1>7 DEF Refuse
      <4>4. ASSUME NEW f \in Fields, NEW n \in Values, Decide(c, f, n)  PROVE FALSE
        BY <2>2, <3>2, <4>4, DecideHolds DEF Pending, Deciding
      <4>5. ~Pending(c)
        BY <2>2, <3>2, <4>2, <4>3, <4>4, SaveSteps DEF Pending
      <4> QED  BY <2>2, <3>1, <4>1, <4>5 DEF Stale
    <3> QED  BY <2>2, <3>1, <3>2
  <2>3. ASSUME NEW f \in Fields, NEW n \in Values, Decide(c, f, n)
        PROVE  view'[c] \in Sent /\ view'[c].at = heard'[c] /\ Pending(c)'
    <3>1. view[c] \in Sent /\ view[c].at = heard[c] /\ heard' = heard
      BY <1>7, <2>3 DEF Decide, history, NeighbourInv
    <3>2. Pending(c)'
      BY <2>3, DecideHolds, DecideShows DEF Pending, Deciding
    <3> QED  BY <2>3, <3>1, <3>2, DecideShows
  <2>4. ASSUME NEW m, Delivered(c, m), view'[c] = m, m.at >= heard[c],
               heard'[c] = IF m.at > heard[c] THEN m.at ELSE heard[c]
        PROVE  /\ view'[c] \in Sent /\ view'[c].at = heard'[c]
               /\ heard'[c] = writes' => ~Stale(view[c])'
    <3>1. m \in Sent /\ m.at \in Nat /\ UnderWay(m)
      BY <2>4 DEF Delivered, UnderWay, Answered, Sent
    <3>2. SnapshotOK(m)'
      BY <1>2, <1>3, <3>1
    <3> QED  BY <2>1, <2>4, <3>1, <3>2 DEF SnapshotOK, Stale
  <2> QED  BY <1>7, <2>2, <2>3, <2>4, ViewSteps
<1>8. ASSUME NEW c \in Pages, Deciding(c)'
      PROVE  /\ call'[c]["save"].basis # None => call'[c]["save"].basis <= writes'
             /\ BasisOK(call[c]["save"])'
  <2> DEFINE t == call'[c]["save"]
  <2>1. CASE /\ Deciding(c)
             /\ LET s == call[c]["save"] IN
                t.version = s.version /\ t.field = s.field /\ t.decisions = s.decisions /\ t.basis = s.basis
    <3> DEFINE s == call[c]["save"]
    <3>1. (s.basis # None => s.basis <= writes) /\ BasisOK(s)
      BY <2>1 DEF NeighbourInv
    <3>2. s.basis \in Nat \cup {None}
      BY DEF PageTypeOK, CallOK, Call, Calls
    <3>3. None # writes'
      BY <1>1, PlanPageAssumption
    <3> QED  BY <1>1, <2>1, <3>1, <3>2, <3>3 DEF BasisOK
  <2>2. ASSUME NEW f \in Fields, NEW n \in Values, Decide(c, f, n)
        PROVE  (t.basis # None => t.basis <= writes') /\ BasisOK(call[c]["save"])'
    <3>1. /\ t.version = view[c].version /\ t.field = f /\ t.decisions = Wanted(c, f, n)
          /\ t.basis = IF c \in fresh THEN heard[c] ELSE None
      BY <2>2, DecideHolds
    <3>2. writes' = writes /\ plans' = plans /\ ~Deciding(c)
      BY <2>2 DEF Decide, server, Editable, Saving, Under, Deciding
    <3>3. heard[c] \in Nat /\ heard[c] <= writes
      BY DEF NeighbourInv, PageTypeOK
    <3>4. None # writes
      BY <1>1, PlanPageAssumption
    <3>5. ASSUME t.basis = writes', NEW g \in Fields \ {f}
          PROVE  Wanted(c, f, n)[g] = plans[view[c].version].decisions[g]
      <4>1. c \in fresh /\ heard[c] = writes
        BY <3>1, <3>2, <3>4, <3>5
      <4>2. view[c] \in Sent /\ ~Stale(view[c])
        BY <3>2, <4>1 DEF NeighbourInv, Pending
      <4>3. view[c].plan.decisions \in [Fields -> Values]
        BY <4>2 DEF Sent, Plan, Decisions
      <4> QED  BY <4>2, <4>3 DEF Wanted, Stale
    <3> HIDE DEF t
    <3>6. t.basis = writes' => \A g \in Fields \ {t.field} : t.decisions[g] = plans'[t.version].decisions[g]
      BY <3>1, <3>2, <3>5
    <3> QED  BY <3>1, <3>2, <3>3, <3>6 DEF BasisOK, t
  <2>3. ASSUME WriteDecision(c) \/ Refuse(c, "save")  PROVE FALSE
    <3>1. ASSUME WriteDecision(c)  PROVE FALSE
      BY <1>8, <3>1, WriteForm DEF WriteDecision, Deciding
    <3>2. ASSUME Refuse(c, "save")  PROVE FALSE
      <4>1. call'[c]["save"] = Idle
        BY <3>2, EndForm DEF Refuse, Calls
      <4> QED  BY <1>8, <4>1 DEF Deciding, Idle
    <3> QED  BY <2>3, <3>1, <3>2
  <2> HIDE DEF t
  <2> QED  BY <1>8, <2>1, <2>2, <2>3, SaveSteps DEF t
<1>9. fresh' \subseteq Pages
  BY PageTypeNext DEF PageTypeOK
<1> QED  BY <1>5, <1>6, <1>7, <1>8, <1>9 DEF NeighbourInv

\* A save that was decided on the latest plan and written before any other leaves
\* the other cell of its category as it is: what it carries of that cell is what
\* the row holds.
THEOREM NeighbourTheorem == PageSpec => NeighbourKept
<1>1. ASSUME PageTypeOK, NeighbourInv, [PageNext]_pvars, NEW c \in Pages,
             call[c]["save"].step = "write", call'[c]["save"].step = "read", call[c]["save"].basis = writes,
             NEW g \in Named(call[c]["save"].field) \ {call[c]["save"].field}
      PROVE  plans'[call[c]["save"].version].decisions[g] = plans[call[c]["save"].version].decisions[g]
  <2>1. PICK s : s = call[c]["save"]
    OBVIOUS
  <2>2. Deciding(c) /\ ~Deciding(c)'
    BY <1>1 DEF Deciding
  <2>3. WriteDecision(c)
    <3>1. ~Refuse(c, "save")
      BY <1>1, EndForm DEF Refuse, Idle, Calls
    <3>2. ASSUME NEW f \in Fields, NEW n \in Values, Decide(c, f, n)  PROVE FALSE
      BY <1>1, <3>2 DEF Decide, Editable, Saving, Under
    <3> QED  BY <2>2, <3>1, <3>2, <1>1, SaveSteps
  <2>4. plans' = [plans EXCEPT ![s.version] = [plans[s.version] EXCEPT !.decisions =
          [h \in Fields |-> IF h \in Named(s.field) THEN s.decisions[h] ELSE plans[s.version].decisions[h]]]]
    BY <2>1, <2>3 DEF WriteDecision
  <2>5. s.version \in Versions /\ s.field \in Fields /\ plans \in [Versions -> Plan]
    BY <1>1, <2>1, <2>2 DEF PageTypeOK, CallOK, Shaped, Calls
  <2>6. g \in Fields \ {s.field} /\ g \in Named(s.field)
    BY <1>1, <2>1, <2>5 DEF Named
  <2>7. s.decisions[g] = plans[s.version].decisions[g]
    BY <1>1, <2>1, <2>2, <2>6 DEF NeighbourInv, BasisOK
  <2> HIDE DEF Named
  <2>8. plans'[s.version].decisions[g] = s.decisions[g]
    <3>1. plans[s.version] \in Plan
      BY <2>5
    <3> QED  BY <2>4, <2>5, <2>6, <3>1 DEF Plan
  <2> QED  BY <2>1, <2>7, <2>8
<1>2. ASSUME PageTypeOK, NeighbourInv, [PageNext]_pvars
      PROVE  [\A c \in Pages :
               LET s == call[c]["save"] IN
               s.step = "write" /\ call'[c]["save"].step = "read" /\ s.basis = writes =>
                   \A g \in Named(s.field) \ {s.field} :
                     plans'[s.version].decisions[g] = plans[s.version].decisions[g]]_pvars
  BY <1>1, <1>2
<1> QED  BY <1>2, PageTypeInit, PageTypeNext, NeighbourInit, NeighbourNext, PTL DEF PageSpec, NeighbourKept

-----------------------------------------------------------------------------
(* What a page shows.  Whatever is out of date at a page that shows its plan,  *)
(* or is about to, is covered: word of a later write is on its way to the page,*)
(* or the write itself is still to be read.                                  *)

\* A page that shows its plan or is getting it.
Engaged(c) == view[c] # None \/ Under(c, "get")

\* Word of a write after the first n has come to the page, or will.
Told(c, n) ==
  \/ heard[c] > n
  \/ \E m \in Carried(events[c]) : m.at > n
  \/ call[c]["get"].step = "read"
  \/ call[c]["get"].step = "answer" /\ call[c]["get"].answer.at > n
  \/ \E d \in Pages : call[d]["save"].step = "emit" /\ call[d]["save"].answer.at > n

\* A decision of version v has been written and not been read again yet.
Rewritten(v) == \E d \in Pages : call[d]["save"].step = "read" /\ call[d]["save"].version = v

Covered(m, c) == Stale(m) => Told(c, m.at) \/ Rewritten(m.version)

ShownInv ==
  /\ \A c \in Pages : c \in joined \/ Carried(events[c]) # {} \/ (\E k \in Calls : Under(c, k)) => Engaged(c)
  /\ \A c \in Pages : \A m : Engaged(c) /\ UnderWay(m) => Covered(m, c)
  /\ \A c \in fresh : Covered(view[c], c) \/ Pending(c)

LEMMA HeardGrows ==
  ASSUME PageTypeOK, [PageNext]_pvars, NEW c \in Pages
  PROVE  heard[c] \in Nat /\ heard'[c] \in Nat /\ heard'[c] >= heard[c]
<1>1. heard[c] \in Nat /\ heard'[c] \in Nat
  BY PageTypeNext DEF PageTypeOK
<1>2. ASSUME NEW d \in Pages, NEW m \in Sent, Show(d, m)  PROVE heard'[c] >= heard[c]
  BY <1>1, <1>2, ShowForm DEF Sent
<1>3. ASSUME NEW d \in Pages, PlanUpdated(d)  PROVE heard'[c] >= heard[c]
  BY <1>2, <1>3, HeadTail DEF PlanUpdated, PageTypeOK
<1>4. ASSUME NEW d \in Pages, NEW k \in Calls, Respond(d, k)  PROVE heard'[c] >= heard[c]
  BY <1>2, <1>4 DEF Respond, PageTypeOK, CallOK, Shaped
<1>5. ASSUME NEW d \in Pages, EmitPlanUpdated(d)  PROVE heard'[c] >= heard[c]
  BY <1>5, EmitEvents
<1>6. CASE UNCHANGED pvars
  BY <1>1, <1>6 DEF pvars, history
<1>7. ASSUME PageNext, \A d \in Pages : ~EmitPlanUpdated(d) /\ ~PlanUpdated(d) /\ \A k \in Calls : ~Respond(d, k)
      PROVE  heard' = heard
  BY <1>7
  DEF PageNext, Browser, Server, Advance, Visit, JoinStore, Decide, Confirm, LoadPlan, Refuse,
      WriteDecision, WriteConfirm, Refresh, history
<1>8. heard' = heard => heard'[c] >= heard[c]
  BY <1>1
<1> QED  BY <1>1, <1>3, <1>4, <1>5, <1>6, <1>7, <1>8

\* An event stays under way until the page has heard of it.
LEMMA EventStays ==
  ASSUME PageTypeOK, [PageNext]_pvars, NEW c \in Pages, NEW m \in Carried(events[c])
  PROVE  m \in Carried(events'[c]) \/ heard'[c] >= m.at
<1>1. UNCHANGED events => m \in Carried(events'[c])
  OBVIOUS
<1>2. ASSUME NEW d \in Pages, PlanUpdated(d)  PROVE m \in Carried(events'[c]) \/ heard'[c] >= m.at
  <2>1. /\ events[d] \in Seq(Sent) /\ events[d] # <<>> /\ Show(d, Head(events[d]))
        /\ events' = [events EXCEPT ![d] = Tail(events[d])] /\ events \in [Pages -> Seq(Sent)]
    BY <1>2 DEF PlanUpdated, PageTypeOK
  <2>2. CASE c = d
    <3>1. events'[c] = Tail(events[c])
      BY <2>1, <2>2
    <3>2. Head(events[c]) \in Sent /\ (m \in Carried(Tail(events[c])) \/ m = Head(events[c]))
      BY <2>1, <2>2, HeadTail
    <3>3. m = Head(events[c]) => heard'[c] >= m.at
      BY <2>1, <2>2, <3>2, ShowForm
    <3> QED  BY <3>1, <3>2, <3>3
  <2>3. CASE c # d
    BY <2>1, <2>3
  <2> QED  BY <2>2, <2>3
<1>3. ASSUME NEW d \in Pages, EmitPlanUpdated(d)  PROVE m \in Carried(events'[c])
  BY <1>3, EmitEvents
<1>4. CASE UNCHANGED pvars
  BY <1>1, <1>4 DEF pvars
<1>5. CASE PageNext /\ \A d \in Pages : ~PlanUpdated(d) /\ ~EmitPlanUpdated(d)
  BY <1>1, <1>5
  DEF PageNext, Browser, Server, Advance, Visit, JoinStore, Decide, Confirm, Respond, LoadPlan, Refuse,
      WriteDecision, WriteConfirm, Refresh
<1> QED  BY <1>2, <1>3, <1>4, <1>5

\* A page that shows its plan goes on doing so, and one that gets it will.
LEMMA EngagedSteps ==
  ASSUME PageTypeOK, [PageNext]_pvars, NEW c \in Pages
  PROVE  /\ Engaged(c) => Engaged(c)'
         /\ Engaged(c)' => Engaged(c) \/ (\E m : Delivered(c, m)) \/ call'[c]["get"].step = "read"
<1>1. view[c] # None => view'[c] # None
  BY ViewSteps, DecideShows, PlanPageAssumption DEF Delivered
<1>2. Under(c, "get") => Under(c, "get")' \/ view'[c] # None
  <2>1. ASSUME Respond(c, "get")  PROVE view'[c] # None
    <3>1. call[c]["get"].answer \in Sent /\ Show(c, call[c]["get"].answer)
      BY <2>1 DEF Respond, PageTypeOK, CallOK, Shaped, Calls
    <3> QED  BY <3>1, ShowForm, PlanPageAssumption
  <2>2. ASSUME Refresh(c, "get") \/ Visit(c)  PROVE Under(c, "get")'
    BY <2>2, RefreshForm, VisitForm DEF Under, Calls
  <2> QED  BY <2>1, <2>2, OwnSteps DEF Under, Calls
<1>3. ASSUME view'[c] # None, view[c] = None  PROVE \E m : Delivered(c, m)
  BY <1>3, ViewSteps DEF Decide, Editable
<1>4. ASSUME Under(c, "get")', ~Under(c, "get")  PROVE call'[c]["get"].step = "read"
  BY <1>4, OwnSteps, VisitForm DEF Under, Refresh, Respond, Calls
<1> QED  BY <1>1, <1>2, <1>3, <1>4 DEF Engaged

\* Word of a write is not lost on the way to a page that shows its plan.
LEMMA ToldKept ==
  ASSUME PageTypeOK, [PageNext]_pvars, NEW c \in Pages, Engaged(c),
         NEW n \in Nat, n < writes, Told(c, n)
  PROVE  Told(c, n)'
<1>1. CASE heard[c] > n
  BY <1>1, HeardGrows DEF Told
<1>2. ASSUME NEW m \in Carried(events[c]), m.at > n  PROVE Told(c, n)'
  <2>1. m \in Carried(events'[c]) \/ heard'[c] >= m.at
    BY EventStays
  <2>2. m.at \in Nat /\ heard'[c] \in Nat
    <3>1. Circulates(m)
      BY DEF Circulates
    <3> QED  BY <3>1, CirculatesType, HeardGrows DEF Sent
  <2> QED  BY <1>2, <2>1, <2>2 DEF Told, Carried
<1>3. CASE call[c]["get"].step = "read"
  <2>1. CASE Refresh(c, "get")
    <3>1. call'[c]["get"].step = "answer" /\ call'[c]["get"].answer.at = writes
      BY <2>1, RefreshForm, MessageStamp DEF Calls
    <3> QED  BY <3>1 DEF Told
  <2>2. CASE call'[c]["get"].step = "read"
    BY <2>2 DEF Told
  <2> QED  BY <1>3, <2>1, <2>2, OwnSteps, VisitForm DEF Respond, Calls
<1>4. CASE call[c]["get"].step = "answer" /\ call[c]["get"].answer.at > n
  <2>1. CASE Respond(c, "get")
    <3>1. call[c]["get"].answer \in Sent /\ Show(c, call[c]["get"].answer)
      BY <2>1 DEF Respond, PageTypeOK, CallOK, Shaped, Calls
    <3>2. heard'[c] > n
      BY <1>4, <3>1, ShowForm, HeardGrows DEF Sent
    <3> QED  BY <3>2 DEF Told
  <2>2. CASE call'[c]["get"] = call[c]["get"]
    BY <1>4, <2>2 DEF Told
  <2>3. CASE call'[c]["get"].step = "read"
    BY <2>3 DEF Told
  <2> QED  BY <1>4, <2>1, <2>2, <2>3, OwnSteps, VisitForm DEF Refresh, Calls
<1>5. ASSUME NEW d \in Pages, call[d]["save"].step = "emit", call[d]["save"].answer.at > n  PROVE Told(c, n)'
  <2>1. CASE call'[d]["save"] = call[d]["save"]
    BY <1>5, <2>1 DEF Told
  <2>2. CASE EmitPlanUpdated(d)
    <3>1. PICK m : m = call[d]["save"].answer
      OBVIOUS
    <3>2. /\ m \in Sent /\ m.at \in Nat /\ m.at > n
          /\ Carried(events'[c]) = Carried(events[c]) \cup (IF c \in joined THEN {m} ELSE {})
          /\ heard'[c] \in Nat /\ (Deaf(c) => heard'[c] >= m.at)
      BY <1>5, <2>2, <3>1, EmitForm, EmitEvents, HeardGrows DEF Sent
    <3>3. CASE c \in joined
      BY <3>2, <3>3 DEF Told, Carried
    <3>4. CASE Deaf(c)
      BY <3>2, <3>4 DEF Told
    <3>5. CASE c \notin joined /\ ~Deaf(c)
      <4>1. call[c]["get"].step = "read"
        BY <3>5 DEF Deaf, Engaged, Under, PageTypeOK, CallOK, Shaped, Calls
      <4>2. call'[c]["get"] = call[c]["get"]
        BY <2>2, EmitForm DEF Others, Calls
      <4> QED  BY <4>1, <4>2 DEF Told
    <3> QED  BY <3>3, <3>4, <3>5
  <2> QED
    BY <1>5, <2>1, <2>2, OwnSteps
    DEF Refresh, Respond, LoadPlan, Refuse, WriteDecision, Decide, Editable, Saving, Under, Calls
<1> QED  BY <1>1, <1>2, <1>3, <1>4, <1>5 DEF Told

\* A write is announced as soon as it has been read again.
LEMMA RewrittenKept ==
  ASSUME PageTypeOK, [PageNext]_pvars, NEW c \in Pages, NEW n \in Nat, n < writes,
         NEW v, Rewritten(v)
  PROVE  Rewritten(v)' \/ Told(c, n)'
<1>1. PICK d \in Pages : call[d]["save"].step = "read" /\ call[d]["save"].version = v
  BY DEF Rewritten
<1>2. CASE call'[d]["save"] = call[d]["save"]
  BY <1>1, <1>2 DEF Rewritten
<1>3. CASE Refresh(d, "save")
  <2>1. call'[d]["save"].step = "emit" /\ call'[d]["save"].answer.at = writes
    BY <1>3, RefreshForm, MessageStamp DEF Calls
  <2> QED  BY <2>1 DEF Told
<1> QED
  BY <1>1, <1>2, <1>3, OwnSteps
  DEF Respond, LoadPlan, Refuse, WriteDecision, EmitPlanUpdated, Decide, Editable, Saving, Under, Calls

\* The decisions of a plan change only by a write that is read again afterwards.
LEMMA DecisionsSteps ==
  ASSUME PageTypeOK, [PageNext]_pvars, NEW v \in Versions
  PROVE  plans'[v].decisions = plans[v].decisions \/ Rewritten(v)'
<1>1. ASSUME NEW d \in Pages, WriteDecision(d)  PROVE plans'[v].decisions = plans[v].decisions \/ Rewritten(v)'
  <2>1. /\ call[d]["save"].version \in Versions /\ plans \in [Versions -> Plan]
        /\ call'[d]["save"].step = "read" /\ call'[d]["save"].version = call[d]["save"].version
    BY <1>1, WriteForm DEF WriteDecision, PageTypeOK
  <2>2. CASE call[d]["save"].version = v
    BY <2>1, <2>2 DEF Rewritten
  <2>3. CASE call[d]["save"].version # v
    BY <1>1, <2>1, <2>3 DEF WriteDecision
  <2> QED  BY <2>2, <2>3
<1>2. ASSUME NEW d \in Pages, WriteConfirm(d)  PROVE plans'[v].decisions = plans[v].decisions
  <2>1. plans \in [Versions -> Plan] /\ call[d]["confirm"].version \in Versions
    BY <1>2, WriteForm DEF WriteConfirm, PageTypeOK
  <2> QED  BY <1>2, <2>1 DEF WriteConfirm, Plan
<1>3. CASE UNCHANGED pvars
  BY <1>3 DEF pvars, server
<1>4. CASE PageNext /\ \A d \in Pages : ~WriteDecision(d) /\ ~WriteConfirm(d)
  BY <1>4
  DEF PageNext, Browser, Server, Advance, Visit, JoinStore, Decide, Confirm, Respond, LoadPlan, Refuse,
      PlanUpdated, Refresh, EmitPlanUpdated, server
<1> QED  BY <1>1, <1>2, <1>3, <1>4

\* What is covered stays so.
LEMMA CoveredKept ==
  ASSUME PageTypeOK, [PageNext]_pvars, NEW c \in Pages, Engaged(c),
         NEW m \in Sent, Stale(m) => m.at < writes, Covered(m, c)
  PROVE  Covered(m, c)'
<1>1. m.at \in Nat /\ m.version \in Versions
  BY DEF Sent
<1>2. CASE Stale(m)
  <2>1. Told(c, m.at)' \/ Rewritten(m.version)'
    BY <1>1, <1>2, ToldKept, RewrittenKept DEF Covered
  <2> QED  BY <2>1 DEF Covered
<1>3. CASE ~Stale(m)
  <2>1. Stale(m)' => Rewritten(m.version)'
    BY <1>1, <1>3, DecisionsSteps DEF Stale
  <2> QED  BY <2>1 DEF Covered
<1> QED  BY <1>2, <1>3

LEMMA ShownInit == PageInit => ShownInv
<1> SUFFICES ASSUME PageInit  PROVE ShownInv
  OBVIOUS
<1>1. \A c \in Pages : Carried(events[c]) = {} /\ \A k \in Calls : ~Under(c, k) /\ ~Answered(c, k)
  BY DEF PageInit, Carried, Under, Answered, Idle
<1>2. \A m : ~UnderWay(m)
  BY <1>1 DEF UnderWay
<1> QED  BY <1>1, <1>2 DEF PageInit, ShownInv

\* A page in the room, with an event or a call under way, shows its plan or gets it.
LEMMA EngagedNext ==
  ASSUME PageTypeOK, ShownInv, [PageNext]_pvars, NEW c \in Pages,
         c \in joined' \/ Carried(events'[c]) # {} \/ \E k \in Calls : Under(c, k)'
  PROVE  Engaged(c)'
<1>1. ASSUME c \in joined \/ Carried(events[c]) # {} \/ \E k \in Calls : Under(c, k)  PROVE Engaged(c)'
  BY <1>1, EngagedSteps DEF ShownInv
<1>2. ASSUME view[c] # None  PROVE Engaged(c)'
  BY <1>2, EngagedSteps DEF Engaged
<1>3. ASSUME NEW k \in Calls, Under(c, k)'  PROVE Engaged(c)'
  <2>1. CASE call'[c][k] = call[c][k]
    BY <1>1, <1>3, <2>1 DEF Under
  <2>2. ASSUME Refresh(c, k) \/ LoadPlan(c, k) \/ (k = "confirm" /\ WriteConfirm(c))
               \/ (k = "save" /\ (WriteDecision(c) \/ EmitPlanUpdated(c)))
        PROVE  Engaged(c)'
    <3>1. Under(c, k)
      BY <2>2 DEF Under, Refresh, LoadPlan, WriteConfirm, WriteDecision, EmitPlanUpdated
    <3> QED  BY <1>1, <3>1
  <2>3. ASSUME Respond(c, k) \/ Refuse(c, k)  PROVE FALSE
    <3>1. call'[c][k] = Idle
      BY <2>3, EndForm DEF Respond, Refuse
    <3> QED  BY <1>3, <3>1 DEF Under, Idle
  <2>4. CASE k = "get" /\ Visit(c)
    BY <1>3, <2>4 DEF Engaged
  <2>5. ASSUME Confirm(c) \/ \E f \in Fields, n \in Values : Decide(c, f, n)  PROVE Engaged(c)'
    BY <1>2, <2>5 DEF Confirm, Decide, Editable
  <2> QED  BY <2>1, <2>2, <2>3, <2>4, <2>5, OwnSteps
<1>4. ASSUME Carried(events'[c]) # {}  PROVE Engaged(c)'
  <2>1. PICK m : m \in Carried(events'[c])
    BY <1>4
  <2>2. m \in Carried(events[c]) \/ c \in joined
    BY <2>1, EventSteps
  <2> QED  BY <1>1, <2>2
<1>5. ASSUME c \in joined', c \notin joined  PROVE Engaged(c)'
  <2>1. JoinStore(c)
    BY <1>5
    DEF PageNext, Browser, Server, Advance, Visit, JoinStore, Decide, Confirm, Respond, LoadPlan, Refuse,
        PlanUpdated, WriteDecision, WriteConfirm, Refresh, EmitPlanUpdated, pvars
  <2>2. view[c] # None \/ Under(c, "get")
    BY <2>1 DEF JoinStore
  <2> QED  BY <1>1, <1>2, <2>2 DEF Calls
<1> QED  BY <1>1, <1>3, <1>4, <1>5

LEMMA ShownNext ==
  ASSUME PageTypeOK, NeighbourInv, ShownInv, [PageNext]_pvars
  PROVE  ShownInv'
<1>1. ASSUME NEW m, UnderWay(m)  PROVE m \in Sent /\ (Stale(m) => m.at < writes)
  <2>1. Circulates(m)
    BY <1>1 DEF UnderWay, Circulates
  <2>2. m \in Sent /\ m.at \in Nat
    BY <2>1, CirculatesType DEF Sent
  <2>3. SnapshotOK(m) /\ writes \in Nat
    BY <1>1 DEF NeighbourInv, PageTypeOK
  <2> QED  BY <2>2, <2>3 DEF SnapshotOK, Stale
<1>2. ASSUME NEW c \in Pages, NEW m, Engaged(c), UnderWay(m)  PROVE Covered(m, c)'
  <2>1. Covered(m, c)
    BY <1>2 DEF ShownInv
  <2> QED  BY <1>1, <1>2, <2>1, CoveredKept
<1>3. ASSUME NEW c \in Pages, NEW m, Delivered(c, m)  PROVE Engaged(c) /\ UnderWay(m) /\ Covered(m, c)'
  <2>1. UnderWay(m)
    BY <1>3 DEF Delivered, UnderWay, Answered
  <2>2. Carried(events[c]) # {} \/ \E k \in Calls : Under(c, k)
    BY <1>3 DEF Delivered, Under
  <2>3. Engaged(c)
    BY <2>2 DEF ShownInv
  <2> QED  BY <1>2, <2>1, <2>3
<1>4. ASSUME NEW c \in Pages, NEW m, Engaged(c)', UnderWay(m)'  PROVE Covered(m, c)'
  <2>1. CASE call'[c]["get"].step = "read"
    BY <2>1 DEF Covered, Told
  <2>2. CASE Engaged(c) /\ UnderWay(m)
    BY <1>2, <2>2
  <2>3. CASE plans' = plans /\ \E v \in Versions : m = Message(v)
    BY <2>3 DEF Covered, Stale, Message
  <2>4. Engaged(c) \/ call'[c]["get"].step = "read"
    BY <1>3, <1>4, EngagedSteps
  <2> QED  BY <1>4, <2>1, <2>2, <2>3, <2>4, UnderWaySteps
<1>5. ASSUME NEW c \in Pages, c \in fresh'  PROVE Covered(view[c], c)' \/ Pending(c)'
  <2>1. PICK x : x = view'[c]
    OBVIOUS
  <2>2. ASSUME view'[c] = view[c], c \in fresh  PROVE Covered(x, c)' \/ Pending(c)'
    <3>1. x \in Sent /\ x = view[c] /\ x.at = heard[c] /\ Engaged(c) /\ (Covered(x, c) \/ Pending(c))
      BY <2>1, <2>2, PlanPageAssumption DEF NeighbourInv, ShownInv, Engaged
    <3>2. CASE Pending(c)
      <4>1. CASE WriteDecision(c)
        <5>1. Rewritten(x.version)'
          BY <3>1, <3>2, <4>1, WriteForm DEF WriteDecision, Rewritten, Pending
        <5> QED  BY <5>1 DEF Covered
      <4>2. ~Refuse(c, "save")
        BY <1>5 DEF Refuse
      <4>3. ASSUME NEW f \in Fields, NEW n \in Values, Decide(c, f, n)  PROVE FALSE
        BY <3>2, <4>3 DEF Decide, Editable, Saving, Under, Pending, Deciding
      <4>4. ASSUME ~WriteDecision(c)  PROVE Pending(c)'
        BY <2>2, <3>2, <4>2, <4>3, <4>4, SaveSteps DEF Pending
      <4> QED  BY <4>1, <4>4
    <3>3. CASE ~Pending(c)
      <4>1. Stale(x) => x.at # writes
        BY <2>2, <3>1, <3>3 DEF NeighbourInv
      <4>2. x.at <= writes /\ x.at \in Nat /\ writes \in Nat
        BY <3>1 DEF NeighbourInv, PageTypeOK
      <4> QED  BY <3>1, <3>3, <4>1, <4>2, CoveredKept
    <3> QED  BY <3>2, <3>3
  <2>3. ASSUME NEW f \in Fields, NEW n \in Values, Decide(c, f, n)  PROVE Pending(c)'
    BY <2>3, DecideHolds, DecideShows DEF Pending, Deciding
  <2>4. ASSUME NEW m, Delivered(c, m), view'[c] = m  PROVE Covered(x, c)'
    BY <1>3, <2>1, <2>4
  <2>5. Covered(x, c)' \/ Pending(c)'
    BY <1>5, <2>2, <2>3, <2>4, ViewSteps
  <2> QED  BY <2>1, <2>5 DEF Covered, Stale, Told
<1>6. fresh' \subseteq Pages
  BY PageTypeNext DEF PageTypeOK
<1>7. \A c \in Pages : c \in joined' \/ Carried(events'[c]) # {} \/ (\E k \in Calls : Under(c, k)') => Engaged(c)'
  BY EngagedNext
<1> HIDE DEF Covered, Engaged, UnderWay, Pending
<1>8. /\ \A c \in Pages : \A m : Engaged(c)' /\ UnderWay(m)' => Covered(m, c)'
      /\ \A c \in fresh' : Covered(view[c], c)' \/ Pending(c)'
  BY <1>4, <1>5, <1>6
<1> QED  BY <1>7, <1>8 DEF ShownInv, Carried, Under

\* A page to which nothing is under way has been told of the last write of what it
\* shows, unless it missed an announcement, an older plan came last, or a save of
\* its own failed: it shows the plan as it is.
THEOREM ShownTheorem == PageSpec => []ShowsThePlan
<1>1. ASSUME PageTypeOK, NeighbourInv, ShownInv  PROVE ShowsThePlan
  <2> SUFFICES ASSUME NEW c \in Pages, Quiet(c), c \in fresh
               PROVE  view[c].plan.decisions = plans[view[c].version].decisions
    BY DEF ShowsThePlan
  <2>1. \A d \in Pages : call[d]["save"].step \notin {"read", "emit"}
    BY DEF Quiet
  <2>2. events[c] = <<>> /\ call[c]["get"].step = "idle" /\ call[c]["save"].step = "idle"
    BY DEF Quiet, Under, Calls
  <2>3. ~Pending(c) /\ ~Rewritten(view[c].version)
    BY <2>1, <2>2 DEF Pending, Deciding, Rewritten
  <2>4. ~Told(c, view[c].at)
    <3>1. view[c].at = heard[c] /\ heard[c] \in Nat
      BY <1>1 DEF NeighbourInv, PageTypeOK
    <3>2. Carried(events[c]) = {}
      BY <2>2 DEF Carried
    <3> QED  BY <2>1, <2>2, <3>1, <3>2 DEF Told
  <2>5. Covered(view[c], c)
    BY <1>1, <2>3 DEF ShownInv
  <2> QED  BY <2>3, <2>4, <2>5 DEF Covered, Stale
<1>2. PageInit => PageTypeOK /\ NeighbourInv /\ ShownInv
  BY PageTypeInit, NeighbourInit, ShownInit
<1>3. PageTypeOK /\ NeighbourInv /\ ShownInv /\ [PageNext]_pvars => (PageTypeOK /\ NeighbourInv /\ ShownInv)'
  BY PageTypeNext, NeighbourNext, ShownNext
<1> QED  BY <1>1, <1>2, <1>3, PTL DEF PageSpec
=============================================================================
