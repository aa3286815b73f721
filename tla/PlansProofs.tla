---------------------------- MODULE PlansProofs ----------------------------
(***************************************************************************)
(* What a quiz and the plans of a session keep for any number of            *)
(* overlapping requests, players, stores, rounds and questions,             *)
(* configurations, categories and investments: first what holds of the      *)
(* quiz, then what holds of the plans beside any quiz.                      *)
(***************************************************************************)
EXTENDS Plans, FiniteSetTheorems, WellFoundedInduction, TLAPS

(* Types.  The scores are numbers because a table of answers is finite.     *)

\* A request names what the queries it has still to make need.
Shaped(q) ==
  /\ q.step # "idle" => q.round \in Rounds
  /\ q.step \in {"attempt", "load", "insert_answers", "aggregate", "upsert", "progress"} => q.store \in Stores
  /\ q.step \in {"attempt", "load", "insert_answers", "progress"} => q.user \in Users

ReqOK == req \in [QuizWorkers -> QuizRequest] /\ \A w \in QuizWorkers : Shaped(req[w])

TypeInv == QuizTypeOK /\ IsFiniteSet(answers) /\ ReqOK

\* A worker without a request holds a well-formed empty one.
LEMMA IdleType == QuizIdle \in QuizRequest /\ Shaped(QuizIdle) /\ NoCounts \in [Counts -> Nat \cup {None}]
BY DEF QuizIdle, QuizRequest, QuizSteps, NoCounts, Shaped

\* The request table stays well formed when a well-formed request enters it.
LEMMA UpdateType ==
  ASSUME ReqOK, NEW w \in QuizWorkers, NEW q \in QuizRequest, Shaped(q),
         req' = [req EXCEPT ![w] = q]
  PROVE  ReqOK' /\ req'[w] = q
         /\ \A v \in QuizWorkers \ {w} : req'[v] = req[v]
<1>1. /\ req' \in [QuizWorkers -> QuizRequest] /\ req'[w] = q
      /\ \A v \in QuizWorkers \ {w} : req'[v] = req[v]
  BY DEF ReqOK
<1>2. \A v \in QuizWorkers : Shaped(req'[v])
  BY <1>1 DEF ReqOK
<1>3. \A v \in QuizWorkers : Shaped(req[v])'
  BY <1>2 DEF Shaped
<1> QED  BY <1>1, <1>3 DEF ReqOK

\* Saving, answering and consolidating go on with the request they hold.
LEMMA StepType ==
  ASSUME NEW q \in QuizRequest, NEW step \in QuizSteps
  PROVE  [q EXCEPT !.step = step] \in QuizRequest
BY DEF QuizRequest

\* The number of elements of a part of a finite set.
LEMMA CountType ==
  ASSUME NEW S, IsFiniteSet(S), NEW T, T \subseteq S
  PROVE  IsFiniteSet(T) /\ Cardinality(T) \in Nat
BY FS_Subset, FS_CardinalityType

\* The players who gave the answers of a finite table.
LEMMA PlayersFinite ==
  ASSUME NEW rows, IsFiniteSet(rows)
  PROVE  IsFiniteSet({a.user : a \in rows}) /\ Cardinality({a.user : a \in rows}) \in Nat
<1> DEFINE players == {a.user : a \in rows}
           f == [a \in rows |-> a.user]
<1>1. f \in Surjection(rows, players)
  BY DEF Surjection
<1>2. IsFiniteSet(players)
  BY <1>1, FS_Surjection
<1> QED  BY <1>2, FS_CardinalityType

\* The scores computed from a finite table are scores.
LEMMA ScoreType ==
  ASSUME NEW rows, IsFiniteSet(rows)
  PROVE  ScoresFrom(rows) \subseteq Score
<1>1. CASE rows = {}
  BY <1>1 DEF ScoresFrom, Score
<1>2. CASE rows # {}
  <2> DEFINE players == {a.user : a \in rows}
             total(u) == Cardinality({a \in rows : a.user = u})
             right == Cardinality({a \in rows : a.correct})
             score(u) == [questions |-> total(u), right |-> right,
                          outOf |-> Cardinality(players) * total(u)]
  <2>1. Cardinality(players) \in Nat
    BY PlayersFinite
  <2>2. right \in Nat /\ \A u : total(u) \in Nat
    BY CountType
  <2>3. \A m, n \in Nat : m * n \in Nat
    OBVIOUS
  <2>4. ScoresFrom(rows) = {score(u) : u \in players}
    BY <1>2 DEF ScoresFrom
  <2> HIDE DEF players, total, right
  <2>5. \A u : score(u) \in Score
    BY <2>1, <2>2, <2>3 DEF Score
  <2> QED  BY <2>4, <2>5
<1> QED  BY <1>1, <1>2

LEMMA ScoreExists ==
  ASSUME NEW rows, rows # {}
  PROVE  ScoresFrom(rows) # {}
<1> DEFINE players == {a.user : a \in rows}
           total(u) == Cardinality({a \in rows : a.user = u})
           score(u) == [questions |-> total(u),
                        right |-> Cardinality({a \in rows : a.correct}),
                        outOf |-> Cardinality(players) * total(u)]
<1>1. PICK a \in rows : TRUE
  OBVIOUS
<1>2. a.user \in players
  BY <1>1
<1>3. ScoresFrom(rows) = {score(u) : u \in players}
  BY DEF ScoresFrom
<1> HIDE DEF players, score
<1> QED  BY <1>2, <1>3

\* The rows of a submission: one for each question answered.
Sheet(q) ==
  {[user |-> q.user, store |-> q.store, question |-> i, round |-> q.round,
    correct |-> i \in q.right] : i \in q.ids}

LEMMA SheetFinite ==
  ASSUME NEW q \in QuizRequest
  PROVE  IsFiniteSet(Sheet(q))
<1> DEFINE f == [i \in q.ids |-> [user |-> q.user, store |-> q.store, question |-> i,
                                  round |-> q.round, correct |-> i \in q.right]]
<1>1. IsFiniteSet(q.ids)
  BY QuizAssumption, FS_Subset DEF QuizRequest
<1>2. f \in Surjection(q.ids, Sheet(q))
  BY DEF Surjection, Sheet
<1> QED  BY <1>1, <1>2, FS_Surjection

\* At first every table is as it is given and no request is under way.
LEMMA TypeInit == QuizInit => TypeInv
<1> SUFFICES ASSUME QuizInit  PROVE TypeInv
  OBVIOUS
<1>1. ReqOK
  <2>1. \A w \in QuizWorkers : Shaped(req[w])
    BY IdleType DEF QuizInit, Shaped
  <2> QED  BY <2>1, IdleType DEF QuizInit, ReqOK
<1>2. scores \in [Stores \X Rounds -> Score \cup {None}]
  <2> SUFFICES ASSUME NEW k \in Stores \X Rounds
               PROVE  scores[k] \in Score \cup {None}
    BY DEF QuizInit
  <2> DEFINE rows == {a \in InitialAnswers : <<a.store, a.round>> = k}
  <2>1. ScoresFrom(rows) \subseteq Score
    BY InitialQuizAssumption, CountType, ScoreType
  <2>2. rows # {} => ScoresFrom(rows) # {}
    BY ScoreExists
  <2>3. scores[k] = IF rows = {} THEN None ELSE CHOOSE score \in ScoresFrom(rows) : TRUE
    BY DEF QuizInit
  <2> HIDE DEF rows
  <2> QED  BY <2>1, <2>2, <2>3
<1>3. /\ teams \in [Stores -> SUBSET Users] /\ questions \subseteq Question /\ answers \subseteq Answer
      /\ posed \subseteq Rounds /\ left \subseteq Stores /\ finished \subseteq Stores \X Rounds
  BY QuizAssumption DEF QuizInit, Question
<1>4. IsFiniteSet(answers)
  BY InitialQuizAssumption DEF QuizInit
<1> QED  BY <1>1, <1>2, <1>3, <1>4 DEF TypeInv, QuizTypeOK, ReqOK

\* The step of one request keeps the types.
LEMMA TypeStep ==
  ASSUME TypeInv, NEW w \in QuizWorkers, QuizStep(w) \/ QuizRequests(w)
  PROVE  TypeInv'
<1> DEFINE Goes(q) == q \in QuizRequest /\ Shaped(q) /\ req' = [req EXCEPT ![w] = q]
<1>0. ReqOK /\ req[w] \in QuizRequest /\ Shaped(req[w])
  BY DEF TypeInv, ReqOK
<1>1. ASSUME NEW q, Goes(q)  PROVE ReqOK'
  BY <1>0, <1>1, UpdateType
<1>2. ASSUME NEW step \in QuizSteps, QuizGoto(w, step), Shaped([req[w] EXCEPT !.step = step])
      PROVE  ReqOK'
  BY <1>0, <1>1, <1>2, StepType DEF QuizGoto
<1>3. ASSUME UNCHANGED quizDb, ReqOK'  PROVE TypeInv'
  BY <1>3 DEF quizDb, TypeInv, QuizTypeOK, ReqOK
<1>4. ASSUME req' = [req EXCEPT ![w] = QuizIdle]  PROVE ReqOK'
  BY <1>1, <1>4, IdleType
<1>5. CASE SaveDropOptions(w)
  <2>1. questions' \subseteq Question
    BY <1>5 DEF SaveDropOptions, Question, TypeInv, QuizTypeOK
  <2>2. Shaped([req[w] EXCEPT !.step = "drop_questions"])
    BY <1>0, <1>5 DEF SaveDropOptions, QuizAt, Shaped, QuizRequest
  <2>3. ReqOK'
    BY <1>2, <1>5, <2>2 DEF SaveDropOptions, QuizSteps
  <2> QED  BY <1>5, <2>1, <2>3 DEF SaveDropOptions, TypeInv, QuizTypeOK, ReqOK
<1>6. CASE SaveDropQuestions(w)
  <2>1. questions' \subseteq Question
    BY <1>6 DEF SaveDropQuestions, TypeInv, QuizTypeOK
  <2>2. Shaped([req[w] EXCEPT !.step = "insert_questions"])
    BY <1>0, <1>6 DEF SaveDropQuestions, QuizAt, Shaped, QuizRequest
  <2>3. ReqOK'
    BY <1>2, <1>6, <2>2 DEF SaveDropQuestions, QuizSteps
  <2> QED  BY <1>6, <2>1, <2>3 DEF SaveDropQuestions, TypeInv, QuizTypeOK, ReqOK
<1>7. CASE SaveInsert(w)
  <2>1. PICK ids \in SUBSET QuestionIds : \E order \in [ids -> Orders] :
          questions' = questions \cup
            {[id |-> i, round |-> req[w].round, order |-> order[i], options |-> TRUE] : i \in ids}
    BY <1>7 DEF SaveInsert
  <2>2. PICK order \in [ids -> Orders] :
          questions' = questions \cup
            {[id |-> i, round |-> req[w].round, order |-> order[i], options |-> TRUE] : i \in ids}
    BY <2>1
  <2>3. req[w].round \in Rounds
    BY <1>0, <1>7 DEF SaveInsert, QuizAt, Shaped
  <2>4. Orders \subseteq Nat \ {0}
    BY QuizAssumption DEF Orders
  <2>7. ASSUME NEW i \in ids
        PROVE  [id |-> i, round |-> req[w].round, order |-> order[i], options |-> TRUE] \in Question
    <3>1. order[i] \in Nat \ {0} /\ i \in QuestionIds
      BY <2>4
    <3> QED  BY <2>3, <3>1 DEF Question
  <2>5. questions' \subseteq Question
    BY <2>2, <2>7 DEF TypeInv, QuizTypeOK
  <2>6. ReqOK' /\ posed' \subseteq Rounds
    BY <1>4, <1>7, <2>3 DEF SaveInsert, TypeInv, QuizTypeOK
  <2> QED  BY <1>7, <2>5, <2>6 DEF SaveInsert, TypeInv, QuizTypeOK, ReqOK
<1>8. CASE SubmitAttempt(w)
  <2>1. Shaped([req[w] EXCEPT !.step = "load"])
    BY <1>0, <1>8 DEF SubmitAttempt, QuizAt, Shaped, QuizRequest
  <2> QED  BY <1>2, <1>3, <1>8, <2>1 DEF SubmitAttempt, QuizSteps
<1>9. CASE SubmitLoad(w)
  <2>1. Shaped([req[w] EXCEPT !.step = "insert_answers"])
    BY <1>0, <1>9 DEF SubmitLoad, QuizAt, Shaped, QuizRequest
  <2> QED  BY <1>2, <1>3, <1>9, <2>1 DEF SubmitLoad, QuizSteps
<1>10. CASE SubmitInsert(w)
  <2>1. Shaped([req[w] EXCEPT !.step = "aggregate"])
    BY <1>0, <1>10 DEF SubmitInsert, QuizAt, Shaped, QuizRequest
  <2>2. ReqOK'
    BY <1>2, <1>10, <2>1 DEF SubmitInsert, QuizSteps
  <2>3. answers' = answers \cup Sheet(req[w])
    BY <1>10 DEF SubmitInsert, Sheet
  <2>4. Sheet(req[w]) \subseteq Answer
    <3> DEFINE q == req[w]
    <3>1. q.user \in Users /\ q.store \in Stores /\ q.round \in Rounds /\ q.ids \subseteq QuestionIds
      BY <1>0, <1>10 DEF SubmitInsert, QuizAt, Shaped, QuizRequest
    <3> HIDE DEF q
    <3>2. ASSUME NEW i \in q.ids, NEW right \in BOOLEAN
          PROVE  [user |-> q.user, store |-> q.store, question |-> i, round |-> q.round,
                  correct |-> right] \in Answer
      BY <3>1 DEF Answer
    <3>3. \A i : (i \in q.right) \in BOOLEAN
      OBVIOUS
    <3>4. Sheet(q) \subseteq Answer
      BY <3>2, <3>3 DEF Sheet
    <3> QED  BY <3>4 DEF q
  <2>5. IsFiniteSet(answers') /\ answers' \subseteq Answer
    BY <1>0, <2>3, <2>4, SheetFinite, FS_Union DEF TypeInv, QuizTypeOK
  <2> QED  BY <1>10, <2>2, <2>5 DEF SubmitInsert, TypeInv, QuizTypeOK, ReqOK
<1>11. CASE ConsolidateRead(w)
  <2>1. PICK score \in ScoresFrom(AnswersOf(req[w].store, req[w].round)) :
          req' = [req EXCEPT ![w] = [req[w] EXCEPT !.step = "upsert", !.seen = score]]
    BY <1>0, <1>11 DEF ConsolidateRead, ReqOK
  <2>2. score \in Score
    BY ScoreType, CountType DEF AnswersOf, TypeInv
  <2> DEFINE q == [req[w] EXCEPT !.step = "upsert", !.seen = score]
  <2>3. q \in QuizRequest /\ Shaped(q)
    BY <1>0, <1>11, <2>2 DEF ConsolidateRead, QuizAt, Shaped, QuizRequest, QuizSteps
  <2>4. ReqOK'
    BY <1>1, <2>1, <2>3
  <2> QED  BY <1>3, <1>11, <2>4 DEF ConsolidateRead
<1>12. CASE ConsolidateUpsert(w)
  <2> DEFINE q == req[w]
             t == IF q.user = None THEN QuizIdle ELSE [q EXCEPT !.step = "progress"]
  <2>1. t \in QuizRequest /\ Shaped(t)
    <3>1. CASE q.user = None
      BY <3>1, IdleType
    <3>2. CASE q.user # None
      BY <1>0, <1>12, <3>2, StepType DEF ConsolidateUpsert, QuizAt, Shaped, QuizRequest, QuizSteps
    <3> QED  BY <3>1, <3>2
  <2>2. ReqOK'
    BY <1>1, <1>12, <2>1 DEF ConsolidateUpsert
  <2>3. q.seen \in Score \cup {None}
    BY <1>0 DEF QuizRequest
  <2>4. scores' \in [Stores \X Rounds -> Score \cup {None}]
    BY <1>12, <2>3 DEF ConsolidateUpsert, TypeInv, QuizTypeOK
  <2> QED  BY <1>12, <2>2, <2>4 DEF ConsolidateUpsert, TypeInv, QuizTypeOK, ReqOK
<1>13. ASSUME NEW side \in Counts, SubmitCount(w, side)  PROVE TypeInv'
  <2> DEFINE n == Cardinality(IF side = "team" THEN teams[req[w].store]
                                              ELSE WhoAnswered(req[w].store, req[w].round))
             q == [req[w] EXCEPT !.counts[side] = n]
  <2>1. req[w].store \in Stores
    BY <1>0, <1>13 DEF SubmitCount, QuizAt, Shaped
  <2>2. teams[req[w].store] \subseteq Users /\ WhoAnswered(req[w].store, req[w].round) \subseteq Users
    BY <2>1 DEF WhoAnswered, AnswersOf, TypeInv, QuizTypeOK, Answer
  <2>3. n \in Nat
    BY <2>2, CountType, QuizAssumption
  <2> HIDE DEF n
  <2>4. q \in QuizRequest /\ Shaped(q)
    BY <1>0, <2>3 DEF QuizRequest, Shaped
  <2>5. req' = [req EXCEPT ![w] = q]
    BY <1>0, <1>13 DEF SubmitCount, ReqOK, n
  <2> QED  BY <1>1, <1>3, <1>13, <2>4, <2>5 DEF SubmitCount
<1>14. CASE SubmitProgress(w)
  <2>1. <<req[w].store, req[w].round>> \in Stores \X Rounds
    BY <1>0, <1>14 DEF SubmitProgress, QuizAt, Shaped
  <2>2. finished' \subseteq Stores \X Rounds
    BY <1>14, <2>1 DEF SubmitProgress, TypeInv, QuizTypeOK
  <2>3. ReqOK'
    BY <1>4, <1>14 DEF SubmitProgress
  <2> QED  BY <1>14, <2>2, <2>3 DEF SubmitProgress, TypeInv, QuizTypeOK, ReqOK
<1>15. CASE QuizFail(w)
  BY <1>3, <1>4, <1>15 DEF QuizFail
<1>16. ASSUME NEW r \in Rounds, SaveFind(w, r)  PROVE TypeInv'
  <2> DEFINE q == [QuizIdle EXCEPT !.round = r, !.ids = IdsOf(r),
                     !.step = IF IdsOf(r) = {} THEN "insert_questions" ELSE "drop_options"]
  <2>1. IdsOf(r) \subseteq QuestionIds
    BY DEF IdsOf, TypeInv, QuizTypeOK, Question
  <2>2. q \in QuizRequest /\ Shaped(q)
    BY <2>1, IdleType DEF QuizIdle, QuizRequest, QuizSteps, Shaped
  <2> QED  BY <1>1, <1>3, <1>16, <2>2 DEF SaveFind
<1>17. ASSUME NEW u \in Users, NEW s \in Stores, NEW r \in Rounds, NEW ids \in SUBSET QuestionIds,
              NEW right \in SUBSET ids, SubmitMember(w, u, s, r, ids, right)
       PROVE  TypeInv'
  <2> DEFINE q == [QuizIdle EXCEPT !.step = "attempt", !.user = u, !.store = s, !.round = r,
                                   !.ids = ids, !.right = right]
  <2>1. q \in QuizRequest /\ Shaped(q)
    BY IdleType DEF QuizIdle, QuizRequest, QuizSteps, Shaped
  <2> QED  BY <1>1, <1>3, <1>17, <2>1 DEF SubmitMember
<1>18. ASSUME NEW s \in Stores, NEW r \in Rounds, ConsolidateArrives(w, s, r)  PROVE TypeInv'
  <2> DEFINE q == [QuizIdle EXCEPT !.step = "aggregate", !.store = s, !.round = r]
  <2>1. q \in QuizRequest /\ Shaped(q)
    BY IdleType DEF QuizIdle, QuizRequest, QuizSteps, Shaped
  <2> QED  BY <1>1, <1>3, <1>18, <2>1 DEF ConsolidateArrives
<1>19. CASE QuizStep(w)
  BY <1>5, <1>6, <1>7, <1>8, <1>9, <1>10, <1>11, <1>12, <1>13, <1>14, <1>15, <1>19 DEF QuizStep
<1>20. CASE QuizRequests(w)
  <2>1. Answering \subseteq Users /\ \A r \in Rounds : IdsOf(r) \subseteq QuestionIds
    BY QuizAssumption DEF IdsOf, TypeInv, QuizTypeOK, Question
  <2> QED  BY <1>16, <1>17, <1>18, <1>20, <2>1 DEF QuizRequests
<1> QED  BY <1>19, <1>20

\* So does a transfer, and any step of the quiz.
LEMMA TypeNext ==
  ASSUME TypeInv, [QuizNext]_quizVars
  PROVE  TypeInv'
<1>1. ASSUME NEW u \in Users, NEW s \in Stores, NEW t \in Stores, Transfers(u, s, t)  PROVE TypeInv'
  <2>1. teams' \in [Stores -> SUBSET Users] /\ left' \subseteq Stores
    BY <1>1 DEF Transfers, TypeInv, QuizTypeOK
  <2> QED  BY <1>1, <2>1 DEF Transfers, TypeInv, QuizTypeOK, ReqOK
<1>2. CASE UNCHANGED quizVars
  BY <1>2 DEF quizVars, TypeInv, QuizTypeOK, ReqOK
<1> QED  BY <1>1, <1>2, TypeStep DEF QuizNext

\* The tables and the handlers' variables stay well formed, for any number of
\* requests, players, stores, rounds and questions; every score is a number.
THEOREM QuizTypeCorrect == QuizSpec => []QuizTypeOK
<1>1. TypeInv => QuizTypeOK
  BY DEF TypeInv
<1> QED  BY <1>1, TypeInit, TypeNext, PTL DEF QuizSpec
-----------------------------------------------------------------------------
(* Sheets.  A player has answered all the questions of a round or none,     *)
(* because the questions of a round come and go together: a request that    *)
(* deletes or answers questions holds all of the round's or none.           *)

\* A question keeps its round, and its order is one the page sends.
Keyed(Q) ==
  /\ \A q \in Q : q.order \in Orders
  /\ \A p, q \in Q : p.id = q.id => p.round = q.round

\* The answers are to questions that are there.
AnswersAsked(Q, A) == \A a \in A : \E q \in Q : q.id = a.question /\ q.round = a.round

\* Who has answered a question of a round has answered every one.
AnswersAll(Q, A) ==
  \A a \in A, q \in Q : q.round = a.round =>
    \E b \in A : b.user = a.user /\ b.round = a.round /\ b.question = q.id

\* What a request holds of the questions there are is of its round ...
OfRound(Q, ids, r) == \A q \in Q : q.id \in ids => q.round = r

\* ... and is the whole round, or nothing of it.
WholeOrNothing(Q, ids, r) ==
  \A p \in Q : p.round = r /\ p.id \in ids =>
    /\ \A i \in ids : \E q \in Q : q.id = i /\ q.round = r
    /\ \A q \in Q : q.round = r => q.id \in ids

Binding == {"drop_options", "drop_questions", "insert_answers"}

Holds(Q, q) ==
  /\ OfRound(Q, q.ids, q.round)
  /\ q.step \in Binding => WholeOrNothing(Q, q.ids, q.round)

SheetInv ==
  /\ Keyed(questions)
  /\ AnswersAsked(questions, answers)
  /\ AnswersAll(questions, answers)
  /\ \A w \in QuizWorkers : Holds(questions, req[w])

\* A submission inserts rows of its player and round, one for each question.
LEMMA SheetRows ==
  ASSUME NEW q
  PROVE  /\ \A a \in Sheet(q) : a.user = q.user /\ a.round = q.round /\ a.question \in q.ids
         /\ \A i \in q.ids : \E a \in Sheet(q) : a.question = i
<1> DEFINE row(i) == [user |-> q.user, store |-> q.store, question |-> i, round |-> q.round,
                      correct |-> i \in q.right]
<1>1. Sheet(q) = {row(i) : i \in q.ids}
  BY DEF Sheet
<1>2. \A i : row(i).user = q.user /\ row(i).round = q.round /\ row(i).question = i
  OBVIOUS
<1> HIDE DEF row
<1> QED  BY <1>1, <1>2

\* A request that holds no question holds nothing wrong.
LEMMA IdleHolds == \A Q : Holds(Q, QuizIdle)
BY DEF Holds, OfRound, WholeOrNothing, QuizIdle, Binding

\* What is answered at first is answered in whole sheets.
LEMMA SheetInit == QuizInit => SheetInv
<1> SUFFICES ASSUME QuizInit  PROVE SheetInv
  OBVIOUS
<1> DEFINE Q == InitialQuestions
           A == InitialAnswers
<1>1. Keyed(Q)
  BY InitialQuizAssumption DEF Keyed, Orders
<1>2. ASSUME NEW a \in A
      PROVE  {b.question : b \in {x \in A : x.user = a.user /\ x.round = a.round}}
               = {p.id : p \in {q \in Q : q.round = a.round}}
  BY <1>2, InitialQuizAssumption
<1>3. AnswersAsked(Q, A)
  <2> SUFFICES ASSUME NEW a \in A  PROVE \E q \in Q : q.id = a.question /\ q.round = a.round
    BY DEF AnswersAsked
  <2>1. a.question \in {b.question : b \in {x \in A : x.user = a.user /\ x.round = a.round}}
    OBVIOUS
  <2> QED  BY <1>2, <2>1
<1>4. AnswersAll(Q, A)
  <2> SUFFICES ASSUME NEW a \in A, NEW q \in Q, q.round = a.round
               PROVE  \E b \in A : b.user = a.user /\ b.round = a.round /\ b.question = q.id
    BY DEF AnswersAll
  <2>1. q.id \in {p.id : p \in {x \in Q : x.round = a.round}}
    OBVIOUS
  <2> QED  BY <1>2, <2>1
<1>5. questions = Q /\ answers = A /\ \A w \in QuizWorkers : req[w] = QuizIdle
  BY DEF QuizInit
<1> HIDE DEF Q, A
<1>6. \A w \in QuizWorkers : Holds(questions, req[w])
  BY <1>5, IdleHolds
<1> QED  BY <1>1, <1>3, <1>4, <1>5, <1>6 DEF SheetInv

\* Questions that only lose their options, or of which a request deletes all of
\* a round, leave what the other requests hold whole.
LEMMA DropHolds ==
  ASSUME NEW Q, NEW ids, NEW r, OfRound(Q, ids, r), WholeOrNothing(Q, ids, r),
         NEW q, Holds(Q, q)
  PROVE  Holds({p \in Q : p.id \notin ids}, q)
<1> DEFINE P == {p \in Q : p.id \notin ids}
<1>1. OfRound(P, q.ids, q.round)
  BY DEF Holds, OfRound
<1>2. ASSUME WholeOrNothing(Q, q.ids, q.round)  PROVE WholeOrNothing(P, q.ids, q.round)
  <2> SUFFICES ASSUME NEW p \in P, p.round = q.round, p.id \in q.ids
               PROVE  /\ \A i \in q.ids : \E x \in P : x.id = i /\ x.round = q.round
                      /\ \A x \in P : x.round = q.round => x.id \in q.ids
    BY DEF WholeOrNothing
  <2>1. /\ \A i \in q.ids : \E x \in Q : x.id = i /\ x.round = q.round
        /\ \A x \in Q : x.round = q.round => x.id \in q.ids
    BY <1>2 DEF WholeOrNothing
  <2>2. \A x \in Q : x.round = q.round => x.id \notin ids
    <3> SUFFICES ASSUME NEW x \in Q, x.round = q.round, x.id \in ids  PROVE FALSE
      OBVIOUS
    <3>1. r = q.round
      BY DEF OfRound
    <3>2. p.id \in ids
      BY <3>1 DEF WholeOrNothing
    <3> QED  BY <3>2
  <2> QED  BY <2>1, <2>2
<1> QED  BY <1>1, <1>2 DEF Holds

\* The step of one request keeps the sheets whole.
LEMMA SheetStep ==
  ASSUME TypeInv, SheetInv, NEW w \in QuizWorkers, QuizStep(w) \/ QuizRequests(w)
  PROVE  SheetInv'
<1> DEFINE Goes(q) == req' = [req EXCEPT ![w] = q]
<1>0. req \in [QuizWorkers -> QuizRequest] /\ req[w] \in QuizRequest /\ Shaped(req[w]) /\ Holds(questions, req[w])
  BY DEF TypeInv, ReqOK, SheetInv
<1>1. ASSUME NEW q, Goes(q), Holds(questions, q), UNCHANGED <<questions, answers>>
      PROVE  SheetInv'
  <2>1. \A v \in QuizWorkers : Holds(questions, req'[v])
    BY <1>0, <1>1 DEF SheetInv
  <2>2. \A v \in QuizWorkers : Holds(questions', req'[v])
    BY <1>1, <2>1
  <2>3. Keyed(questions') /\ AnswersAsked(questions', answers') /\ AnswersAll(questions', answers')
    BY <1>1 DEF SheetInv
  <2> QED  BY <2>2, <2>3 DEF SheetInv
<1>2. ASSUME NEW step \in QuizSteps \ Binding, QuizGoto(w, step), UNCHANGED <<questions, answers>>
      PROVE  SheetInv'
  <2> DEFINE q == [req[w] EXCEPT !.step = step]
  <2>1. q.ids = req[w].ids /\ q.round = req[w].round /\ q.step = step
    BY <1>0 DEF QuizRequest
  <2>2. Holds(questions, q)
    BY <1>0, <2>1 DEF Holds
  <2> QED  BY <1>1, <1>2, <2>2 DEF QuizGoto
<1>3. ASSUME Goes(QuizIdle), UNCHANGED <<questions, answers>>  PROVE SheetInv'
  BY <1>1, <1>3, IdleHolds
<1>4. CASE SaveDropOptions(w)
  <2> DEFINE f(q) == IF q.id \in req[w].ids THEN [q EXCEPT !.options = FALSE] ELSE q
             P == {f(q) : q \in questions}
  <2>1. questions' = P /\ answers' = answers
    BY <1>4 DEF SaveDropOptions
  <2>2. \A q \in questions : f(q).id = q.id /\ f(q).round = q.round /\ f(q).order = q.order
    BY DEF TypeInv, QuizTypeOK, Question
  <2> HIDE DEF f
  <2>3. Keyed(P) /\ AnswersAsked(P, answers) /\ AnswersAll(P, answers)
    <3>1. Keyed(P)
      BY <2>2 DEF SheetInv, Keyed
    <3>2. AnswersAsked(P, answers)
      BY <2>2 DEF SheetInv, AnswersAsked
    <3>3. AnswersAll(P, answers)
      BY <2>2 DEF SheetInv, AnswersAll
    <3> QED  BY <3>1, <3>2, <3>3
  <2>4. ASSUME NEW q, Holds(questions, q)  PROVE Holds(P, q)
    <3>1. OfRound(P, q.ids, q.round)
      BY <2>2, <2>4 DEF Holds, OfRound
    <3>2. ASSUME WholeOrNothing(questions, q.ids, q.round)  PROVE WholeOrNothing(P, q.ids, q.round)
      <4> SUFFICES ASSUME NEW p \in P, p.round = q.round, p.id \in q.ids
                   PROVE  /\ \A i \in q.ids : \E x \in P : x.id = i /\ x.round = q.round
                          /\ \A x \in P : x.round = q.round => x.id \in q.ids
        BY DEF WholeOrNothing
      <4>1. /\ \A i \in q.ids : \E x \in questions : x.id = i /\ x.round = q.round
            /\ \A x \in questions : x.round = q.round => x.id \in q.ids
        BY <2>2, <3>2 DEF WholeOrNothing
      <4> QED  BY <2>2, <4>1
    <3> QED  BY <2>4, <3>1, <3>2 DEF Holds
  <2> HIDE DEF P
  <2> DEFINE t == [req[w] EXCEPT !.step = "drop_questions"]
  <2>5. t.ids = req[w].ids /\ t.round = req[w].round /\ req[w].step \in Binding
    BY <1>0, <1>4 DEF QuizRequest, SaveDropOptions, QuizAt, Binding
  <2>6. Holds(questions, t)
    BY <1>0, <2>5 DEF Holds
  <2> HIDE DEF t
  <2>7. \A v \in QuizWorkers : Holds(questions, req'[v])
    BY <1>0, <1>4, <2>6 DEF SheetInv, SaveDropOptions, QuizGoto, t
  <2>8. \A v \in QuizWorkers : Holds(questions', req'[v])
    BY <2>1, <2>4, <2>7
  <2> QED  BY <2>1, <2>3, <2>8 DEF SheetInv
<1>5. CASE SaveDropQuestions(w)
  <2> DEFINE ids == req[w].ids
             r == req[w].round
             P == {q \in questions : q.id \notin ids}
  <2>1. questions' = P /\ answers' = answers /\ \A a \in answers : a.question \notin ids
    BY <1>5 DEF SaveDropQuestions, Accepts, QuizAt, Unanswered
  <2>2. OfRound(questions, ids, r) /\ WholeOrNothing(questions, ids, r)
    BY <1>0, <1>5 DEF SaveDropQuestions, QuizAt, Holds, Binding
  <2>3. Keyed(P)
    BY DEF SheetInv, Keyed
  <2>4. AnswersAsked(P, answers)
    BY <2>1 DEF SheetInv, AnswersAsked
  <2>5. AnswersAll(P, answers)
    BY DEF SheetInv, AnswersAll
  <2> DEFINE t == [req[w] EXCEPT !.step = "insert_questions"]
  <2>6. t.ids = req[w].ids /\ t.round = req[w].round /\ t.step \notin Binding
    BY <1>0 DEF QuizRequest, Binding
  <2>7. Holds(questions, t)
    BY <1>0, <2>6 DEF Holds
  <2> HIDE DEF t
  <2>8. \A v \in QuizWorkers : Holds(questions, req'[v])
    BY <1>0, <1>5, <2>7 DEF SheetInv, SaveDropQuestions, QuizGoto, t
  <2> HIDE DEF ids, r
  <2>9. \A q : Holds(questions, q) => Holds(P, q)
    BY <2>2, DropHolds
  <2> HIDE DEF P
  <2>10. \A v \in QuizWorkers : Holds(questions', req'[v])
    BY <2>1, <2>8, <2>9
  <2> QED  BY <2>1, <2>3, <2>4, <2>5, <2>10 DEF SheetInv
<1>6. CASE SaveInsert(w)
  <2>1. PICK ids \in SUBSET QuestionIds : FreshIds(ids) /\ \E order \in [ids -> Orders] :
          questions' = questions \cup
            {[id |-> i, round |-> req[w].round, order |-> order[i], options |-> TRUE] : i \in ids}
    BY <1>6 DEF SaveInsert
  <2>2. PICK order \in [ids -> Orders] :
          questions' = questions \cup
            {[id |-> i, round |-> req[w].round, order |-> order[i], options |-> TRUE] : i \in ids}
    BY <2>1
  <2> DEFINE r == req[w].round
             New == {[id |-> i, round |-> r, order |-> order[i], options |-> TRUE] : i \in ids}
  <2>3. questions' = questions \cup New /\ answers' = answers
    BY <1>6, <2>2 DEF SaveInsert
  <2>4. \A q \in New : q.id \in ids /\ q.round = r /\ q.order \in Orders
    OBVIOUS
  <2>5. /\ \A q \in questions : q.id \notin ids
        /\ \A v \in QuizWorkers : \A i \in req[v].ids : i \notin ids
    BY <2>1 DEF FreshIds, IdsInUse
  <2>6. \A q \in questions : q.round # r
    BY <1>6 DEF SaveInsert, QuizAt, Accepts, OrdersFree, SheetInv, Keyed
  <2> HIDE DEF New, r
  <2>7. Keyed(questions')
    BY <2>3, <2>4, <2>5 DEF SheetInv, Keyed
  <2>8. AnswersAsked(questions', answers')
    BY <2>3 DEF SheetInv, AnswersAsked
  <2>9. \A a \in answers : a.round # r
    BY <2>6 DEF SheetInv, AnswersAsked
  <2>10. AnswersAll(questions', answers')
    BY <2>3, <2>4, <2>9 DEF SheetInv, AnswersAll
  <2>11. ASSUME NEW v \in QuizWorkers  PROVE Holds(questions', req[v])
    <3> DEFINE q == req[v]
    <3>1. Holds(questions, q) /\ \A i \in q.ids : i \notin ids
      BY <2>5 DEF SheetInv
    <3> HIDE DEF q
    <3>2. OfRound(questions', q.ids, q.round)
      BY <2>3, <2>4, <3>1 DEF Holds, OfRound
    <3>3. ASSUME WholeOrNothing(questions, q.ids, q.round)
          PROVE  WholeOrNothing(questions', q.ids, q.round)
      <4> SUFFICES ASSUME NEW p \in questions', p.round = q.round, p.id \in q.ids
                   PROVE  /\ \A i \in q.ids : \E x \in questions' : x.id = i /\ x.round = q.round
                          /\ \A x \in questions' : x.round = q.round => x.id \in q.ids
        BY DEF WholeOrNothing
      <4>1. p \in questions /\ q.round # r
        BY <2>3, <2>4, <2>6, <3>1
      <4>2. /\ \A i \in q.ids : \E x \in questions : x.id = i /\ x.round = q.round
            /\ \A x \in questions : x.round = q.round => x.id \in q.ids
        BY <3>3, <4>1 DEF WholeOrNothing
      <4> QED  BY <2>3, <2>4, <4>1, <4>2
    <3>4. Holds(questions', q)
      BY <3>1, <3>2, <3>3 DEF Holds
    <3> QED  BY <3>4 DEF q
  <2>12. \A v \in QuizWorkers : Holds(questions', req'[v])
    BY <1>0, <1>6, <2>11, IdleHolds DEF SaveInsert
  <2> QED  BY <2>7, <2>8, <2>10, <2>12 DEF SheetInv
<1>7. CASE SubmitAttempt(w)
  BY <1>2, <1>7 DEF SubmitAttempt, quizDb, QuizSteps, Binding
<1>8. CASE SubmitLoad(w)
  <2> DEFINE q == [req[w] EXCEPT !.step = "insert_answers"]
  <2>1. q.ids = req[w].ids /\ q.round = req[w].round /\ req[w].ids = IdsOf(req[w].round)
    BY <1>0, <1>8 DEF QuizRequest, SubmitLoad, QuizAt, Accepts, WholeSheet
  <2>2. WholeOrNothing(questions, q.ids, q.round)
    BY <2>1 DEF WholeOrNothing, IdsOf
  <2>3. Holds(questions, q)
    BY <1>0, <2>1, <2>2 DEF Holds
  <2> QED  BY <1>1, <1>8, <2>3 DEF SubmitLoad, QuizGoto, quizDb
<1>9. CASE SubmitInsert(w)
  <2> DEFINE q == req[w]
  <2>1. /\ answers' = answers \cup Sheet(q) /\ questions' = questions
        /\ \A i \in q.ids : \E x \in questions : x.id = i
        /\ OfRound(questions, q.ids, q.round) /\ WholeOrNothing(questions, q.ids, q.round)
    BY <1>0, <1>9 DEF SubmitInsert, QuizAt, Accepts, Insertable, Sheet, Holds, Binding
  <2>2. /\ \A a \in Sheet(q) : a.user = q.user /\ a.round = q.round /\ a.question \in q.ids
        /\ \A i \in q.ids : \E a \in Sheet(q) : a.question = i
    BY SheetRows
  <2> HIDE DEF q
  <2>3. AnswersAsked(questions, answers \cup Sheet(q))
    BY <2>1, <2>2 DEF SheetInv, AnswersAsked, OfRound
  <2>4. \A a \in Sheet(q), x \in questions : x.round = q.round => x.id \in q.ids
    BY <2>1, <2>2 DEF OfRound, WholeOrNothing
  <2>5. AnswersAll(questions, answers \cup Sheet(q))
    <3> SUFFICES ASSUME NEW a \in answers \cup Sheet(q), NEW x \in questions, x.round = a.round
                 PROVE  \E b \in answers \cup Sheet(q) :
                          b.user = a.user /\ b.round = a.round /\ b.question = x.id
      BY DEF AnswersAll
    <3>1. CASE a \in answers
      BY <3>1 DEF SheetInv, AnswersAll
    <3>2. CASE a \in Sheet(q)
      BY <2>2, <2>4, <3>2
    <3> QED  BY <3>1, <3>2
  <2> DEFINE t == [q EXCEPT !.step = "aggregate"]
  <2>6. t.ids = q.ids /\ t.round = q.round /\ t.step \notin Binding
    BY <1>0 DEF QuizRequest, Binding, q
  <2>7. Holds(questions, t)
    BY <1>0, <2>6 DEF Holds, q
  <2> HIDE DEF t
  <2>8. \A v \in QuizWorkers : Holds(questions', req'[v])
    BY <1>0, <1>9, <2>1, <2>7 DEF SheetInv, SubmitInsert, QuizGoto, q, t
  <2>9. Keyed(questions') /\ AnswersAsked(questions', answers') /\ AnswersAll(questions', answers')
    BY <2>1, <2>3, <2>5 DEF SheetInv
  <2> QED  BY <2>8, <2>9 DEF SheetInv
<1>10. CASE ConsolidateRead(w)
  <2>1. PICK score : Goes([req[w] EXCEPT !.step = "upsert", !.seen = score])
    BY <1>0, <1>10 DEF ConsolidateRead
  <2> DEFINE q == [req[w] EXCEPT !.step = "upsert", !.seen = score]
  <2>2. q.ids = req[w].ids /\ q.round = req[w].round /\ q.step \notin Binding
    BY <1>0 DEF QuizRequest, Binding
  <2>3. Holds(questions, q)
    BY <1>0, <2>2 DEF Holds
  <2> QED  BY <1>1, <1>10, <2>1, <2>3 DEF ConsolidateRead, quizDb
<1>11. CASE ConsolidateUpsert(w)
  <2> DEFINE t == [req[w] EXCEPT !.step = "progress"]
             q == IF req[w].user = None THEN QuizIdle ELSE t
  <2>1. t.ids = req[w].ids /\ t.round = req[w].round /\ t.step \notin Binding
    BY <1>0 DEF QuizRequest, Binding
  <2>2. Holds(questions, t)
    BY <1>0, <2>1 DEF Holds
  <2>3. Holds(questions, q)
    BY <2>2, IdleHolds
  <2> QED  BY <1>1, <1>11, <2>3 DEF ConsolidateUpsert
<1>12. ASSUME NEW side \in Counts, SubmitCount(w, side)  PROVE SheetInv'
  <2>1. PICK n : req' = [req EXCEPT ![w].counts[side] = n]
    BY <1>12 DEF SubmitCount
  <2> DEFINE q == [req[w] EXCEPT !.counts[side] = n]
  <2>2. q.ids = req[w].ids /\ q.round = req[w].round /\ q.step = req[w].step
    BY <1>0 DEF QuizRequest
  <2>3. Holds(questions, q)
    BY <1>0, <2>2 DEF Holds
  <2>4. Goes(q)
    BY <1>0, <2>1
  <2> QED  BY <1>1, <1>12, <2>3, <2>4 DEF SubmitCount, quizDb
<1>13. CASE SubmitProgress(w)
  BY <1>3, <1>13 DEF SubmitProgress
<1>14. CASE QuizFail(w)
  BY <1>3, <1>14 DEF QuizFail, quizDb
<1>15. ASSUME NEW r \in Rounds, SaveFind(w, r)  PROVE SheetInv'
  <2> DEFINE q == [QuizIdle EXCEPT !.round = r, !.ids = IdsOf(r),
                     !.step = IF IdsOf(r) = {} THEN "insert_questions" ELSE "drop_options"]
  <2>1. q.ids = IdsOf(r) /\ q.round = r
    BY DEF QuizIdle
  <2> HIDE DEF q
  <2>2. Holds(questions, q)
    BY <2>1 DEF Holds, OfRound, WholeOrNothing, IdsOf, SheetInv, Keyed
  <2> QED  BY <1>1, <1>15, <2>2 DEF SaveFind, quizDb, q
<1>16. ASSUME NEW u, NEW s, NEW r, NEW ids, NEW right, SubmitMember(w, u, s, r, ids, right)
       PROVE  SheetInv'
  <2> DEFINE q == [QuizIdle EXCEPT !.step = "attempt", !.user = u, !.store = s, !.round = r,
                                   !.ids = ids, !.right = right]
  <2>1. q.ids = ids /\ q.round = r /\ q.step \notin Binding
    BY DEF QuizIdle, Binding
  <2> HIDE DEF q
  <2>2. OfRound(questions, ids, r)
    BY <1>16 DEF SubmitMember, OfRound, SheetInv, Keyed
  <2>3. Holds(questions, q)
    BY <2>1, <2>2 DEF Holds
  <2> QED  BY <1>1, <1>16, <2>3 DEF SubmitMember, quizDb, q
<1>17. ASSUME NEW s, NEW r, ConsolidateArrives(w, s, r)  PROVE SheetInv'
  <2> DEFINE q == [QuizIdle EXCEPT !.step = "aggregate", !.store = s, !.round = r]
  <2>1. Holds(questions, q)
    BY DEF QuizIdle, Holds, OfRound, Binding
  <2> QED  BY <1>1, <1>17, <2>1 DEF ConsolidateArrives, quizDb
<1>18. CASE QuizStep(w)
  BY <1>4, <1>5, <1>6, <1>7, <1>8, <1>9, <1>10, <1>11, <1>12, <1>13, <1>14, <1>18 DEF QuizStep
<1>19. CASE QuizRequests(w)
  BY <1>15, <1>16, <1>17, <1>19 DEF QuizRequests
<1> QED  BY <1>18, <1>19

\* So does a transfer, which touches no question, answer or request.
LEMMA SheetNext ==
  ASSUME TypeInv, SheetInv, [QuizNext]_quizVars
  PROVE  SheetInv'
<1>1. ASSUME NEW u, NEW s, NEW t, Transfers(u, s, t)  PROVE SheetInv'
  BY <1>1 DEF Transfers, SheetInv
<1>2. CASE UNCHANGED quizVars
  BY <1>2 DEF quizVars, SheetInv
<1> QED  BY <1>1, <1>2, SheetStep DEF QuizNext

\* All who have answered a round have answered the same questions, however
\* submissions, transfers and saves of the quiz overlap or die.
THEOREM SameSheetTheorem == QuizSpec => []SameSheet
<1>1. SheetInv => SameSheet
  <2> SUFFICES ASSUME SheetInv, NEW a \in answers, NEW b \in answers, a.round = b.round
               PROVE  {x.question : x \in SheetOf(a.user, a.round)}
                        = {x.question : x \in SheetOf(b.user, b.round)}
    BY DEF SameSheet
  <2>1. ASSUME NEW c \in answers
        PROVE  {x.question : x \in SheetOf(c.user, c.round)} = IdsOf(c.round)
    <3> DEFINE asked == {x.question : x \in SheetOf(c.user, c.round)}
    <3>1. ASSUME NEW i \in asked  PROVE i \in IdsOf(c.round)
      <4>1. PICK x \in answers : x.user = c.user /\ x.round = c.round /\ x.question = i
        BY <3>1 DEF SheetOf
      <4>2. PICK q \in questions : q.id = x.question /\ q.round = x.round
        BY DEF SheetInv, AnswersAsked
      <4> QED  BY <4>1, <4>2 DEF IdsOf
    <3>2. ASSUME NEW i \in IdsOf(c.round)  PROVE i \in asked
      <4>1. PICK q \in questions : q.id = i /\ q.round = c.round
        BY <3>2 DEF IdsOf
      <4>2. PICK x \in answers : x.user = c.user /\ x.round = c.round /\ x.question = q.id
        BY <2>1, <4>1 DEF SheetInv, AnswersAll
      <4> QED  BY <4>1, <4>2 DEF SheetOf
    <3> QED  BY <3>1, <3>2
  <2> QED  BY <2>1
<1> QED  BY <1>1, TypeInit, TypeNext, SheetInit, SheetNext, PTL DEF QuizSpec

\* A submission adds the answers of a player to a round he has not answered.
LEMMA NewSheet ==
  ASSUME SheetInv, NEW w \in QuizWorkers, SubmitInsert(w)
  PROVE  /\ answers' = answers \cup Sheet(req[w])
         /\ \A a \in Sheet(req[w]), c \in answers : ~(c.user = a.user /\ c.round = a.round)
<1> DEFINE q == req[w]
<1>1. /\ answers' = answers \cup Sheet(q)
      /\ \A i \in q.ids : \E x \in questions : x.id = i
      /\ \A a \in answers : ~(a.user = q.user /\ a.round = q.round /\ a.question \in q.ids)
      /\ OfRound(questions, q.ids, q.round)
  <2>1. answers' = answers \cup Sheet(q) /\ q.step = "insert_answers" /\ Accepts(w)
    BY DEF SubmitInsert, QuizAt, Sheet
  <2>2. Insertable(q.user, q.store, q.round, q.ids)
    BY <2>1 DEF Accepts
  <2>3. OfRound(questions, q.ids, q.round)
    BY DEF SheetInv, Holds
  <2> QED  BY <2>1, <2>2, <2>3 DEF Insertable
<1>2. \A a \in Sheet(q) : a.user = q.user /\ a.round = q.round /\ a.question \in q.ids
  BY SheetRows
<1> HIDE DEF q
<1>3. ASSUME NEW a \in Sheet(q), NEW c \in answers, c.user = a.user, c.round = a.round  PROVE FALSE
  <2>1. PICK x \in questions : x.id = a.question /\ x.round = c.round
    BY <1>1, <1>2, <1>3 DEF OfRound
  <2>2. PICK b \in answers : b.user = c.user /\ b.round = c.round /\ b.question = x.id
    BY <2>1 DEF SheetInv, AnswersAll
  <2> QED  BY <1>1, <1>2, <1>3, <2>1, <2>2
<1> QED  BY <1>1, <1>3 DEF q

\* Nothing else changes the answers.
LEMMA AnswerSteps ==
  ASSUME [QuizNext]_quizVars
  PROVE  UNCHANGED answers \/ \E w \in QuizWorkers : SubmitInsert(w)
<1>1. ASSUME NEW w \in QuizWorkers, QuizStep(w), ~SubmitInsert(w)  PROVE UNCHANGED answers
  BY <1>1 DEF QuizStep, SaveDropOptions, SaveDropQuestions, SaveInsert, SubmitAttempt, SubmitLoad,
              ConsolidateRead, ConsolidateUpsert, SubmitCount, SubmitProgress, QuizFail, quizDb
<1>2. ASSUME NEW w \in QuizWorkers, QuizRequests(w)  PROVE UNCHANGED answers
  BY <1>2 DEF QuizRequests, SaveFind, SubmitMember, ConsolidateArrives, quizDb
<1>3. ASSUME NEW u, NEW s, NEW t, Transfers(u, s, t)  PROVE UNCHANGED answers
  BY <1>3 DEF Transfers
<1>4. CASE UNCHANGED quizVars
  BY <1>4 DEF quizVars
<1> QED  BY <1>1, <1>2, <1>3, <1>4 DEF QuizNext

\* What a player has answered stays as it is.
LEMMA AttemptStep ==
  ASSUME SheetInv, [QuizNext]_quizVars, NEW u, NEW r, SheetOf(u, r) # {}
  PROVE  SheetOf(u, r)' = SheetOf(u, r)
<1>1. ASSUME NEW w \in QuizWorkers, SubmitInsert(w)  PROVE SheetOf(u, r)' = SheetOf(u, r)
  <2>1. PICK c \in answers : c.user = u /\ c.round = r
    BY DEF SheetOf
  <2>2. answers' = answers \cup Sheet(req[w]) /\ \A a \in Sheet(req[w]) : ~(a.user = u /\ a.round = r)
    BY <1>1, <2>1, NewSheet
  <2> QED  BY <2>2 DEF SheetOf
<1>2. ASSUME UNCHANGED answers  PROVE SheetOf(u, r)' = SheetOf(u, r)
  BY <1>2 DEF SheetOf
<1> QED  BY <1>1, <1>2, AnswerSteps

\* A player's answers to a round are given at once and never added to, through
\* whatever store and against whatever version of the quiz he sends them.
THEOREM OneAttemptTheorem == QuizSpec => OneAttempt
<1>1. ASSUME SheetInv, [QuizNext]_quizVars
      PROVE  [\A u \in Users, r \in Rounds : SheetOf(u, r) # {} => SheetOf(u, r)' = SheetOf(u, r)]_quizVars
  BY <1>1, AttemptStep
<1> QED  BY <1>1, TypeInit, TypeNext, SheetInit, SheetNext, PTL DEF QuizSpec, OneAttempt

-----------------------------------------------------------------------------
(* Saved quizzes.  A save deletes the questions of a round before it inserts *)
(* the new ones, and each of its queries can be refused, so what keeps a     *)
(* round from being left without a quiz is who else is at work on it.        *)

\* A handler touches no request but its own.
LEMMA QuizOwnRequest ==
  ASSUME TypeInv, NEW w \in QuizWorkers, QuizStep(w) \/ QuizRequests(w), NEW v \in QuizWorkers \ {w}
  PROVE  req'[v] = req[v]
<1>0. req \in [QuizWorkers -> QuizRequest]
  BY DEF TypeInv, ReqOK
<1>1. \A q : req' = [req EXCEPT ![w] = q] => req'[v] = req[v]
  BY <1>0
<1>2. CASE QuizStep(w)
  <2>1. ASSUME NEW side, SubmitCount(w, side)  PROVE req'[v] = req[v]
    BY <1>0, <2>1 DEF SubmitCount
  <2>2. CASE ConsolidateRead(w)
    BY <1>0, <2>2 DEF ConsolidateRead
  <2>3. CASE ConsolidateUpsert(w)
    BY <1>1, <2>3 DEF ConsolidateUpsert
  <2> QED
    BY <1>0, <1>2, <2>1, <2>2, <2>3
    DEF QuizStep, SaveDropOptions, SaveDropQuestions, SaveInsert, SubmitAttempt, SubmitLoad,
        SubmitInsert, SubmitProgress, QuizFail, QuizGoto
<1>3. CASE QuizRequests(w)
  BY <1>0, <1>3 DEF QuizRequests, SaveFind, SubmitMember, ConsolidateArrives
<1> QED  BY <1>2, <1>3

\* The steps that change neither questions nor answers leave a save where it is.
LEMMA QuestionSteps ==
  ASSUME TypeInv, NEW w \in QuizWorkers, QuizStep(w) \/ QuizRequests(w)
  PROVE  \/ SaveDropOptions(w) \/ SaveDropQuestions(w) \/ SaveInsert(w) \/ SubmitInsert(w) \/ QuizFail(w)
         \/ /\ UNCHANGED <<questions, answers, posed>>
            /\ req[w].step \notin {"drop_questions", "insert_questions"}
            /\ req'[w].step # "drop_questions"
<1>0. req \in [QuizWorkers -> QuizRequest] /\ req[w] \in QuizRequest
  BY DEF TypeInv, ReqOK
<1> DEFINE Goal == /\ UNCHANGED <<questions, answers, posed>>
                   /\ req[w].step \notin {"drop_questions", "insert_questions"}
                   /\ req'[w].step # "drop_questions"
<1>1. ASSUME NEW step, QuizGoto(w, step), step # "drop_questions",
             req[w].step \notin {"drop_questions", "insert_questions"}, UNCHANGED quizDb
      PROVE  Goal
  BY <1>0, <1>1 DEF QuizGoto, quizDb, QuizRequest
<1>2. SubmitAttempt(w) \/ SubmitLoad(w) => Goal
  BY <1>1 DEF SubmitAttempt, SubmitLoad, QuizAt
<1>3. ASSUME NEW side, SubmitCount(w, side)  PROVE Goal
  BY <1>0, <1>3 DEF SubmitCount, QuizAt, quizDb, QuizRequest
<1>4. ConsolidateRead(w) => Goal
  BY <1>0 DEF ConsolidateRead, QuizAt, quizDb, QuizRequest
<1>5. ConsolidateUpsert(w) => Goal
  BY <1>0 DEF ConsolidateUpsert, QuizAt, QuizIdle, QuizRequest
<1>6. SubmitProgress(w) => Goal
  BY <1>0 DEF SubmitProgress, QuizAt, QuizIdle
<1>7. ASSUME NEW q, q.step # "drop_questions", req[w] = QuizIdle,
             req' = [req EXCEPT ![w] = q], UNCHANGED quizDb
      PROVE  Goal
  BY <1>0, <1>7 DEF quizDb, QuizIdle
<1>8. ASSUME NEW r, SaveFind(w, r)  PROVE Goal
  <2> DEFINE q == [QuizIdle EXCEPT !.round = r, !.ids = IdsOf(r),
                     !.step = IF IdsOf(r) = {} THEN "insert_questions" ELSE "drop_options"]
  <2>1. q.step # "drop_questions"
    BY DEF QuizIdle
  <2>2. req[w] = QuizIdle /\ req' = [req EXCEPT ![w] = q] /\ UNCHANGED quizDb
    BY <1>8 DEF SaveFind, QuizArrives
  <2> HIDE DEF q
  <2> QED  BY <1>7, <2>1, <2>2
<1>9. ASSUME NEW u, NEW s, NEW r, NEW ids, NEW right, SubmitMember(w, u, s, r, ids, right)  PROVE Goal
  BY <1>7, <1>9 DEF SubmitMember, QuizArrives, QuizIdle
<1>10. ASSUME NEW s, NEW r, ConsolidateArrives(w, s, r)  PROVE Goal
  BY <1>7, <1>10 DEF ConsolidateArrives, QuizArrives, QuizIdle
<1> HIDE DEF Goal
<1>11. CASE QuizStep(w)
  <2>1. \/ SaveDropOptions(w) \/ SaveDropQuestions(w) \/ SaveInsert(w) \/ SubmitInsert(w) \/ QuizFail(w) \/ Goal
    BY <1>2, <1>3, <1>4, <1>5, <1>6, <1>11 DEF QuizStep
  <2> QED  BY <2>1 DEF Goal
<1>12. CASE QuizRequests(w)
  <2>1. Goal
    BY <1>8, <1>9, <1>10, <1>12 DEF QuizRequests
  <2> QED  BY <2>1 DEF Goal
<1> QED  BY <1>11, <1>12

\* A round has a whole quiz or none.
RoundsWhole == \A r \in Rounds : IdsOf(r) # {} => Cardinality(IdsOf(r)) = QuestionsPerRound

\* What is saved is what the page sends: as many questions as it has identities.
LEMMA InsertedIds ==
  ASSUME TypeInv, SheetInv, NEW w \in QuizWorkers, SaveInsert(w)
  PROVE  \E ids \in SUBSET QuestionIds :
           /\ Cardinality(ids) = QuestionsPerRound /\ ids # {} /\ ids \cap IdsInUse = {}
           /\ IdsOf(req[w].round) = {} /\ req[w].round \in Rounds
           /\ \A r : IdsOf(r)' = IF r = req[w].round THEN ids ELSE IdsOf(r)
           /\ \A q \in questions' : q \in questions \/ (q.id \in ids /\ q.options)
           /\ questions \subseteq questions'
           /\ posed' = posed \cup {req[w].round} /\ answers' = answers
           /\ req' = [req EXCEPT ![w] = QuizIdle]
<1> DEFINE Row(i, o) == [id |-> i, round |-> req[w].round, order |-> o, options |-> TRUE]
<1>1. PICK ids \in SUBSET QuestionIds : FreshIds(ids) /\ \E order \in [ids -> Orders] :
          questions' = questions \cup {Row(i, order[i]) : i \in ids}
  BY DEF SaveInsert
<1>2. PICK order \in [ids -> Orders] : questions' = questions \cup {Row(i, order[i]) : i \in ids}
  BY <1>1
<1>3. Cardinality(ids) = QuestionsPerRound /\ ids \cap IdsInUse = {}
  BY <1>1 DEF FreshIds
<1>4. ids # {}
  BY <1>3, QuizAssumption, FS_EmptySet
<1>5. req[w].step = "insert_questions" /\ OrdersFree(req[w].round) /\ req[w].round \in Rounds
  BY DEF SaveInsert, QuizAt, Accepts, TypeInv, ReqOK, Shaped
<1>6. IdsOf(req[w].round) = {}
  BY <1>5 DEF OrdersFree, IdsOf, SheetInv, Keyed
<1>7. ASSUME NEW r  PROVE IdsOf(r)' = IF r = req[w].round THEN ids ELSE IdsOf(r)
  <2>1. \A i, o : Row(i, o).id = i /\ Row(i, o).round = req[w].round
    OBVIOUS
  <2> HIDE DEF Row
  <2>2. IdsOf(r)' = {q.id : q \in {x \in questions' : x.round = r}}
    BY DEF IdsOf
  <2>3. CASE r = req[w].round
    <3>1. IdsOf(r)' = IdsOf(r) \cup ids
      BY <1>2, <2>1, <2>2, <2>3 DEF IdsOf
    <3> QED  BY <1>6, <2>3, <3>1
  <2>4. CASE r # req[w].round
    BY <1>2, <2>1, <2>2, <2>4 DEF IdsOf
  <2> QED  BY <2>3, <2>4
<1>8. \A q \in questions' : q \in questions \/ (q.id \in ids /\ q.options)
  BY <1>2
<1> HIDE DEF Row
<1> QED  BY <1>2, <1>3, <1>4, <1>5, <1>6, <1>7, <1>8 DEF SaveInsert

\* Deleting questions takes the whole round.
LEMMA DeletedIds ==
  ASSUME TypeInv, SheetInv, NEW w \in QuizWorkers, SaveDropQuestions(w)
  PROVE  \A r : IdsOf(r)' = IdsOf(r) \/ (IdsOf(r)' = {} /\ r = req[w].round)
<1> DEFINE ids == req[w].ids
<1>1. /\ questions' = {q \in questions : q.id \notin ids}
      /\ OfRound(questions, ids, req[w].round) /\ WholeOrNothing(questions, ids, req[w].round)
  BY DEF SaveDropQuestions, QuizAt, SheetInv, Holds, Binding
<1> SUFFICES ASSUME NEW r
             PROVE  IdsOf(r)' = IdsOf(r) \/ (IdsOf(r)' = {} /\ r = req[w].round)
  OBVIOUS
<1>2. CASE \E q \in questions : q.round = r /\ q.id \in ids
  <2>1. r = req[w].round /\ \A q \in questions : q.round = r => q.id \in ids
    BY <1>1, <1>2 DEF OfRound, WholeOrNothing
  <2> QED  BY <1>1, <2>1 DEF IdsOf
<1>3. CASE \A q \in questions : q.round = r => q.id \notin ids
  BY <1>1, <1>3 DEF IdsOf
<1> QED  BY <1>2, <1>3

\* Dropping options takes no question away.
LEMMA OptionsDropped ==
  ASSUME TypeInv, NEW w \in QuizWorkers, SaveDropOptions(w)
  PROVE  /\ \A r : IdsOf(r)' = IdsOf(r)
         /\ \A q \in questions' : IF q.id \in req[w].ids THEN ~q.options ELSE q \in questions
<1> DEFINE f(q) == IF q.id \in req[w].ids THEN [q EXCEPT !.options = FALSE] ELSE q
<1>1. questions' = {f(q) : q \in questions}
  BY DEF SaveDropOptions
<1>2. \A q \in questions :
        f(q).id = q.id /\ f(q).round = q.round /\ (IF q.id \in req[w].ids THEN ~f(q).options ELSE f(q) = q)
  BY DEF TypeInv, QuizTypeOK, Question
<1> HIDE DEF f
<1>3. ASSUME NEW r  PROVE IdsOf(r)' = IdsOf(r)
  <2>1. IdsOf(r)' = {q.id : q \in {x \in questions' : x.round = r}}
    BY DEF IdsOf
  <2> QED  BY <1>1, <1>2, <2>1 DEF IdsOf
<1>4. ASSUME NEW q \in questions'
      PROVE  IF q.id \in req[w].ids THEN ~q.options ELSE q \in questions
  BY <1>1, <1>2
<1> QED  BY <1>3, <1>4

\* Every quiz is whole at first.
LEMMA WholeInit == QuizInit => RoundsWhole
<1> SUFFICES ASSUME QuizInit, NEW r \in Rounds, IdsOf(r) # {}
             PROVE  Cardinality(IdsOf(r)) = QuestionsPerRound
  BY DEF RoundsWhole
<1>1. questions = InitialQuestions
  BY DEF QuizInit
<1>2. PICK q \in InitialQuestions : q.round = r
  BY <1>1 DEF IdsOf
<1>3. Cardinality({p.id : p \in {x \in InitialQuestions : x.round = q.round}}) = QuestionsPerRound
  BY InitialQuizAssumption
<1> QED  BY <1>1, <1>2, <1>3 DEF IdsOf

\* A save keeps them whole wherever it ends: it deletes a round at once.
LEMMA WholeNext ==
  ASSUME TypeInv, SheetInv, RoundsWhole, [QuizNext]_quizVars
  PROVE  RoundsWhole'
<1>1. ASSUME \A r \in Rounds :
               \/ IdsOf(r)' = IdsOf(r) \/ IdsOf(r)' = {} \/ Cardinality(IdsOf(r)') = QuestionsPerRound
      PROVE  RoundsWhole'
  BY <1>1 DEF RoundsWhole
<1>2. UNCHANGED questions => RoundsWhole'
  BY DEF RoundsWhole, IdsOf
<1>3. ASSUME NEW w \in QuizWorkers, QuizStep(w) \/ QuizRequests(w)  PROVE RoundsWhole'
  <2>1. CASE SaveDropOptions(w)
    BY <1>1, <2>1, OptionsDropped
  <2>2. CASE SaveDropQuestions(w)
    BY <1>1, <2>2, DeletedIds
  <2>3. CASE SaveInsert(w)
    BY <1>1, <2>3, InsertedIds
  <2>4. CASE SubmitInsert(w) \/ QuizFail(w)
    BY <1>2, <2>4 DEF SubmitInsert, QuizFail, quizDb
  <2> QED  BY <1>2, <1>3, <2>1, <2>2, <2>3, <2>4, QuestionSteps
<1>4. ASSUME NEW u, NEW s, NEW t, Transfers(u, s, t)  PROVE RoundsWhole'
  BY <1>2, <1>4 DEF Transfers
<1>5. CASE UNCHANGED quizVars
  BY <1>2, <1>5 DEF quizVars
<1> QED  BY <1>3, <1>4, <1>5 DEF QuizNext

\* A question without options is about to be deleted, ...
OptionsOut ==
  \A q \in questions : q.options \/ \E w \in QuizWorkers : QuizAt(w, "drop_questions") /\ q.id \in req[w].ids

\* ... a round whose quiz was deleted is about to get one, ...
RoundsOut ==
  \A r \in posed : IdsOf(r) # {} \/ \E w \in QuizWorkers : QuizAt(w, "insert_questions") /\ req[w].round = r

\* ... and nothing comes between: without their options the questions cannot be
\* answered, so that their deletion is not refused.
DropsAccepted ==
  \A w \in QuizWorkers : QuizAt(w, "drop_questions") =>
    Unanswered(req[w].ids) /\ \A q \in questions : q.id \in req[w].ids => ~q.options

SaveInv == OptionsOut /\ RoundsOut /\ DropsAccepted

\* At first every question has its options and nothing is being saved.
LEMMA SaveInit == QuizInit => SaveInv
<1> SUFFICES ASSUME QuizInit  PROVE SaveInv
  OBVIOUS
<1>1. OptionsOut
  BY InitialQuizAssumption DEF QuizInit, OptionsOut
<1>2. RoundsOut
  BY DEF QuizInit, RoundsOut, IdsOf
<1>3. DropsAccepted
  BY DEF QuizInit, DropsAccepted, QuizAt, QuizIdle
<1> QED  BY <1>1, <1>2, <1>3 DEF SaveInv

\* A handler that does not die keeps it so.
LEMMA SaveStep ==
  ASSUME "crash" \notin QuizMix, TypeInv, SheetInv, SaveInv,
         NEW w \in QuizWorkers, QuizStep(w) \/ QuizRequests(w)
  PROVE  SaveInv'
<1>0. /\ req \in [QuizWorkers -> QuizRequest] /\ req[w] \in QuizRequest
      /\ \A v \in QuizWorkers \ {w} : req'[v] = req[v]
  BY QuizOwnRequest DEF TypeInv, ReqOK
<1>1. CASE SaveDropOptions(w)
  <2>1. QuizAt(w, "drop_options") /\ Unanswered(req[w].ids) /\ UNCHANGED <<answers, posed>>
    BY <1>1 DEF SaveDropOptions, QuizAt, Accepts
  <2>2. req'[w].step = "drop_questions" /\ req'[w].ids = req[w].ids
    BY <1>0, <1>1 DEF SaveDropOptions, QuizGoto, QuizRequest
  <2>3. OptionsOut'
    BY <1>0, <1>1, <2>1, <2>2, OptionsDropped DEF SaveInv, OptionsOut, QuizAt
  <2>4. RoundsOut'
    BY <1>0, <1>1, <2>1, <2>2, OptionsDropped DEF SaveInv, RoundsOut, QuizAt
  <2>5. DropsAccepted'
    BY <1>0, <1>1, <2>1, <2>2, OptionsDropped DEF SaveInv, DropsAccepted, QuizAt, Unanswered
  <2> QED  BY <2>3, <2>4, <2>5 DEF SaveInv
<1>2. CASE SaveDropQuestions(w)
  <2>1. /\ QuizAt(w, "drop_questions") /\ UNCHANGED <<answers, posed>>
        /\ questions' = {q \in questions : q.id \notin req[w].ids}
    BY <1>2 DEF SaveDropQuestions
  <2>2. req'[w].step = "insert_questions" /\ req'[w].round = req[w].round
    BY <1>0, <1>2 DEF SaveDropQuestions, QuizGoto, QuizRequest
  <2>3. OptionsOut'
    BY <1>0, <2>1 DEF SaveInv, OptionsOut, QuizAt
  <2>4. RoundsOut'
    BY <1>0, <1>2, <2>1, <2>2, DeletedIds DEF SaveInv, RoundsOut, QuizAt
  <2>5. DropsAccepted'
    BY <1>0, <2>1, <2>2 DEF SaveInv, DropsAccepted, QuizAt, Unanswered
  <2> QED  BY <2>3, <2>4, <2>5 DEF SaveInv
<1>3. CASE SaveInsert(w)
  <2>1. PICK ids \in SUBSET QuestionIds :
           /\ ids # {} /\ ids \cap IdsInUse = {}
           /\ \A r : IdsOf(r)' = IF r = req[w].round THEN ids ELSE IdsOf(r)
           /\ \A q \in questions' : q \in questions \/ (q.id \in ids /\ q.options)
           /\ posed' = posed \cup {req[w].round} /\ answers' = answers
           /\ req' = [req EXCEPT ![w] = QuizIdle]
    BY <1>3, InsertedIds
  <2>2. req'[w] = QuizIdle /\ QuizAt(w, "insert_questions")
    BY <1>0, <1>3, <2>1 DEF SaveInsert
  <2>3. OptionsOut'
    BY <1>0, <2>1, <2>2 DEF SaveInv, OptionsOut, QuizAt
  <2>4. RoundsOut'
    BY <1>0, <2>1, <2>2 DEF SaveInv, RoundsOut, QuizAt
  <2>5. \A v \in QuizWorkers : ids \cap req[v].ids = {}
    BY <2>1 DEF IdsInUse
  <2>6. DropsAccepted'
    BY <1>0, <2>1, <2>2, <2>5 DEF SaveInv, DropsAccepted, QuizAt, Unanswered, QuizIdle
  <2> QED  BY <2>3, <2>4, <2>6 DEF SaveInv
<1>4. CASE SubmitInsert(w)
  <2>1. /\ QuizAt(w, "insert_answers") /\ UNCHANGED <<questions, posed>>
        /\ \A i \in req[w].ids : \E q \in questions : q.id = i /\ q.options
        /\ answers' = answers \cup Sheet(req[w])
    BY <1>4 DEF SubmitInsert, Sheet, QuizAt, Accepts, Insertable
  <2>2. req'[w].step = "aggregate"
    BY <1>0, <1>4 DEF SubmitInsert, QuizGoto, QuizRequest
  <2>3. OptionsOut'
    BY <1>0, <2>1, <2>2 DEF SaveInv, OptionsOut, QuizAt
  <2>4. RoundsOut'
    BY <1>0, <2>1, <2>2 DEF SaveInv, RoundsOut, QuizAt, IdsOf
  <2>5. ASSUME NEW v \in QuizWorkers, QuizAt(v, "drop_questions")
        PROVE  \A a \in answers' : a.question \notin req[v].ids
    <3>1. \A a \in Sheet(req[w]) : a.question \in req[w].ids
      BY SheetRows
    <3> QED  BY <2>1, <2>5, <3>1 DEF SaveInv, DropsAccepted, Unanswered
  <2>6. DropsAccepted'
    BY <1>0, <2>1, <2>2, <2>5 DEF SaveInv, DropsAccepted, QuizAt, Unanswered
  <2> QED  BY <2>3, <2>4, <2>6 DEF SaveInv
<1>5. CASE QuizFail(w)
  <2>1. ~Accepts(w) /\ UNCHANGED <<questions, answers, posed>> /\ req'[w] = QuizIdle
    BY <1>0, <1>5 DEF QuizFail, quizDb
  <2>2. ~QuizAt(w, "drop_questions")
    BY <2>1 DEF SaveInv, DropsAccepted, QuizAt, Accepts
  <2>3. QuizAt(w, "insert_questions") => IdsOf(req[w].round) # {}
    BY <2>1 DEF QuizAt, Accepts, OrdersFree, IdsOf
  <2>4. OptionsOut'
    BY <1>0, <2>1, <2>2 DEF SaveInv, OptionsOut, QuizAt
  <2>5. RoundsOut'
    BY <1>0, <2>1, <2>3 DEF SaveInv, RoundsOut, QuizAt, IdsOf
  <2>6. DropsAccepted'
    BY <1>0, <2>1 DEF SaveInv, DropsAccepted, QuizAt, Unanswered, QuizIdle
  <2> QED  BY <2>4, <2>5, <2>6 DEF SaveInv
<1>6. CASE /\ UNCHANGED <<questions, answers, posed>>
           /\ req[w].step \notin {"drop_questions", "insert_questions"}
           /\ req'[w].step # "drop_questions"
  <2>1. OptionsOut'
    BY <1>0, <1>6 DEF SaveInv, OptionsOut, QuizAt
  <2>2. RoundsOut'
    BY <1>0, <1>6 DEF SaveInv, RoundsOut, QuizAt, IdsOf
  <2>3. DropsAccepted'
    BY <1>0, <1>6 DEF SaveInv, DropsAccepted, QuizAt, Unanswered
  <2> QED  BY <2>1, <2>2, <2>3 DEF SaveInv
<1> QED  BY <1>1, <1>2, <1>3, <1>4, <1>5, <1>6, QuestionSteps

\* Without deaths a save that deletes the questions of a round goes on to
\* insert new ones, or finds that another save has: once every request is
\* over, each round that ever had a quiz has a whole one, with its options.
THEOREM PosedTheorem ==
  ASSUME "crash" \notin QuizMix
  PROVE  QuizSpec => []PosedStays
<1>1. ASSUME TypeInv, RoundsWhole, SaveInv  PROVE PosedStays
  <2> SUFFICES ASSUME QuizQuiet
               PROVE  /\ \A q \in questions : q.options
                      /\ \A r \in posed : Cardinality(IdsOf(r)) = QuestionsPerRound
    BY DEF PosedStays
  <2>1. \A w \in QuizWorkers : req[w].step = "idle"
    BY DEF QuizQuiet, QuizIdle
  <2>2. \A q \in questions : q.options
    BY <1>1, <2>1 DEF SaveInv, OptionsOut, QuizAt
  <2>3. \A r \in posed : r \in Rounds /\ IdsOf(r) # {}
    BY <1>1, <2>1 DEF SaveInv, RoundsOut, QuizAt, TypeInv, QuizTypeOK
  <2> QED  BY <1>1, <2>2, <2>3 DEF RoundsWhole
<1>2. ASSUME TypeInv, SheetInv, SaveInv, [QuizNext]_quizVars  PROVE SaveInv'
  <2>1. ASSUME NEW u, NEW s, NEW t, Transfers(u, s, t)  PROVE SaveInv'
    BY <1>2, <2>1 DEF Transfers, SaveInv, OptionsOut, RoundsOut, DropsAccepted, QuizAt, Unanswered, IdsOf
  <2>2. CASE UNCHANGED quizVars
    BY <1>2, <2>2 DEF quizVars, SaveInv, OptionsOut, RoundsOut, DropsAccepted, QuizAt, Unanswered, IdsOf
  <2> QED  BY <1>2, <2>1, <2>2, SaveStep DEF QuizNext
<1> QED
  BY <1>1, <1>2, TypeInit, TypeNext, SheetInit, SheetNext, WholeInit, WholeNext, SaveInit, PTL DEF QuizSpec

-----------------------------------------------------------------------------
(* Finished stores.  Who completes the quiz of a store is still at work when *)
(* its last answers are there, and counts afterwards: at least as many       *)
(* players who answered as there are in the store.                           *)

\* While nobody leaves a store, who answers for it plays there.
PlayersIn ==
  \A s \in Stores \ left :
    /\ \A r \in Rounds : WhoAnswered(s, r) \subseteq teams[s]
    /\ \A w \in QuizWorkers : req[w].user # None /\ req[w].store = s => req[w].user \in teams[s]

\* Nothing is counted before the score is stored.
CountedLast == \A w \in QuizWorkers : QuizAt(w, "progress") \/ req[w].counts = NoCounts

Complete(s, r) == teams[s] # {} /\ teams[s] \subseteq WhoAnswered(s, r)

\* A submission that will find the quiz of a store complete.
Announces(q, s, r) ==
  /\ q.user # None /\ q.store = s /\ q.round = r
  /\ q.step \in {"aggregate", "upsert", "progress"}
  /\ q.counts.answered = None \/ q.counts.answered >= Cardinality(teams[s])
  /\ q.counts.team = None \/ q.counts.team <= Cardinality(teams[s])

Announced ==
  \A s \in Stores \ left, r \in Rounds : Complete(s, r) =>
    <<s, r>> \in finished \/ \E w \in QuizWorkers : Announces(req[w], s, r)

FinishInv == PlayersIn /\ CountedLast /\ Announced

\* What is complete at first has been announced.
LEMMA FinishInit == QuizInit => FinishInv
<1> SUFFICES ASSUME QuizInit  PROVE FinishInv
  OBVIOUS
<1>1. teams = InitialTeams /\ answers = InitialAnswers /\ \A w \in QuizWorkers : req[w] = QuizIdle
  BY DEF QuizInit
<1>2. PlayersIn
  BY <1>1, InitialQuizAssumption DEF PlayersIn, WhoAnswered, AnswersOf, QuizIdle
<1>3. CountedLast
  BY <1>1 DEF CountedLast, QuizIdle
<1>4. ASSUME NEW s \in Stores, NEW r \in Rounds, Complete(s, r)  PROVE <<s, r>> \in finished
  <2> DEFINE k == <<s, r>>
  <2>1. InitialTeams[k[1]] # {}
    BY <1>1, <1>4 DEF Complete
  <2>2. {x \in InitialAnswers : <<x.store, x.round>> = k} = AnswersOf(s, r)
    BY <1>1 DEF AnswersOf
  <2>3. InitialTeams[k[1]] \subseteq {a.user : a \in {x \in InitialAnswers : <<x.store, x.round>> = k}}
    BY <1>1, <1>4, <2>2 DEF Complete, WhoAnswered
  <2>4. k \in Stores \X Rounds
    OBVIOUS
  <2> HIDE DEF k
  <2>5. k \in finished
    BY <2>1, <2>3, <2>4 DEF QuizInit
  <2> QED  BY <2>5 DEF k
<1>5. Announced
  BY <1>4 DEF Announced
<1> QED  BY <1>2, <1>3, <1>5 DEF FinishInv

\* A step that answers nothing keeps it so when the request it leaves still has
\* a player of its store, and still announces what it was to announce.
LEMMA FinishFrame ==
  ASSUME FinishInv, UNCHANGED <<teams, left, answers>>, finished \subseteq finished',
         NEW w \in QuizWorkers, \A v \in QuizWorkers \ {w} : req'[v] = req[v],
         req'[w].user # None /\ req'[w].store \in Stores \ left => req'[w].user \in teams[req'[w].store],
         req'[w].step = "progress" \/ req'[w].counts = NoCounts,
         \A s \in Stores, r \in Rounds : Complete(s, r) /\ Announces(req[w], s, r) =>
           <<s, r>> \in finished' \/ Announces(req'[w], s, r)
  PROVE  FinishInv'
<1>1. PlayersIn'
  BY DEF FinishInv, PlayersIn, WhoAnswered, AnswersOf
<1>2. CountedLast'
  BY DEF FinishInv, CountedLast, QuizAt
<1>4. \A s, r : Complete(s, r)' = Complete(s, r)
  BY DEF Complete, WhoAnswered, AnswersOf
<1>5. ASSUME NEW s \in Stores \ left, NEW r \in Rounds, Complete(s, r)
      PROVE  <<s, r>> \in finished' \/ \E v \in QuizWorkers : Announces(req'[v], s, r)
  <2>1. CASE <<s, r>> \in finished
    BY <2>1
  <2>2. ASSUME NEW v \in QuizWorkers, Announces(req[v], s, r)
        PROVE  <<s, r>> \in finished' \/ Announces(req'[w], s, r) \/ Announces(req'[v], s, r)
    BY <1>5, <2>2
  <2> QED  BY <1>5, <2>1, <2>2 DEF FinishInv, Announced
<1>6. Announced'
  <2> SUFFICES ASSUME NEW s \in Stores \ left', NEW r \in Rounds, Complete(s, r)'
               PROVE  <<s, r>> \in finished' \/ \E v \in QuizWorkers : Announces(req[v], s, r)'
    BY DEF Announced
  <2>1. \A v \in QuizWorkers : Announces(req[v], s, r)' = Announces(req'[v], s, r)
    BY DEF Announces
  <2> QED  BY <1>4, <1>5, <2>1
<1> QED  BY <1>1, <1>2, <1>6 DEF FinishInv

\* A handler that does not die keeps it so.
LEMMA FinishStep ==
  ASSUME "crash" \notin QuizMix, TypeInv, FinishInv,
         NEW w \in QuizWorkers, QuizStep(w) \/ QuizRequests(w)
  PROVE  FinishInv'
<1>0. /\ req \in [QuizWorkers -> QuizRequest] /\ req[w] \in QuizRequest /\ Shaped(req[w])
      /\ \A v \in QuizWorkers \ {w} : req'[v] = req[v]
  BY QuizOwnRequest DEF TypeInv, ReqOK
<1>1. /\ req[w].user # None /\ req[w].store \in Stores \ left => req[w].user \in teams[req[w].store]
      /\ QuizAt(w, "progress") \/ req[w].counts = NoCounts
  BY DEF FinishInv, PlayersIn, CountedLast
<1>2. ASSUME UNCHANGED <<teams, left, answers>>, finished' = finished,
             req'[w].user = req[w].user, req'[w].store = req[w].store, req'[w].counts = req[w].counts,
             ~QuizAt(w, "progress"),
             \A s \in Stores, r \in Rounds :
               Announces(req[w], s, r) => Announces(req'[w], s, r)
      PROVE  FinishInv'
  BY <1>0, <1>1, <1>2, FinishFrame
<1>3. ASSUME NEW step, QuizGoto(w, step), UNCHANGED <<teams, left, answers>>, finished' = finished,
             req[w].step \notin {"aggregate", "upsert", "progress"}
      PROVE  FinishInv'
  <2>1. /\ req'[w].user = req[w].user /\ req'[w].store = req[w].store
        /\ req'[w].counts = req[w].counts
    BY <1>0, <1>3 DEF QuizGoto, QuizRequest
  <2> QED  BY <1>2, <1>3, <2>1 DEF Announces, QuizAt
<1>4. ASSUME req'[w].user = None, req'[w].counts = NoCounts, UNCHANGED <<teams, left, answers>>,
             finished \subseteq finished',
             \A s \in Stores, r \in Rounds :
               Complete(s, r) /\ Announces(req[w], s, r) => <<s, r>> \in finished'
      PROVE  FinishInv'
  BY <1>0, <1>4, FinishFrame
<1>5. CASE SaveDropOptions(w) \/ SaveDropQuestions(w) \/ SubmitAttempt(w) \/ SubmitLoad(w)
  BY <1>3, <1>5 DEF SaveDropOptions, SaveDropQuestions, SubmitAttempt, SubmitLoad, QuizAt, quizDb
<1>6. CASE SaveInsert(w)
  <2>1. /\ req'[w] = QuizIdle /\ QuizAt(w, "insert_questions")
        /\ UNCHANGED <<teams, left, answers, finished>>
    BY <1>0, <1>6 DEF SaveInsert
  <2> QED  BY <1>4, <2>1 DEF QuizIdle, Announces, QuizAt
<1>7. CASE QuizFail(w)
  <2>1. req'[w] = QuizIdle /\ UNCHANGED <<teams, left, answers, finished>> /\ ~Accepts(w)
    BY <1>0, <1>7 DEF QuizFail, quizDb
  <2>2. req[w].step \notin {"aggregate", "upsert", "progress"}
    BY <2>1 DEF Accepts
  <2> QED  BY <1>4, <2>1, <2>2 DEF QuizIdle, Announces
<1>8. CASE SubmitInsert(w)
  <2> DEFINE q == req[w]
  <2>1. /\ QuizAt(w, "insert_answers") /\ UNCHANGED <<teams, left, finished>>
        /\ answers' = answers \cup Sheet(q)
    BY <1>8 DEF SubmitInsert, Sheet
  <2>2. /\ req'[w].step = "aggregate" /\ req'[w].user = q.user /\ req'[w].store = q.store
        /\ req'[w].round = q.round /\ req'[w].counts = q.counts
    BY <1>0, <1>8 DEF SubmitInsert, QuizGoto, QuizRequest
  <2>3. q.user \in Users /\ q.user # None /\ q.counts = NoCounts
    BY <1>0, <1>1, <2>1, QuizAssumption DEF Shaped, QuizAt
  <2>4. \A a \in Sheet(q) : a.user = q.user /\ a.store = q.store /\ a.round = q.round
    BY DEF Sheet
  <2>5. ASSUME NEW s, NEW r
        PROVE  /\ WhoAnswered(s, r)' \subseteq WhoAnswered(s, r) \cup {q.user}
               /\ s # q.store \/ r # q.round => WhoAnswered(s, r)' = WhoAnswered(s, r)
    <3>1. WhoAnswered(s, r)' = {a.user : a \in {x \in answers' : x.store = s /\ x.round = r}}
      BY DEF WhoAnswered, AnswersOf
    <3> QED  BY <2>1, <2>4, <3>1 DEF WhoAnswered, AnswersOf
  <2>6. PlayersIn'
    <3> SUFFICES ASSUME NEW s \in Stores \ left
                 PROVE  /\ \A r \in Rounds : WhoAnswered(s, r)' \subseteq teams[s]
                        /\ \A v \in QuizWorkers : req'[v].user # None /\ req'[v].store = s
                                                  => req'[v].user \in teams[s]
      BY <2>1 DEF PlayersIn
    <3>1. \A r \in Rounds : WhoAnswered(s, r)' \subseteq teams[s]
      BY <1>1, <2>3, <2>5 DEF FinishInv, PlayersIn
    <3>2. \A v \in QuizWorkers : req'[v].user = req[v].user /\ req'[v].store = req[v].store
      BY <1>0, <2>2
    <3> QED  BY <3>1, <3>2 DEF FinishInv, PlayersIn
  <2>7. CountedLast'
    BY <1>0, <2>2, <2>3 DEF FinishInv, CountedLast, QuizAt
  <2>8. Announced'
    <3> SUFFICES ASSUME NEW s \in Stores \ left, NEW r \in Rounds, Complete(s, r)'
                 PROVE  <<s, r>> \in finished \/ \E v \in QuizWorkers : Announces(req[v], s, r)'
      BY <2>1 DEF Announced
    <3>1. CASE s = q.store /\ r = q.round
      <4>1. Announces(req[w], s, r)'
        BY <2>2, <2>3, <3>1 DEF Announces, NoCounts, Counts
      <4> QED  BY <4>1
    <3>2. CASE s # q.store \/ r # q.round
      <4>1. Complete(s, r)
        BY <2>1, <2>5, <3>2 DEF Complete
      <4>2. \A v \in QuizWorkers : Announces(req[v], s, r) => Announces(req[v], s, r)'
        BY <1>0, <2>1 DEF Announces, QuizAt
      <4> QED  BY <4>1, <4>2 DEF FinishInv, Announced
    <3> QED  BY <3>1, <3>2
  <2> QED  BY <2>6, <2>7, <2>8 DEF FinishInv
<1>9. CASE ConsolidateRead(w)
  <2>1. /\ QuizAt(w, "aggregate") /\ UNCHANGED <<teams, left, answers, finished>>
        /\ req'[w].step = "upsert" /\ req'[w].user = req[w].user /\ req'[w].store = req[w].store
        /\ req'[w].round = req[w].round /\ req'[w].counts = req[w].counts
    BY <1>0, <1>9 DEF ConsolidateRead, quizDb, QuizRequest
  <2> QED  BY <1>2, <2>1 DEF Announces, QuizAt
<1>10. CASE ConsolidateUpsert(w)
  <2>1. QuizAt(w, "upsert") /\ UNCHANGED <<teams, left, answers, finished>>
    BY <1>10 DEF ConsolidateUpsert
  <2>2. CASE req[w].user = None
    <3>1. req'[w] = QuizIdle
      BY <1>0, <1>10, <2>2 DEF ConsolidateUpsert
    <3> QED  BY <1>4, <2>1, <2>2, <3>1 DEF QuizIdle, Announces
  <2>3. CASE req[w].user # None
    <3>1. /\ req'[w].step = "progress" /\ req'[w].user = req[w].user /\ req'[w].store = req[w].store
          /\ req'[w].round = req[w].round /\ req'[w].counts = req[w].counts
      BY <1>0, <1>10, <2>3 DEF ConsolidateUpsert, QuizRequest
    <3> QED  BY <1>2, <2>1, <3>1 DEF Announces, QuizAt
  <2> QED  BY <2>2, <2>3
<1>11. ASSUME NEW side \in Counts, SubmitCount(w, side)  PROVE FinishInv'
  <2> DEFINE q == req[w]
             team == Cardinality(teams[q.store])
             answered == Cardinality(WhoAnswered(q.store, q.round))
             n == IF side = "team" THEN team ELSE answered
  <2>1. /\ QuizAt(w, "progress") /\ UNCHANGED <<teams, left, answers, finished>>
        /\ req' = [req EXCEPT ![w].counts[side] = n]
    BY <1>11 DEF SubmitCount, quizDb
  <2> HIDE DEF n
  <2>2. /\ req'[w].user = q.user /\ req'[w].store = q.store /\ req'[w].round = q.round
        /\ req'[w].step = "progress" /\ req'[w].counts = [q.counts EXCEPT ![side] = n]
    BY <1>0, <2>1 DEF QuizRequest, QuizAt
  <2>3. q.counts \in [Counts -> Nat \cup {None}] /\ q.store \in Stores /\ q.round \in Rounds
    BY <1>0, <2>1 DEF QuizRequest, Shaped, QuizAt
  <2>4. /\ side = "answered" => req'[w].counts.answered = answered /\ req'[w].counts.team = q.counts.team
        /\ side = "team" => req'[w].counts.answered = q.counts.answered /\ req'[w].counts.team = team
    BY <2>2, <2>3 DEF n, Counts
  <2>5. team \in Nat /\ answered \in Nat /\ (Complete(q.store, q.round) => answered >= team)
    <3>1. IsFiniteSet(teams[q.store])
      BY <2>3, QuizAssumption, FS_Subset DEF TypeInv, QuizTypeOK
    <3>2. IsFiniteSet(AnswersOf(q.store, q.round))
      BY FS_Subset DEF TypeInv, AnswersOf
    <3>3. IsFiniteSet(WhoAnswered(q.store, q.round))
      BY <3>2, PlayersFinite DEF WhoAnswered
    <3> QED  BY <3>1, <3>3, FS_CardinalityType, FS_Subset DEF Complete
  <2> HIDE DEF team, answered
  <2>6. ASSUME NEW s \in Stores, NEW r \in Rounds, Complete(s, r), Announces(q, s, r)
        PROVE  Announces(req'[w], s, r)
    <3>1. s = q.store /\ r = q.round
      BY <2>6 DEF Announces
    <3>2. answered >= Cardinality(teams[s]) /\ team <= Cardinality(teams[s])
      BY <2>5, <2>6, <3>1 DEF team
    <3> QED  BY <2>2, <2>4, <2>6, <3>1, <3>2, <1>11 DEF Announces, Counts
  <2>7. req'[w].user # None /\ req'[w].store \in Stores \ left => req'[w].user \in teams[req'[w].store]
    BY <1>1, <2>2
  <2> QED  BY <1>0, <2>1, <2>2, <2>6, <2>7, FinishFrame
<1>12. CASE SubmitProgress(w)
  <2> DEFINE q == req[w]
  <2>1. /\ QuizAt(w, "progress") /\ UNCHANGED <<teams, left, answers>> /\ req'[w] = QuizIdle
        /\ q.counts.answered # None /\ q.counts.team # None
        /\ finished' = IF q.counts.answered >= q.counts.team
                       THEN finished \cup {<<q.store, q.round>>} ELSE finished
    BY <1>0, <1>12 DEF SubmitProgress, Counts
  <2>2. q.counts.answered \in Nat /\ q.counts.team \in Nat /\ q.store \in Stores
    BY <1>0, <2>1 DEF QuizRequest, Counts, Shaped, QuizAt
  <2>3. Cardinality(teams[q.store]) \in Nat
    BY <2>2, QuizAssumption, FS_Subset, FS_CardinalityType DEF TypeInv, QuizTypeOK
  <2>4. ASSUME NEW s \in Stores, NEW r \in Rounds, Announces(q, s, r)
        PROVE  <<s, r>> \in finished'
    <3>1. s = q.store /\ r = q.round /\ q.counts.answered >= Cardinality(teams[s])
          /\ q.counts.team <= Cardinality(teams[s])
      BY <2>1, <2>4 DEF Announces
    <3>2. q.counts.answered >= q.counts.team
      BY <2>2, <2>3, <3>1
    <3> QED  BY <2>1, <3>1, <3>2
  <2>5. finished \subseteq finished'
    BY <2>1
  <2> QED  BY <1>4, <2>1, <2>4, <2>5 DEF QuizIdle
<1>13. CASE QuizStep(w)
  BY <1>5, <1>6, <1>7, <1>8, <1>9, <1>10, <1>11, <1>12, <1>13 DEF QuizStep
<1>14. ASSUME NEW q, req' = [req EXCEPT ![w] = q], req[w] = QuizIdle, UNCHANGED quizDb,
              q.counts = NoCounts,
              q.user # None /\ q.store \in Stores \ left => q.user \in teams[q.store]
       PROVE  FinishInv'
  <2>1. req'[w] = q
    BY <1>0, <1>14
  <2>2. \A s, r : ~Announces(req[w], s, r)
    BY <1>14 DEF Announces, QuizIdle
  <2> QED  BY <1>0, <1>14, <2>1, <2>2, FinishFrame DEF quizDb
<1>15. ASSUME NEW r, SaveFind(w, r)  PROVE FinishInv'
  <2> DEFINE q == [QuizIdle EXCEPT !.round = r, !.ids = IdsOf(r),
                     !.step = IF IdsOf(r) = {} THEN "insert_questions" ELSE "drop_options"]
  <2>1. q.counts = NoCounts /\ q.user = None
    BY DEF QuizIdle
  <2>2. req[w] = QuizIdle /\ req' = [req EXCEPT ![w] = q] /\ UNCHANGED quizDb
    BY <1>15 DEF SaveFind, QuizArrives
  <2> HIDE DEF q
  <2> QED  BY <1>14, <2>1, <2>2
<1>16. ASSUME NEW u, NEW s, NEW r, NEW ids, NEW right, SubmitMember(w, u, s, r, ids, right)
       PROVE  FinishInv'
  <2> DEFINE q == [QuizIdle EXCEPT !.step = "attempt", !.user = u, !.store = s, !.round = r,
                                   !.ids = ids, !.right = right]
  <2>1. q.counts = NoCounts /\ q.user = u /\ q.store = s
    BY DEF QuizIdle
  <2>2. req[w] = QuizIdle /\ req' = [req EXCEPT ![w] = q] /\ UNCHANGED quizDb /\ u \in teams[s]
    BY <1>16 DEF SubmitMember, QuizArrives
  <2> HIDE DEF q
  <2> QED  BY <1>14, <2>1, <2>2
<1>17. ASSUME NEW s, NEW r, ConsolidateArrives(w, s, r)  PROVE FinishInv'
  <2> DEFINE q == [QuizIdle EXCEPT !.step = "aggregate", !.store = s, !.round = r]
  <2>1. q.counts = NoCounts /\ q.user = None
    BY DEF QuizIdle
  <2>2. req[w] = QuizIdle /\ req' = [req EXCEPT ![w] = q] /\ UNCHANGED quizDb
    BY <1>17 DEF ConsolidateArrives, QuizArrives
  <2> HIDE DEF q
  <2> QED  BY <1>14, <2>1, <2>2
<1>18. CASE QuizRequests(w)
  BY <1>15, <1>16, <1>17, <1>18 DEF QuizRequests
<1> QED  BY <1>13, <1>18

\* Who moves to a store has not answered for it, and nothing is asked of the
\* store that was left.
LEMMA FinishMove ==
  ASSUME TypeInv, FinishInv, NEW u \in Users, NEW s \in Stores, NEW t \in Stores, Transfers(u, s, t)
  PROVE  FinishInv'
<1>1. /\ u \in teams[s] /\ u \notin teams[t] /\ left' = left \cup {s}
      /\ teams' = [teams EXCEPT ![s] = @ \ {u}, ![t] = @ \cup {u}]
      /\ UNCHANGED <<answers, finished, req>> /\ teams \in [Stores -> SUBSET Users]
  BY DEF Transfers, TypeInv, QuizTypeOK
<1>2. \A x \in Stores \ left' : x # s /\ teams'[x] = IF x = t THEN teams[t] \cup {u} ELSE teams[x]
  BY <1>1
<1>3. \A x, r : WhoAnswered(x, r)' = WhoAnswered(x, r)
  BY <1>1 DEF WhoAnswered, AnswersOf
<1>4. PlayersIn'
  BY <1>1, <1>2, <1>3 DEF FinishInv, PlayersIn
<1>5. CountedLast'
  BY <1>1 DEF FinishInv, CountedLast, QuizAt
<1>6. Announced'
  <2> SUFFICES ASSUME NEW x \in Stores \ left', NEW r \in Rounds, Complete(x, r)'
               PROVE  <<x, r>> \in finished \/ \E v \in QuizWorkers : Announces(req[v], x, r)'
    BY <1>1 DEF Announced
  <2>1. x # t
    BY <1>1, <1>2, <1>3 DEF Complete, FinishInv, PlayersIn
  <2>2. teams'[x] = teams[x] /\ x \in Stores \ left
    BY <1>1, <1>2, <2>1
  <2>3. Complete(x, r) /\ \A v \in QuizWorkers : Announces(req[v], x, r)' = Announces(req[v], x, r)
    BY <1>1, <1>3, <2>2 DEF Complete, Announces
  <2> QED  BY <2>2, <2>3 DEF FinishInv, Announced
<1> QED  BY <1>4, <1>5, <1>6 DEF FinishInv

\* Without deaths the facilitator is told of every store whose players have all
\* answered: whoever answered last counts them all, and players who answer at
\* the same time do not each take the other for missing.
THEOREM FinishTheorem ==
  ASSUME "crash" \notin QuizMix
  PROVE  QuizSpec => []FinishAnnounced
<1>1. ASSUME FinishInv  PROVE FinishAnnounced
  <2>1. ASSUME QuizQuiet  PROVE \A w \in QuizWorkers : \A s, r : ~Announces(req[w], s, r)
    BY <2>1 DEF QuizQuiet, QuizIdle, Announces
  <2> QED  BY <1>1, <2>1 DEF FinishAnnounced, FinishInv, Announced, Complete
<1>2. ASSUME TypeInv, FinishInv, [QuizNext]_quizVars  PROVE FinishInv'
  <2>1. ASSUME UNCHANGED quizVars  PROVE FinishInv'
    BY <1>2, <2>1
    DEF quizVars, FinishInv, PlayersIn, CountedLast, Announced, Complete, Announces, WhoAnswered, AnswersOf, QuizAt
  <2> QED  BY <1>2, <2>1, FinishStep, FinishMove DEF QuizNext
<1> QED  BY <1>1, <1>2, TypeInit, TypeNext, FinishInit, PTL DEF QuizSpec

-----------------------------------------------------------------------------
(* Scores.  Sheets are whole, of one size, and given through one store, so   *)
(* that the answers of some players of a store number as many as there are   *)
(* players times the questions of a round.                                   *)

\* A player answers a round for one store, and a question of it once.
RowsUnique ==
  \A a, b \in answers : a.user = b.user /\ a.round = b.round =>
    a.store = b.store /\ (a.question = b.question => a = b)

LEMMA RowsInit == QuizInit => RowsUnique
BY InitialQuizAssumption DEF QuizInit, RowsUnique

LEMMA RowsNext ==
  ASSUME SheetInv, RowsUnique, [QuizNext]_quizVars
  PROVE  RowsUnique'
<1>1. ASSUME NEW w \in QuizWorkers, SubmitInsert(w)  PROVE RowsUnique'
  <2> DEFINE S == Sheet(req[w])
  <2>1. answers' = answers \cup S /\ \A a \in S, c \in answers : ~(c.user = a.user /\ c.round = a.round)
    BY <1>1, NewSheet
  <2>2. \A a, b \in S : a.store = b.store /\ (a.question = b.question => a = b)
    BY DEF Sheet
  <2> HIDE DEF S
  <2> QED  BY <2>1, <2>2 DEF RowsUnique
<1>2. UNCHANGED answers => RowsUnique'
  BY DEF RowsUnique
<1> QED  BY <1>1, <1>2, AnswerSteps

\* What some players of a store have answered.
RowsOf(players, s, r) == {a \in AnswersOf(s, r) : a.user \in players}

Counted == TypeInv /\ SheetInv /\ RoundsWhole /\ RowsUnique

LEMMA SheetCount ==
  ASSUME Counted, NEW s \in Stores, NEW r \in Rounds, NEW players \in SUBSET WhoAnswered(s, r)
  PROVE  /\ IsFiniteSet(players) /\ Cardinality(players) \in Nat
         /\ Cardinality(RowsOf(players, s, r)) = Cardinality(players) * QuestionsPerRound
<1> DEFINE rows == RowsOf(players, s, r)
<1>1. IsFiniteSet(AnswersOf(s, r)) /\ IsFiniteSet(players) /\ Cardinality(players) \in Nat
  <2>1. IsFiniteSet(AnswersOf(s, r))
    BY FS_Subset DEF Counted, TypeInv, AnswersOf
  <2>2. IsFiniteSet(WhoAnswered(s, r))
    BY <2>1, PlayersFinite DEF WhoAnswered
  <2> QED  BY <2>1, <2>2, FS_Subset, FS_CardinalityType
<1>2. CASE players = {}
  <2>1. rows = {} /\ Cardinality(players) = 0
    BY <1>2, FS_EmptySet DEF RowsOf
  <2> QED  BY <1>1, <2>1, FS_EmptySet, QuizAssumption
<1>3. CASE players # {}
  <2> DEFINE ids == IdsOf(r)
             f == [a \in rows |-> <<a.user, a.question>>]
  <2>1. \A a \in answers : a.round = r => a.question \in ids
    BY DEF Counted, SheetInv, AnswersAsked, IdsOf
  <2>2. \A a \in rows : a \in answers /\ a.store = s /\ a.round = r /\ a.user \in players
    BY DEF RowsOf, AnswersOf
  <2>3. \A u \in players : \E a \in answers : a.store = s /\ a.round = r /\ a.user = u
    BY DEF WhoAnswered, AnswersOf
  <2>4. ids # {} /\ ids \subseteq QuestionIds
    <3>1. ids \subseteq QuestionIds
      BY DEF Counted, TypeInv, QuizTypeOK, Question, IdsOf
    <3> QED  BY <1>3, <2>1, <2>3, <3>1
  <2>5. Cardinality(ids) = QuestionsPerRound /\ IsFiniteSet(ids)
    BY <2>4, QuizAssumption, FS_Subset DEF Counted, RoundsWhole
  <2>6. ASSUME NEW u \in players, NEW i \in ids  PROVE \E a \in rows : a.user = u /\ a.question = i
    <3>1. PICK a \in answers : a.store = s /\ a.round = r /\ a.user = u
      BY <2>3
    <3>2. PICK q \in questions : q.id = i /\ q.round = r
      BY DEF IdsOf
    <3>3. PICK b \in answers : b.user = u /\ b.round = r /\ b.question = i
      BY <3>1, <3>2 DEF Counted, SheetInv, AnswersAll
    <3>4. b.store = s
      BY <3>1, <3>3 DEF Counted, RowsUnique
    <3> QED  BY <3>3, <3>4 DEF RowsOf, AnswersOf
  <2>7. f \in [rows -> players \X ids]
    BY <2>1, <2>2
  <2>8. \A a, b \in rows : f[a] = f[b] => a = b
    BY <2>2 DEF Counted, RowsUnique
  <2>9. \A p \in players \X ids : \E a \in rows : f[a] = p
    BY <2>6
  <2> HIDE DEF f, rows, ids
  <2>10. f \in Bijection(rows, players \X ids)
    BY <2>7, <2>8, <2>9 DEF Bijection, Injection, IsInjective, Surjection
  <2>11. IsFiniteSet(rows)
    BY <1>1, FS_Subset DEF rows, RowsOf
  <2>12. Cardinality(players \X ids) = Cardinality(rows)
    BY <2>10, <2>11, FS_Bijection DEF ExistsBijection
  <2>13. Cardinality(players \X ids) = Cardinality(players) * QuestionsPerRound
    BY <1>1, <2>5, FS_Product
  <2> QED  BY <1>1, <2>12, <2>13 DEF rows
<1> QED  BY <1>1, <1>2, <1>3

\* A score is that of these players of a store, with all they answered.
ScoreOf(score, players, s, r) ==
  /\ score.outOf = QuestionsPerRound * Cardinality(players)
  /\ StatesShare(score, RowsOf(players, s, r))

TrueFor(score, s, r) == \E players \in SUBSET WhoAnswered(s, r) : ScoreOf(score, players, s, r)

\* A score is that of all who have answered.
CurrentFor(score, s, r) ==
  /\ score # None
  /\ score.outOf = Cardinality(AnswersOf(s, r))
  /\ StatesShare(score, AnswersOf(s, r))

\* What is aggregated is, whoever comes first.
LEMMA ScoreOfAll ==
  ASSUME Counted, NEW s \in Stores, NEW r \in Rounds, NEW score \in ScoresFrom(AnswersOf(s, r))
  PROVE  TrueFor(score, s, r) /\ (AnswersOf(s, r) # {} => CurrentFor(score, s, r))
<1> DEFINE rows == AnswersOf(s, r)
           players == WhoAnswered(s, r)
           total(u) == Cardinality({a \in rows : a.user = u})
           right == Cardinality({a \in rows : a.correct})
<1>1. rows = RowsOf(players, s, r)
  BY DEF RowsOf, WhoAnswered
<1>2. Cardinality(players) \in Nat /\ Cardinality(rows) = Cardinality(players) * QuestionsPerRound
  BY <1>1, SheetCount
<1>3. score \in Score
  <2>1. IsFiniteSet(rows)
    BY FS_Subset DEF Counted, TypeInv, AnswersOf
  <2> QED  BY <2>1, ScoreType
<1>4. score.outOf = Cardinality(rows) /\ score.right * Cardinality(rows) = right * score.outOf
  <2>1. CASE rows = {}
    <3>1. score.outOf = 0 /\ score.right = 0
      BY <2>1 DEF ScoresFrom
    <3>2. Cardinality(rows) = 0
      BY <2>1, FS_EmptySet
    <3>3. right = 0
      BY <2>1, FS_EmptySet
    <3> QED  BY <3>1, <3>2, <3>3
  <2>2. CASE rows # {}
    <3> DEFINE share(u) == [questions |-> total(u), right |-> right,
                            outOf |-> Cardinality(players) * total(u)]
    <3>0. ScoresFrom(rows) = {share(u) : u \in players}
      BY <2>2 DEF ScoresFrom, WhoAnswered
    <3>1. PICK u \in players : /\ score.outOf = Cardinality(players) * total(u)
                               /\ score.right = right
      <4>1. \A u : share(u).outOf = Cardinality(players) * total(u) /\ share(u).right = right
        OBVIOUS
      <4> HIDE DEF share
      <4> QED  BY <3>0, <4>1
    <3>2. {a \in rows : a.user = u} = RowsOf({u}, s, r)
      BY DEF RowsOf
    <3>3. total(u) = QuestionsPerRound
      <4>1. {u} \in SUBSET WhoAnswered(s, r)
        OBVIOUS
      <4>2. Cardinality(RowsOf({u}, s, r)) = Cardinality({u}) * QuestionsPerRound
        BY <4>1, SheetCount
      <4>3. Cardinality({u}) = 1
        BY FS_Singleton
      <4>4. total(u) = 1 * QuestionsPerRound
        BY <3>2, <4>2, <4>3
      <4> HIDE DEF total
      <4> QED  BY <4>4, QuizAssumption
    <3> HIDE DEF total, right, rows, players
    <3>5. score.outOf = Cardinality(rows)
      BY <1>2, <3>1, <3>3
    <3> QED  BY <3>1, <3>5
  <2> QED  BY <2>1, <2>2
<1>5. \A n \in Nat : n * QuestionsPerRound = QuestionsPerRound * n
  BY QuizAssumption
<1>6. ScoreOf(score, players, s, r)
  BY <1>1, <1>2, <1>4, <1>5 DEF ScoreOf, StatesShare
<1>7. CurrentFor(score, s, r)
  BY <1>3, <1>4, QuizAssumption DEF CurrentFor, StatesShare
<1> QED  BY <1>6, <1>7 DEF TrueFor

\* A score stays that of the players it was of, who answer no more.
LEMMA TrueKept ==
  ASSUME TypeInv, SheetInv, [QuizNext]_quizVars, NEW s, NEW r, NEW score, TrueFor(score, s, r)
  PROVE  TrueFor(score, s, r)'
<1>1. PICK players \in SUBSET WhoAnswered(s, r) : ScoreOf(score, players, s, r)
  BY DEF TrueFor
<1>2. answers \subseteq answers'
  BY AnswerSteps, NewSheet
<1>3. players \in SUBSET WhoAnswered(s, r)'
  BY <1>2 DEF WhoAnswered, AnswersOf
<1>4. RowsOf(players, s, r)' = RowsOf(players, s, r)
  <2>1. ASSUME NEW a \in answers', a.store = s, a.round = r, a.user \in players  PROVE a \in answers
    <3>1. SheetOf(a.user, r) # {}
      BY <2>1 DEF WhoAnswered, AnswersOf, SheetOf
    <3>2. SheetOf(a.user, r)' = SheetOf(a.user, r)
      BY <3>1, AttemptStep
    <3> QED  BY <2>1, <3>2 DEF SheetOf
  <2> QED  BY <1>2, <2>1 DEF RowsOf, AnswersOf
<1>5. ScoreOf(score, players, s, r)'
  BY <1>1, <1>4 DEF ScoreOf, StatesShare
<1> QED  BY <1>3, <1>5 DEF TrueFor

\* Only the consolidation touches scores.
LEMMA ScoreSteps ==
  ASSUME TypeInv, NEW w \in QuizWorkers, QuizStep(w) \/ QuizRequests(w)
  PROVE  \/ SubmitInsert(w) \/ ConsolidateRead(w) \/ ConsolidateUpsert(w) \/ QuizFail(w)
         \/ /\ UNCHANGED <<answers, scores>>
            /\ req[w].step \notin {"aggregate", "upsert"} /\ req'[w].step # "upsert"
<1>0. req \in [QuizWorkers -> QuizRequest] /\ req[w] \in QuizRequest
  BY DEF TypeInv, ReqOK
<1> DEFINE Goal == /\ UNCHANGED <<answers, scores>>
                   /\ req[w].step \notin {"aggregate", "upsert"} /\ req'[w].step # "upsert"
<1>1. ASSUME NEW step, QuizGoto(w, step), step # "upsert", UNCHANGED <<answers, scores>>,
             req[w].step \notin {"aggregate", "upsert"}
      PROVE  Goal
  BY <1>0, <1>1 DEF QuizGoto, QuizRequest
<1>2. SaveDropOptions(w) \/ SaveDropQuestions(w) \/ SubmitAttempt(w) \/ SubmitLoad(w) => Goal
  BY <1>1 DEF SaveDropOptions, SaveDropQuestions, SubmitAttempt, SubmitLoad, QuizAt, quizDb
<1>3. SaveInsert(w) \/ SubmitProgress(w) => Goal
  BY <1>0 DEF SaveInsert, SubmitProgress, QuizAt, QuizIdle
<1>4. ASSUME NEW side, SubmitCount(w, side)  PROVE Goal
  BY <1>0, <1>4 DEF SubmitCount, QuizAt, quizDb, QuizRequest
<1>5. ASSUME NEW q, q.step # "upsert", req[w] = QuizIdle,
             req' = [req EXCEPT ![w] = q], UNCHANGED quizDb
      PROVE  Goal
  BY <1>0, <1>5 DEF quizDb, QuizIdle
<1>6. ASSUME NEW r, SaveFind(w, r)  PROVE Goal
  <2> DEFINE q == [QuizIdle EXCEPT !.round = r, !.ids = IdsOf(r),
                     !.step = IF IdsOf(r) = {} THEN "insert_questions" ELSE "drop_options"]
  <2>1. q.step # "upsert"
    BY DEF QuizIdle
  <2>2. req[w] = QuizIdle /\ req' = [req EXCEPT ![w] = q] /\ UNCHANGED quizDb
    BY <1>6 DEF SaveFind, QuizArrives
  <2> HIDE DEF q
  <2> QED  BY <1>5, <2>1, <2>2
<1>7. ASSUME NEW u, NEW s, NEW r, NEW ids, NEW right, SubmitMember(w, u, s, r, ids, right)  PROVE Goal
  BY <1>5, <1>7 DEF SubmitMember, QuizArrives, QuizIdle
<1>8. ASSUME NEW s, NEW r, ConsolidateArrives(w, s, r)  PROVE Goal
  BY <1>5, <1>8 DEF ConsolidateArrives, QuizArrives, QuizIdle
<1> HIDE DEF Goal
<1>9. CASE QuizStep(w)
  <2>1. SubmitInsert(w) \/ ConsolidateRead(w) \/ ConsolidateUpsert(w) \/ QuizFail(w) \/ Goal
    BY <1>2, <1>3, <1>4, <1>9 DEF QuizStep
  <2> QED  BY <2>1 DEF Goal
<1>10. CASE QuizRequests(w)
  <2>1. Goal
    BY <1>6, <1>7, <1>8, <1>10 DEF QuizRequests
  <2> QED  BY <2>1 DEF Goal
<1> QED  BY <1>9, <1>10

\* A consolidation stores what it aggregated, for its store and round.
LEMMA UpsertStores ==
  ASSUME TypeInv, NEW w \in QuizWorkers, ConsolidateUpsert(w)
  PROVE  /\ QuizAt(w, "upsert") /\ UNCHANGED answers /\ req'[w].step # "upsert"
         /\ \A s \in Stores, r \in Rounds :
              scores'[s, r] = IF s = req[w].store /\ r = req[w].round THEN req[w].seen ELSE scores[s, r]
<1>1. /\ req \in [QuizWorkers -> QuizRequest] /\ req[w] \in QuizRequest
      /\ scores \in [Stores \X Rounds -> Score \cup {None}]
  BY DEF TypeInv, ReqOK, QuizTypeOK
<1>2. /\ QuizAt(w, "upsert") /\ UNCHANGED answers
      /\ scores' = [scores EXCEPT ![<<req[w].store, req[w].round>>] = req[w].seen]
      /\ req' = [req EXCEPT ![w] = IF req[w].user = None THEN QuizIdle ELSE [req[w] EXCEPT !.step = "progress"]]
  BY DEF ConsolidateUpsert
<1>3. req'[w].step # "upsert"
  BY <1>1, <1>2 DEF QuizIdle, QuizRequest
<1>4. ASSUME NEW s \in Stores, NEW r \in Rounds
      PROVE  scores'[s, r] = IF s = req[w].store /\ r = req[w].round THEN req[w].seen ELSE scores[s, r]
  BY <1>1, <1>2
<1> QED  BY <1>2, <1>3, <1>4

\* What is stored, or is about to be, was aggregated from whole sheets.
ScoresTrue ==
  /\ \A s \in Stores, r \in Rounds : scores[s, r] # None => TrueFor(scores[s, r], s, r)
  /\ \A w \in QuizWorkers : QuizAt(w, "upsert") => TrueFor(req[w].seen, req[w].store, req[w].round)

LEMMA ScoresInit == QuizInit /\ Counted => ScoresTrue
<1> SUFFICES ASSUME QuizInit, Counted  PROVE ScoresTrue
  OBVIOUS
<1>1. ASSUME NEW s \in Stores, NEW r \in Rounds, scores[s, r] # None  PROVE TrueFor(scores[s, r], s, r)
  <2> DEFINE k == <<s, r>>
             rows == {a \in InitialAnswers : <<a.store, a.round>> = k}
  <2>1. rows = AnswersOf(s, r)
    BY DEF QuizInit, AnswersOf
  <2>2. scores[k] = IF rows = {} THEN None ELSE CHOOSE score \in ScoresFrom(rows) : TRUE
    BY DEF QuizInit
  <2> HIDE DEF rows
  <2>3. scores[k] \in ScoresFrom(rows)
    BY <1>1, <2>2, ScoreExists
  <2> QED  BY <2>1, <2>3, ScoreOfAll
<1>2. \A w \in QuizWorkers : ~QuizAt(w, "upsert")
  BY DEF QuizInit, QuizAt, QuizIdle
<1> QED  BY <1>1, <1>2 DEF ScoresTrue

LEMMA ScoresNext ==
  ASSUME Counted, ScoresTrue, [QuizNext]_quizVars
  PROVE  ScoresTrue'
<1>0. TypeInv /\ SheetInv /\ req \in [QuizWorkers -> QuizRequest]
  BY DEF Counted, TypeInv, ReqOK
<1>1. ASSUME NEW score, NEW s, NEW r, TrueFor(score, s, r)  PROVE TrueFor(score, s, r)'
  BY <1>0, <1>1, TrueKept
<1>2. ASSUME \A s \in Stores, r \in Rounds : scores'[s, r] # None => TrueFor(scores'[s, r], s, r),
             \A w \in QuizWorkers :
               req'[w].step = "upsert" => TrueFor(req'[w].seen, req'[w].store, req'[w].round)
      PROVE  ScoresTrue'
  <2>1. ASSUME NEW s \in Stores, NEW r \in Rounds, scores'[s, r] # None  PROVE TrueFor(scores[s, r], s, r)'
    <3>1. PICK score : score = scores'[s, r]
      OBVIOUS
    <3>2. TrueFor(score, s, r)'
      BY <1>1, <1>2, <2>1, <3>1
    <3> QED  BY <3>1, <3>2 DEF TrueFor, ScoreOf, StatesShare
  <2>2. ASSUME NEW w \in QuizWorkers, req'[w].step = "upsert"
        PROVE  TrueFor(req[w].seen, req[w].store, req[w].round)'
    <3>1. PICK score, s, r : score = req'[w].seen /\ s = req'[w].store /\ r = req'[w].round
      OBVIOUS
    <3>2. TrueFor(score, s, r)'
      <4>1. TrueFor(score, s, r)
        BY <1>2, <2>2, <3>1
      <4> QED  BY <1>1, <4>1
    <3> QED  BY <3>1, <3>2 DEF TrueFor, ScoreOf, StatesShare, RowsOf, AnswersOf, WhoAnswered
  <2> QED  BY <2>1, <2>2 DEF ScoresTrue, QuizAt
<1>3. ASSUME UNCHANGED <<scores, req>>  PROVE ScoresTrue'
  BY <1>2, <1>3 DEF ScoresTrue, QuizAt
<1>4. ASSUME NEW w \in QuizWorkers, QuizStep(w) \/ QuizRequests(w)  PROVE ScoresTrue'
  <2>0. \A v \in QuizWorkers \ {w} : req'[v] = req[v]
    BY <1>0, <1>4, QuizOwnRequest
  <2>1. ASSUME UNCHANGED scores, req'[w].step # "upsert"  PROVE ScoresTrue'
    BY <1>2, <2>0, <2>1 DEF ScoresTrue, QuizAt
  <2>2. CASE SubmitInsert(w) \/ QuizFail(w)
    <3>1. UNCHANGED scores /\ req'[w].step # "upsert"
      BY <1>0, <2>2 DEF SubmitInsert, QuizFail, QuizGoto, quizDb, QuizIdle, QuizRequest
    <3> QED  BY <2>1, <3>1
  <2>3. CASE ConsolidateRead(w)
    <3>1. /\ UNCHANGED scores /\ QuizAt(w, "aggregate")
          /\ req'[w].store = req[w].store /\ req'[w].round = req[w].round
          /\ req'[w].seen \in ScoresFrom(AnswersOf(req[w].store, req[w].round))
      BY <1>0, <2>3 DEF ConsolidateRead, quizDb, QuizRequest
    <3>2. req[w].store \in Stores /\ req[w].round \in Rounds
      BY <3>1 DEF Counted, TypeInv, ReqOK, Shaped, QuizAt
    <3>3. TrueFor(req'[w].seen, req'[w].store, req'[w].round)
      BY <3>1, <3>2, ScoreOfAll
    <3> QED  BY <1>2, <2>0, <3>1, <3>3 DEF ScoresTrue, QuizAt
  <2>4. CASE ConsolidateUpsert(w)
    <3>1. /\ QuizAt(w, "upsert") /\ req'[w].step # "upsert"
          /\ \A s \in Stores, r \in Rounds :
               scores'[s, r] = IF s = req[w].store /\ r = req[w].round THEN req[w].seen ELSE scores[s, r]
      BY <1>0, <2>4, UpsertStores
    <3> QED  BY <1>2, <2>0, <3>1 DEF ScoresTrue, QuizAt
  <2> QED  BY <1>0, <1>4, <2>1, <2>2, <2>3, <2>4, ScoreSteps
<1>5. ASSUME NEW u, NEW s, NEW t, Transfers(u, s, t)  PROVE ScoresTrue'
  BY <1>3, <1>5 DEF Transfers
<1>6. CASE UNCHANGED quizVars
  BY <1>3, <1>6 DEF quizVars
<1> QED  BY <1>4, <1>5, <1>6 DEF QuizNext

\* A stored score is always that of some players of the store with all they
\* answered, whichever submissions and consolidations overlapped or died: it may
\* be late, never wrong, and never above what the questions allow.
THEOREM ScoreTrueTheorem == QuizSpec => []ScoreWasTrue
<1>1. ScoresTrue => ScoreWasTrue
  BY DEF ScoresTrue, ScoreWasTrue, TrueFor, ScoreOf, RowsOf
<1> QED
  BY <1>1, TypeInit, TypeNext, SheetInit, SheetNext, WholeInit, WholeNext, RowsInit, RowsNext,
     ScoresInit, ScoresNext, PTL DEF QuizSpec, Counted

\* One request at a time: what has been answered for a store is consolidated, or
\* the request at work is about to do so; and what it has aggregated is what there is.
Consolidating(q, s, r) == q.store = s /\ q.round = r /\ q.step \in {"aggregate", "upsert"}

Consolidated ==
  /\ \A s \in Stores, r \in Rounds : AnswersOf(s, r) # {} =>
       CurrentFor(scores[s, r], s, r) \/ \E w \in QuizWorkers : Consolidating(req[w], s, r)
  /\ \A w \in QuizWorkers :
       QuizAt(w, "upsert") /\ AnswersOf(req[w].store, req[w].round) # {} =>
         CurrentFor(req[w].seen, req[w].store, req[w].round)

LEMMA ConsolidatedInit == QuizInit /\ Counted => Consolidated
<1>0. QuizInit => \A w \in QuizWorkers : ~QuizAt(w, "upsert")
  BY DEF QuizInit, QuizAt, QuizIdle
<1> SUFFICES ASSUME QuizInit, Counted, NEW s \in Stores, NEW r \in Rounds, AnswersOf(s, r) # {}
             PROVE  CurrentFor(scores[s, r], s, r)
  BY <1>0 DEF Consolidated
<1> DEFINE k == <<s, r>>
           rows == {a \in InitialAnswers : <<a.store, a.round>> = k}
<1>1. rows = AnswersOf(s, r)
  BY DEF QuizInit, AnswersOf
<1>2. scores[k] = IF rows = {} THEN None ELSE CHOOSE score \in ScoresFrom(rows) : TRUE
  BY DEF QuizInit
<1> HIDE DEF rows
<1>3. scores[k] \in ScoresFrom(rows)
  BY <1>1, <1>2, ScoreExists
<1> QED  BY <1>1, <1>3, ScoreOfAll

LEMMA ConsolidatedNext ==
  ASSUME Cardinality(QuizWorkers) = 1, "crash" \notin QuizMix,
         Counted, Consolidated, [QuizNext]_quizVars
  PROVE  Consolidated'
<1>0. TypeInv /\ SheetInv /\ req \in [QuizWorkers -> QuizRequest]
  BY DEF Counted, TypeInv, ReqOK
<1>1. \A v, w \in QuizWorkers : v = w
  BY FS_CardinalityType, FS_Singleton, QuizAssumption
<1>2. ASSUME UNCHANGED answers,
             \A s \in Stores, r \in Rounds : AnswersOf(s, r) # {} =>
               CurrentFor(scores'[s, r], s, r) \/ \E w \in QuizWorkers : Consolidating(req'[w], s, r),
             \A w \in QuizWorkers : req'[w].step = "upsert" /\ AnswersOf(req'[w].store, req'[w].round) # {} =>
               CurrentFor(req'[w].seen, req'[w].store, req'[w].round)
      PROVE  Consolidated'
  <2>1. ASSUME NEW s \in Stores, NEW r \in Rounds, AnswersOf(s, r)' # {}
        PROVE  CurrentFor(scores[s, r], s, r)' \/ \E w \in QuizWorkers : Consolidating(req[w], s, r)'
    <3>1. AnswersOf(s, r)' = AnswersOf(s, r)
      BY <1>2 DEF AnswersOf
    <3>2. CurrentFor(scores[s, r], s, r)' = CurrentFor(scores'[s, r], s, r)
      BY <3>1 DEF CurrentFor, StatesShare
    <3>3. \A w : Consolidating(req[w], s, r)' = Consolidating(req'[w], s, r)
      BY DEF Consolidating
    <3> QED  BY <1>2, <2>1, <3>1, <3>2, <3>3
  <2>2. ASSUME NEW w \in QuizWorkers, req'[w].step = "upsert", AnswersOf(req[w].store, req[w].round)' # {}
        PROVE  CurrentFor(req[w].seen, req[w].store, req[w].round)'
    <3>1. AnswersOf(req[w].store, req[w].round)' = AnswersOf(req'[w].store, req'[w].round)
      BY <1>2 DEF AnswersOf
    <3>2. CurrentFor(req'[w].seen, req'[w].store, req'[w].round)
      BY <1>2, <2>2, <3>1
    <3> QED  BY <3>1, <3>2 DEF CurrentFor, StatesShare
  <2> QED  BY <2>1, <2>2 DEF Consolidated, QuizAt
<1>3. ASSUME UNCHANGED <<answers, scores, req>>  PROVE Consolidated'
  BY <1>2, <1>3 DEF Consolidated, QuizAt
<1>4. ASSUME NEW w \in QuizWorkers, QuizStep(w) \/ QuizRequests(w)  PROVE Consolidated'
  <2> DEFINE q == req[w]
  <2>0. /\ q \in QuizRequest /\ Shaped(q)
        /\ \A s \in Stores, r \in Rounds : AnswersOf(s, r) # {} =>
             CurrentFor(scores[s, r], s, r) \/ Consolidating(q, s, r)
        /\ q.step = "upsert" /\ AnswersOf(q.store, q.round) # {} => CurrentFor(q.seen, q.store, q.round)
    BY <1>0, <1>1 DEF Counted, TypeInv, ReqOK, Consolidated, QuizAt
  <2>1. CASE SubmitInsert(w)
    <3>1. /\ q.step = "insert_answers" /\ UNCHANGED scores /\ answers' = answers \cup Sheet(q)
          /\ req'[w].step = "aggregate" /\ req'[w].store = q.store /\ req'[w].round = q.round
      BY <1>0, <2>0, <2>1 DEF SubmitInsert, Sheet, QuizGoto, QuizAt, QuizRequest
    <3>2. ASSUME NEW s \in Stores, NEW r \in Rounds, s # q.store \/ r # q.round
          PROVE  AnswersOf(s, r)' = AnswersOf(s, r) /\ scores'[s, r] = scores[s, r]
      <4>1. \A a \in Sheet(q) : a.store = q.store /\ a.round = q.round
        BY DEF Sheet
      <4> QED  BY <3>1, <3>2, <4>1 DEF AnswersOf
    <3>3. ASSUME NEW s \in Stores, NEW r \in Rounds, s # q.store \/ r # q.round, AnswersOf(s, r)' # {}
          PROVE  CurrentFor(scores[s, r], s, r)'
      <4>1. CurrentFor(scores[s, r], s, r)
        BY <2>0, <3>1, <3>2, <3>3 DEF Consolidating
      <4> QED  BY <3>2, <3>3, <4>1 DEF CurrentFor, StatesShare
    <3>4. ASSUME NEW s, NEW r, s = q.store, r = q.round  PROVE Consolidating(req[w], s, r)'
      BY <3>1, <3>4 DEF Consolidating
    <3>5. \A v \in QuizWorkers : req'[v].step # "upsert"
      BY <1>1, <3>1
    <3> QED  BY <3>3, <3>4, <3>5 DEF Consolidated, QuizAt
  <2>2. CASE ConsolidateRead(w)
    <3>1. /\ UNCHANGED <<answers, scores>> /\ q.step = "aggregate" /\ req'[w].step = "upsert"
          /\ req'[w].store = q.store /\ req'[w].round = q.round
          /\ req'[w].seen \in ScoresFrom(AnswersOf(q.store, q.round))
      BY <1>0, <2>2 DEF ConsolidateRead, QuizAt, quizDb, QuizRequest
    <3>2. q.store \in Stores /\ q.round \in Rounds
      BY <2>0, <3>1 DEF Shaped
    <3>3. AnswersOf(q.store, q.round) # {} => CurrentFor(req'[w].seen, q.store, q.round)
      BY <3>1, <3>2, ScoreOfAll
    <3>4. \A s \in Stores, r \in Rounds : AnswersOf(s, r) # {} =>
             CurrentFor(scores'[s, r], s, r) \/ \E v \in QuizWorkers : Consolidating(req'[v], s, r)
      BY <2>0, <3>1 DEF Consolidating
    <3> QED  BY <1>1, <1>2, <3>1, <3>3, <3>4
  <2>3. CASE ConsolidateUpsert(w)
    <3>1. /\ QuizAt(w, "upsert") /\ UNCHANGED answers /\ req'[w].step # "upsert"
          /\ \A s \in Stores, r \in Rounds :
               scores'[s, r] = IF s = q.store /\ r = q.round THEN q.seen ELSE scores[s, r]
      BY <1>0, <2>3, UpsertStores
    <3>2. \A s \in Stores, r \in Rounds : AnswersOf(s, r) # {} => CurrentFor(scores'[s, r], s, r)
      BY <2>0, <3>1 DEF Consolidating, QuizAt
    <3> QED  BY <1>1, <1>2, <3>1, <3>2
  <2>4. ASSUME UNCHANGED <<answers, scores>>, q.step \notin {"aggregate", "upsert"}, req'[w].step # "upsert"
        PROVE  Consolidated'
    BY <1>1, <1>2, <2>0, <2>4 DEF Consolidating
  <2>5. CASE QuizFail(w)
    <3>1. UNCHANGED <<answers, scores>> /\ ~Accepts(w) /\ req'[w] = QuizIdle
      BY <1>0, <2>5 DEF QuizFail, quizDb
    <3>2. q.step \notin {"aggregate", "upsert"} /\ QuizIdle.step # "upsert"
      BY <3>1 DEF Accepts, QuizIdle
    <3> QED  BY <2>4, <3>1, <3>2
  <2> QED  BY <1>0, <1>4, <2>1, <2>2, <2>3, <2>4, <2>5, ScoreSteps
<1>5. ASSUME NEW u, NEW s, NEW t, Transfers(u, s, t)  PROVE Consolidated'
  BY <1>3, <1>5 DEF Transfers
<1>6. CASE UNCHANGED quizVars
  BY <1>3, <1>6 DEF quizVars
<1> QED  BY <1>4, <1>5, <1>6 DEF QuizNext

\* With requests one at a time and none that dies, the score of a store is that of
\* all its answers whenever no request is at work, whoever has moved meanwhile.
THEOREM ScoreCurrentTheorem ==
  ASSUME Cardinality(QuizWorkers) = 1, "crash" \notin QuizMix
  PROVE  QuizSpec => []ScoreCurrent
<1>1. ASSUME Consolidated  PROVE ScoreCurrent
  <2>1. ASSUME QuizQuiet  PROVE \A w \in QuizWorkers : \A s, r : ~Consolidating(req[w], s, r)
    BY <2>1 DEF QuizQuiet, QuizIdle, Consolidating
  <2> QED  BY <1>1, <2>1 DEF Consolidated, ScoreCurrent, CurrentFor
<1> QED
  BY <1>1, TypeInit, TypeNext, SheetInit, SheetNext, WholeInit, WholeNext, RowsInit, RowsNext,
     ConsolidatedInit, ConsolidatedNext, PTL DEF QuizSpec, Counted
-----------------------------------------------------------------------------
(* Plans.                                                                  *)

\* A request has what the steps it has still to make need, and from the check
\* of the member on it holds a plan that was not confirmed when it was loaded.
JobShaped(j) ==
  /\ j.step # "idle" => j.store \in Stores /\ j.version \in Versions
  /\ j.step = "member" => j.op \in PlanOperations \ {"get"}
  /\ (j.step = "member" /\ j.op = "category") \/ j.step \in {"others", "write_category"} =>
       j.category \in Categories
  /\ (j.step = "member" /\ j.op = "capex") \/ j.step \in {"first_plan", "write_capex"} =>
       j.option \in Capex
  /\ j.step \notin {"idle", "create"} => j.held \in Plan
  /\ j.step \notin {"idle", "create", "member"} => ~j.held.confirmed

JobsOK == job \in [Planners -> Job] /\ \A p \in Planners : JobShaped(job[p])

PlansOK == plans \in [Stores \X Versions -> Plan \cup {None}]

\* A plan that was loaded is still there: plans are never deleted.
LoadedExist ==
  \A p \in Planners : job[p].step \notin {"idle", "create"} => plans[job[p].store, job[p].version] # None

PlansInv == TypeInv /\ PlansOK /\ JobsOK /\ LoadedExist

\* A planner without a request holds a well-formed empty one.
LEMMA NoJobType == NoJob \in Job /\ JobShaped(NoJob) /\ NoJob.step = "idle"
BY PlansAssumption, IdleType DEF NoJob, Job, PlanSteps, JobShaped

\* Nothing is decided in a plan just created.
LEMMA EmptyType == EmptyPlan \in Plan
<1>1. 0 \in 0..MaxUnits
  BY PlansAssumption
<1> QED  BY <1>1, PlansAssumption DEF EmptyPlan, Plan

\* At first the plans visited are empty and no request is under way.
LEMMA PlansInitially == PlansInit => PlansInv
<1> SUFFICES ASSUME PlansInit  PROVE PlansInv
  OBVIOUS
<1>1. TypeInv
  BY TypeInit DEF PlansInit
<1>2. PlansOK
  BY EmptyType DEF PlansInit, PlansOK
<1>3. \A p \in Planners : JobShaped(job[p]) /\ job[p].step = "idle"
  BY NoJobType DEF PlansInit
<1>4. job \in [Planners -> Job]
  BY NoJobType DEF PlansInit
<1>5. JobsOK
  BY <1>3, <1>4 DEF JobsOK
<1> QED  BY <1>1, <1>2, <1>3, <1>5 DEF PlansInv, LoadedExist

-----------------------------------------------------------------------------
(* What one step of a planner can do, in terms every proof below uses: it   *)
(* goes on without touching a plan, or it ends by writing one.               *)

Loaded(j) == j.step \notin {"idle", "create"}

\* It ends, starts to create, loads a plan, or goes on with what it has.
GoesOn(p, j) ==
  /\ UNCHANGED plans
  /\ job' = [job EXCEPT ![p] = j]
  /\ j \in Job /\ JobShaped(j)
  /\ \/ ~Loaded(j)
     \/ j.step = "member" /\ j.held = plans[j.store, j.version] /\ j.held # None
     \/ /\ Loaded(job[p])
        /\ j.store = job[p].store /\ j.version = job[p].version
        /\ j.held = job[p].held
        /\ j.option = job[p].option /\ j.wanted = job[p].wanted
        /\ j.step = "write_capex" /\ j.version = 2 /\ j.wanted => StillToDo(j.store, j.option)

Writes(p, plan) ==
  /\ plan \in Plan
  /\ plans' = [plans EXCEPT ![<<job[p].store, job[p].version>>] = plan]
  /\ job' = [job EXCEPT ![p] = NoJob]

\* The change of one decision, by the request of planner p.
Decides(p, plan) ==
  LET j == job[p]
      old == plans[j.store, j.version]
  IN
  \/ j.step = "write_category" /\ plan = [old EXCEPT !.units[j.category] = j.units]
  \/ /\ j.step = "write_capex"
     /\ plan = [old EXCEPT !.capex = IF j.wanted THEN @ \cup {j.option} ELSE @ \ {j.option}]
  \/ j.step = "write_workforce" /\ plan = [old EXCEPT !.staff = j.staff]
  \/ j.step = "write_confirm" /\ plan = [old EXCEPT !.confirmed = TRUE]

Starts(p, plan) == job[p].step = "create" /\ plans[job[p].store, job[p].version] = None

PlannerStep(p) ==
  \/ \E j : GoesOn(p, j)
  \/ \E plan : Writes(p, plan) /\ (Decides(p, plan) \/ Starts(p, plan))

\* A count of players or of players who have answered is a number.
LEMMA CountsOfPlayers ==
  ASSUME TypeInv, NEW s \in Stores, NEW r, NEW side
  PROVE  Cardinality(IF side = "team" THEN teams[s] ELSE WhoAnswered(s, r)) \in Nat
<1>1. teams[s] \subseteq Users /\ WhoAnswered(s, r) \subseteq Users
  BY DEF TypeInv, QuizTypeOK, WhoAnswered, AnswersOf, Answer
<1> QED  BY <1>1, QuizAssumption, CountType

\* Every step of a planner is one of those.
LEMMA PlannerSteps ==
  ASSUME PlansInv, NEW p \in Planners, PlanStep(p) \/ PlanRequests(p)
  PROVE  PlannerStep(p) /\ UNCHANGED quizVars
<1> DEFINE j == job[p]
<1>0. j \in Job /\ JobShaped(j) /\ (Loaded(j) => plans[j.store, j.version] \in Plan)
  BY DEF PlansInv, JobsOK, PlansOK, LoadedExist, Loaded, JobShaped
<1>1. ASSUME NEW step \in PlanSteps, PlanGoto(p, step), UNCHANGED plans,
             Loaded(j), Loaded([step |-> step]), step # "member",
             JobShaped([j EXCEPT !.step = step]),
             step = "write_capex" /\ j.version = 2 /\ j.wanted => StillToDo(j.store, j.option)
      PROVE  PlannerStep(p)
  <2> DEFINE t == [j EXCEPT !.step = step]
  <2>1. /\ t \in Job /\ t.step = step /\ t.store = j.store /\ t.version = j.version
        /\ t.held = j.held /\ t.option = j.option /\ t.wanted = j.wanted
    BY <1>0 DEF Job
  <2>2. job' = [job EXCEPT ![p] = t]
    BY <1>1 DEF PlanGoto, PlansInv, JobsOK
  <2> HIDE DEF t
  <2>3. GoesOn(p, t)
    BY <1>1, <2>1, <2>2 DEF GoesOn, Loaded, t
  <2> QED  BY <2>3 DEF PlannerStep
<1>2. ASSUME job' = [job EXCEPT ![p] = NoJob], UNCHANGED plans  PROVE PlannerStep(p)
  <2>1. GoesOn(p, NoJob)
    BY <1>2, NoJobType DEF GoesOn, Loaded
  <2> QED  BY <2>1 DEF PlannerStep
<1>3. CASE GetCreate(p)
  <2>1. Writes(p, EmptyPlan) /\ Starts(p, EmptyPlan)
    BY <1>3, EmptyType DEF GetCreate, PlanAt, Allows, Exists, Writes, Starts
  <2> QED  BY <1>3, <2>1 DEF PlannerStep, GetCreate
<1>4. CASE CheckMember(p)
  <2> DEFINE step == AfterCheck(j.op, j.version)
  <2>1. j.op \in {"category", "capex", "workforce", "confirm"} /\ j.step = "member" /\ ~j.held.confirmed
    BY <1>0, <1>4 DEF CheckMember, PlanAt, Allows, Editable, JobShaped, PlanOperations
  <2>2. /\ step \in {"others", "first_plan", "write_capex", "write_workforce", "count"}
        /\ step = "others" => j.op = "category"
        /\ step \in {"first_plan", "write_capex"} => j.op = "capex"
        /\ step = "write_capex" => j.version # 2
    BY <2>1 DEF AfterCheck
  <2> HIDE DEF step
  <2>3. JobShaped([j EXCEPT !.step = step])
    BY <1>0, <2>1, <2>2 DEF JobShaped, Job
  <2>4. PlanGoto(p, step) /\ UNCHANGED plans /\ UNCHANGED quizVars
    BY <1>4 DEF CheckMember, step
  <2> QED  BY <1>1, <2>1, <2>2, <2>3, <2>4 DEF Loaded, PlanSteps
<1>5. CASE ReadFirstPlan(p)
  <2>1. j.step = "first_plan" /\ (j.wanted => StillToDo(j.store, j.option))
    BY <1>5 DEF ReadFirstPlan, PlanAt, Allows
  <2>2. JobShaped([j EXCEPT !.step = "write_capex"])
    BY <1>0, <2>1 DEF JobShaped, Job
  <2> QED  BY <1>1, <1>5, <2>1, <2>2 DEF ReadFirstPlan, Loaded, PlanSteps
<1>6. CASE ReadOthers(p)
  <2>1. j.step = "others"
    BY <1>6 DEF ReadOthers, PlanAt
  <2>2. JobShaped([j EXCEPT !.step = "write_category"])
    BY <1>0, <2>1 DEF JobShaped, Job
  <2> QED  BY <1>1, <1>6, <2>1, <2>2 DEF ReadOthers, Loaded, PlanSteps
<1>7. ASSUME NEW side \in Counts, CountForConfirm(p, side)  PROVE PlannerStep(p) /\ UNCHANGED quizVars
  <2>1. j.step = "count" /\ UNCHANGED plans /\ UNCHANGED quizVars
    BY <1>7 DEF CountForConfirm, PlanAt
  <2> DEFINE n == Cardinality(IF side = "team" THEN teams[j.store] ELSE WhoAnswered(j.store, j.version))
             counts == [j.counts EXCEPT ![side] = n]
             step == IF None \in {counts[x] : x \in Counts} THEN "count" ELSE "write_confirm"
             t == [j EXCEPT !.counts = counts, !.step = step]
  <2>2. n \in Nat
    BY <1>0, <2>1, CountsOfPlayers DEF PlansInv, JobShaped
  <2> HIDE DEF n
  <2>3. counts \in [Counts -> Nat \cup {None}]
    BY <1>0, <2>2 DEF Job
  <2>4. step \in {"count", "write_confirm"}
    OBVIOUS
  <2>5. job' = [job EXCEPT ![p] = t]
    BY <1>0, <1>7, <2>1 DEF CountForConfirm, n, PlansInv, JobsOK, Job
  <2> HIDE DEF counts, step
  <2>6. /\ t \in Job /\ t.step = step /\ t.store = j.store /\ t.version = j.version
        /\ t.held = j.held /\ t.option = j.option /\ t.wanted = j.wanted
    BY <1>0, <2>3, <2>4 DEF Job, PlanSteps
  <2> HIDE DEF t
  <2>7. JobShaped(t)
    BY <1>0, <2>1, <2>4, <2>6 DEF JobShaped
  <2>8. GoesOn(p, t)
    BY <2>1, <2>4, <2>5, <2>6, <2>7 DEF GoesOn, Loaded
  <2> QED  BY <2>1, <2>8 DEF PlannerStep
<1>8. ASSUME NEW plan \in Plan, Write(p, plan), Decides(p, plan)  PROVE PlannerStep(p) /\ UNCHANGED quizVars
  <2>1. Writes(p, plan) /\ UNCHANGED quizVars
    BY <1>8 DEF Write, Writes
  <2> QED  BY <1>8, <2>1 DEF PlannerStep
<1>9. CASE WriteCategory(p)
  <2> DEFINE old == plans[j.store, j.version]
             plan == [old EXCEPT !.units[j.category] = j.units]
  <2>1. j.step = "write_category" /\ Write(p, plan)
    BY <1>9 DEF WriteCategory, PlanAt, Current
  <2>2. old \in Plan /\ j.category \in Categories /\ j.units \in 0..MaxUnits
    BY <1>0, <2>1 DEF Loaded, JobShaped, Job
  <2> HIDE DEF old
  <2>3. plan \in Plan
    BY <2>2 DEF Plan
  <2>4. Decides(p, plan)
    BY <2>1 DEF Decides, old
  <2> QED  BY <1>8, <2>1, <2>3, <2>4
<1>10. CASE WriteCapex(p)
  <2> DEFINE old == plans[j.store, j.version]
             plan == [old EXCEPT !.capex = IF j.wanted THEN @ \cup {j.option} ELSE @ \ {j.option}]
  <2>1. j.step = "write_capex" /\ Write(p, plan)
    BY <1>10 DEF WriteCapex, PlanAt, Current
  <2>2. old \in Plan /\ j.option \in Capex
    BY <1>0, <2>1 DEF Loaded, JobShaped
  <2> HIDE DEF old
  <2>3. plan \in Plan
    BY <2>2 DEF Plan
  <2>4. Decides(p, plan)
    BY <2>1 DEF Decides, old
  <2> QED  BY <1>8, <2>1, <2>3, <2>4
<1>11. CASE WriteWorkforce(p)
  <2> DEFINE old == plans[j.store, j.version]
             plan == [old EXCEPT !.staff = j.staff]
  <2>1. j.step = "write_workforce" /\ Write(p, plan)
    BY <1>11 DEF WriteWorkforce, PlanAt, Current
  <2>2. old \in Plan /\ j.staff \in Staffings
    BY <1>0, <2>1 DEF Loaded, Job
  <2> HIDE DEF old
  <2>3. plan \in Plan
    BY <2>2 DEF Plan
  <2>4. Decides(p, plan)
    BY <2>1 DEF Decides, old
  <2> QED  BY <1>8, <2>1, <2>3, <2>4
<1>12. CASE WriteConfirm(p)
  <2> DEFINE old == plans[j.store, j.version]
             plan == [old EXCEPT !.confirmed = TRUE]
  <2>1. j.step = "write_confirm" /\ Write(p, plan)
    BY <1>12 DEF WriteConfirm, PlanAt, Current
  <2>2. old \in Plan
    BY <1>0, <2>1 DEF Loaded
  <2> HIDE DEF old
  <2>3. plan \in Plan
    BY <2>2 DEF Plan
  <2>4. Decides(p, plan)
    BY <2>1 DEF Decides, old
  <2> QED  BY <1>8, <2>1, <2>3, <2>4
<1>13. CASE PlanFail(p)
  BY <1>2, <1>13 DEF PlanFail
<1>14. ASSUME NEW args \in Calls, GetRead(p, args)  PROVE PlannerStep(p) /\ UNCHANGED quizVars
  <2> DEFINE t == [args EXCEPT !.step = "create"]
  <2>1. args \in Job /\ args.store # None /\ args.version # None
    BY CallsAssumption
  <2>2. t \in Job /\ t.step = "create" /\ t.store \in Stores /\ t.version \in Versions
    BY <2>1 DEF Job, PlanSteps
  <2> HIDE DEF t
  <2>3. JobShaped(t) /\ ~Loaded(t)
    BY <2>2 DEF JobShaped, Loaded
  <2>4. GoesOn(p, t)
    BY <1>14, <2>2, <2>3 DEF GetRead, GoesOn, t
  <2> QED  BY <1>14, <2>4 DEF PlannerStep, GetRead
<1>15. ASSUME NEW args \in Calls, args.op # "get", LoadPlan(p, args)
       PROVE  PlannerStep(p) /\ UNCHANGED quizVars
  <2> DEFINE plan == plans[args.store, args.version]
             t == [args EXCEPT !.step = "member", !.held = plan]
  <2>1. /\ args \in Job /\ args.store # None /\ args.version # None /\ args.op # None
        /\ args.op = "category" => args.category # None
        /\ args.op = "capex" => args.option # None
    BY CallsAssumption
  <2>2. args.store \in Stores /\ args.version \in Versions /\ plan # None
    BY <1>15, <2>1 DEF Job, LoadPlan, Exists
  <2>3. plan \in Plan
    BY <2>2 DEF PlansInv, PlansOK
  <2> HIDE DEF plan
  <2>4. /\ t \in Job /\ t.step = "member" /\ t.store = args.store /\ t.version = args.version
        /\ t.held = plan /\ t.op = args.op /\ t.category = args.category /\ t.option = args.option
    BY <2>1, <2>3 DEF Job, PlanSteps
  <2> HIDE DEF t
  <2>5. t.op \in PlanOperations /\ t.category \in Categories \cup {None} /\ t.option \in Capex \cup {None}
    BY <1>15, <2>1, <2>4 DEF Job
  <2>6. JobShaped(t)
    BY <1>15, <2>1, <2>2, <2>3, <2>4, <2>5 DEF JobShaped
  <2>7. job' = [job EXCEPT ![p] = t] /\ UNCHANGED plans /\ UNCHANGED quizVars
    BY <1>15 DEF LoadPlan, plan, t
  <2>8. GoesOn(p, t)
    BY <2>2, <2>4, <2>6, <2>7 DEF GoesOn, plan
  <2> QED  BY <2>7, <2>8 DEF PlannerStep
<1>16. CASE PlanStep(p)
  <2>1. ASSUME PlanFail(p) \/ GetCreate(p) \/ ReadFirstPlan(p) \/ ReadOthers(p)  PROVE UNCHANGED quizVars
    BY <2>1 DEF PlanFail, GetCreate, ReadFirstPlan, ReadOthers
  <2> QED  BY <1>3, <1>4, <1>5, <1>6, <1>7, <1>9, <1>10, <1>11, <1>12, <1>13, <1>16, <2>1 DEF PlanStep
<1>17. CASE PlanRequests(p)
  BY <1>14, <1>15, <1>17 DEF PlanRequests
<1> QED  BY <1>16, <1>17

\* The types are kept, and what was loaded is still there.
LEMMA PlansStep ==
  ASSUME PlansInv, NEW p \in Planners, PlannerStep(p), UNCHANGED quizVars
  PROVE  PlansInv'
<1>1. TypeInv'
  BY DEF PlansInv, TypeInv, QuizTypeOK, ReqOK, quizVars
<1>2. ASSUME NEW j, GoesOn(p, j)  PROVE PlansInv'
  <2>1. job' \in [Planners -> Job] /\ job'[p] = j /\ \A q \in Planners \ {p} : job'[q] = job[q]
    BY <1>2 DEF GoesOn, PlansInv, JobsOK
  <2>2. \A q \in Planners : JobShaped(job'[q])
    BY <1>2, <2>1 DEF GoesOn, PlansInv, JobsOK
  <2>3. JobsOK'
    BY <2>1, <2>2 DEF JobsOK, JobShaped
  <2>4. PlansOK'
    BY <1>2 DEF GoesOn, PlansInv, PlansOK
  <2>5. Loaded(j) => plans[j.store, j.version] # None
    BY <1>2 DEF GoesOn, Loaded, PlansInv, LoadedExist
  <2>6. ASSUME NEW q \in Planners, job'[q].step \notin {"idle", "create"}
        PROVE  plans'[job'[q].store, job'[q].version] # None
    <3>1. CASE q = p
      BY <1>2, <2>1, <2>5, <2>6, <3>1 DEF GoesOn, Loaded
    <3>2. CASE q # p
      BY <1>2, <2>1, <2>6, <3>2 DEF GoesOn, PlansInv, LoadedExist
    <3> QED  BY <3>1, <3>2
  <2> QED  BY <1>1, <2>3, <2>4, <2>6 DEF PlansInv, LoadedExist
<1>3. ASSUME NEW plan, Writes(p, plan), Decides(p, plan) \/ Starts(p, plan)  PROVE PlansInv'
  <2>1. job' \in [Planners -> Job] /\ job'[p] = NoJob /\ \A q \in Planners \ {p} : job'[q] = job[q]
    BY <1>3, NoJobType DEF Writes, PlansInv, JobsOK
  <2>2. \A q \in Planners : JobShaped(job'[q])
    BY <2>1, NoJobType DEF PlansInv, JobsOK
  <2>3. JobsOK'
    BY <2>1, <2>2 DEF JobsOK, JobShaped
  <2>4. PlansOK' /\ plan # None
    BY <1>3, PlansAssumption DEF Writes, PlansInv, PlansOK
  <2>5. \A k \in Stores \X Versions : plans[k] # None => plans'[k] # None
    BY <1>3, <2>4 DEF Writes, PlansInv, PlansOK
  <2>6. ASSUME NEW q \in Planners, job'[q].step \notin {"idle", "create"}
        PROVE  plans'[job'[q].store, job'[q].version] # None
    <3>1. q # p
      BY <2>1, <2>6, NoJobType
    <3>2. <<job[q].store, job[q].version>> \in Stores \X Versions
      BY <2>1, <2>6, <3>1 DEF PlansInv, JobsOK, JobShaped
    <3> QED  BY <2>1, <2>5, <2>6, <3>1, <3>2 DEF PlansInv, LoadedExist
  <2> QED  BY <1>1, <2>3, <2>4, <2>6 DEF PlansInv, LoadedExist
<1> QED  BY <1>2, <1>3 DEF PlannerStep

\* A step of the session is one of a planner or leaves the planners alone.
LEMMA PlansSteps ==
  ASSUME PlansInv, [PlansNext]_allVars
  PROVE  \/ \E p \in Planners : PlannerStep(p) /\ UNCHANGED quizVars
         \/ UNCHANGED planVars /\ [QuizNext]_quizVars
BY PlannerSteps DEF PlansNext, PlanNext, allVars

LEMMA PlansKept ==
  ASSUME PlansInv, [PlansNext]_allVars
  PROVE  PlansInv'
<1>1. CASE UNCHANGED planVars /\ [QuizNext]_quizVars
  BY <1>1, TypeNext DEF planVars, PlansInv, PlansOK, JobsOK, JobShaped, LoadedExist
<1> QED  BY <1>1, PlansSteps, PlansStep

\* The plans and the requests about them stay well formed, with any quiz beside
\* them, for any stores, configurations, categories and investments.
THEOREM PlansTypeCorrect == PlansSpec => []PlansTypeOK
<1>1. PlansInv => PlansTypeOK
  BY DEF PlansInv, TypeInv, PlansOK, JobsOK, PlansTypeOK
<1> QED  BY <1>1, PlansInitially, PlansKept, PTL DEF PlansSpec

-----------------------------------------------------------------------------
\* A confirmed plan with no older request in flight is never changed again,
\* however many requests about it are still to come.
THEOREM FrozenTheorem == PlansSpec => SettledPlansFrozen
<1> DEFINE Frozen(s, v) == Settled(s, v) => Settled(s, v)' /\ plans'[s, v] = plans[s, v]
<1>1. ASSUME PlansInv, NEW p \in Planners, PlannerStep(p), NEW s \in Stores, NEW v \in Versions,
             Settled(s, v)
      PROVE  Settled(s, v)' /\ plans'[s, v] = plans[s, v]
  <2>0. /\ plans[s, v] # None /\ plans[s, v].confirmed
        /\ \A q \in Planners : Loaded(job[q]) /\ job[q].store = s /\ job[q].version = v
                                => job[q].held.confirmed
    BY <1>1 DEF Settled, Exists, InFlight, Loaded, PlansInv, JobsOK, Job
  <2>1. ASSUME plans'[s, v] = plans[s, v],
               \A q \in Planners : Loaded(job'[q]) /\ job'[q].store = s /\ job'[q].version = v
                                 => job'[q].held.confirmed
        PROVE  Settled(s, v)'
    BY <2>0, <2>1 DEF Settled, Exists, InFlight, Loaded
  <2>2. ASSUME NEW j, GoesOn(p, j)  PROVE Settled(s, v)' /\ plans'[s, v] = plans[s, v]
    <3>1. plans' = plans /\ job'[p] = j /\ \A q \in Planners \ {p} : job'[q] = job[q]
      BY <1>1, <2>2 DEF GoesOn, PlansInv, JobsOK
    <3>2. Loaded(j) /\ j.store = s /\ j.version = v => j.held.confirmed
      BY <2>0, <2>2 DEF GoesOn
    <3> QED  BY <2>0, <2>1, <3>1, <3>2
  <2>3. ASSUME NEW plan, Writes(p, plan), Decides(p, plan) \/ Starts(p, plan)
        PROVE  Settled(s, v)' /\ plans'[s, v] = plans[s, v]
    <3>1. job'[p] = NoJob /\ \A q \in Planners \ {p} : job'[q] = job[q]
      BY <1>1, <2>3 DEF Writes, PlansInv, JobsOK
    <3>2. ~(job[p].store = s /\ job[p].version = v)
      <4>1. CASE Starts(p, plan)
        BY <2>0, <4>1 DEF Starts
      <4>2. CASE Decides(p, plan)
        BY <1>1, <2>0, <4>2 DEF Decides, Loaded, PlansInv, JobsOK, JobShaped
      <4> QED  BY <2>3, <4>1, <4>2
    <3>3. <<job[p].store, job[p].version>> # <<s, v>>
      BY <3>2
    <3>4. plans'[<<s, v>>] = plans[<<s, v>>]
      BY <1>1, <2>3, <3>3 DEF Writes, PlansInv, PlansOK
    <3>5. ~Loaded(job'[p])
      BY <3>1, NoJobType DEF Loaded
    <3> QED  BY <2>0, <2>1, <3>1, <3>4, <3>5
  <2> QED  BY <1>1, <2>2, <2>3 DEF PlannerStep
<1>2. ASSUME UNCHANGED planVars, NEW s, NEW v, Settled(s, v)
      PROVE  Settled(s, v)' /\ plans'[s, v] = plans[s, v]
  BY <1>2 DEF planVars, Settled, Exists, InFlight
<1>3. ASSUME PlansInv, [PlansNext]_allVars
      PROVE  [\A s \in Stores, v \in Versions :
                Settled(s, v) => Settled(s, v)' /\ plans'[s, v] = plans[s, v]]_allVars
  BY <1>1, <1>2, <1>3, PlansSteps
<1> QED  BY <1>3, PlansInitially, PlansKept, PTL DEF PlansSpec, SettledPlansFrozen

\* An investment of the first configuration that the second one has not made is
\* not made there, while the first one keeps it.
THEOREM BoughtOnceTheorem == PlansSpec => NotBoughtAgain
<1>1. ASSUME PlansInv, NEW p \in Planners, PlannerStep(p), NEW s \in Stores, NEW o \in Capex,
             1 \in Versions, 2 \in Versions, DoneInFirst(s, o), o \in plans'[s, 1].capex
      PROVE  DoneInFirst(s, o)'
  <2>0. /\ plans[s, 1] # None /\ o \in plans[s, 1].capex
        /\ plans[s, 2] # None /\ o \notin plans[s, 2].capex
        /\ \A q \in Planners : ~(job[q].step = "write_capex" /\ job[q].store = s /\ job[q].version = 2
                                  /\ job[q].option = o /\ job[q].wanted)
    BY <1>1 DEF DoneInFirst, Exists, PlanAt
  <2>1. ASSUME plans'[s, 1] # None, plans'[s, 2] # None, o \notin plans'[s, 2].capex,
               \A q \in Planners : ~(job'[q].step = "write_capex" /\ job'[q].store = s
                                    /\ job'[q].version = 2 /\ job'[q].option = o /\ job'[q].wanted)
        PROVE  DoneInFirst(s, o)'
    BY <1>1, <2>1 DEF DoneInFirst, Exists, PlanAt
  <2>2. ASSUME NEW j, GoesOn(p, j)  PROVE DoneInFirst(s, o)'
    <3>1. plans' = plans /\ job'[p] = j /\ \A q \in Planners \ {p} : job'[q] = job[q]
      BY <1>1, <2>2 DEF GoesOn, PlansInv, JobsOK
    <3>2. ~(j.step = "write_capex" /\ j.store = s /\ j.version = 2 /\ j.option = o /\ j.wanted)
      BY <1>1, <2>0, <2>2 DEF GoesOn, Loaded, StillToDo, Exists
    <3> QED  BY <2>0, <2>1, <3>1, <3>2
  <2>3. ASSUME NEW plan, Writes(p, plan), Decides(p, plan) \/ Starts(p, plan)
        PROVE  DoneInFirst(s, o)'
    <3>1. job'[p] = NoJob /\ \A q \in Planners \ {p} : job'[q] = job[q]
      BY <1>1, <2>3 DEF Writes, PlansInv, JobsOK
    <3> DEFINE k == <<job[p].store, job[p].version>>
    <3>2. <<s, 1>> \in Stores \X Versions /\ <<s, 2>> \in Stores \X Versions
      BY <1>1
    <3>3. /\ plans'[<<s, 1>>] = IF k = <<s, 1>> THEN plan ELSE plans[<<s, 1>>]
          /\ plans'[<<s, 2>>] = IF k = <<s, 2>> THEN plan ELSE plans[<<s, 2>>]
      BY <1>1, <2>3, <3>2 DEF Writes, PlansInv, PlansOK
    <3>4. plan # None
      BY <2>3, PlansAssumption DEF Writes
    <3>5. k = <<s, 2>> => o \notin plan.capex
      <4> SUFFICES ASSUME job[p].store = s, job[p].version = 2  PROVE o \notin plan.capex
        OBVIOUS
      <4>1. ~Starts(p, plan)
        BY <2>0 DEF Starts
      <4> DEFINE old == plans[s, 2]
      <4>2. old \in Plan
        <5>1. plans[<<s, 2>>] \in Plan \cup {None}
          BY <1>1, <3>2 DEF PlansInv, PlansOK
        <5> QED  BY <2>0, <5>1
      <4>3. Decides(p, plan) /\ o \notin old.capex
        BY <2>0, <2>3, <4>1
      <4>4. /\ \/ job[p].step = "write_category" /\ plan = [old EXCEPT !.units[job[p].category] = job[p].units]
               \/ /\ job[p].step = "write_capex"
                  /\ plan = [old EXCEPT !.capex = IF job[p].wanted THEN @ \cup {job[p].option}
                                                   ELSE @ \ {job[p].option}]
               \/ job[p].step = "write_workforce" /\ plan = [old EXCEPT !.staff = job[p].staff]
               \/ job[p].step = "write_confirm" /\ plan = [old EXCEPT !.confirmed = TRUE]
        BY <4>3 DEF Decides
      <4>5. job[p].step = "write_capex" => ~(job[p].wanted /\ job[p].option = o)
        BY <2>0
      <4> HIDE DEF old
      <4> QED  BY <4>2, <4>3, <4>4, <4>5 DEF Plan
    <3>6. job'[p].step # "write_capex"
      BY <3>1, NoJobType
    <3> QED  BY <2>0, <2>1, <3>1, <3>3, <3>4, <3>5, <3>6
  <2> QED  BY <1>1, <2>2, <2>3 DEF PlannerStep
<1>2. ASSUME UNCHANGED planVars, NEW s, NEW o, DoneInFirst(s, o)  PROVE DoneInFirst(s, o)'
  BY <1>2 DEF planVars, DoneInFirst, Exists, PlanAt
<1>3. ASSUME PlansInv, [PlansNext]_allVars
      PROVE  [{1, 2} \subseteq Versions =>
                \A s \in Stores, o \in Capex :
                  DoneInFirst(s, o) /\ (o \in plans[s, 1].capex)' => DoneInFirst(s, o)']_allVars
  BY <1>1, <1>2, <1>3, PlansSteps
<1> QED  BY <1>3, PlansInitially, PlansKept, PTL DEF PlansSpec, NotBoughtAgain

\* One request changes one decision of a plan, or confirms it: what others
\* decided since the request loaded the plan is not lost.
THEOREM DecisionsTheorem == PlansSpec => DecisionsKept
<1> DEFINE OneDecision(s, v) ==
             \/ \E c \in Categories, n \in 0..MaxUnits :
                  plans'[s, v] = [plans[s, v] EXCEPT !.units[c] = n]
             \/ \E o \in SUBSET Capex :
                  /\ plans'[s, v] = [plans[s, v] EXCEPT !.capex = o]
                  /\ \E x \in Capex : (o \cup plans[s, v].capex) \ (o \cap plans[s, v].capex) = {x}
             \/ \E k \in Staffings : plans'[s, v] = [plans[s, v] EXCEPT !.staff = k]
             \/ plans'[s, v] = [plans[s, v] EXCEPT !.confirmed = TRUE]
<1>1. ASSUME PlansInv, NEW p \in Planners, PlannerStep(p), NEW s \in Stores, NEW v \in Versions,
             plans[s, v] # None, plans'[s, v] # plans[s, v]
      PROVE  OneDecision(s, v)
  <2>1. PICK plan : Writes(p, plan) /\ (Decides(p, plan) \/ Starts(p, plan))
    BY <1>1 DEF PlannerStep, GoesOn
  <2>2. <<job[p].store, job[p].version>> = <<s, v>> /\ plans'[<<s, v>>] = plan
    BY <1>1, <2>1 DEF Writes, PlansInv, PlansOK
  <2>3. job[p].store = s /\ job[p].version = v /\ Decides(p, plan)
    BY <1>1, <2>1, <2>2 DEF Starts
  <2> DEFINE j == job[p]
             old == plans[s, v]
  <2>4. old \in Plan /\ j \in Job /\ JobShaped(j)
    BY <1>1 DEF PlansInv, PlansOK, JobsOK
  <2>5. /\ \/ j.step = "write_category" /\ plan = [old EXCEPT !.units[j.category] = j.units]
           \/ /\ j.step = "write_capex"
              /\ plan = [old EXCEPT !.capex = IF j.wanted THEN @ \cup {j.option} ELSE @ \ {j.option}]
           \/ j.step = "write_workforce" /\ plan = [old EXCEPT !.staff = j.staff]
           \/ j.step = "write_confirm" /\ plan = [old EXCEPT !.confirmed = TRUE]
    BY <2>3 DEF Decides
  <2>6. plans'[s, v] = plan /\ plan # old
    BY <1>1, <2>2
  <2> HIDE DEF j, old
  <2>7. CASE j.step = "write_category"
    BY <2>4, <2>5, <2>6, <2>7 DEF JobShaped, Job, old
  <2>8. CASE j.step = "write_capex"
    <3> DEFINE o == IF j.wanted THEN old.capex \cup {j.option} ELSE old.capex \ {j.option}
    <3>1. j.option \in Capex /\ old.capex \subseteq Capex
      BY <2>4, <2>8 DEF JobShaped, Plan
    <3>2. plan = [old EXCEPT !.capex = o]
      BY <2>5, <2>8
    <3>4. ASSUME o = old.capex  PROVE FALSE
      <4> HIDE DEF o
      <4>1. [old EXCEPT !.capex = old.capex] = old
        BY <2>4 DEF Plan
      <4> QED  BY <2>6, <3>2, <3>4, <4>1
    <3>3. (o \cup old.capex) \ (o \cap old.capex) = {j.option} /\ o \in SUBSET Capex
      BY <3>1, <3>4
    <3> HIDE DEF o
    <3> QED  BY <2>6, <3>1, <3>2, <3>3 DEF old
  <2>9. CASE j.step = "write_workforce"
    BY <2>4, <2>5, <2>6, <2>9 DEF Job, old
  <2>10. CASE j.step = "write_confirm"
    BY <2>5, <2>6, <2>10 DEF old
  <2> QED  BY <2>5, <2>7, <2>8, <2>9, <2>10
<1>2. ASSUME UNCHANGED planVars  PROVE \A s, v : plans'[s, v] = plans[s, v]
  BY <1>2 DEF planVars
<1> HIDE DEF OneDecision
<1>3. ASSUME PlansInv, [PlansNext]_allVars, NEW s \in Stores, NEW v \in Versions,
             Exists(s, v), plans'[s, v] # plans[s, v]
      PROVE  OneDecision(s, v)
  BY <1>1, <1>2, <1>3, PlansSteps DEF Exists
<1>4. ASSUME PlansInv, [PlansNext]_allVars
      PROVE  [\A s \in Stores, v \in Versions :
                Exists(s, v) /\ plans'[s, v] # plans[s, v] => OneDecision(s, v)]_allVars
  BY <1>3, <1>4
<1> QED  BY <1>4, PlansInitially, PlansKept, PTL DEF PlansSpec, DecisionsKept, OneDecision

-----------------------------------------------------------------------------
(* How far the stock can be overrun.  A purchase that was checked may be      *)
(* written any time later, over whatever is there by then, so the invariant  *)
(* bounds every table the purchases under way could still produce: those     *)
(* that differ from the stored one owe each difference to another planner.   *)

\* Among the subsets of a finite set that have a defect there is one that has it
\* no longer when any element is taken away.
LEMMA LeastDefect ==
  ASSUME NEW D, IsFiniteSet(D), NEW T, T \subseteq SUBSET D, T # {}
  PROVE  \E E \in T : \A x \in E : E \ {x} \notin T
<1>1. T \subseteq FiniteSubsetsOf(D)
  BY FS_Subset DEF FiniteSubsetsOf
<1>2. IsWellFoundedOn(StrictSubsetOrdering(D), FiniteSubsetsOf(D))
  BY FS_StrictSubsetOrderingWellFounded
<1>3. PICK E \in T : \A F \in T : <<F, E>> \notin StrictSubsetOrdering(D)
  BY <1>1, <1>2, WFMin
<1>4. \A x \in E : E \ {x} \in SUBSET D /\ E \ {x} \subseteq E /\ E \ {x} # E
  OBVIOUS
<1>5. \A x \in E : E \ {x} \in T => <<E \ {x}, E>> \in StrictSubsetOrdering(D)
  BY <1>4 DEF StrictSubsetOrdering
<1> QED  BY <1>3, <1>5

Tables == [Stores -> 0..MaxUnits]

\* A table with one entry replaced weighs what it weighs without it and the entry.
LEMMA SumEntry ==
  ASSUME NEW f \in Tables, NEW s \in Stores
  PROVE  /\ Sum(f) \in Nat /\ Sum([f EXCEPT ![s] = 0]) \in Nat
         /\ Sum(f) = Sum([f EXCEPT ![s] = 0]) + f[s]
<1>1. [f EXCEPT ![s] = 0] \in Tables /\ [f EXCEPT ![s] = f[s]] = f /\ f[s] \in 0..MaxUnits
  BY PlansAssumption DEF Tables
<1> QED  BY <1>1, SumAssumption DEF Tables

\* Every table weighs a number, also one of no stores.
LEMMA SumNat == \A f \in Tables : Sum(f) \in Nat
<1> SUFFICES ASSUME NEW f \in Tables  PROVE Sum(f) \in Nat
  OBVIOUS
<1>1. CASE Stores = {}
  <2>1. f = [s \in Stores |-> 0]
    BY <1>1 DEF Tables
  <2>2. Sum([s \in Stores |-> 0]) = 0
    BY SumAssumption
  <2> QED  BY <2>1, <2>2
<1>2. CASE Stores # {}
  BY <1>2, SumEntry
<1> QED  BY <1>1, <1>2

\* Tables that differ in the entries of a finite set of stores, where the first
\* holds no more than k, differ by k an entry at most.
LEMMA SumApart ==
  ASSUME NEW f \in Tables, NEW g \in Tables, NEW D, D \subseteq Stores, IsFiniteSet(D),
         NEW k \in Nat,
         \A s \in Stores \ D : f[s] = g[s], \A s \in D : f[s] <= k
  PROVE  Sum(f) <= Sum(g) + Cardinality(D) * k
<1> DEFINE Mix(E) == [s \in Stores |-> IF s \in E THEN f[s] ELSE g[s]]
           Fine(E) == Sum(Mix(E)) <= Sum(g) + Cardinality(E) * k
           T == {E \in SUBSET D : ~Fine(E)}
<1>1. \A E : Mix(E) \in Tables
  BY DEF Tables
<1>2. Mix({}) = g /\ Mix(D) = f
  BY DEF Tables
<1>3. Sum(g) \in Nat /\ \A E : Sum(Mix(E)) \in Nat
  BY <1>1, SumNat
<1>4. Fine({})
  <2>1. Cardinality({}) = 0
    BY FS_EmptySet
  <2> HIDE DEF Mix
  <2> QED  BY <1>2, <1>3, <2>1
<1>5. ASSUME NEW E \in SUBSET D, NEW x \in E, Fine(E \ {x})  PROVE Fine(E)
  <2>1. /\ IsFiniteSet(E) /\ Cardinality(E) \in Nat /\ Cardinality(E \ {x}) \in Nat
        /\ Cardinality(E) = Cardinality(E \ {x}) + 1
    BY FS_Subset, FS_RemoveElement, FS_CardinalityType
  <2>2. x \in Stores /\ f[x] \in Nat /\ f[x] <= k
    BY PlansAssumption DEF Tables
  <2>3. Mix(E)[x] = f[x] /\ [Mix(E) EXCEPT ![x] = 0] = [Mix(E \ {x}) EXCEPT ![x] = 0]
    BY <2>2
  <2>4. Mix(E \ {x})[x] \in Nat
    BY <2>2, PlansAssumption DEF Tables
  <2> HIDE DEF Mix
  <2>5. Sum(Mix(E)) <= Sum(Mix(E \ {x})) + k
    <3>1. Sum(Mix(E)) = Sum([Mix(E) EXCEPT ![x] = 0]) + f[x]
      BY <1>1, <2>2, <2>3, SumEntry
    <3>2. /\ Sum(Mix(E \ {x})) = Sum([Mix(E \ {x}) EXCEPT ![x] = 0]) + Mix(E \ {x})[x]
          /\ Sum([Mix(E \ {x}) EXCEPT ![x] = 0]) \in Nat
      BY <1>1, <2>2, SumEntry
    <3> QED  BY <2>2, <2>3, <2>4, <3>1, <3>2
  <2>6. Cardinality(E) * k = Cardinality(E \ {x}) * k + k
    <3>1. \A n \in Nat : (n + 1) * k = n * k + k
      OBVIOUS
    <3> QED  BY <2>1, <3>1
  <2>7. Cardinality(E \ {x}) * k \in Nat
    BY <2>1
  <2>8. Sum(Mix(E \ {x})) <= Sum(g) + Cardinality(E \ {x}) * k
    BY <1>5 DEF Mix
  <2> DEFINE mine == Sum(Mix(E))
             less == Sum(Mix(E \ {x}))
             base == Sum(g)
             n    == Cardinality(E \ {x}) * k
  <2>9. mine \in Nat /\ less \in Nat /\ base \in Nat /\ n \in Nat
        /\ mine <= less + k /\ less <= base + n
    BY <1>3, <2>5, <2>7, <2>8 DEF Mix
  <2> HIDE DEF mine, less, base, n
  <2>10. mine <= base + (n + k)
    BY <2>9
  <2> QED  BY <2>6, <2>10 DEF Mix, mine, base, n
<1>6. T = {}
  <2> SUFFICES ASSUME T # {}  PROVE FALSE
    OBVIOUS
  <2>1. PICK E \in T : \A x \in E : E \ {x} \notin T
    <3> HIDE DEF Fine
    <3> QED  BY LeastDefect
  <2> HIDE DEF Fine
  <2>2. CASE E = {}
    BY <1>4, <2>1, <2>2
  <2>3. CASE E # {}
    <3>1. PICK x \in E : TRUE
      BY <2>3
    <3>2. Fine(E \ {x})
      BY <2>1, <3>1
    <3> QED  BY <1>5, <2>1, <3>1, <3>2
  <2> QED  BY <2>2, <2>3
<1>7. Fine(D)
  <2> HIDE DEF Fine
  <2> QED  BY <1>6
<1> HIDE DEF Mix
<1> QED  BY <1>2, <1>7

\* A purchase that was checked and is not written yet.
Pending(p, s, v, c) ==
  job[p].step = "write_category" /\ job[p].store = s /\ job[p].version = v /\ job[p].category = c

\* The tables that the stored purchases and those under way can produce.
Possible(v, c) ==
  {f \in Tables : \A s \in Stores :
     f[s] = Bought(v, c)[s] \/ \E p \in Planners : Pending(p, s, v, c) /\ f[s] = job[p].units}

StockInv ==
  /\ PlansInv
  /\ \A p \in Planners : job[p].step = "write_category" => job[p].units <= Stock[job[p].category]
  /\ \A v \in Versions, c \in Categories : \A f \in Possible(v, c) :
       Sum(f) <= Cardinality(Planners) * Stock[c]

\* What the stores have bought of a category is such a table.
LEMMA BoughtTable ==
  ASSUME PlansInv, NEW v \in Versions, NEW c \in Categories
  PROVE  Bought(v, c) \in Tables /\ Bought(v, c) \in Possible(v, c)
<1>1. \A s \in Stores : Exists(s, v) => plans[s, v].units[c] \in 0..MaxUnits
  BY DEF PlansInv, PlansOK, Exists, Plan
<1>2. 0 \in 0..MaxUnits
  BY PlansAssumption
<1>3. Bought(v, c) \in Tables
  BY <1>1, <1>2 DEF Bought, Tables
<1> QED  BY <1>3 DEF Possible

\* Every step but the check and the write of a purchase leaves what was bought as
\* it is, and no purchase pending.
LEMMA PurchaseSteps ==
  ASSUME PlansInv, NEW p \in Planners, PlanStep(p) \/ PlanRequests(p),
         ~ReadOthers(p), ~WriteCategory(p)
  PROVE  /\ \A v \in Versions, c \in Categories : Bought(v, c)' = Bought(v, c)
         /\ job'[p].step # "write_category"
         /\ \A q \in Planners \ {p} : job'[q] = job[q]
<1> DEFINE Goal == /\ \A v \in Versions, c \in Categories : Bought(v, c)' = Bought(v, c)
                   /\ job'[p].step # "write_category"
                   /\ \A q \in Planners \ {p} : job'[q] = job[q]
<1> DEFINE j == job[p]
           k == <<job[p].store, job[p].version>>
<1>0. job \in [Planners -> Job] /\ JobShaped(j) /\ j \in Job
  BY DEF PlansInv, JobsOK
<1>1. ASSUME UNCHANGED plans, NEW t, t.step # "write_category", job' = [job EXCEPT ![p] = t]
      PROVE  Goal
  BY <1>0, <1>1 DEF Bought, Exists
<1>2. ASSUME NEW plan, Write(p, plan), k \in Stores \X Versions,
             plans[k] = None => plan # None /\ \A c \in Categories : plan.units[c] = 0,
             plans[k] # None => plan # None /\ plan.units = plans[k].units
      PROVE  Goal
  <2>1. job' = [job EXCEPT ![p] = NoJob] /\ plans' = [plans EXCEPT ![k] = plan]
    BY <1>2 DEF Write
  <2>2. job'[p].step # "write_category" /\ \A q \in Planners \ {p} : job'[q] = job[q]
    BY <1>0, <2>1 DEF NoJob
  <2>3. ASSUME NEW v \in Versions, NEW c \in Categories, NEW s \in Stores
        PROVE  (IF plans'[<<s, v>>] # None THEN plans'[<<s, v>>].units[c] ELSE 0)
                 = (IF plans[<<s, v>>] # None THEN plans[<<s, v>>].units[c] ELSE 0)
    <3>1. CASE <<s, v>> = k
      <4>1. plans'[<<s, v>>] = plan
        BY <1>2, <2>1, <3>1 DEF PlansInv, PlansOK
      <4> QED  BY <1>2, <3>1, <4>1
    <3>2. CASE <<s, v>> # k
      <4>1. plans'[<<s, v>>] = plans[<<s, v>>]
        BY <2>1, <3>2 DEF PlansInv, PlansOK
      <4> QED  BY <4>1
    <3> QED  BY <3>1, <3>2
  <2>4. \A v \in Versions, c \in Categories : Bought(v, c)' = Bought(v, c)
    BY <2>3 DEF Bought, Exists
  <2> QED  BY <2>2, <2>4
<1> SUFFICES Goal
  OBVIOUS
<1> HIDE DEF Goal
<1>3. CASE PlanFail(p)
  BY <1>1, <1>3, NoJobType DEF PlanFail, NoJob
<1>4. CASE GetCreate(p)
  <2>1. plans[k] = None /\ Write(p, EmptyPlan) /\ k \in Stores \X Versions
    BY <1>0, <1>4 DEF GetCreate, PlanAt, Allows, Exists, Write, JobShaped
  <2>2. EmptyPlan # None /\ \A c \in Categories : EmptyPlan.units[c] = 0
    BY EmptyType, PlansAssumption DEF EmptyPlan
  <2> QED  BY <1>2, <2>1, <2>2
<1>5. CASE CheckMember(p)
  <2>1. j.op \in {"category", "capex", "workforce", "confirm"} /\ UNCHANGED plans
    BY <1>0, <1>5 DEF CheckMember, PlanAt, JobShaped, PlanOperations
  <2>2. AfterCheck(j.op, j.version) # "write_category"
    BY <2>1 DEF AfterCheck
  <2>3. [j EXCEPT !.step = AfterCheck(j.op, j.version)].step = AfterCheck(j.op, j.version)
    BY <1>0 DEF Job
  <2> DEFINE t == [j EXCEPT !.step = AfterCheck(j.op, j.version)]
  <2>4. job' = [job EXCEPT ![p] = t] /\ t.step # "write_category"
    BY <1>5, <2>2, <2>3 DEF CheckMember, PlanGoto
  <2> HIDE DEF t
  <2> QED  BY <1>1, <2>1, <2>4
<1>6. CASE ReadFirstPlan(p)
  <2>1. [j EXCEPT !.step = "write_capex"].step = "write_capex"
    BY <1>0 DEF Job
  <2> DEFINE t == [j EXCEPT !.step = "write_capex"]
  <2>2. UNCHANGED plans /\ job' = [job EXCEPT ![p] = t]
    BY <1>6 DEF ReadFirstPlan, PlanGoto
  <2>3. t.step # "write_category"
    BY <2>1
  <2> HIDE DEF t
  <2> QED  BY <1>1, <2>2, <2>3
<1>7. ASSUME NEW side \in Counts, CountForConfirm(p, side)  PROVE Goal
  <2>1. PICK counts, step : /\ job' = [job EXCEPT ![p] = [j EXCEPT !.counts = counts, !.step = step]]
                            /\ step \in {"count", "write_confirm"}
    BY <1>7 DEF CountForConfirm, PlanAt
  <2> DEFINE t == [j EXCEPT !.counts = counts, !.step = step]
  <2>2. t.step = step
    BY <1>0 DEF Job
  <2>3. UNCHANGED plans /\ job' = [job EXCEPT ![p] = t]
    BY <1>7, <2>1 DEF CountForConfirm
  <2> HIDE DEF t
  <2> QED  BY <1>1, <2>1, <2>2, <2>3
<1>8. ASSUME WriteCapex(p) \/ WriteWorkforce(p) \/ WriteConfirm(p)  PROVE Goal
  <2>1. plans[k] \in Plan /\ plans[k] # None /\ Current(p) = plans[k] /\ k \in Stores \X Versions
    BY <1>0, <1>8 DEF WriteCapex, WriteWorkforce, WriteConfirm, PlanAt, Current, JobShaped,
                      PlansInv, PlansOK, LoadedExist
  <2>2. PICK plan : /\ Write(p, plan)
                    /\ \/ \E x \in SUBSET Capex : plan = [plans[k] EXCEPT !.capex = x]
                       \/ \E x \in Staffings : plan = [plans[k] EXCEPT !.staff = x]
                       \/ plan = [plans[k] EXCEPT !.confirmed = TRUE]
    <3>1. CASE WriteCapex(p)
      <4>1. j.option \in Capex
        BY <1>0, <3>1 DEF WriteCapex, PlanAt, JobShaped
      <4>2. plans[k].capex \in SUBSET Capex
        BY <2>1 DEF Plan
      <4>3. (IF j.wanted THEN plans[k].capex \cup {j.option} ELSE plans[k].capex \ {j.option})
              \in SUBSET Capex
        BY <4>1, <4>2
      <4>4. Write(p, [plans[k] EXCEPT !.capex = IF j.wanted THEN plans[k].capex \cup {j.option}
                                                ELSE plans[k].capex \ {j.option}])
        BY <2>1, <3>1 DEF WriteCapex
      <4> QED  BY <4>3, <4>4
    <3>2. CASE WriteWorkforce(p)
      <4>1. Write(p, [plans[k] EXCEPT !.staff = j.staff]) /\ j.staff \in Staffings
        BY <1>0, <2>1, <3>2 DEF WriteWorkforce, Job
      <4> QED  BY <4>1
    <3>3. CASE WriteConfirm(p)
      <4>1. Write(p, [plans[k] EXCEPT !.confirmed = TRUE])
        BY <2>1, <3>3 DEF WriteConfirm
      <4> QED  BY <4>1
    <3> QED  BY <1>8, <3>1, <3>2, <3>3
  <2>3. plan.units = plans[k].units
    BY <2>1, <2>2 DEF Plan
  <2>4. plan # None
    <3>1. plan \in Plan
      BY <2>1, <2>2 DEF Plan
    <3> QED  BY <3>1, PlansAssumption
  <2> QED  BY <1>2, <2>1, <2>2, <2>3, <2>4
<1>9. ASSUME NEW args \in Calls, GetRead(p, args) \/ LoadPlan(p, args)  PROVE Goal
  <2>1. args \in Job
    BY CallsAssumption
  <2>2. CASE GetRead(p, args)
    <3> DEFINE t == [args EXCEPT !.step = "create"]
    <3>1. t.step = "create"
      BY <2>1 DEF Job
    <3>2. UNCHANGED plans /\ job' = [job EXCEPT ![p] = t]
      BY <2>2 DEF GetRead
    <3> HIDE DEF t
    <3> QED  BY <1>1, <3>1, <3>2
  <2>3. CASE LoadPlan(p, args)
    <3> DEFINE t == [args EXCEPT !.step = "member", !.held = plans[args.store, args.version]]
    <3>1. t.step = "member"
      BY <2>1 DEF Job
    <3>2. UNCHANGED plans /\ job' = [job EXCEPT ![p] = t]
      BY <2>3 DEF LoadPlan
    <3> HIDE DEF t
    <3> QED  BY <1>1, <3>1, <3>2
  <2> QED  BY <1>9, <2>2, <2>3
<1> QED
  BY <1>3, <1>4, <1>5, <1>6, <1>7, <1>8, <1>9 DEF PlanStep, PlanRequests, Goal

\* What the check of a purchase adds: the tables the other planners could make of
\* what the check saw, with the purchase in place of what its store has.  Each
\* entry that differs from what the check saw is another planner's purchase.
LEMMA CheckedTable ==
  ASSUME StockInv, NEW p \in Planners, NEW s \in Stores, NEW v \in Versions, NEW c \in Categories,
         NEW f \in Tables, NEW n \in 0..MaxUnits, Fits(s, v, c, n), f[s] = n,
         \A t \in Stores \ {s} :
           \/ f[t] = Bought(v, c)[t]
           \/ \E q \in Planners \ {p} : Pending(q, t, v, c) /\ f[t] = job[q].units
  PROVE  Sum(f) <= Cardinality(Planners) * Stock[c]
<1> DEFINE g == [Bought(v, c) EXCEPT ![s] = 0]
           h == [f EXCEPT ![s] = 0]
           D == {t \in Stores \ {s} : f[t] # Bought(v, c)[t]}
           other == [t \in D |-> CHOOSE q \in Planners \ {p} : Pending(q, t, v, c) /\ f[t] = job[q].units]
           k == Stock[c]
<1>0. k \in Nat /\ 0 \in 0..MaxUnits
  BY PlansAssumption
<1>1. g \in Tables /\ h \in Tables /\ Bought(v, c) \in Tables
  BY <1>0, BoughtTable DEF Tables, StockInv
<1>2. \A t \in D : /\ other[t] \in Planners \ {p}
                   /\ Pending(other[t], t, v, c) /\ f[t] = job[other[t]].units
  OBVIOUS
<1>3. \A t \in D : f[t] <= k
  BY <1>2 DEF StockInv, Pending
<1>4. IsFiniteSet(D) /\ Cardinality(D) <= Cardinality(Planners \ {p})
  <2>1. IsFiniteSet(Planners \ {p})
    BY PlansAssumption, FS_RemoveElement
  <2>2. other \in [D -> Planners \ {p}]
    BY <1>2
  <2>3. \A t, u \in D : other[t] = other[u] => t = u
    BY <1>2 DEF Pending
  <2> HIDE DEF other, D
  <2>4. other \in Injection(D, Planners \ {p})
    BY <2>2, <2>3 DEF Injection, IsInjective
  <2> QED  BY <2>1, <2>4, FS_Injection
<1>5. \A t \in Stores \ D : h[t] = g[t]
  BY <1>1 DEF Tables
<1>6. \A t \in D : h[t] <= k
  BY <1>3 DEF Tables
<1>7. Sum(f) = Sum(h) + n /\ Sum(h) \in Nat /\ n \in Nat
  BY SumEntry, PlansAssumption
<1>8. n + Sum(g) <= k /\ Sum(g) \in Nat
  BY <1>1, SumNat DEF Fits, BoughtByOthers
<1>9. Sum(h) <= Sum(g) + Cardinality(D) * k
  <2> HIDE DEF g, h, k
  <2>1. D \subseteq Stores
    OBVIOUS
  <2> HIDE DEF D
  <2> QED  BY <1>0, <1>1, <1>4, <1>5, <1>6, <2>1, SumApart
<1>10. /\ Cardinality(D) \in Nat /\ Cardinality(Planners) \in Nat
       /\ Cardinality(D) + 1 <= Cardinality(Planners)
  <2> HIDE DEF D
  <2>1. IsFiniteSet(Planners) /\ Cardinality(Planners \ {p}) = Cardinality(Planners) - 1
    BY PlansAssumption, FS_RemoveElement
  <2>2. Cardinality(D) \in Nat /\ Cardinality(Planners) \in Nat
    BY <1>4, <2>1, FS_CardinalityType
  <2> QED  BY <1>4, <2>1, <2>2
<1>11. Cardinality(D) * k + k <= Cardinality(Planners) * k /\ Cardinality(D) * k \in Nat
       /\ Cardinality(Planners) * k \in Nat
  <2>1. \A x, y \in Nat : x + 1 <= y => x * k + k <= y * k /\ x * k \in Nat /\ y * k \in Nat
    <3> HIDE DEF k
    <3> SUFFICES ASSUME NEW x \in Nat, NEW y \in Nat, x + 1 <= y
                 PROVE  x * k + k <= y * k /\ x * k \in Nat /\ y * k \in Nat
      OBVIOUS
    <3>1. PICK z \in Nat : y = x + 1 + z
      <4>1. y - (x + 1) \in Nat /\ y = x + 1 + (y - (x + 1))
        OBVIOUS
      <4> QED  BY <4>1
    <3>2. y * k = x * k + k + z * k /\ z * k \in Nat /\ x * k \in Nat
      BY <1>0, <3>1
    <3> QED  BY <1>0, <3>2
  <2> HIDE DEF k, D
  <2> QED  BY <1>10, <2>1
<1> DEFINE a == Sum(f)
           b == Sum(h)
           e == Sum(g)
           x == Cardinality(D) * k
           y == Cardinality(Planners) * k
<1>12. /\ a = b + n /\ n + e <= k /\ b <= e + x /\ x + k <= y
       /\ b \in Nat /\ n \in Nat /\ e \in Nat /\ x \in Nat /\ y \in Nat /\ k \in Nat
  BY <1>0, <1>7, <1>8, <1>9, <1>11
<1> HIDE DEF a, b, e, x, y, k
<1>13. a <= y
  BY <1>12
<1> QED  BY <1>13 DEF a, y, k

\* Every step of a planner keeps the bound on the tables that can come about.
LEMMA StockStep ==
  ASSUME StockInv, NEW p \in Planners, PlanStep(p) \/ PlanRequests(p), PlansInv'
  PROVE  StockInv'
<1> DEFINE Fit(q) == job[q].step = "write_category" => job[q].units <= Stock[job[q].category]
           Bounded(v, c) == \A f \in Possible(v, c) : Sum(f) <= Cardinality(Planners) * Stock[c]
           j == job[p]
<1>0. /\ PlansInv /\ job \in [Planners -> Job] /\ JobShaped(j) /\ j \in Job
      /\ \A q \in Planners : Fit(q)
      /\ \A v \in Versions, c \in Categories : Bounded(v, c)
  BY DEF StockInv, PlansInv, JobsOK
<1>1. ASSUME \A v \in Versions, c \in Categories : Bought(v, c)' = Bought(v, c),
             job'[p].step # "write_category", \A q \in Planners \ {p} : job'[q] = job[q]
      PROVE  StockInv'
  <2>1. \A q \in Planners : Fit(q)'
    BY <1>0, <1>1
  <2>2. \A v \in Versions, c \in Categories : Possible(v, c)' \subseteq Possible(v, c)
    BY <1>1 DEF Possible, Pending
  <2>3. \A v \in Versions, c \in Categories : Bounded(v, c)'
    BY <1>0, <2>2
  <2> QED  BY <2>1, <2>3 DEF StockInv
<1>2. ASSUME WriteCategory(p)  PROVE StockInv'
  <2> DEFINE k == <<j.store, j.version>>
             new == [plans[k] EXCEPT !.units[j.category] = j.units]
  <2>1. /\ j.step = "write_category" /\ k \in Stores \X Versions /\ j.category \in Categories
        /\ plans[k] \in Plan /\ plans[k] # None /\ j.units \in 0..MaxUnits
    BY <1>0, <1>2 DEF WriteCategory, PlanAt, JobShaped, PlansInv, PlansOK, LoadedExist, Job
  <2>2. plans' = [plans EXCEPT ![k] = new] /\ job' = [job EXCEPT ![p] = NoJob]
    BY <1>2 DEF WriteCategory, Write, Current
  <2>3. new \in Plan /\ new # None
    <3>1. new \in Plan
      BY <2>1 DEF Plan
    <3> QED  BY <3>1, PlansAssumption
  <2>4. \A c \in Categories : new.units[c] = IF c = j.category THEN j.units ELSE plans[k].units[c]
    BY <2>1 DEF Plan
  <2>5. job'[p] = NoJob /\ \A q \in Planners \ {p} : job'[q] = job[q]
    BY <1>0, <2>2
  <2> HIDE DEF new
  <2>6. ASSUME NEW s \in Stores, NEW v \in Versions, NEW c \in Categories
        PROVE  (IF plans'[<<s, v>>] # None THEN plans'[<<s, v>>].units[c] ELSE 0)
                 = IF Pending(p, s, v, c) THEN j.units
                   ELSE (IF plans[<<s, v>>] # None THEN plans[<<s, v>>].units[c] ELSE 0)
    <3>1. CASE <<s, v>> = k
      <4>1. plans'[<<s, v>>] = new
        BY <1>0, <2>2, <3>1 DEF PlansInv, PlansOK
      <4>2. s = j.store /\ v = j.version
        BY <3>1
      <4> QED  BY <2>1, <2>3, <2>4, <3>1, <4>1, <4>2 DEF Pending
    <3>2. CASE <<s, v>> # k
      <4>1. plans'[<<s, v>>] = plans[<<s, v>>]
        BY <1>0, <2>2, <3>2 DEF PlansInv, PlansOK
      <4> QED  BY <3>2, <4>1 DEF Pending
    <3> QED  BY <3>1, <3>2
  <2>7. ASSUME NEW v \in Versions, NEW c \in Categories, NEW s \in Stores
        PROVE  Bought(v, c)'[s] = IF Pending(p, s, v, c) THEN j.units ELSE Bought(v, c)[s]
    BY <2>6 DEF Bought, Exists
  <2>8. \A q \in Planners : \A s, v, c : Pending(q, s, v, c)' => q # p /\ Pending(q, s, v, c)
    BY <2>5 DEF Pending, NoJob
  <2>9. ASSUME NEW v \in Versions, NEW c \in Categories, NEW f \in Possible(v, c)'
        PROVE  f \in Possible(v, c)
    <3>1. f \in Tables
      BY DEF Possible, Tables
    <3>2. ASSUME NEW s \in Stores
          PROVE  f[s] = Bought(v, c)[s] \/ \E q \in Planners : Pending(q, s, v, c) /\ f[s] = job[q].units
      <4>1. CASE f[s] = Bought(v, c)'[s]
        BY <2>7, <4>1
      <4>2. CASE \E q \in Planners : Pending(q, s, v, c)' /\ f[s] = job'[q].units
        BY <2>5, <2>8, <4>2
      <4> QED  BY <4>1, <4>2 DEF Possible
    <3> QED  BY <3>1, <3>2 DEF Possible
  <2>10. \A v \in Versions, c \in Categories : Bounded(v, c)'
    BY <1>0, <2>9
  <2>11. \A q \in Planners : Fit(q)'
    BY <1>0, <2>5 DEF NoJob
  <2> QED  BY <2>10, <2>11 DEF StockInv
<1>3. ASSUME ReadOthers(p)  PROVE StockInv'
  <2> DEFINE s == j.store
             v == j.version
             c == j.category
  <2>1. /\ s \in Stores /\ v \in Versions /\ c \in Categories /\ j.units \in 0..MaxUnits
        /\ Fits(s, v, c, j.units) /\ j.step = "others"
    BY <1>0, <1>3 DEF ReadOthers, PlanAt, Allows, JobShaped, Job
  <2>2. /\ plans' = plans /\ job' = [job EXCEPT ![p] = [j EXCEPT !.step = "write_category"]]
    BY <1>3 DEF ReadOthers, PlanGoto
  <2>3. /\ job'[p].step = "write_category" /\ job'[p].store = s /\ job'[p].version = v
        /\ job'[p].category = c /\ job'[p].units = j.units
        /\ \A q \in Planners \ {p} : job'[q] = job[q]
    BY <1>0, <2>2 DEF Job
  <2>4. j.units <= Stock[c]
    <3>1. [Bought(v, c) EXCEPT ![s] = 0] \in Tables
      <4> HIDE DEF s, v, c
      <4>1. Bought(v, c) \in Tables /\ 0 \in 0..MaxUnits
        BY <1>0, <2>1, BoughtTable, PlansAssumption
      <4> QED  BY <4>1 DEF Tables
    <3>2. BoughtByOthers(s, v, c) \in Nat
      BY <3>1, SumNat DEF BoughtByOthers
    <3>3. j.units \in Nat /\ Stock[c] \in Nat /\ j.units + BoughtByOthers(s, v, c) <= Stock[c]
      BY <2>1, PlansAssumption DEF Fits
    <3> HIDE DEF s, v, c
    <3> QED  BY <3>2, <3>3
  <2>5. \A q \in Planners : Fit(q)'
    BY <1>0, <2>3, <2>4
  <2>6. \A y \in Versions, z \in Categories : Bought(y, z)' = Bought(y, z)
    BY <2>2 DEF Bought, Exists
  <2>7. ASSUME NEW y \in Versions, NEW z \in Categories, NEW f \in Possible(y, z)'
        PROVE  Sum(f) <= Cardinality(Planners) * Stock[z]
    <3>1. f \in Tables
      BY DEF Possible, Tables
    <3>2. ASSUME NEW t \in Stores
          PROVE  \/ f[t] = Bought(y, z)[t]
                 \/ \E q \in Planners \ {p} : Pending(q, t, y, z) /\ f[t] = job[q].units
                 \/ t = s /\ y = v /\ z = c /\ f[t] = j.units
      BY <2>3, <2>6 DEF Possible, Pending
    <3>3. CASE y = v /\ z = c /\ f[s] = j.units
      <4>1. \A t \in Stores \ {s} :
              \/ f[t] = Bought(v, c)[t]
              \/ \E q \in Planners \ {p} : Pending(q, t, v, c) /\ f[t] = job[q].units
        BY <3>2, <3>3
      <4> HIDE DEF s, v, c
      <4> QED  BY <2>1, <3>1, <3>3, <4>1, CheckedTable
    <3>4. CASE ~(y = v /\ z = c /\ f[s] = j.units)
      <4>1. f \in Possible(y, z)
        BY <3>1, <3>2, <3>4 DEF Possible
      <4> QED  BY <1>0, <4>1
    <3> QED  BY <3>3, <3>4
  <2> QED  BY <2>5, <2>7 DEF StockInv
<1>4. ASSUME ~ReadOthers(p), ~WriteCategory(p)  PROVE StockInv'
  BY <1>0, <1>1, <1>4, PurchaseSteps
<1> QED  BY <1>2, <1>3, <1>4

\* At first nothing is bought and nothing is pending.
LEMMA StockInit == PlansInit => StockInv
<1> SUFFICES ASSUME PlansInit  PROVE StockInv
  OBVIOUS
<1>1. PlansInv /\ \A q \in Planners : job[q].step # "write_category"
  BY PlansInitially, NoJobType DEF PlansInit
<1>2. ASSUME NEW v \in Versions, NEW c \in Categories, NEW f \in Possible(v, c)
      PROVE  Sum(f) <= Cardinality(Planners) * Stock[c]
  <2>1. \A s \in Stores : plans[<<s, v>>] = EmptyPlan \/ plans[<<s, v>>] = None
    BY DEF PlansInit
  <2>2. ASSUME NEW s \in Stores  PROVE Bought(v, c)[s] = 0
    <3>1. EmptyPlan.units[c] = 0
      BY DEF EmptyPlan
    <3>2. (IF plans[<<s, v>>] # None THEN plans[<<s, v>>].units[c] ELSE 0) = 0
      BY <2>1, <3>1
    <3> QED  BY <3>2 DEF Bought, Exists
  <2>3. f = [s \in Stores |-> 0]
    BY <1>1, <2>2 DEF Possible, Pending, Tables
  <2>4. Sum(f) = 0
    BY <2>3, SumAssumption
  <2>5. Cardinality(Planners) \in Nat /\ Stock[c] \in Nat
    BY PlansAssumption, FS_CardinalityType
  <2>6. \A m, n \in Nat : m * n >= 0
    OBVIOUS
  <2> QED  BY <2>4, <2>5, <2>6
<1> QED  BY <1>1, <1>2 DEF StockInv

\* What the stores buy of a category never exceeds the stock by more than once the
\* stock for every further request that is handled at the same time: requests
\* handled one at a time keep to the stock.
THEOREM StockTheorem == PlansSpec => []StockOverrunBounded
<1>1. StockInv => StockOverrunBounded
  BY BoughtTable DEF StockInv, StockOverrunBounded
<1>2. ASSUME StockInv, [PlansNext]_allVars  PROVE StockInv'
  <2>1. PlansInv'
    BY <1>2, PlansKept DEF StockInv
  <2>2. CASE \E p \in Planners : PlanStep(p) \/ PlanRequests(p)
    BY <1>2, <2>1, <2>2, StockStep
  <2>3. CASE UNCHANGED planVars
    <3>1. \A v \in Versions, c \in Categories : Possible(v, c)' = Possible(v, c)
      BY <2>3 DEF planVars, Possible, Pending, Bought, Exists, Tables
    <3> QED  BY <1>2, <2>1, <2>3, <3>1 DEF planVars, StockInv
  <2> QED  BY <1>2, <2>2, <2>3 DEF PlansNext, PlanNext, allVars
<1> QED  BY <1>1, <1>2, StockInit, PTL DEF PlansSpec

-----------------------------------------------------------------------------
(* The quiz beside the plans.  The requests about plans read who has         *)
(* answered and change nothing of the quiz.                                  *)

\* Whatever holds of the quiz on its own holds while stores plan.
THEOREM QuizBesideTheorem == PlansSpec => QuizSpec
<1>1. PlansInit => QuizInit
  BY DEF PlansInit
<1>2. ASSUME PlansInv, [PlansNext]_allVars  PROVE [QuizNext]_quizVars
  BY <1>2, PlansSteps
<1> QED  BY <1>1, <1>2, PlansInitially, PlansKept, PTL DEF PlansSpec, QuizSpec

\* So does what one quiz request at a time keeps current.
THEOREM PlannedScoreTheorem ==
  ASSUME Cardinality(QuizWorkers) = 1, "crash" \notin QuizMix
  PROVE  PlansSpec => []ScoreCurrent
BY QuizBesideTheorem, ScoreCurrentTheorem, PTL
=============================================================================
