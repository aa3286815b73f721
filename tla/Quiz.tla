-------------------------------- MODULE Quiz --------------------------------
(***************************************************************************)
(* The quiz of a session (QuizService): the facilitator replaces the        *)
(* questions of a round, the players of a store answer them once, and the  *)
(* store's score is consolidated from their answers.                       *)
(*                                                                         *)
(* As in Roster a request is a process that makes one query at a time.      *)
(* What the database accepts, and what a handler checks, at its next query *)
(* is Accepts(w): where it is false the request ends (Fail).  A crash ends *)
(* a request anywhere, where the instance has crashes.                     *)
(*                                                                         *)
(* Who plays for which store is changed by StoresService while the quiz    *)
(* goes on; of that only the outcome is here (Transfers).                  *)
(***************************************************************************)
EXTENDS Naturals, FiniteSets

CONSTANTS
  QuizWorkers,         \* requests to QuizService handled at the same time
  Stores,
  Users,
  Managers,            \* the players who are STORE_MANAGER, who never move
  Rounds,
  QuestionsPerRound,   \* QUESTIONS_PER_ROUND
  QuestionIds,         \* identities a QuizQuestion row can take
  QuizMix,             \* what happens in this instance
  Answering,           \* the players who send answers in this instance
  InitialTeams,        \* the players of each store at first
  InitialQuestions,    \* the quizzes saved so far
  InitialAnswers,      \* what has been answered so far, and consolidated
  None                 \* a field of a request that is not set

QuizOperations == {"questions", "submit", "consolidate", "transfer", "crash"}

Question == [id : QuestionIds, round : Rounds, order : Nat \ {0}, options : BOOLEAN]

Answer ==
  [user : Users, store : Stores, question : QuestionIds, round : Rounds, correct : BOOLEAN]

\* QuizAnswer: the percentage is right / outOf, and zero when outOf is zero.
Score == [questions : Nat, right : Nat, outOf : Nat]

ASSUME QuizAssumption ==
  /\ IsFiniteSet(QuizWorkers) /\ IsFiniteSet(Users) /\ IsFiniteSet(QuestionIds)
  /\ QuestionIds \subseteq Nat
  /\ Managers \subseteq Users
  /\ Answering \subseteq Users
  /\ QuestionsPerRound \in Nat \ {0}
  /\ QuizMix \subseteq QuizOperations
  /\ InitialTeams \in [Stores -> SUBSET Users]
  /\ InitialQuestions \subseteq Question
  /\ InitialAnswers \subseteq Answer
  /\ None \notin Nat \cup Score \cup Users \cup Stores \cup Rounds

\* What there is at first was saved and answered like the rest: a quiz is whole and
\* has the orders the page sends, an answer belongs to a whole sheet, of a player
\* of the store, who answers a round for one store and a question once.
ASSUME InitialQuizAssumption ==
  /\ IsFiniteSet(InitialAnswers)
  /\ \A p, q \in InitialQuestions : p.order \in 1..QuestionsPerRound /\ (p.id = q.id => p = q)
  /\ \A q \in InitialQuestions :
       q.options /\ Cardinality({p.id : p \in {x \in InitialQuestions : x.round = q.round}}) = QuestionsPerRound
  /\ \A a, b \in InitialAnswers :
       /\ a.user \in InitialTeams[a.store]
       /\ a.user = b.user /\ a.round = b.round => a.store = b.store /\ (a.question = b.question => a = b)
  /\ \A a \in InitialAnswers :
       {b.question : b \in {x \in InitialAnswers : x.user = a.user /\ x.round = a.round}}
         = {p.id : p \in {q \in InitialQuestions : q.round = a.round}}

VARIABLES
  teams,       \* the players of each store, by StoreMember
  questions,   \* the QuizQuestion rows; options: are its QuizOption rows there?
  answers,     \* the UserQuizAnswer rows
  scores,      \* the QuizAnswer row of each store and round, or None
  finished,    \* <<store, round>> announced to the facilitator as QUIZ_FINISHED
  req,         \* what each worker's handler has read so far
  posed,       \* history: the rounds whose quiz has been saved
  left         \* history: the stores a player has left

quizDb   == <<teams, questions, answers, scores, finished, posed, left>>
quizVars == <<teams, questions, answers, scores, finished, req, posed, left>>

QuizSteps ==
  {"idle", "drop_options", "drop_questions", "insert_questions",
   "attempt", "load", "insert_answers", "aggregate", "upsert", "progress"}

Counts == {"answered", "team"}

NoCounts == [side \in Counts |-> None]

QuizRequest ==
  [ step  : QuizSteps,
    user  : Users \cup {None},          \* submit: the player
    store : Stores \cup {None},
    round : Rounds \cup {None},
    ids   : SUBSET QuestionIds,         \* the questions to delete, or answered
    right : SUBSET QuestionIds,         \* of those, the ones with the right option
    seen  : Score \cup {None},          \* the score aggregated
    counts : [Counts -> Nat \cup {None}] ] \* submit: players who answered, players

QuizIdle ==
  [ step |-> "idle", user |-> None, store |-> None, round |-> None, ids |-> {},
    right |-> {}, seen |-> None, counts |-> NoCounts ]

-----------------------------------------------------------------------------
(* What the queries return.                                                *)

\* The page numbers the questions from one.
Orders == 1..QuestionsPerRound

IdsOf(r) == {q.id : q \in {x \in questions : x.round = r}}

SheetOf(u, r) == {a \in answers : a.user = u /\ a.round = r}

AnswersOf(s, r) == {a \in answers : a.store = s /\ a.round = r}

WhoAnswered(s, r) == {a.user : a \in AnswersOf(s, r)}

HasAnswered(u, s, r) == \E a \in AnswersOf(s, r) : a.user = u

\* The scores consolidateStoreScore may compute from a table's rows: the number
\* of questions is that of the player who happens to come first.
ScoresFromSlip(rows) ==   \* the total taken over all rows, not per player
  { [questions |-> Cardinality(rows),
     right     |-> Cardinality({a \in rows : a.correct}),
     outOf     |-> Cardinality({a.user : a \in rows}) * Cardinality(rows)] }

ScoresFrom(rows) ==
  IF rows = {} THEN {[questions |-> 10, right |-> 0, outOf |-> 0]}
  ELSE LET players == {a.user : a \in rows}
           total(u) == Cardinality({a \in rows : a.user = u})
       IN  { [questions |-> total(u),
              right     |-> Cardinality({a \in rows : a.correct}),
              outOf     |-> Cardinality(players) * total(u)] : u \in players }

\* Neither the options nor the answers of these questions are referred to
\* (ON DELETE RESTRICT of UserQuizAnswer).
UnansweredSlip(ids) == TRUE
Unanswered(ids) == \A a \in answers : a.question \notin ids

\* @@unique([sessionId, round, order]), for the orders a save sends.
OrdersFreeSlip(r) == TRUE
OrdersFree(r) == \A q \in questions : ~(q.round = r /\ q.order \in Orders)

\* The foreign keys of an answer and @@unique([userId, questionId, round]).
InsertableSlip(u, s, r, ids) ==
  \A i \in ids : \E q \in questions : q.id = i /\ q.options

Insertable(u, s, r, ids) ==
  /\ \A i \in ids : \E q \in questions : q.id = i /\ q.options
  /\ \A a \in answers : ~(a.user = u /\ a.round = r /\ a.question \in ids)

\* As many answers as questions, each for a question of the round.
WholeSheet(ids, r) == IdsOf(r) # {} /\ ids = IdsOf(r)

IdsInUse ==
  {q.id : q \in questions} \cup {a.question : a \in answers}
    \cup UNION {req[w].ids : w \in QuizWorkers}

\* The identities of the rows a save inserts: UUIDs nobody knows.
FreshIds(ids) ==
  /\ ids \subseteq QuestionIds \ IdsInUse
  /\ Cardinality(ids) = QuestionsPerRound
  /\ \A i \in ids, j \in QuestionIds \ (IdsInUse \cup ids) : i < j

-----------------------------------------------------------------------------
(* Requests.                                                               *)

QuizAt(w, step) == req[w].step = step

QuizArrives(w, op) == op \in QuizMix /\ req[w] = QuizIdle

QuizGoto(w, step) == req' = [req EXCEPT ![w].step = step]

\* What the handler, or the database for it, checks at the next query.
Accepts(w) ==
  LET q == req[w] IN
  /\ q.step \in {"drop_options", "drop_questions"} => Unanswered(q.ids)
  /\ q.step = "insert_questions" => OrdersFree(q.round)
  /\ q.step = "attempt" => ~HasAnswered(q.user, q.store, q.round)
  /\ q.step = "load" => WholeSheet(q.ids, q.round)
  /\ q.step = "insert_answers" => Insertable(q.user, q.store, q.round, q.ids)

QuizFail(w) ==
  /\ ~QuizAt(w, "idle")
  /\ ~Accepts(w) \/ "crash" \in QuizMix
  /\ req' = [req EXCEPT ![w] = QuizIdle]
  /\ UNCHANGED quizDb

-----------------------------------------------------------------------------
(* createQuestions: find the old questions, delete their options, delete    *)
(* them, and only then insert the new ones in one transaction.              *)

SaveFind(w, r) ==
  /\ QuizArrives(w, "questions")
  /\ req' = [req EXCEPT ![w] =
       [QuizIdle EXCEPT !.round = r, !.ids = IdsOf(r),
          !.step = IF IdsOf(r) = {} THEN "insert_questions" ELSE "drop_options"]]
  /\ UNCHANGED quizDb

SaveDropOptions(w) ==
  /\ QuizAt(w, "drop_options") /\ Accepts(w)
  /\ questions' =
       {IF q.id \in req[w].ids THEN [q EXCEPT !.options = FALSE] ELSE q : q \in questions}
  /\ QuizGoto(w, "drop_questions")
  /\ UNCHANGED <<teams, answers, scores, finished, posed, left>>

SaveDropQuestions(w) ==
  /\ QuizAt(w, "drop_questions") /\ Accepts(w)
  /\ questions' = {q \in questions : q.id \notin req[w].ids}
  /\ QuizGoto(w, "insert_questions")
  /\ UNCHANGED <<teams, answers, scores, finished, posed, left>>

SaveInsert(w) ==
  /\ QuizAt(w, "insert_questions") /\ Accepts(w)
  /\ \E ids \in SUBSET QuestionIds :
       /\ FreshIds(ids)
       /\ \E order \in [ids -> Orders] :
            /\ \A i, j \in ids : i < j => order[i] < order[j]
            /\ questions' = questions \cup
                 {[id |-> i, round |-> req[w].round, order |-> order[i], options |-> TRUE] : i \in ids}
  /\ posed' = posed \cup {req[w].round}
  /\ req' = [req EXCEPT ![w] = QuizIdle]
  /\ UNCHANGED <<teams, answers, scores, finished, left>>

-----------------------------------------------------------------------------
(* submitAnswers: the member, his earlier attempts, the questions, then the  *)
(* answers in one transaction; then the score and the progress.              *)

\* The page answers questions it was given with their options.
SubmitMember(w, u, s, r, ids, right) ==
  /\ QuizArrives(w, "submit")
  /\ u \in teams[s]
  /\ ids # {} /\ right \subseteq ids
  /\ \A i \in ids : \E q \in questions : q.id = i /\ q.round = r /\ q.options
  /\ req' = [req EXCEPT ![w] =
       [QuizIdle EXCEPT !.step = "attempt", !.user = u, !.store = s, !.round = r,
                        !.ids = ids, !.right = right]]
  /\ UNCHANGED quizDb

SubmitAttempt(w) ==
  /\ QuizAt(w, "attempt") /\ Accepts(w)
  /\ QuizGoto(w, "load")
  /\ UNCHANGED quizDb

SubmitLoad(w) ==
  /\ QuizAt(w, "load") /\ Accepts(w)
  /\ QuizGoto(w, "insert_answers")
  /\ UNCHANGED quizDb

SubmitInsert(w) ==
  LET q == req[w] IN
  /\ QuizAt(w, "insert_answers") /\ Accepts(w)
  /\ answers' = answers \cup
       {[user |-> q.user, store |-> q.store, question |-> i, round |-> q.round,
         correct |-> i \in q.right] : i \in q.ids}
  /\ QuizGoto(w, "aggregate")
  /\ UNCHANGED <<teams, questions, scores, finished, posed, left>>

\* The two counts of a Promise.all come back in either order.
SubmitCount(w, side) ==
  LET q == req[w] IN
  /\ QuizAt(w, "progress")
  /\ q.counts[side] = None
  /\ req' = [req EXCEPT ![w].counts[side] =
       Cardinality(IF side = "team" THEN teams[q.store] ELSE WhoAnswered(q.store, q.round))]
  /\ UNCHANGED quizDb

SubmitProgressSlip(w) ==   \* one answer more than there are players
  LET q == req[w] IN
  /\ QuizAt(w, "progress")
  /\ \A side \in Counts : q.counts[side] # None
  /\ finished' = IF q.counts.answered > q.counts.team
                 THEN finished \cup {<<q.store, q.round>>} ELSE finished
  /\ req' = [req EXCEPT ![w] = QuizIdle]
  /\ UNCHANGED <<teams, questions, answers, scores, posed, left>>

SubmitProgress(w) ==
  LET q == req[w] IN
  /\ QuizAt(w, "progress")
  /\ \A side \in Counts : q.counts[side] # None
  /\ finished' = IF q.counts.answered >= q.counts.team
                 THEN finished \cup {<<q.store, q.round>>} ELSE finished
  /\ req' = [req EXCEPT ![w] = QuizIdle]
  /\ UNCHANGED <<teams, questions, answers, scores, posed, left>>

-----------------------------------------------------------------------------
(* consolidateStoreScore: at the end of every submission, or asked for by    *)
(* the facilitator.                                                          *)

ConsolidateArrives(w, s, r) ==
  /\ QuizArrives(w, "consolidate")
  /\ req' = [req EXCEPT ![w] =
       [QuizIdle EXCEPT !.step = "aggregate", !.store = s, !.round = r]]
  /\ UNCHANGED quizDb

ConsolidateRead(w) ==
  /\ QuizAt(w, "aggregate")
  /\ \E score \in ScoresFrom(AnswersOf(req[w].store, req[w].round)) :
       req' = [req EXCEPT ![w] = [@ EXCEPT !.step = "upsert", !.seen = score]]
  /\ UNCHANGED quizDb

ConsolidateUpsertSlip(w) ==   \* the right answers are added to those stored
  LET q == req[w]
      old == scores[q.store, q.round]
      new == IF old = None THEN q.seen ELSE [q.seen EXCEPT !.right = @ + old.right]
  IN
  /\ QuizAt(w, "upsert")
  /\ scores' = [scores EXCEPT ![<<q.store, q.round>>] = new]
  /\ req' = [req EXCEPT ![w] = IF q.user = None THEN QuizIdle ELSE [q EXCEPT !.step = "progress"]]
  /\ UNCHANGED <<teams, questions, answers, finished, posed, left>>

ConsolidateUpsert(w) ==
  LET q == req[w] IN
  /\ QuizAt(w, "upsert")
  /\ scores' = [scores EXCEPT ![<<q.store, q.round>>] = q.seen]
  /\ req' = [req EXCEPT ![w] = IF q.user = None THEN QuizIdle ELSE [q EXCEPT !.step = "progress"]]
  /\ UNCHANGED <<teams, questions, answers, finished, posed, left>>

-----------------------------------------------------------------------------
(* StoresService.transfer, of which only the outcome matters here: a player  *)
(* leaves his store for another one.                                         *)

Transfers(u, s, t) ==
  /\ "transfer" \in QuizMix
  /\ u \in teams[s] \ Managers /\ u \notin teams[t]
  /\ teams' = [teams EXCEPT ![s] = @ \ {u}, ![t] = @ \cup {u}]
  /\ left' = left \cup {s}
  /\ UNCHANGED <<questions, answers, scores, finished, req, posed>>

-----------------------------------------------------------------------------
QuizInit ==
  /\ teams = InitialTeams
  /\ questions = InitialQuestions
  /\ answers = InitialAnswers
  /\ scores = [k \in Stores \X Rounds |->
       LET rows == {a \in InitialAnswers : <<a.store, a.round>> = k}
       IN  IF rows = {} THEN None ELSE CHOOSE score \in ScoresFrom(rows) : TRUE]
  /\ finished = {k \in Stores \X Rounds :
       /\ InitialTeams[k[1]] # {}
       /\ InitialTeams[k[1]] \subseteq {a.user : a \in {x \in InitialAnswers : <<x.store, x.round>> = k}}}
  /\ req = [w \in QuizWorkers |-> QuizIdle]
  /\ posed = {q.round : q \in InitialQuestions}
  /\ left = {}

QuizStep(w) ==
  \/ SaveDropOptions(w)
  \/ SaveDropQuestions(w)
  \/ SaveInsert(w)
  \/ SubmitAttempt(w)
  \/ SubmitLoad(w)
  \/ SubmitInsert(w)
  \/ ConsolidateRead(w)
  \/ ConsolidateUpsert(w)
  \/ \E side \in Counts : SubmitCount(w, side)
  \/ SubmitProgress(w)
  \/ QuizFail(w)

QuizRequests(w) ==
  \/ \E r \in Rounds : SaveFind(w, r)
  \/ \E u \in Answering, s \in Stores, r \in Rounds :
       \E ids \in SUBSET IdsOf(r) : \E right \in SUBSET ids :
         SubmitMember(w, u, s, r, ids, right)
  \/ \E s \in Stores, r \in Rounds : ConsolidateArrives(w, s, r)

QuizNext ==
  \/ \E w \in QuizWorkers : QuizStep(w) \/ QuizRequests(w)
  \/ \E u \in Users, s, t \in Stores : Transfers(u, s, t)

QuizSpec == QuizInit /\ [][QuizNext]_quizVars

-----------------------------------------------------------------------------
(* Properties.                                                             *)

QuizQuiet == \A w \in QuizWorkers : req[w] = QuizIdle

\* Every variable holds what its table or handler can hold.
QuizTypeOK ==
  /\ teams \in [Stores -> SUBSET Users]
  /\ questions \subseteq Question
  /\ answers \subseteq Answer
  /\ scores \in [Stores \X Rounds -> Score \cup {None}]
  /\ finished \subseteq Stores \X Rounds
  /\ req \in [QuizWorkers -> QuizRequest]
  /\ posed \subseteq Rounds
  /\ left \subseteq Stores

\* A player answers a round once ("One attempt per round", submitAnswers): what
\* he answered is never added to or changed, however his submissions overlap,
\* through another store he has moved to, or after the quiz was saved again.
OneAttempt ==
  [][\A u \in Users, r \in Rounds : SheetOf(u, r) # {} => SheetOf(u, r)' = SheetOf(u, r)]_quizVars

\* "All users answered the same questions" (groupAnswersByUser): otherwise the
\* number of questions of whoever comes first is wrong for the others, and a
\* score above 100 per cent is possible.
SameSheet ==
  \A a, b \in answers : a.round = b.round =>
    {x.question : x \in SheetOf(a.user, a.round)} = {x.question : x \in SheetOf(b.user, b.round)}

\* A score states the share of right answers among the answers given.
StatesShare(score, rows) ==
  score.right * Cardinality(rows) = Cardinality({a \in rows : a.correct}) * score.outOf

\* A stored score may lag behind the answers, but it is the score of some of the
\* players of the store, with all they answered, at the time it was aggregated.
ScoreWasTrue ==
  \A s \in Stores, r \in Rounds : scores[s, r] # None =>
    \E players \in SUBSET WhoAnswered(s, r) :
      /\ scores[s, r].outOf = QuestionsPerRound * Cardinality(players)
      /\ StatesShare(scores[s, r], {a \in AnswersOf(s, r) : a.user \in players})

\* With no request under way the stored score is that of all the answers given.
\* It needs requests one at a time, and none that dies between its insert of the
\* answers and its upsert of the score.
ScoreCurrent ==
  QuizQuiet =>
    \A s \in Stores, r \in Rounds : AnswersOf(s, r) # {} =>
      /\ scores[s, r] # None
      /\ scores[s, r].outOf = Cardinality(AnswersOf(s, r))
      /\ StatesShare(scores[s, r], AnswersOf(s, r))

\* Saving a quiz again never leaves the round without one, or with questions
\* that have no options, once every request is over and none has died: the old
\* questions are deleted before the new ones are inserted.
PosedStays ==
  QuizQuiet =>
    /\ \A q \in questions : q.options
    /\ \A r \in posed : Cardinality(IdsOf(r)) = QuestionsPerRound

\* The facilitator is told that a store has finished its quiz: of two players who
\* answer last at the same time, at least one counts the other.  (A store whose
\* quiz is complete because somebody left it is not announced.)
FinishAnnounced ==
  QuizQuiet =>
    \A s \in Stores \ left, r \in Rounds :
      teams[s] # {} /\ teams[s] \subseteq WhoAnswered(s, r) => <<s, r>> \in finished
=============================================================================
