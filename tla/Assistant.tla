----------------------------- MODULE Assistant -----------------------------
(***************************************************************************)
(* The assistant: the chat of the page (useAssistantChat), the request it   *)
(* makes (AssistantService.ask) and the chain of models behind it           *)
(* (LlmService.ask), which goes from one model to the next when one is out  *)
(* of order.  What is asked and answered is left out.                       *)
(***************************************************************************)
EXTENDS SequencesExt

CONSTANTS
  Providers,
  Models,
  Settings,   \* the environments the server may have been started with
  MaxAsked    \* bound: questions put

Attempt == [provider : Providers, model : Models]

\* The models of each provider in turn, the primary before its fallbacks; a
\* provider may be named twice, and without models it is passed over.
BuildAttempts(s) ==
  FlattenSeq([i \in DOMAIN s.order |->
    [j \in DOMAIN s.models[s.order[i]] |->
      [provider |-> s.order[i], model |-> s.models[s.order[i]][j]]]])

ASSUME AssistantAssumption ==
  /\ MaxAsked \in Nat
  /\ \A s \in Settings :
       /\ s.keys \subseteq Providers
       /\ BuildAttempts(s) \in Seq(Attempt)

VARIABLES
  setting,       \* the environment of the server; it never changes
  messages,      \* the chat: [role, nr], an answer bearing its question's number
  isLoading,
  error,
  lastQuestion,  \* the question a retry puts again; 0 is none
  asked,         \* questions put so far
  call,          \* the request: where it is, its attempt, why it failed
  tried,         \* history: the attempts whose model this request has called
  wiped          \* history: has the chat been emptied under a request?

chat == <<messages, isLoading, error, lastQuestion, asked, wiped>>
avars == <<setting, chat, call, tried>>

attempts == BuildAttempts(setting)

NoCall == [at |-> "none", index |-> 0, nr |-> 0, why |-> "none"]

\* The attempts that have a key to be made with.
Keyed == {i \in DOMAIN attempts : attempts[i].provider \in setting.keys}

-----------------------------------------------------------------------------
(* The chat.                                                               *)

Put(nr) ==
  /\ ~isLoading
  /\ isLoading' = TRUE
  /\ error' = FALSE
  /\ lastQuestion' = nr
  /\ call' = [at |-> "service", index |-> 0, nr |-> nr, why |-> "none"]
  /\ tried' = <<>>
  /\ UNCHANGED <<setting, wiped>>

Ask ==
  /\ asked < MaxAsked
  /\ asked' = asked + 1
  /\ messages' = Append(messages, [role |-> "user", nr |-> asked'])
  /\ Put(asked')

\* The button stands beside the error; the question is not shown again.
Retry ==
  /\ error /\ lastQuestion # 0
  /\ Put(lastQuestion)
  /\ UNCHANGED <<messages, asked>>

\* Empties the chat; a request under way goes on.
Reset ==
  /\ messages # <<>>
  /\ messages' = <<>>
  /\ error' = FALSE
  /\ lastQuestion' = 0
  /\ wiped' = isLoading
  /\ UNCHANGED <<setting, isLoading, asked, call, tried>>

\* Another page: the chat is mounted anew and no one hears the answer.
Navigate ==
  /\ messages' = <<>> /\ isLoading' = FALSE /\ error' = FALSE
  /\ lastQuestion' = 0
  /\ wiped' = FALSE
  /\ call' = NoCall
  /\ tried' = <<>>
  /\ UNCHANGED <<setting, asked>>

AnswerShown ==
  /\ call.at = "answered"
  /\ messages' = Append(messages, [role |-> "assistant", nr |-> call.nr])
  /\ isLoading' = FALSE
  /\ call' = NoCall
  /\ UNCHANGED <<setting, error, lastQuestion, asked, tried, wiped>>

FailureShownSlip ==   \* forgets what to try again
  /\ call.at = "failed"
  /\ error' = TRUE
  /\ lastQuestion' = 0
  /\ isLoading' = FALSE
  /\ call' = NoCall
  /\ UNCHANGED <<setting, messages, asked, tried, wiped>>

FailureShown ==
  /\ call.at = "failed"
  /\ error' = TRUE
  /\ isLoading' = FALSE
  /\ call' = NoCall
  /\ UNCHANGED <<setting, messages, lastQuestion, asked, tried, wiped>>

-----------------------------------------------------------------------------
(* The request.                                                            *)

Serve(at, next) ==
  /\ call.at = at
  /\ call' = next
  /\ UNCHANGED <<setting, chat>>

Answered == [call EXCEPT !.at = "answered"]
Failed(why) == [call EXCEPT !.at = "failed", !.why = why]

\* The attempt after this one, or the end of the chain.
NextAttemptSlip ==   \* the one before the last is taken for the last
  IF call.index + 1 < Len(attempts)
    THEN [call EXCEPT !.at = "attempt", !.index = @ + 1]
    ELSE Failed("unavailable")

NextAttempt ==
  IF call.index < Len(attempts)
    THEN [call EXCEPT !.at = "attempt", !.index = @ + 1]
    ELSE Failed("unavailable")

\* A question out of scope is answered without a model.
OutOfScope == Serve("service", Answered) /\ UNCHANGED tried

\* buildContext finds no such session or store, or the user is not in it.
NoContext == Serve("service", Failed("refused")) /\ UNCHANGED tried

Begin == Serve("service", NextAttempt) /\ UNCHANGED tried

MissingKeySlip ==   \* goes on with the same attempt
  /\ call.index \notin Keyed
  /\ Serve("attempt", call)
  /\ UNCHANGED tried

MissingKey ==
  /\ call.index \notin Keyed
  /\ Serve("attempt", NextAttempt)
  /\ UNCHANGED tried

CallModel ==
  /\ call.index \in Keyed
  /\ Serve("attempt", [call EXCEPT !.at = "model"])
  /\ tried' = Append(tried, call.index)

ModelAnswers == Serve("model", Answered) /\ UNCHANGED tried

\* 429, 500, 502, 503, 504: with a retry-after of at most three seconds the
\* next model is called after it, else at once.
ModelBusy == Serve("model", [call EXCEPT !.at = "pause"]) /\ UNCHANGED tried

PauseOver == Serve("pause", NextAttempt) /\ UNCHANGED tried

\* Any other status, and an error without one, such as a timeout, ends the chain.
ModelRefuses == Serve("model", Failed("refused")) /\ UNCHANGED tried

\* The page's request is lost, or refused on its way.
Lost ==
  /\ call.at \in {"service", "attempt", "model", "pause"}
  /\ Serve(call.at, Failed("lost"))
  /\ UNCHANGED tried

-----------------------------------------------------------------------------
AssistantInit ==
  /\ setting \in Settings
  /\ messages = <<>> /\ isLoading = FALSE /\ error = FALSE
  /\ lastQuestion = 0 /\ asked = 0
  /\ call = NoCall
  /\ tried = <<>>
  /\ wiped = FALSE

\* What the server does for a question by itself.
Serving ==
  \/ OutOfScope \/ NoContext \/ Begin \/ MissingKey \/ CallModel
  \/ ModelAnswers \/ ModelBusy \/ PauseOver \/ ModelRefuses

AssistantNext ==
  \/ Ask \/ Retry \/ Reset \/ Navigate \/ AnswerShown \/ FailureShown
  \/ Serving \/ Lost

\* The server works on, a model answers or is given up after the client's
\* timeout, and a response reaches the page.
AssistantSpec ==
  /\ AssistantInit /\ [][AssistantNext]_avars
  /\ WF_avars(Serving) /\ WF_avars(AnswerShown \/ FailureShown)

-----------------------------------------------------------------------------
Message == [role : {"user", "assistant"}, nr : 1..MaxAsked]

AssistantTypeOK ==
  /\ setting \in Settings
  /\ messages \in Seq(Message)
  /\ isLoading \in BOOLEAN /\ error \in BOOLEAN /\ wiped \in BOOLEAN
  /\ lastQuestion \in 0..asked
  /\ asked \in 0..MaxAsked
  /\ call \in [at : {"none", "service", "attempt", "model", "pause", "answered", "failed"},
               index : 0..Len(attempts), nr : 0..MaxAsked,
               why : {"none", "unavailable", "refused", "lost"}]
  /\ call.at \in {"attempt", "model", "pause"} => call.index # 0
  /\ call.at = "none" <=> ~isLoading
  /\ call.at # "none" => call.nr # 0
  /\ tried \in Seq(DOMAIN attempts)

\* The chain is gone through once, in the order it is configured in: the attempts
\* that have a key are made one after the other, none is passed over and none is
\* made again.  So when the assistant says it is unavailable, every model there
\* is has been called (llm.service.spec.ts, over every course of the chain).
ChainInOrder ==
  /\ \A i, j \in DOMAIN tried : i < j => tried[i] < tried[j]
  /\ call.at # "none" =>
       /\ {i \in Keyed : i < call.index} \subseteq Range(tried)
       /\ Range(tried) \subseteq {i \in Keyed : i <= call.index}
  /\ call.why = "unavailable" => Range(tried) = Keyed

\* An answer stands under the question it answers, and beside an error stands a
\* question that can be tried again, as long as nobody empties the chat while a
\* question waits: the answer then appears alone, and the button of an error
\* that appears then does nothing (seen in TLC without `wiped`).
AnswersItsQuestion ==
  ~wiped =>
    /\ \A i \in DOMAIN messages : messages[i].role = "assistant" =>
         i > 1 /\ messages[i - 1] = [role |-> "user", nr |-> messages[i].nr]
    /\ error => /\ messages # <<>>
                /\ Last(messages) = [role |-> "user", nr |-> lastQuestion]

\* The chat keeps what Exchange promises.
Outcome ==
  IF error THEN "failed"
  ELSE IF messages # <<>> /\ Last(messages).role = "assistant" THEN "answered"
  ELSE "none"

Promise == INSTANCE Exchange WITH waiting <- isLoading, outcome <- Outcome

\* useAssistantChat and LlmService implement Exchange: every question put is
\* answered or fails, once, whichever models are out of order or without a key.
KeepsPromise == Promise!Spec
=============================================================================
