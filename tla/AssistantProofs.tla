-------------------------- MODULE AssistantProofs --------------------------
(***************************************************************************)
(* What the assistant keeps for every environment of providers and models   *)
(* and any number of questions, and that its chat implements the safety part *)
(* of Exchange.                                                             *)
(***************************************************************************)
EXTENDS Assistant, TLAPS

ServingStates == {"service", "attempt", "model", "pause"}

CallRecord ==
  [at : {"none", "answered", "failed"} \cup ServingStates, index : 0..Len(attempts),
   nr : 0..MaxAsked, why : {"none", "unavailable", "refused", "lost"}]

\* Where the model behind the setting matters, only that it is a sequence.
LEMMA AttemptsSeq ==
  ASSUME setting \in Settings
  PROVE  attempts \in Seq(Attempt) /\ Len(attempts) \in Nat /\ DOMAIN attempts = 1..Len(attempts)
BY AssistantAssumption DEF attempts

\* The type invariant in the shape the proofs use.
LEMMA TypeShape ==
  AssistantTypeOK <=>
    /\ setting \in Settings
    /\ messages \in Seq(Message)
    /\ isLoading \in BOOLEAN /\ error \in BOOLEAN /\ wiped \in BOOLEAN
    /\ lastQuestion \in 0..asked
    /\ asked \in 0..MaxAsked
    /\ call \in CallRecord
    /\ call.at \in {"attempt", "model", "pause"} => call.index # 0
    /\ call.at = "none" <=> ~isLoading
    /\ call.at # "none" => call.nr # 0
    /\ tried \in Seq(DOMAIN attempts)
<1>1. {"none", "answered", "failed"} \cup ServingStates
        = {"none", "service", "attempt", "model", "pause", "answered", "failed"}
  BY DEF ServingStates
<1> QED  BY <1>1 DEF AssistantTypeOK, CallRecord

\* A step of the server replaces the request and perhaps the history, no more.
ServerStep(next) ==
  /\ call.at \in ServingStates
  /\ call' = next
  /\ UNCHANGED <<setting, chat>>

\* Every step of the server is one of five.
LEMMA ServerCases ==
  ASSUME Serving \/ Lost
  PROVE  \/ ServerStep(Answered) /\ UNCHANGED tried
         \/ \E why \in {"refused", "lost"} : ServerStep(Failed(why)) /\ UNCHANGED tried
         \/ call.at = "service" /\ ServerStep(NextAttempt) /\ UNCHANGED tried
         \/ call.at = "attempt" /\ call.index \notin Keyed /\ ServerStep(NextAttempt) /\ UNCHANGED tried
         \/ call.at = "pause" /\ ServerStep(NextAttempt) /\ UNCHANGED tried
         \/ /\ call.at = "attempt" /\ call.index \in Keyed
            /\ ServerStep([call EXCEPT !.at = "model"]) /\ tried' = Append(tried, call.index)
         \/ call.at = "model" /\ ServerStep([call EXCEPT !.at = "pause"]) /\ UNCHANGED tried
BY DEF Serving, Lost, OutOfScope, NoContext, Begin, MissingKey, CallModel, ModelAnswers, ModelBusy,
       PauseOver, ModelRefuses, Serve, ServerStep, ServingStates

\* The next attempt is one of the chain, or the chain has come to its end.
LEMMA NextAttemptIs ==
  ASSUME AssistantTypeOK
  PROVE  /\ NextAttempt \in CallRecord
         /\ NextAttempt.nr = call.nr
         /\ \/ /\ call.index < Len(attempts)
               /\ NextAttempt.at = "attempt" /\ NextAttempt.index = call.index + 1
               /\ NextAttempt.why = call.why
            \/ /\ call.index = Len(attempts)
               /\ NextAttempt.at = "failed" /\ NextAttempt.index = call.index
               /\ NextAttempt.why = "unavailable"
<1>1. call \in CallRecord /\ setting \in Settings
  BY TypeShape
<1>2. Len(attempts) \in Nat /\ call.index \in 0..Len(attempts)
  BY <1>1, AttemptsSeq DEF CallRecord
<1>3. CASE call.index < Len(attempts)
  <2>1. NextAttempt = [call EXCEPT !.at = "attempt", !.index = call.index + 1]
    BY <1>1, <1>3 DEF NextAttempt, CallRecord
  <2>2. call.index + 1 \in 0..Len(attempts)
    BY <1>2, <1>3
  <2> QED  BY <1>1, <1>3, <2>1, <2>2 DEF CallRecord, ServingStates
<1>4. CASE call.index = Len(attempts)
  <2>1. NextAttempt = [call EXCEPT !.at = "failed", !.why = "unavailable"]
    BY <1>2, <1>4 DEF NextAttempt, Failed
  <2> QED  BY <1>1, <1>4, <2>1 DEF CallRecord, ServingStates
<1> QED  BY <1>2, <1>3, <1>4

-----------------------------------------------------------------------------
(* Types.                                                                  *)

\* An empty chat without a request is well formed.
LEMMA TypeInit == AssistantInit => AssistantTypeOK
<1> SUFFICES ASSUME AssistantInit  PROVE AssistantTypeOK
  OBVIOUS
<1>1. setting \in Settings /\ Len(attempts) \in Nat
  BY AttemptsSeq DEF AssistantInit
<1>2. call \in CallRecord /\ call.at = "none"
  BY <1>1, AssistantAssumption DEF AssistantInit, NoCall, CallRecord
<1>3. messages \in Seq(Message) /\ tried \in Seq(DOMAIN attempts)
  BY DEF AssistantInit
<1>4. /\ isLoading = FALSE /\ error = FALSE /\ wiped = FALSE
      /\ asked \in 0..MaxAsked /\ lastQuestion \in 0..asked
  BY AssistantAssumption DEF AssistantInit
<1> QED  BY <1>1, <1>2, <1>3, <1>4, TypeShape

\* Steps of the server keep the types.
LEMMA ServerType ==
  ASSUME AssistantTypeOK, Serving \/ Lost
  PROVE  AssistantTypeOK'
<1>1. /\ setting' = setting /\ attempts' = attempts /\ CallRecord' = CallRecord
      /\ UNCHANGED chat /\ call.at \in ServingStates
  BY ServerCases DEF ServerStep, attempts, CallRecord
<1>2. /\ call \in CallRecord /\ tried \in Seq(DOMAIN attempts)
      /\ call.at = "none" <=> ~isLoading
      /\ call.at # "none" => call.nr # 0
  BY TypeShape
<1> DEFINE Served(c) ==
             /\ c \in CallRecord /\ c.at # "none" /\ c.nr = call.nr
             /\ c.at \in {"attempt", "model", "pause"} => c.index # 0
<1>3. Served(call')
  <2>1. call.index \in Nat /\ (call.at \in {"attempt", "model", "pause"} => call.index # 0)
    BY TypeShape, AttemptsSeq DEF CallRecord
  <2>2. Answered \in CallRecord /\ Answered.at = "answered" /\ Answered.nr = call.nr
    BY <1>2 DEF Answered, CallRecord
  <2>3. \A why \in {"refused", "lost"} : Failed(why) \in CallRecord /\ Failed(why).at = "failed" /\ Failed(why).nr = call.nr
    BY <1>2 DEF Failed, CallRecord
  <2>4. \A at \in {"model", "pause"} : /\ [call EXCEPT !.at = at] \in CallRecord
                                       /\ [call EXCEPT !.at = at].at = at
                                       /\ [call EXCEPT !.at = at].index = call.index
                                       /\ [call EXCEPT !.at = at].nr = call.nr
    BY <1>2 DEF CallRecord, ServingStates
  <2>5. /\ NextAttempt \in CallRecord /\ NextAttempt.at \in {"attempt", "failed"}
        /\ NextAttempt.at = "attempt" => NextAttempt.index # 0
        /\ NextAttempt.nr = call.nr
    BY <2>1, NextAttemptIs
  <2>6. \/ call' = Answered
        \/ \E why \in {"refused", "lost"} : call' = Failed(why)
        \/ call' = NextAttempt
        \/ call.at = "attempt" /\ call' = [call EXCEPT !.at = "model"]
        \/ call.at = "model" /\ call' = [call EXCEPT !.at = "pause"]
    BY ServerCases DEF ServerStep
  <2>7. CASE call' = Answered
    BY <2>2, <2>7
  <2>8. CASE \E why \in {"refused", "lost"} : call' = Failed(why)
    BY <2>3, <2>8
  <2>9. CASE call' = NextAttempt
    BY <2>5, <2>9
  <2>10. ASSUME NEW at \in {"model", "pause"}, call.at \in {"attempt", "model"},
                call' = [call EXCEPT !.at = at]
         PROVE  Served(call')
    BY <2>1, <2>4, <2>10
  <2> QED  BY <2>6, <2>7, <2>8, <2>9, <2>10
<1>4. tried' \in Seq(DOMAIN attempts)
  <2>1. Keyed \subseteq DOMAIN attempts
    BY DEF Keyed
  <2> QED  BY <1>2, <2>1, ServerCases
<1> QED
  <2>1. call.at # "none"
    BY <1>1 DEF ServingStates
  <2>4. isLoading' = isLoading /\ isLoading = TRUE
    BY <1>1, <2>1, TypeShape DEF chat
  <2>2. /\ call' \in CallRecord' /\ call'.at # "none" /\ call'.nr # 0 /\ isLoading' = TRUE
        /\ call'.at \in {"attempt", "model", "pause"} => call'.index # 0
    BY <1>1, <1>2, <1>3, <2>1, <2>4
  <2>5. tried' \in Seq(DOMAIN attempts')
    BY <1>1, <1>4
  <2>3. /\ setting' \in Settings /\ messages' \in Seq(Message) /\ isLoading' \in BOOLEAN
        /\ error' \in BOOLEAN /\ wiped' \in BOOLEAN /\ lastQuestion' \in 0..asked'
        /\ asked' \in 0..MaxAsked
    BY <1>1, TypeShape DEF chat
  <2> QED  BY <2>2, <2>3, <2>5 DEF AssistantTypeOK, ServingStates, CallRecord

\* Steps of the chat keep the types.
LEMMA ChatType ==
  ASSUME AssistantTypeOK,
         Ask \/ Retry \/ Reset \/ Navigate \/ AnswerShown \/ FailureShown
  PROVE  AssistantTypeOK'
<1>1. /\ setting \in Settings /\ setting' = setting /\ attempts' = attempts
  BY TypeShape DEF Ask, Retry, Put, Reset, Navigate, AnswerShown, FailureShown, attempts
<1>2. /\ messages \in Seq(Message) /\ asked \in 0..MaxAsked /\ lastQuestion \in 0..asked
      /\ call \in CallRecord /\ tried \in Seq(DOMAIN attempts)
      /\ isLoading \in BOOLEAN /\ error \in BOOLEAN /\ wiped \in BOOLEAN
      /\ call.at = "none" <=> ~isLoading
      /\ call.at # "none" => call.nr # 0
      /\ call.at \in {"attempt", "model", "pause"} => call.index # 0
  BY TypeShape
<1>3. Len(attempts) \in Nat /\ MaxAsked \in Nat
  BY <1>1, AttemptsSeq, AssistantAssumption
<1>4. NoCall \in CallRecord /\ NoCall.at = "none"
  BY <1>3 DEF NoCall, CallRecord
<1>5. \A nr \in 0..MaxAsked : [at |-> "service", index |-> 0, nr |-> nr, why |-> "none"] \in CallRecord
  BY <1>3 DEF CallRecord, ServingStates
<1>6. CallRecord' = CallRecord /\ <<>> \in Seq(Message) /\ <<>> \in Seq(DOMAIN attempts)
  BY <1>1 DEF CallRecord
<1>7. ASSUME call' \in CallRecord, call'.at \notin {"attempt", "model", "pause"},
             call'.at # "none" => call'.nr # 0,
             call'.at = "none" <=> ~isLoading', isLoading' \in BOOLEAN, error' \in BOOLEAN,
             wiped' \in BOOLEAN, messages' \in Seq(Message), asked' \in 0..MaxAsked,
             lastQuestion' \in 0..asked', tried' \in Seq(DOMAIN attempts)
      PROVE  AssistantTypeOK'
  BY <1>1, <1>7 DEF AssistantTypeOK, CallRecord, ServingStates
<1>8. CASE Ask
  <2>1. asked' \in 0..MaxAsked /\ asked' \in 1..MaxAsked /\ asked' \in 0..asked'
    BY <1>2, <1>3, <1>8 DEF Ask
  <2>2. messages' \in Seq(Message)
    BY <1>2, <1>8, <2>1 DEF Ask, Message
  <2>3. call'.at = "service" /\ call'.nr = asked' /\ call' \in CallRecord
    BY <1>5, <1>8, <2>1 DEF Ask, Put
  <2>4. /\ isLoading' = TRUE /\ error' = FALSE /\ lastQuestion' = asked' /\ tried' = <<>>
        /\ UNCHANGED wiped
    BY <1>8 DEF Ask, Put
  <2>5. asked' # 0 /\ asked' \in 0..asked'
    BY <2>1
  <2> QED  BY <1>2, <1>6, <1>7, <2>1, <2>2, <2>3, <2>4, <2>5
<1>9. CASE Retry
  <2>1. lastQuestion \in 0..MaxAsked /\ lastQuestion # 0
    BY <1>2, <1>3, <1>9 DEF Retry
  <2>2. call'.at = "service" /\ call'.nr = lastQuestion /\ call' \in CallRecord
    BY <1>5, <1>9, <2>1 DEF Retry, Put
  <2>3. /\ isLoading' = TRUE /\ error' = FALSE /\ lastQuestion' = lastQuestion /\ tried' = <<>>
        /\ UNCHANGED <<wiped, messages, asked>>
    BY <1>9 DEF Retry, Put
  <2> QED  BY <1>2, <1>6, <1>7, <2>1, <2>2, <2>3
<1>10. CASE Reset
  <2>1. 0 \in 0..asked
    BY <1>2
  <2>2. UNCHANGED <<setting, isLoading, asked, call, tried>> /\ lastQuestion' = 0
        /\ messages' = <<>> /\ error' = FALSE /\ wiped' = isLoading
    BY <1>10 DEF Reset
  <2> QED  BY <1>1, <1>2, <1>6, <2>1, <2>2 DEF AssistantTypeOK, CallRecord, ServingStates
<1>11. CASE Navigate
  <2>1. 0 \in 0..asked
    BY <1>2
  <2> QED  BY <1>2, <1>4, <1>6, <1>7, <1>11, <2>1 DEF Navigate
<1>12. CASE AnswerShown
  <2>1. call.nr \in 1..MaxAsked
    BY <1>2, <1>3, <1>12 DEF AnswerShown, CallRecord
  <2>2. messages' \in Seq(Message)
    BY <1>2, <1>12, <2>1 DEF AnswerShown, Message
  <2> QED  BY <1>2, <1>4, <1>7, <1>12, <2>2 DEF AnswerShown
<1>13. CASE FailureShown
  BY <1>2, <1>4, <1>7, <1>13 DEF FailureShown
<1> QED  BY <1>8, <1>9, <1>10, <1>11, <1>12, <1>13
\* Any step keeps the types.
LEMMA TypeStep ==
  ASSUME AssistantTypeOK, [AssistantNext]_avars
  PROVE  AssistantTypeOK'
<1>1. CASE UNCHANGED avars
  BY <1>1 DEF AssistantTypeOK, avars, chat, attempts
<1> QED  BY <1>1, ChatType, ServerType DEF AssistantNext

\* The chat, the request and its history stay well formed, for every environment
\* the server may be started with and any number of questions.
THEOREM AssistantTypeCorrect == AssistantSpec => []AssistantTypeOK
BY TypeInit, TypeStep, PTL DEF AssistantSpec

-----------------------------------------------------------------------------
(* The chain.  Before the attempt at hand is made the keyed attempts before  *)
(* it have been, and no others; once its model is called, it has been too.   *)

Before(K, n) == {i \in K : i < n}
UpTo(K, n)   == {i \in K : i <= n}

Chain(c, t, K) ==
  /\ \A i, j \in DOMAIN t : i < j => t[i] < t[j]
  /\ c.at = "service" => c.index = 0 /\ Range(t) = {}
  /\ c.at = "attempt" => Range(t) = Before(K, c.index)
  /\ c.at \in {"model", "pause"} => Range(t) = UpTo(K, c.index)
  /\ c.at \in {"answered", "failed"} =>
       Before(K, c.index) \subseteq Range(t) /\ Range(t) \subseteq UpTo(K, c.index)
  /\ c.why # "none" => c.at = "failed"
  /\ c.why = "unavailable" => Range(t) = K

ChainInv == Chain(call, tried, Keyed)

\* Which attempts come before the next one.
LEMMA BeforeNext ==
  ASSUME NEW K, K \subseteq Nat, NEW n \in Nat
  PROVE  /\ Before(K, n + 1) = UpTo(K, n)
         /\ Before(K, n) \subseteq UpTo(K, n)
         /\ n \notin K => Before(K, n) = UpTo(K, n)
         /\ n \in K => Before(K, n) \cup {n} = UpTo(K, n)
         /\ (\A i \in K : i <= n) => UpTo(K, n) = K
         /\ (\A i \in K : i > 0) => UpTo(K, 0) = {}
<1>1. \A i \in K : i \in Nat /\ (i < n + 1 <=> i <= n) /\ (i < n => i <= n) /\ (i <= n <=> i < n \/ i = n)
                   /\ (i > 0 => ~(i <= 0))
  OBVIOUS
<1> QED  BY <1>1 DEF Before, UpTo

\* An empty history.
LEMMA EmptyRange == Range(<<>>) = {} /\ DOMAIN <<>> = {}
BY DEF Range

\* What one more attempt does to the history: it goes to its end.
LEMMA AppendRange ==
  ASSUME NEW t \in Seq(Nat), NEW n \in Nat
  PROVE  /\ Range(Append(t, n)) = Range(t) \cup {n}
         /\ (\A i, j \in DOMAIN t : i < j => t[i] < t[j]) /\ (\A m \in Range(t) : m < n) =>
              \A i, j \in DOMAIN Append(t, n) : i < j => Append(t, n)[i] < Append(t, n)[j]
<1> DEFINE u == Append(t, n)
<1>1. /\ Len(t) \in Nat /\ DOMAIN t = 1..Len(t) /\ DOMAIN u = 1..(Len(t) + 1)
      /\ u[Len(t) + 1] = n /\ (\A i \in 1..Len(t) : u[i] = t[i])
  OBVIOUS
<1>2. Range(u) = Range(t) \cup {n}
  BY <1>1 DEF Range
<1>3. ASSUME \A i, j \in DOMAIN t : i < j => t[i] < t[j], \A m \in Range(t) : m < n,
             NEW i \in DOMAIN u, NEW j \in DOMAIN u, i < j
      PROVE  u[i] < u[j]
  <2>1. i \in 1..Len(t)
    BY <1>1, <1>3
  <2>2. CASE j \in 1..Len(t)
    BY <1>1, <1>3, <2>1, <2>2
  <2>3. CASE j = Len(t) + 1
    <3>1. t[i] \in Range(t)
      BY <1>1, <2>1 DEF Range
    <3> QED  BY <1>1, <1>3, <2>1, <2>3, <3>1
  <2> QED  BY <1>1, <2>2, <2>3
<1> QED  BY <1>2, <1>3

\* Nothing has been attempted before the first question.
LEMMA ChainInit == AssistantInit => ChainInv
BY EmptyRange DEF AssistantInit, ChainInv, Chain, NoCall

\* A new question, or none, starts with an empty history.
LEMMA ChainChat ==
  ASSUME ChainInv, AssistantTypeOK,
         Ask \/ Retry \/ Reset \/ Navigate \/ AnswerShown \/ FailureShown
  PROVE  ChainInv'
<1>1. ASSUME NEW nr, Put(nr)  PROVE Chain(call', tried', Keyed')
  <2>1. call'.at = "service" /\ call'.index = 0 /\ call'.why = "none" /\ tried' = <<>>
    BY <1>1 DEF Put
  <2> QED  BY <2>1, EmptyRange DEF Chain
<1>2. CASE Navigate \/ AnswerShown \/ FailureShown
  <2>1. call'.at = "none" /\ call'.why = "none"
    BY <1>2 DEF Navigate, AnswerShown, FailureShown, NoCall
  <2>2. tried' = tried \/ tried' = <<>>
    BY <1>2 DEF Navigate, AnswerShown, FailureShown
  <2>3. Chain(call', tried', Keyed')
    BY <2>1, <2>2, EmptyRange DEF ChainInv, Chain
  <2> QED  BY <2>3 DEF ChainInv
<1>3. CASE Reset
  <2>1. call' = call /\ tried' = tried /\ Keyed' = Keyed
    BY <1>3 DEF Reset, Keyed, attempts
  <2> QED  BY <2>1 DEF ChainInv
<1> QED  BY <1>1, <1>2, <1>3 DEF Ask, Retry, ChainInv

\* The server goes through the chain in its order.
LEMMA ChainServer ==
  ASSUME ChainInv, AssistantTypeOK, Serving \/ Lost
  PROVE  ChainInv'
<1>1. Keyed' = Keyed /\ call.at \in ServingStates
  BY ServerCases DEF ServerStep, Keyed, attempts, chat
<1>3. /\ call \in CallRecord /\ tried \in Seq(DOMAIN attempts) /\ setting \in Settings
      /\ call.at \in {"attempt", "model", "pause"} => call.index # 0
  BY TypeShape
<1>4. /\ Len(attempts) \in Nat /\ DOMAIN attempts = 1..Len(attempts)
      /\ Keyed \subseteq 1..Len(attempts) /\ Keyed \subseteq Nat
      /\ call.index \in 0..Len(attempts) /\ call.index \in Nat
  BY <1>3, AttemptsSeq DEF Keyed, CallRecord
<1>2. (\A i \in Keyed : i > 0 /\ i <= Len(attempts))
  BY <1>4
<1>16. /\ Before(Keyed, call.index + 1) = UpTo(Keyed, call.index)
       /\ Before(Keyed, call.index) \subseteq UpTo(Keyed, call.index)
       /\ call.index \notin Keyed => Before(Keyed, call.index) = UpTo(Keyed, call.index)
       /\ call.index \in Keyed => Before(Keyed, call.index) \cup {call.index} = UpTo(Keyed, call.index)
       /\ call.index = Len(attempts) => UpTo(Keyed, call.index) = Keyed
       /\ call.index = 0 => UpTo(Keyed, call.index) = {}
  <2> DEFINE n == call.index
  <2>1. Keyed \subseteq Nat /\ n \in Nat
    BY <1>4
  <2>2. (n = Len(attempts) => \A i \in Keyed : i <= n) /\ (\A i \in Keyed : i > 0)
    BY <1>2
  <2> HIDE DEF n
  <2>3. /\ Before(Keyed, n + 1) = UpTo(Keyed, n)
        /\ Before(Keyed, n) \subseteq UpTo(Keyed, n)
        /\ n \notin Keyed => Before(Keyed, n) = UpTo(Keyed, n)
        /\ n \in Keyed => Before(Keyed, n) \cup {n} = UpTo(Keyed, n)
        /\ (\A i \in Keyed : i <= n) => UpTo(Keyed, n) = Keyed
        /\ (\A i \in Keyed : i > 0) => UpTo(Keyed, 0) = {}
    BY <2>1, BeforeNext
  <2> QED  BY <2>2, <2>3 DEF n
<1>5. call.why = "none" /\ (\A i, j \in DOMAIN tried : i < j => tried[i] < tried[j])
  BY <1>1 DEF ChainInv, Chain, ServingStates
<1>6. Before(Keyed, call.index) \subseteq Range(tried) /\ Range(tried) \subseteq UpTo(Keyed, call.index)
  <2>1. CASE call.at = "service"
    <3>1. call.index = 0 /\ Range(tried) = {}
      BY <2>1 DEF ChainInv, Chain
    <3> QED  BY <1>16, <3>1
  <2>2. CASE call.at \in {"attempt", "model", "pause"}
    <3>1. Range(tried) \in {Before(Keyed, call.index), UpTo(Keyed, call.index)}
      BY <2>2 DEF ChainInv, Chain
    <3> QED  BY <1>16, <3>1
  <2> QED  BY <1>1, <2>1, <2>2 DEF ServingStates
<1>7. ASSUME call'.at \in {"answered", "failed"}, call'.index = call.index, tried' = tried,
             call'.why # "none" => call'.at = "failed",
             call'.why = "unavailable" => Range(tried) = Keyed
      PROVE  ChainInv'
  <2>1. Chain(call', tried, Keyed)
    BY <1>5, <1>6, <1>7 DEF Chain
  <2> QED  BY <1>1, <1>7, <2>1 DEF ChainInv
<1>8. CASE ServerStep(Answered) /\ UNCHANGED tried
  <2>1. call'.at = "answered" /\ call'.index = call.index /\ call'.why = "none"
    BY <1>3, <1>5, <1>8 DEF ServerStep, Answered, CallRecord
  <2> QED  BY <1>7, <1>8, <2>1
<1>9. CASE \E why \in {"refused", "lost"} : ServerStep(Failed(why)) /\ UNCHANGED tried
  <2>1. call'.at = "failed" /\ call'.index = call.index /\ call'.why # "unavailable"
    BY <1>3, <1>9 DEF ServerStep, Failed, CallRecord
  <2> QED  BY <1>7, <1>9, <2>1
<1>10. ASSUME ServerStep(NextAttempt), tried' = tried, Range(tried) = UpTo(Keyed, call.index)
       PROVE  ChainInv'
  <2>0. call' = NextAttempt
    BY <1>10 DEF ServerStep
  <2>1. CASE call.index < Len(attempts)
    <3>1. call'.at = "attempt" /\ call'.index = call.index + 1 /\ call'.why = "none"
      BY <1>5, <2>0, <2>1, NextAttemptIs
    <3>2. Range(tried) = Before(Keyed, call'.index)
      BY <1>10, <1>16, <3>1
    <3>3. Chain(call', tried, Keyed)
      BY <1>5, <3>1, <3>2 DEF Chain
    <3> QED  BY <1>1, <1>10, <3>3 DEF ChainInv
  <2>2. CASE call.index = Len(attempts)
    <3>1. call'.at = "failed" /\ call'.index = call.index
      BY <1>4, <2>0, <2>2, NextAttemptIs
    <3>2. UpTo(Keyed, call.index) = Keyed
      BY <1>16, <2>2
    <3> QED  BY <1>7, <1>10, <3>1, <3>2
  <2> QED  BY <1>4, <2>1, <2>2
<1>11. CASE call.at = "service" /\ ServerStep(NextAttempt) /\ UNCHANGED tried
  <2>1. Range(tried) = UpTo(Keyed, call.index)
    BY <1>11, <1>16 DEF ChainInv, Chain
  <2> QED  BY <1>10, <1>11, <2>1
<1>12. CASE call.at = "attempt" /\ call.index \notin Keyed /\ ServerStep(NextAttempt) /\ UNCHANGED tried
  <2>1. Range(tried) = UpTo(Keyed, call.index)
    BY <1>12, <1>16 DEF ChainInv, Chain
  <2> QED  BY <1>10, <1>12, <2>1
<1>13. CASE call.at = "pause" /\ ServerStep(NextAttempt) /\ UNCHANGED tried
  <2>1. Range(tried) = UpTo(Keyed, call.index)
    BY <1>13 DEF ChainInv, Chain
  <2> QED  BY <1>10, <1>13, <2>1
<1>14. CASE /\ call.at = "attempt" /\ call.index \in Keyed
            /\ ServerStep([call EXCEPT !.at = "model"]) /\ tried' = Append(tried, call.index)
  <2>1. call'.at = "model" /\ call'.index = call.index /\ call'.why = "none"
    BY <1>3, <1>5, <1>14 DEF ServerStep, CallRecord
  <2>2. Range(tried) = Before(Keyed, call.index)
    BY <1>14 DEF ChainInv, Chain
  <2>7. \A m \in Range(tried) : m < call.index
    BY <2>2 DEF Before
  <2>3. tried \in Seq(Nat) /\ call.index \in Nat
    BY <1>3, <1>4
  <2>4. /\ Range(tried') = Range(tried) \cup {call.index}
        /\ \A i, j \in DOMAIN tried' : i < j => tried'[i] < tried'[j]
    BY <1>5, <1>14, <2>7, <2>3, AppendRange
  <2>5. Range(tried') = UpTo(Keyed, call'.index)
    BY <1>14, <1>16, <2>1, <2>2, <2>4
  <2>6. Chain(call', tried', Keyed)
    BY <2>1, <2>4, <2>5 DEF Chain
  <2> QED  BY <1>1, <2>6 DEF ChainInv
<1>15. CASE call.at = "model" /\ ServerStep([call EXCEPT !.at = "pause"]) /\ UNCHANGED tried
  <2>1. call'.at = "pause" /\ call'.index = call.index /\ call'.why = "none"
    BY <1>3, <1>5, <1>15 DEF ServerStep, CallRecord
  <2>2. Range(tried) = UpTo(Keyed, call'.index)
    BY <1>15, <2>1 DEF ChainInv, Chain
  <2>3. Chain(call', tried, Keyed)
    BY <1>5, <2>1, <2>2 DEF Chain
  <2> QED  BY <1>1, <1>15, <2>3 DEF ChainInv
<1> QED
  BY <1>8, <1>9, <1>11, <1>12, <1>13, <1>14, <1>15, ServerCases

\* However the models behave and whatever the chain is, it is gone through once
\* and in order, and "unavailable" is said only when every keyed model was called.
THEOREM ChainTheorem == AssistantSpec => []ChainInOrder
<1>1. AssistantInit => AssistantTypeOK /\ ChainInv
  BY TypeInit, ChainInit
<1>2. AssistantTypeOK /\ ChainInv /\ [AssistantNext]_avars => (AssistantTypeOK /\ ChainInv)'
  <2>1. ASSUME ChainInv, UNCHANGED avars  PROVE ChainInv'
    <3>1. call' = call /\ tried' = tried /\ Keyed' = Keyed
      BY <2>1 DEF avars, attempts, Keyed
    <3> QED  BY <2>1, <3>1 DEF ChainInv
  <2> QED  BY <2>1, TypeStep, ChainChat, ChainServer DEF AssistantNext
<1>3. AssistantTypeOK /\ ChainInv => ChainInOrder
  <2> SUFFICES ASSUME AssistantTypeOK, ChainInv  PROVE ChainInOrder
    OBVIOUS
  <2>1. call \in CallRecord /\ setting \in Settings
    BY TypeShape
  <2>2. Keyed \subseteq Nat /\ call.index \in Nat /\ (\A i \in Keyed : i > 0)
    BY <2>1, AttemptsSeq DEF Keyed, CallRecord
  <2>5. call.at # "none" => /\ Before(Keyed, call.index) \subseteq Range(tried)
                            /\ Range(tried) \subseteq UpTo(Keyed, call.index)
    <3>1. CASE call.at = "service"
      BY <2>2, <3>1, BeforeNext DEF ChainInv, Chain
    <3>2. CASE call.at \in {"attempt", "model", "pause"}
      <4>1. Range(tried) \in {Before(Keyed, call.index), UpTo(Keyed, call.index)}
        BY <3>2 DEF ChainInv, Chain
      <4> QED  BY <2>2, <4>1, BeforeNext
    <3>3. CASE call.at \in {"answered", "failed"}
      BY <3>3 DEF ChainInv, Chain
    <3> QED  BY <2>1, <3>1, <3>2, <3>3 DEF CallRecord, ServingStates
  <2> QED  BY <2>5 DEF ChainInOrder, ChainInv, Chain, Before, UpTo
<1> QED  BY <1>1, <1>2, <1>3, PTL DEF AssistantSpec

-----------------------------------------------------------------------------
(* The chat.  A question that waits is the last message, and there is no     *)
(* error beside it; an error leaves its question last.                      *)

Asked(nr) == messages # <<>> /\ Last(messages) = [role |-> "user", nr |-> nr]

UserLast == messages = <<>> \/ Last(messages).role = "user"

Paired(m) ==
  \A i \in DOMAIN m : m[i].role = "assistant" =>
    i > 1 /\ m[i - 1] = [role |-> "user", nr |-> m[i].nr]

ChatInv ==
  /\ isLoading => error = FALSE /\ UserLast
  /\ error => UserLast
  /\ ~wiped => /\ Paired(messages)
               /\ error => Asked(lastQuestion)
               /\ isLoading => Asked(lastQuestion) /\ call.nr = lastQuestion

\* What one more message does to the chat.
LEMMA AppendMessage ==
  ASSUME NEW m \in Seq(Message), NEW e \in Message
  PROVE  /\ Append(m, e) # <<>> /\ Last(Append(m, e)) = e
         /\ Paired(m) /\ (e.role = "assistant" => m # <<>> /\ Last(m) = [role |-> "user", nr |-> e.nr])
              => Paired(Append(m, e))
<1> DEFINE u == Append(m, e)
<1>1. /\ Len(m) \in Nat /\ DOMAIN m = 1..Len(m) /\ DOMAIN u = 1..(Len(m) + 1)
      /\ Len(u) = Len(m) + 1 /\ u[Len(m) + 1] = e /\ (\A i \in 1..Len(m) : u[i] = m[i])
      /\ (m # <<>> => Len(m) > 0)
  OBVIOUS
<1>2. u # <<>> /\ Last(u) = e
  BY <1>1 DEF Last
<1>3. ASSUME Paired(m), e.role = "assistant" => m # <<>> /\ Last(m) = [role |-> "user", nr |-> e.nr]
      PROVE  Paired(u)
  <2> SUFFICES ASSUME NEW i \in DOMAIN u, u[i].role = "assistant"
               PROVE  i > 1 /\ u[i - 1] = [role |-> "user", nr |-> u[i].nr]
    BY DEF Paired
  <2>1. CASE i \in 1..Len(m)
    <3>1. i > 1 /\ m[i - 1] = [role |-> "user", nr |-> m[i].nr]
      BY <1>1, <1>3, <2>1 DEF Paired
    <3>2. i - 1 \in 1..Len(m)
      BY <1>1, <2>1, <3>1
    <3> QED  BY <1>1, <2>1, <3>1, <3>2
  <2>2. CASE i = Len(m) + 1
    <3>1. Len(m) > 0 /\ m[Len(m)] = [role |-> "user", nr |-> e.nr]
      BY <1>1, <1>3, <2>2 DEF Last
    <3>2. i - 1 = Len(m) /\ i - 1 \in 1..Len(m)
      BY <1>1, <2>2, <3>1
    <3> QED  BY <1>1, <2>2, <3>1, <3>2
  <2> QED  BY <1>1, <2>1, <2>2
<1> QED  BY <1>2, <1>3

\* The empty chat.
LEMMA ChatInit == AssistantInit => ChatInv
BY DEF AssistantInit, ChatInv, UserLast, Paired

\* The server does not touch the chat, nor which question it works on.
LEMMA ChatServer ==
  ASSUME ChatInv, AssistantTypeOK, Serving \/ Lost
  PROVE  ChatInv' /\ UNCHANGED chat
<1>1. UNCHANGED chat
  BY ServerCases DEF ServerStep
<1>2. call \in CallRecord
  BY TypeShape
<1>3. NextAttempt.nr = call.nr
  BY NextAttemptIs
<1>4. call'.nr = call.nr
  BY <1>2, <1>3, ServerCases DEF ServerStep, Answered, Failed, CallRecord
<1> QED  BY <1>1, <1>4 DEF ChatInv, chat, UserLast, Asked, Paired

\* A question is put when none waits, and an answer goes under its question.
LEMMA ChatSteps ==
  ASSUME ChatInv, AssistantTypeOK,
         Ask \/ Retry \/ Reset \/ Navigate \/ AnswerShown \/ FailureShown
  PROVE  ChatInv'
<1>1. /\ messages \in Seq(Message) /\ asked \in 0..MaxAsked /\ MaxAsked \in Nat
      /\ call \in CallRecord
      /\ isLoading \in BOOLEAN /\ error \in BOOLEAN /\ wiped \in BOOLEAN
      /\ call.at = "none" <=> ~isLoading
      /\ call.at # "none" => call.nr # 0
  BY TypeShape, AssistantAssumption
<1>2. CASE Ask
  <2> DEFINE e == [role |-> "user", nr |-> asked']
  <2>1. e \in Message /\ messages' = Append(messages, e)
    BY <1>1, <1>2 DEF Ask, Message
  <2>2. messages' # <<>> /\ Last(messages') = e /\ (Paired(messages) => Paired(messages'))
    BY <1>1, <2>1, AppendMessage
  <2>3. /\ isLoading' = TRUE /\ error' = FALSE /\ lastQuestion' = asked' /\ call'.nr = asked'
        /\ wiped' = wiped
    BY <1>2 DEF Ask, Put
  <2> QED  BY <2>2, <2>3 DEF ChatInv, UserLast, Asked
<1>3. CASE Retry
  <2>1. /\ isLoading' = TRUE /\ error' = FALSE /\ lastQuestion' = lastQuestion
        /\ call'.nr = lastQuestion /\ wiped' = wiped /\ messages' = messages /\ error = TRUE
    BY <1>1, <1>3 DEF Retry, Put
  <2> QED  BY <2>1 DEF ChatInv, UserLast, Asked
<1>4. CASE Reset
  <2>1. messages' = <<>> /\ error' = FALSE /\ wiped' = isLoading /\ isLoading' = isLoading
    BY <1>4 DEF Reset
  <2> QED  BY <2>1 DEF ChatInv, UserLast, Paired
<1>5. CASE Navigate
  BY <1>5 DEF Navigate, ChatInv, UserLast, Paired
<1>6. CASE AnswerShown
  <2> DEFINE e == [role |-> "assistant", nr |-> call.nr]
  <2>1. e \in Message /\ messages' = Append(messages, e) /\ isLoading = TRUE
    BY <1>1, <1>6 DEF AnswerShown, Message, CallRecord
  <2>2. Paired(messages) /\ Asked(call.nr) => Paired(messages')
    BY <1>1, <2>1, AppendMessage DEF Asked
  <2>3. error' = FALSE /\ isLoading' = FALSE /\ wiped' = wiped
    BY <1>6, <2>1 DEF AnswerShown, ChatInv
  <2> QED  BY <2>1, <2>2, <2>3 DEF ChatInv
<1>7. CASE FailureShown
  <2>1. /\ isLoading = TRUE /\ isLoading' = FALSE /\ error' = TRUE /\ wiped' = wiped
        /\ messages' = messages /\ lastQuestion' = lastQuestion
    BY <1>1, <1>7 DEF FailureShown
  <2> QED  BY <2>1 DEF ChatInv, UserLast, Asked
<1> QED  BY <1>2, <1>3, <1>4, <1>5, <1>6, <1>7

\* Any step keeps the chat in order.
LEMMA ChatStep ==
  ASSUME ChatInv, AssistantTypeOK, [AssistantNext]_avars
  PROVE  ChatInv'
<1>1. CASE UNCHANGED avars
  BY <1>1 DEF avars, chat, ChatInv, UserLast, Asked, Paired
<1> QED  BY <1>1, ChatServer, ChatSteps DEF AssistantNext

\* However many questions are put, an answer stands under its question and an
\* error beside one that can be tried again, unless the chat is emptied meanwhile.
THEOREM AnswerTheorem == AssistantSpec => []AnswersItsQuestion
<1>1. AssistantInit => AssistantTypeOK /\ ChatInv
  BY TypeInit, ChatInit
<1>2. AssistantTypeOK /\ ChatInv /\ [AssistantNext]_avars => (AssistantTypeOK /\ ChatInv)'
  BY TypeStep, ChatStep
<1>3. ChatInv => AnswersItsQuestion
  BY DEF ChatInv, AnswersItsQuestion, Paired, Asked
<1> QED  BY <1>1, <1>2, <1>3, PTL DEF AssistantSpec

-----------------------------------------------------------------------------
(* The refinement, but for its fairness.                                   *)

\* While a question waits nothing has become of it yet.
LEMMA WaitingIsOpen == ChatInv /\ isLoading => Outcome = "none"
BY DEF ChatInv, UserLast, Outcome

\* Every step of the chat is one of Exchange's, and one of the server is none.
LEMMA PromiseStep ==
  ASSUME ChatInv, AssistantTypeOK, [AssistantNext]_avars
  PROVE  [Promise!Next]_(Promise!exchange)
<1> USE DEF Promise!Next, Promise!exchange
<1>1. /\ messages \in Seq(Message) /\ call \in CallRecord /\ MaxAsked \in Nat
      /\ isLoading \in BOOLEAN /\ error \in BOOLEAN
      /\ call.at = "none" <=> ~isLoading
      /\ call.at # "none" => call.nr # 0
  BY TypeShape, AssistantAssumption
<1>2. ChatInv' /\ AssistantTypeOK'
  BY ChatStep, TypeStep
<1>3. ASSUME ~isLoading, isLoading' = TRUE  PROVE Promise!Pose
  <2>1. Outcome' = "none"
    BY <1>2, <1>3, WaitingIsOpen DEF ChatInv, Outcome, UserLast
  <2> QED  BY <1>3, <2>1 DEF Promise!Pose
<1>4. CASE Ask \/ Retry
  BY <1>3, <1>4 DEF Ask, Retry, Put
<1>5. CASE Reset
  <2>1. Outcome' = "none" /\ UNCHANGED isLoading
    BY <1>5 DEF Reset, Outcome
  <2> QED  BY <2>1 DEF Promise!Forget
<1>6. CASE Navigate
  <2>1. Outcome' = "none" /\ isLoading' = FALSE
    BY <1>6 DEF Navigate, Outcome
  <2> QED  BY <2>1 DEF Promise!Abandon
<1>7. CASE AnswerShown
  <2> DEFINE e == [role |-> "assistant", nr |-> call.nr]
  <2>1. e \in Message /\ messages' = Append(messages, e) /\ isLoading = TRUE /\ isLoading' = FALSE
    BY <1>1, <1>7 DEF AnswerShown, Message, CallRecord
  <2>2. messages' # <<>> /\ Last(messages') = e
    BY <1>1, <2>1, AppendMessage
  <2>3. error' = FALSE
    BY <1>7, <2>1 DEF AnswerShown, ChatInv
  <2>4. Outcome' = "answered"
    BY <2>2, <2>3 DEF Outcome
  <2> QED  BY <2>1, <2>4 DEF Promise!Settled, Promise!Settle
<1>8. CASE FailureShown
  <2>1. isLoading = TRUE /\ isLoading' = FALSE /\ Outcome' = "failed"
    BY <1>1, <1>8 DEF FailureShown, Outcome
  <2> QED  BY <2>1 DEF Promise!Settled, Promise!Settle
<1>9. CASE Serving \/ Lost
  <2>1. UNCHANGED chat
    BY <1>9, ChatServer
  <2> QED  BY <2>1 DEF chat, Outcome
<1>10. CASE UNCHANGED avars
  BY <1>10 DEF avars, chat, Outcome
<1> QED  BY <1>4, <1>5, <1>6, <1>7, <1>8, <1>9, <1>10 DEF AssistantNext

\* The chat and the chain behind it implement Exchange, its fairness apart: one
\* question at a time, each answered once or failed once.
THEOREM PromiseTheorem == AssistantSpec => Promise!Init /\ [][Promise!Next]_(Promise!exchange)
<1>1. AssistantInit => AssistantTypeOK /\ ChatInv /\ Promise!Init
  BY TypeInit, ChatInit DEF AssistantInit, Promise!Init, Outcome
<1>2. AssistantTypeOK /\ ChatInv /\ [AssistantNext]_avars => (AssistantTypeOK /\ ChatInv)'
  BY TypeStep, ChatStep
<1>3. AssistantTypeOK /\ ChatInv /\ [AssistantNext]_avars => [Promise!Next]_(Promise!exchange)
  BY PromiseStep
<1> QED  BY <1>1, <1>2, <1>3, PTL DEF AssistantSpec
=============================================================================
