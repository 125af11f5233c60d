---------------------- MODULE ProviderInvocationProofs ----------------------
(***************************************************************************)
(* Proofs about ProviderInvocation for any callers, requests and responses *)
(* and any number of invocations.  The argument: the claim file makes its  *)
(* creator the owner of the request until it finishes or dies; only the    *)
(* owner enters the provider, once, and only the owner writes the terminal *)
(* record.  The last section carries it over to DrawPhase, whose workers   *)
(* charge what the records say.                                            *)
(***************************************************************************)
EXTENDS DrawPhase, TLAPS

Holding  == {"store", "put", "putting", "record", "recording"}
OwnerPcs == {"claiming", "call", "calling"} \cup Holding
Told     == {"generation", "failure"}

GoodTasks ==
  {t \in Locals :
     /\ t.pc # "idle" => t.req \in Requests
     /\ t.pc # "done" => t.result = "none"
     /\ t.pc \in Holding => t.answer \in Answers
     /\ t.pc \in {"store", "put", "putting"} => t.answer.response \in Responses}

TypeInv == InvocationTypeOK /\ task \in [Callers -> GoodTasks]

\* What the owner of a request knows of its files and of the provider.
OwnerFacts(t, claim, terminal, answer, n, obj) ==
  /\ claim # "absent"
  /\ t.pc \in {"claiming", "call"} => n = 0
  /\ IF t.pc \in Holding THEN answer = t.answer ELSE answer = NoAnswer
  /\ IF t.pc = "recording" THEN terminal = Torn ELSE terminal = NoAnswer
  /\ t.pc = "putting" => obj[t.answer.response] = "torn"
  /\ t.pc \in {"record", "recording"} =>
       t.answer.response = "none" \/ obj[t.answer.response] = "written"

RequestFacts(claim, terminal, answer, n, obj) ==
  /\ n <= 1
  /\ claim = "absent" => n = 0 /\ terminal = NoAnswer /\ answer = NoAnswer
  /\ terminal \in Answers =>
       /\ terminal = answer
       /\ terminal.response = "none" \/ obj[terminal.response] = "written"

OwnersKnow ==
  \A c \in Callers : task[c].pc \in OwnerPcs =>
    OwnerFacts(task[c], claims[Req(c)], terminals[Req(c)], answers[Req(c)],
               calls[Req(c)], objects)

RequestsAreSound ==
  \A r \in Requests : RequestFacts(claims[r], terminals[r], answers[r], calls[r], objects)

OneOwner ==
  \A c, d \in Callers :
    c # d /\ task[c].pc \in OwnerPcs /\ task[d].pc \in OwnerPcs => Req(c) # Req(d)

OnePutter ==
  \A c, d \in Callers :
    c # d /\ At(c, "putting") /\ At(d, "putting") => Answer(c).response # Answer(d).response

JournalInv == OwnersKnow /\ RequestsAreSound /\ OneOwner /\ OnePutter /\ CallersAgree

-----------------------------------------------------------------------------
(* Types *)

LEMMA NoAnswerIsNone == NoAnswer \notin Answers /\ Torn \notin Answers /\ NoAnswer # Torn
<1>1. NoAnswer.status = "NONE" /\ Torn.status = "TORN"
  BY DEF NoAnswer, Torn
<1>2. \A a \in Answers : a.status \in {"SUCCEEDED", "PROVIDER_FAILURE"}
  BY DEF Answers
<1>3. QED
  BY <1>1, <1>2

LEMMA IdleType == Idle \in GoodTasks /\ Idle.pc = "idle" /\ Idle.result = "none"
<1>1. Idle \in Locals
  BY DEF Idle, Locals
<1>2. QED
  BY <1>1 DEF Idle, GoodTasks, Holding

\* The two ways a caller moves on or ends.
LEMMA GotoType ==
  ASSUME TypeInv, NEW c \in Callers, NEW pc \in Running, task[c].pc \in Running, Goto(c, pc),
         pc \in Holding => task[c].pc \in Holding,
         pc \in {"store", "put", "putting"} => task[c].answer.response \in Responses
  PROVE  /\ task' \in [Callers -> GoodTasks]
         /\ task'[c].pc = pc /\ Req(c)' = Req(c) /\ Answer(c)' = Answer(c)
         /\ task'[c].result = "none"
         /\ \A d \in Callers \ {c} : task'[d] = task[d]
<1> DEFINE t == [task[c] EXCEPT !.pc = pc]
<1>1. task \in [Callers -> GoodTasks] /\ task[c] \in GoodTasks
  BY DEF TypeInv
<1>2. t \in Locals
  BY <1>1 DEF GoodTasks, Locals
<1>3. /\ t.pc = pc /\ t.req = task[c].req /\ t.answer = task[c].answer
      /\ t.result = task[c].result
  BY <1>1 DEF GoodTasks, Locals
<1>4. task[c].result = "none" /\ task[c].req \in Requests
  BY <1>1 DEF GoodTasks, Running
<1>5. t \in GoodTasks
  BY <1>1, <1>2, <1>3, <1>4 DEF GoodTasks
<1>6. task' = [task EXCEPT ![c] = t]
  BY DEF Goto
<1>7. QED
  BY <1>1, <1>3, <1>4, <1>5, <1>6 DEF Req, Answer

LEMMA FinishType ==
  ASSUME TypeInv, NEW c \in Callers, task[c].pc \in Running,
         NEW result \in Results, NEW a \in Answers \cup {NoAnswer}, Finish(c, result, a)
  PROVE  /\ task' \in [Callers -> GoodTasks]
         /\ task'[c].pc = "done" /\ Req(c)' = Req(c) /\ Answer(c)' = a
         /\ task'[c].result = result
         /\ \A d \in Callers \ {c} : task'[d] = task[d]
<1> DEFINE t == [pc |-> "done", req |-> Req(c), answer |-> a, result |-> result]
<1>1. task \in [Callers -> GoodTasks] /\ task[c] \in GoodTasks
  BY DEF TypeInv
<1>2. Req(c) \in Requests
  BY <1>1 DEF GoodTasks, Running, Req
<1>3. t \in Locals
  BY <1>2 DEF Locals
<1>4. t \in GoodTasks
  BY <1>2, <1>3 DEF GoodTasks, Holding
<1>5. task' = [task EXCEPT ![c] = t]
  BY DEF Finish
<1>6. QED
  BY <1>1, <1>4, <1>5 DEF Req, Answer

LEMMA FailType ==
  ASSUME TypeInv, NEW c \in Callers, task[c].pc \in Running,
         NEW result \in {"unknown", "malformed", "error"}, Fail(c, result)
  PROVE  /\ task' \in [Callers -> GoodTasks]
         /\ task'[c].pc = "done" /\ Req(c)' = Req(c)
         /\ task'[c].result \notin Told
         /\ \A d \in Callers \ {c} : task'[d] = task[d]
<1>1. result \in Results /\ result \notin Told /\ Finish(c, result, NoAnswer)
  BY DEF Results, Told, Fail
<1>2. QED
  BY <1>1, FinishType

LEMMA CallerType ==
  ASSUME TypeInv, NEW c \in Callers, task[c].pc \in Running
  PROVE  /\ Req(c) \in Requests
         /\ task[c].pc \in Holding => Answer(c) \in Answers
         /\ task[c].pc \in {"store", "put", "putting"} => Answer(c).response \in Responses
  BY DEF TypeInv, GoodTasks, Req, Answer, Running

LEMMA TypeInit == InvocationInit => TypeInv
<1> SUFFICES ASSUME InvocationInit PROVE TypeInv
  OBVIOUS
<1>1. task \in [Callers -> GoodTasks] /\ task \in [Callers -> Locals]
  BY IdleType DEF InvocationInit, GoodTasks
<1>2. QED
  BY <1>1, InvocationAssumption
     DEF InvocationInit, TypeInv, InvocationTypeOK, FileStates

LEMMA TypeStep == TypeInv /\ [InvocationNext]_invocationVars => TypeInv'
<1> SUFFICES ASSUME TypeInv, [InvocationNext]_invocationVars PROVE TypeInv'
  OBVIOUS
<1> USE DEF TypeInv, InvocationTypeOK, journal, history, At
<1>0. task' \in [Callers -> GoodTasks] => task' \in [Callers -> Locals]
  BY DEF GoodTasks
<1>1. ASSUME NEW c \in Callers, NEW r \in Requests, Invoke(c, r) PROVE TypeInv'
  <2> DEFINE t == [pc |-> "find", req |-> r, answer |-> NoAnswer, result |-> "none"]
  <2>2. t \in Locals
    BY DEF Locals, Running
  <2>3. t \in GoodTasks
    BY <2>2 DEF GoodTasks, Holding
  <2>4. task' \in [Callers -> GoodTasks]
    BY <1>1, <2>3 DEF Invoke
  <2>5. invocations' \in 0..MaxInvocations
    BY <1>1, InvocationAssumption DEF Invoke
  <2>6. QED
    BY <1>0, <1>1, <2>4, <2>5 DEF Invoke
<1>2. ASSUME NEW c \in Callers, InvokerStep(c) PROVE task' \in [Callers -> GoodTasks]
  <2>1. CASE FindTerminal(c)
    BY <2>1, GotoType DEF FindTerminal, Running, Holding
  <2>2. CASE CheckClaim(c)
    BY <2>2, GotoType, FailType DEF CheckClaim, Running, Holding
  <2>3. CASE CreateClaim(c)
    BY <2>3, GotoType, FailType DEF CreateClaim, Running, Holding
  <2>4. CASE WriteClaim(c)
    BY <2>4, GotoType DEF WriteClaim, Running, Holding
  <2>5. CASE ClaimWriteFails(c)
    BY <2>5, FailType DEF ClaimWriteFails, Running
  <2>6. CASE EnterProvider(c)
    BY <2>6, GotoType DEF EnterProvider, Running, Holding
  <2>7. CASE ProviderAnswers(c)
    <3>1. PICK a \in Answers :
            task' = [task EXCEPT ![c].pc = IF a.response = "none" THEN "record" ELSE "store",
                                 ![c].answer = a]
      BY <2>7 DEF ProviderAnswers
    <3> DEFINE pc == IF a.response = "none" THEN "record" ELSE "store"
               t == [task[c] EXCEPT !.pc = pc, !.answer = a]
    <3>2. task[c] \in GoodTasks /\ task[c].pc \in Running
      BY <2>7 DEF ProviderAnswers, Running
    <3>3. t \in Locals
      BY <3>2 DEF GoodTasks, Locals, Running
    <3>4. t.pc = pc /\ t.answer = a /\ t.req = task[c].req /\ t.result = task[c].result
      BY <3>2 DEF GoodTasks, Locals
    <3>5. a.response \in Responses \cup {"none"}
      BY DEF Answers
    <3>6. task[c].req \in Requests /\ task[c].result = "none"
      BY <3>2 DEF GoodTasks, Running
    <3>7. t \in GoodTasks
      <4>1. t.pc \in {"record", "store"} /\ (t.pc = "store" => a.response # "none")
        BY <3>4
      <4> HIDE DEF t
      <4>2. QED
        BY <3>3, <3>4, <3>5, <3>6, <4>1 DEF GoodTasks
    <3>8. task' = [task EXCEPT ![c] = t]
      BY <3>1
    <3>9. QED
      BY <3>7, <3>8
  <2>8. CASE ProviderBreaks(c)
    BY <2>8, FailType DEF ProviderBreaks, Running
  <2>9. CASE CheckObject(c)
    <3>1. Goto(c, "put") \/ Goto(c, "record") \/ Fail(c, "error")
      <4>1. objects[Answer(c).response] \in FileStates
        BY <2>9, CallerType DEF CheckObject, Running
      <4>2. QED
        BY <2>9, <4>1 DEF CheckObject, FileStates
    <3>2. QED
      BY <2>9, <3>1, CallerType, GotoType, FailType DEF CheckObject, Running, Holding, Answer
  <2>10. CASE CreateObject(c)
    BY <2>10, CallerType, GotoType, FailType DEF CreateObject, Running, Holding, Answer
  <2>11. CASE WriteObject(c)
    BY <2>11, GotoType, FailType DEF WriteObject, Running, Holding
  <2>12. CASE ObjectWriteFails(c)
    BY <2>12, FailType DEF ObjectWriteFails, Running
  <2>13. CASE OpenTerminal(c)
    BY <2>13, GotoType, FailType DEF OpenTerminal, Running, Holding
  <2>14. CASE WriteTerminal(c)
    BY <2>14, CallerType, FinishType DEF WriteTerminal, Running, Holding, Results
  <2>15. CASE TerminalWriteFails(c)
    BY <2>15, FailType DEF TerminalWriteFails, Running
  <2>16. CASE Recover(c)
    <3> DEFINE a == terminals[Req(c)]
    <3>1. a \in Answers \cup {NoAnswer, Torn}
      BY <2>16, CallerType DEF Recover, Running
    <3>2. \/ Fail(c, "malformed") \/ Fail(c, "error")
          \/ a \in Answers /\ \E result \in {"generation", "failure"} : Finish(c, result, a)
      BY <2>16, <3>1, NoAnswerIsNone DEF Recover
    <3>3. QED
      BY <2>16, <3>2, FailType, FinishType DEF Recover, Running, Results
  <2>17. QED
    BY <1>2, <2>1, <2>2, <2>3, <2>4, <2>5, <2>6, <2>7, <2>8, <2>9, <2>10, <2>11, <2>12,
       <2>13, <2>14, <2>15, <2>16 DEF InvokerStep
<1>3. ASSUME NEW c \in Callers, InvokerStep(c) PROVE TypeInv'
  <2>0. task[c].pc \in Running
    BY <1>3 DEF InvokerStep, FindTerminal, CheckClaim, CreateClaim, WriteClaim, ClaimWriteFails,
       EnterProvider, ProviderAnswers, ProviderBreaks, CheckObject, CreateObject, WriteObject,
       ObjectWriteFails, OpenTerminal, WriteTerminal, TerminalWriteFails, Recover, Running
  <2>1. claims' \in [Requests -> FileStates]
    BY <1>3, <2>0, CallerType DEF InvokerStep, FindTerminal, CheckClaim, CreateClaim, WriteClaim,
       ClaimWriteFails, EnterProvider, ProviderAnswers, ProviderBreaks, CheckObject,
       CreateObject, WriteObject, ObjectWriteFails, OpenTerminal, WriteTerminal,
       TerminalWriteFails, Recover, FileStates
  <2>2. objects' \in [Responses -> FileStates]
    BY <1>3, <2>0, CallerType DEF InvokerStep, FindTerminal, CheckClaim, CreateClaim, WriteClaim,
       ClaimWriteFails, EnterProvider, ProviderAnswers, ProviderBreaks, CheckObject,
       CreateObject, WriteObject, ObjectWriteFails, OpenTerminal, WriteTerminal,
       TerminalWriteFails, Recover, FileStates
  <2>3. terminals' \in [Requests -> Answers \cup {NoAnswer, Torn}]
    <3>1. CASE WriteTerminal(c)
      BY <2>0, <3>1, CallerType DEF WriteTerminal, Holding
    <3>2. CASE ~WriteTerminal(c)
      BY <1>3, <2>0, <3>2, CallerType DEF InvokerStep, FindTerminal, CheckClaim, CreateClaim,
         WriteClaim, ClaimWriteFails, EnterProvider, ProviderAnswers, ProviderBreaks,
         CheckObject, CreateObject, WriteObject, ObjectWriteFails, OpenTerminal,
         TerminalWriteFails, Recover
    <3>3. QED
      BY <3>1, <3>2
  <2>4. calls' \in [Requests -> Nat]
    <3>1. CASE EnterProvider(c)
      BY <2>0, <3>1, CallerType DEF EnterProvider
    <3>2. CASE ~EnterProvider(c)
      BY <1>3, <3>2 DEF InvokerStep, FindTerminal, CheckClaim, CreateClaim, WriteClaim,
         ClaimWriteFails, ProviderAnswers, ProviderBreaks, CheckObject, CreateObject,
         WriteObject, ObjectWriteFails, OpenTerminal, WriteTerminal, TerminalWriteFails, Recover
    <3>3. QED
      BY <3>1, <3>2
  <2>5. answers' \in [Requests -> Answers \cup {NoAnswer}]
    BY <1>3, <2>0, CallerType DEF InvokerStep, FindTerminal, CheckClaim, CreateClaim, WriteClaim,
       ClaimWriteFails, EnterProvider, ProviderAnswers, ProviderBreaks, CheckObject,
       CreateObject, WriteObject, ObjectWriteFails, OpenTerminal, WriteTerminal,
       TerminalWriteFails, Recover
  <2>6. UNCHANGED invocations
    BY <1>3 DEF InvokerStep, FindTerminal, CheckClaim, CreateClaim, WriteClaim,
       ClaimWriteFails, EnterProvider, ProviderAnswers, ProviderBreaks, CheckObject,
       CreateObject, WriteObject, ObjectWriteFails, OpenTerminal, WriteTerminal,
       TerminalWriteFails, Recover
  <2>7. QED
    BY <1>0, <1>2, <1>3, <2>1, <2>2, <2>3, <2>4, <2>5, <2>6
<1>4. ASSUME NEW c \in Callers, Die(c) PROVE TypeInv'
  BY <1>0, <1>4, IdleType DEF Die
<1>5. CASE UNCHANGED invocationVars
  BY <1>5 DEF invocationVars
<1>6. QED
  BY <1>1, <1>3, <1>4, <1>5 DEF InvocationNext

-----------------------------------------------------------------------------
(* Ownership of a request *)

LEMMA JournalInit == InvocationInit => JournalInv
<1> SUFFICES ASSUME InvocationInit PROVE JournalInv
  OBVIOUS
<1>1. \A c \in Callers : task[c].pc \notin OwnerPcs /\ ~At(c, "putting") /\ task[c].result \notin Told
  BY IdleType DEF InvocationInit, OwnerPcs, Holding, At, Told
<1>2. RequestsAreSound
  BY NoAnswerIsNone DEF InvocationInit, RequestsAreSound, RequestFacts
<1>3. CallersAgree
  BY <1>1 DEF CallersAgree, Told
<1>4. QED
  BY <1>1, <1>2, <1>3 DEF JournalInv, OwnersKnow, OneOwner, OnePutter

\* A caller that only reads, fails or dies disturbs nothing.
LEMMA ObserverStep ==
  ASSUME JournalInv, NEW c \in Callers, UNCHANGED <<journal, history>>,
         \A d \in Callers \ {c} : task'[d] = task[d],
         task'[c].pc \notin OwnerPcs,
         task'[c].result \in Told => Answer(c)' = answers[Req(c)'] /\ Answer(c)' \in Answers
  PROVE  JournalInv'
<1> USE DEF journal, history
<1>1. OwnersKnow'
  BY DEF JournalInv, OwnersKnow, Req
<1>2. RequestsAreSound'
  BY DEF JournalInv, RequestsAreSound
<1>3. OneOwner'
  BY DEF JournalInv, OneOwner, Req
<1>4. OnePutter'
  BY DEF JournalInv, OnePutter, At, Answer, OwnerPcs, Holding
<1>5. CallersAgree'
  BY DEF JournalInv, CallersAgree, Req, Answer, Told
<1>6. QED
  BY <1>1, <1>2, <1>3, <1>4, <1>5 DEF JournalInv

\* A step of the owner of request r, or of the caller that becomes its owner,
\* touches the records of r alone, and of the objects at most the one it
\* stores: nobody else's facts depend on them.
LEMMA OwnerStep ==
  ASSUME TypeInv, JournalInv, NEW c \in Callers, NEW r \in Requests, Req(c)' = r,
         \A d \in Callers \ {c} : task'[d] = task[d],
         \A d \in Callers \ {c} : task[d].pc \in OwnerPcs => Req(d) # r,
         \A q \in Requests \ {r} :
           /\ claims'[q] = claims[q] /\ terminals'[q] = terminals[q]
           /\ answers'[q] = answers[q] /\ calls'[q] = calls[q],
         answers[r] \in Answers => answers'[r] = answers[r],
         \A o \in Responses : objects[o] = "written" => objects'[o] = "written",
         \A d \in Callers \ {c} : At(d, "putting") =>
           /\ objects'[Answer(d).response] = objects[Answer(d).response]
           /\ task'[c].pc = "putting" => Answer(c).response' # Answer(d).response,
         task'[c].pc \in OwnerPcs =>
           OwnerFacts(task'[c], claims'[r], terminals'[r], answers'[r], calls'[r], objects'),
         RequestFacts(claims'[r], terminals'[r], answers'[r], calls'[r], objects'),
         task'[c].result \in Told => Answer(c)' = answers'[r] /\ Answer(c)' \in Answers
  PROVE  JournalInv'
<1>0. \A a \in Answers : a.response \in Responses \cup {"none"}
  BY DEF Answers
<1>1. OwnersKnow'
  <2> SUFFICES ASSUME NEW d \in Callers, task'[d].pc \in OwnerPcs
               PROVE  OwnerFacts(task'[d], claims'[Req(d)'], terminals'[Req(d)'],
                                 answers'[Req(d)'], calls'[Req(d)'], objects')
    BY DEF OwnersKnow
  <2>1. CASE d = c
    BY <2>1
  <2>2. CASE d # c
    <3>1. /\ task'[d] = task[d] /\ Req(d)' = Req(d) /\ task[d].pc \in OwnerPcs
          /\ Req(d) \in Requests /\ Req(d) # r
      BY <2>2, CallerType DEF Req, OwnerPcs, Holding, Running
    <3>2. OwnerFacts(task[d], claims[Req(d)], terminals[Req(d)], answers[Req(d)],
                     calls[Req(d)], objects)
      BY <3>1 DEF JournalInv, OwnersKnow
    <3>3. task[d].pc = "putting" => objects'[task[d].answer.response] = objects[task[d].answer.response]
      BY <2>2 DEF At, Answer
    <3>4. task[d].pc \in Holding => task[d].answer.response \in Responses \cup {"none"}
      BY <1>0, CallerType DEF Holding, Running, Answer
    <3>5. OwnerFacts(task[d], claims'[Req(d)], terminals'[Req(d)], answers'[Req(d)],
                     calls'[Req(d)], objects')
      BY <3>1, <3>2, <3>3, <3>4 DEF OwnerFacts, Holding
    <3>6. QED
      BY <3>1, <3>5
  <2>3. QED
    BY <2>1, <2>2
<1>2. RequestsAreSound'
  <2> SUFFICES ASSUME NEW q \in Requests
               PROVE  RequestFacts(claims'[q], terminals'[q], answers'[q], calls'[q], objects')
    BY DEF RequestsAreSound
  <2>1. CASE q = r
    BY <2>1
  <2>2. CASE q # r
    <3>1. RequestFacts(claims[q], terminals[q], answers[q], calls[q], objects)
      BY DEF JournalInv, RequestsAreSound
    <3>2. QED
      BY <1>0, <2>2, <3>1 DEF RequestFacts
  <2>3. QED
    BY <2>1, <2>2
<1>3. OneOwner'
  BY DEF JournalInv, OneOwner, Req
<1>4. OnePutter'
  BY DEF JournalInv, OnePutter, At, Answer
<1>5. CallersAgree'
  <2> SUFFICES ASSUME NEW d \in Callers, task'[d].result \in Told
               PROVE  Answer(d)' = answers'[Req(d)'] /\ Answer(d)' \in Answers
    BY DEF CallersAgree, Told
  <2>1. CASE d = c
    BY <2>1
  <2>2. CASE d # c
    <3>1. task'[d] = task[d] /\ Req(d)' = Req(d) /\ Answer(d)' = Answer(d)
      BY <2>2 DEF Req, Answer
    <3>2. Answer(d) = answers[Req(d)] /\ Answer(d) \in Answers
      BY <3>1 DEF JournalInv, CallersAgree, Told
    <3>3. Req(d) \in Requests
      BY <3>1 DEF TypeInv, GoodTasks, Req, Told
    <3>4. QED
      BY <3>1, <3>2, <3>3
  <2>3. QED
    BY <2>1, <2>2
<1>6. QED
  BY <1>1, <1>2, <1>3, <1>4, <1>5 DEF JournalInv

LEMMA JournalStep == TypeInv /\ JournalInv /\ [InvocationNext]_invocationVars => JournalInv'
<1> SUFFICES ASSUME TypeInv, JournalInv, [InvocationNext]_invocationVars PROVE JournalInv'
  OBVIOUS
<1> USE DEF At
<1>1. ASSUME NEW c \in Callers, NEW r \in Requests, Invoke(c, r) PROVE JournalInv'
  <2>1. /\ task'[c].pc \notin OwnerPcs /\ task'[c].result \notin Told
        /\ \A d \in Callers \ {c} : task'[d] = task[d]
    BY <1>1 DEF Invoke, TypeInv, OwnerPcs, Holding, Told
  <2>2. QED
    BY <1>1, <2>1, ObserverStep DEF Invoke
<1>2. ASSUME NEW c \in Callers, Die(c) PROVE JournalInv'
  <2>1. /\ task'[c].pc \notin OwnerPcs /\ task'[c].result \notin Told
        /\ \A d \in Callers \ {c} : task'[d] = task[d]
    BY <1>2, IdleType DEF Die, TypeInv, OwnerPcs, Holding, Told
  <2>2. QED
    BY <1>2, <2>1, ObserverStep DEF Die
<1>3. ASSUME NEW c \in Callers, InvokerStep(c) PROVE JournalInv'
  <2> DEFINE r == Req(c)
  <2>0. /\ task[c].pc \in Running /\ r \in Requests
        /\ RequestFacts(claims[r], terminals[r], answers[r], calls[r], objects)
        /\ claims[r] \in FileStates
    <3>1. task[c].pc \in Running
      BY <1>3 DEF InvokerStep, FindTerminal, CheckClaim, CreateClaim, WriteClaim,
         ClaimWriteFails, EnterProvider, ProviderAnswers, ProviderBreaks, CheckObject,
         CreateObject, WriteObject, ObjectWriteFails, OpenTerminal, WriteTerminal,
         TerminalWriteFails, Recover, Running
    <3>2. QED
      BY <3>1, CallerType DEF JournalInv, RequestsAreSound, TypeInv, InvocationTypeOK
  <2>a. ASSUME task[c].pc \in OwnerPcs
        PROVE  /\ OwnerFacts(task[c], claims[r], terminals[r], answers[r], calls[r], objects)
               /\ \A d \in Callers \ {c} : task[d].pc \in OwnerPcs => Req(d) # r
    BY <2>a DEF JournalInv, OwnersKnow, OneOwner
  <2>b. ASSUME NEW result \in {"unknown", "malformed", "error"}, Fail(c, result),
               UNCHANGED <<journal, history>>
        PROVE  JournalInv'
    <3>1. task'[c].pc \notin OwnerPcs
      BY <2>0, <2>b, FailType DEF OwnerPcs, Holding
    <3>2. QED
      BY <2>0, <2>b, <3>1, FailType, ObserverStep
  <2>c. ASSUME NEW pc \in {"claim", "create", "recover"}, Goto(c, pc), UNCHANGED <<journal, history>>
        PROVE  JournalInv'
    <3>1. task'[c].pc \notin OwnerPcs /\ task'[c].result \notin Told
          /\ \A d \in Callers \ {c} : task'[d] = task[d]
      BY <2>0, <2>c, GotoType DEF OwnerPcs, Holding, Running, Told
    <3>2. QED
      BY <2>c, <3>1, ObserverStep
  <2>1. CASE FindTerminal(c)
    BY <2>1, <2>c DEF FindTerminal
  <2>2. CASE CheckClaim(c)
    BY <2>2, <2>b, <2>c DEF CheckClaim
  <2>3. CASE Recover(c)
    <3> DEFINE a == terminals[r]
    <3>1. a \in Answers \cup {NoAnswer, Torn}
      BY <2>0 DEF TypeInv, InvocationTypeOK
    <3>2. \/ Fail(c, "malformed") \/ Fail(c, "error")
          \/ a \in Answers /\ \E result \in {"generation", "failure"} : Finish(c, result, a)
      BY <2>3, <3>1, NoAnswerIsNone DEF Recover
    <3>3. CASE Fail(c, "malformed") \/ Fail(c, "error")
      BY <2>3, <2>b, <3>3 DEF Recover
    <3>4. ASSUME a \in Answers, NEW result \in {"generation", "failure"}, Finish(c, result, a)
          PROVE  JournalInv'
      <4>1. /\ task'[c].pc = "done" /\ Req(c)' = r /\ Answer(c)' = a
            /\ \A d \in Callers \ {c} : task'[d] = task[d]
        BY <2>0, <3>4, FinishType DEF Results
      <4>2. a = answers[r]
        BY <2>0, <3>4 DEF RequestFacts
      <4>3. task'[c].pc \notin OwnerPcs
        BY <4>1 DEF OwnerPcs, Holding
      <4>4. UNCHANGED <<journal, history>>
        BY <2>3 DEF Recover
      <4>5. Answer(c)' = answers[Req(c)'] /\ Answer(c)' \in Answers
        BY <3>4, <4>1, <4>2
      <4>6. QED
        BY <4>1, <4>3, <4>4, <4>5, ObserverStep
    <3>5. QED
      BY <3>2, <3>3, <3>4
  <2>d. ASSUME NEW d \in Callers \ {c}, At(d, "putting")
        PROVE  /\ objects[Answer(d).response] = "torn"
               /\ At(c, "putting") => Answer(c).response # Answer(d).response
    BY <2>d DEF JournalInv, OwnersKnow, OnePutter, OwnerFacts, OwnerPcs, Holding, Answer
  <2>e. ASSUME NEW pc \in Running, Goto(c, pc), pc \in Holding => task[c].pc \in Holding,
               pc \in {"store", "put", "putting"} => Answer(c).response \in Responses
        PROVE  /\ task'[c].pc = pc /\ task'[c].answer = Answer(c) /\ Req(c)' = r
               /\ Answer(c)' = Answer(c) /\ task'[c].result \notin Told
               /\ \A d \in Callers \ {c} : task'[d] = task[d]
    BY <2>0, <2>e, GotoType DEF Told, Answer
  <2>f. ASSUME Fail(c, "error")
        PROVE  /\ task'[c].pc \notin OwnerPcs /\ task'[c].pc # "putting" /\ Req(c)' = r
               /\ task'[c].result \notin Told
               /\ \A d \in Callers \ {c} : task'[d] = task[d]
    BY <2>0, <2>f, FailType DEF OwnerPcs, Holding
  <2>4. CASE CreateClaim(c)
    <3>1. CASE claims[r] # "absent"
      BY <2>4, <2>b, <3>1 DEF CreateClaim, journal
    <3>2. CASE claims[r] = "absent"
      <4>1. Goto(c, "claiming") /\ claims' = [claims EXCEPT ![r] = "torn"]
            /\ UNCHANGED <<terminals, objects, history>>
        BY <2>4, <3>2 DEF CreateClaim
      <4>2. /\ task'[c].pc = "claiming" /\ Req(c)' = r /\ task'[c].result \notin Told
            /\ \A d \in Callers \ {c} : task'[d] = task[d]
        BY <2>e, <4>1 DEF Running, Holding
      <4>3. \A d \in Callers \ {c} : task[d].pc \in OwnerPcs => Req(d) # r
        BY <3>2 DEF JournalInv, OwnersKnow, OwnerFacts
      <4>4. calls[r] = 0 /\ terminals[r] = NoAnswer /\ answers[r] = NoAnswer
        BY <2>0, <3>2 DEF RequestFacts
      <4>5. claims'[r] = "torn"
        BY <2>0, <4>1 DEF TypeInv, InvocationTypeOK
      <4>6. OwnerFacts(task'[c], claims'[r], terminals'[r], answers'[r], calls'[r], objects')
        BY <4>1, <4>2, <4>4, <4>5 DEF OwnerFacts, Holding, history
      <4>7. RequestFacts(claims'[r], terminals'[r], answers'[r], calls'[r], objects')
        BY <4>1, <4>4, <4>5, NoAnswerIsNone DEF RequestFacts, history
      <4>8. QED
        BY <2>0, <4>1, <4>2, <4>3, <4>6, <4>7, OwnerStep
           DEF TypeInv, InvocationTypeOK, history
    <3>3. QED
      BY <3>1, <3>2
  <2>5. CASE WriteClaim(c)
    <3>1. Goto(c, "call") /\ claims' = [claims EXCEPT ![r] = "written"]
          /\ UNCHANGED <<terminals, objects, history>> /\ At(c, "claiming")
      BY <2>5 DEF WriteClaim
    <3>2. /\ task'[c].pc = "call" /\ Req(c)' = r /\ task'[c].result \notin Told
          /\ \A d \in Callers \ {c} : task'[d] = task[d]
      BY <2>e, <3>1 DEF Running, Holding
    <3>3. /\ OwnerFacts(task[c], claims[r], terminals[r], answers[r], calls[r], objects)
          /\ \A d \in Callers \ {c} : task[d].pc \in OwnerPcs => Req(d) # r
      BY <2>a, <3>1 DEF OwnerPcs
    <3>4. claims'[r] = "written"
      BY <2>0, <3>1 DEF TypeInv, InvocationTypeOK
    <3>5. OwnerFacts(task'[c], claims'[r], terminals'[r], answers'[r], calls'[r], objects')
      BY <3>1, <3>2, <3>3, <3>4 DEF OwnerFacts, Holding, history
    <3>6. RequestFacts(claims'[r], terminals'[r], answers'[r], calls'[r], objects')
      BY <2>0, <3>1, <3>4 DEF RequestFacts, history
    <3>7. QED
      BY <2>0, <3>1, <3>2, <3>3, <3>5, <3>6, OwnerStep DEF TypeInv, InvocationTypeOK, history
  <2>6. CASE ClaimWriteFails(c)
    <3>1. Fail(c, "error") /\ claims' = [claims EXCEPT ![r] = "absent"]
          /\ UNCHANGED <<terminals, objects, history>> /\ At(c, "claiming")
      BY <2>6 DEF ClaimWriteFails
    <3>2. /\ OwnerFacts(task[c], claims[r], terminals[r], answers[r], calls[r], objects)
          /\ \A d \in Callers \ {c} : task[d].pc \in OwnerPcs => Req(d) # r
      BY <2>a, <3>1 DEF OwnerPcs
    <3>3. RequestFacts(claims'[r], terminals'[r], answers'[r], calls'[r], objects')
      BY <3>1, <3>2, NoAnswerIsNone DEF RequestFacts, OwnerFacts, Holding, history
    <3>4. QED
      BY <2>0, <2>f, <3>1, <3>2, <3>3, OwnerStep DEF TypeInv, InvocationTypeOK, history
  <2>7. CASE EnterProvider(c)
    <3>1. Goto(c, "calling") /\ calls' = [calls EXCEPT ![r] = @ + 1]
          /\ UNCHANGED <<journal, answers>> /\ At(c, "call")
      BY <2>7 DEF EnterProvider
    <3>2. /\ task'[c].pc = "calling" /\ Req(c)' = r /\ task'[c].result \notin Told
          /\ \A d \in Callers \ {c} : task'[d] = task[d]
      BY <2>e, <3>1 DEF Running, Holding
    <3>3. /\ OwnerFacts(task[c], claims[r], terminals[r], answers[r], calls[r], objects)
          /\ \A d \in Callers \ {c} : task[d].pc \in OwnerPcs => Req(d) # r
      BY <2>a, <3>1 DEF OwnerPcs
    <3>4. calls'[r] = 1
      BY <2>0, <3>1, <3>3 DEF TypeInv, InvocationTypeOK, OwnerFacts
    <3>5. OwnerFacts(task'[c], claims'[r], terminals'[r], answers'[r], calls'[r], objects')
      BY <3>1, <3>2, <3>3 DEF OwnerFacts, Holding, journal
    <3>6. RequestFacts(claims'[r], terminals'[r], answers'[r], calls'[r], objects')
      BY <2>0, <3>1, <3>3, <3>4 DEF RequestFacts, OwnerFacts, journal
    <3>7. QED
      BY <2>0, <3>1, <3>2, <3>3, <3>5, <3>6, OwnerStep DEF TypeInv, InvocationTypeOK, journal
  <2>8. CASE ProviderAnswers(c)
    <3>1. PICK a \in Answers :
            /\ answers' = [answers EXCEPT ![r] = a]
            /\ task' = [task EXCEPT ![c].pc = IF a.response = "none" THEN "record" ELSE "store",
                                   ![c].answer = a]
      BY <2>8 DEF ProviderAnswers
    <3> DEFINE pc == IF a.response = "none" THEN "record" ELSE "store"
    <3>2. At(c, "calling") /\ UNCHANGED <<journal, calls>>
      BY <2>8 DEF ProviderAnswers
    <3>3. task[c] \in Locals /\ task[c].result = "none"
      BY <3>2 DEF TypeInv, GoodTasks
    <3>4. /\ task'[c].pc = pc /\ task'[c].answer = a /\ Req(c)' = r
          /\ task'[c].result \notin Told
          /\ \A d \in Callers \ {c} : task'[d] = task[d]
      BY <3>1, <3>3 DEF TypeInv, Locals, Req, Told
    <3>5. /\ OwnerFacts(task[c], claims[r], terminals[r], answers[r], calls[r], objects)
          /\ \A d \in Callers \ {c} : task[d].pc \in OwnerPcs => Req(d) # r
      BY <2>a, <3>2 DEF OwnerPcs
    <3>6. answers'[r] = a
      BY <2>0, <3>1 DEF TypeInv, InvocationTypeOK
    <3>7. pc \in {"record", "store"} /\ (pc = "record" => a.response = "none")
      OBVIOUS
    <3> HIDE DEF pc
    <3>8. OwnerFacts(task'[c], claims'[r], terminals'[r], answers'[r], calls'[r], objects')
      BY <3>2, <3>4, <3>5, <3>6, <3>7 DEF OwnerFacts, Holding, journal
    <3>9. RequestFacts(claims'[r], terminals'[r], answers'[r], calls'[r], objects')
      BY <2>0, <3>2, <3>5, NoAnswerIsNone DEF RequestFacts, OwnerFacts, Holding, journal
    <3>10. answers[r] \notin Answers
      BY <3>2, <3>5, NoAnswerIsNone DEF OwnerFacts, Holding
    <3>11. \A q \in Requests \ {r} : answers'[q] = answers[q]
      BY <3>1 DEF TypeInv, InvocationTypeOK
    <3>12. task'[c].pc # "putting"
      BY <3>4, <3>7
    <3>13. QED
      BY <2>0, <3>2, <3>4, <3>5, <3>8, <3>9, <3>10, <3>11, <3>12, OwnerStep DEF journal
  <2>9. CASE ProviderBreaks(c)
    BY <2>9, <2>b DEF ProviderBreaks
  <2>10. CASE CheckObject(c)
    <3>1. \/ Fail(c, "error")
          \/ \E pc \in {"put", "record"} :
               Goto(c, pc) /\ (pc = "record" => objects[Answer(c).response] = "written")
      <4>1. objects[Answer(c).response] \in FileStates
        BY <2>10, <2>0, CallerType DEF CheckObject, TypeInv, InvocationTypeOK
      <4>2. QED
        BY <2>10, <4>1 DEF CheckObject, FileStates
    <3>2. CASE Fail(c, "error")
      BY <2>10, <2>b, <3>2 DEF CheckObject
    <3>3. ASSUME NEW pc \in {"put", "record"}, Goto(c, pc),
                 pc = "record" => objects[Answer(c).response] = "written"
          PROVE  JournalInv'
      <4>1. At(c, "store") /\ UNCHANGED <<journal, history>>
        BY <2>10 DEF CheckObject
      <4>2. Answer(c).response \in Responses
        BY <2>0, <4>1, CallerType
      <4>3. /\ task'[c].pc = pc /\ task'[c].answer = Answer(c) /\ Req(c)' = r
            /\ task'[c].result \notin Told
            /\ \A d \in Callers \ {c} : task'[d] = task[d]
        BY <2>e, <3>3, <4>1, <4>2 DEF Running, Holding
      <4>4. /\ OwnerFacts(task[c], claims[r], terminals[r], answers[r], calls[r], objects)
            /\ \A d \in Callers \ {c} : task[d].pc \in OwnerPcs => Req(d) # r
        BY <2>a, <4>1 DEF OwnerPcs, Holding
      <4>5. OwnerFacts(task'[c], claims'[r], terminals'[r], answers'[r], calls'[r], objects')
        BY <3>3, <4>1, <4>3, <4>4 DEF OwnerFacts, Holding, journal, history, Answer
      <4>6. RequestFacts(claims'[r], terminals'[r], answers'[r], calls'[r], objects')
        BY <2>0, <4>1 DEF RequestFacts, journal, history
      <4>7. QED
        BY <2>0, <4>1, <4>3, <4>4, <4>5, <4>6, OwnerStep DEF journal, history
    <3>4. QED
      BY <3>1, <3>2, <3>3
  <2>11. CASE CreateObject(c)
    <3> DEFINE o == Answer(c).response
    <3>1. At(c, "put") /\ o \in Responses /\ UNCHANGED <<claims, terminals, history>>
      BY <2>0, <2>11, CallerType DEF CreateObject
    <3>2. CASE objects[o] # "absent"
      BY <2>11, <2>b, <3>2 DEF CreateObject, journal
    <3>3. CASE objects[o] = "absent"
      <4>1. Goto(c, "putting") /\ objects' = [objects EXCEPT ![o] = "torn"]
        BY <2>11, <3>3 DEF CreateObject
      <4>2. /\ task'[c].pc = "putting" /\ task'[c].answer = Answer(c) /\ Req(c)' = r
            /\ Answer(c)' = Answer(c) /\ task'[c].result \notin Told
            /\ \A d \in Callers \ {c} : task'[d] = task[d]
        BY <2>e, <3>1, <4>1 DEF Running, Holding
      <4>3. /\ OwnerFacts(task[c], claims[r], terminals[r], answers[r], calls[r], objects)
            /\ \A d \in Callers \ {c} : task[d].pc \in OwnerPcs => Req(d) # r
        BY <2>a, <3>1 DEF OwnerPcs, Holding
      <4>4. objects'[o] = "torn" /\ \A p \in Responses \ {o} : objects'[p] = objects[p]
        BY <3>1, <4>1 DEF TypeInv, InvocationTypeOK
      <4>5. \A d \in Callers \ {c} : At(d, "putting") =>
              /\ Answer(d).response \in Responses
              /\ Answer(d).response # o
        BY <2>d, <3>3, CallerType DEF Running
      <4>6. \A p \in Responses : objects[p] = "written" => objects'[p] = "written"
        BY <3>3, <4>4
      <4>7. OwnerFacts(task'[c], claims'[r], terminals'[r], answers'[r], calls'[r], objects')
        BY <3>1, <4>2, <4>3, <4>4 DEF OwnerFacts, Holding, history, Answer
      <4>8. RequestFacts(claims'[r], terminals'[r], answers'[r], calls'[r], objects')
        BY <2>0, <3>1, <4>3, NoAnswerIsNone DEF RequestFacts, OwnerFacts, history
      <4>9. QED
        BY <2>0, <3>1, <4>2, <4>3, <4>4, <4>5, <4>6, <4>7, <4>8, OwnerStep DEF history
    <3>4. QED
      BY <3>2, <3>3
  <2>12. CASE WriteObject(c) \/ ObjectWriteFails(c)
    <3> DEFINE o == Answer(c).response
    <3>1. /\ At(c, "putting") /\ o \in Responses /\ UNCHANGED <<claims, terminals, history>>
          /\ \/ /\ Goto(c, "record") \/ Fail(c, "error")
                /\ objects' = [objects EXCEPT ![o] = "written"]
             \/ Fail(c, "error") /\ objects' = [objects EXCEPT ![o] = "absent"]
      <4>1. At(c, "putting")
        BY <2>12 DEF WriteObject, ObjectWriteFails
      <4>2. o \in Responses
        BY <2>0, <4>1, CallerType
      <4>3. QED
        BY <2>12, <4>1, <4>2 DEF WriteObject, ObjectWriteFails
    <3>2. /\ OwnerFacts(task[c], claims[r], terminals[r], answers[r], calls[r], objects)
          /\ \A d \in Callers \ {c} : task[d].pc \in OwnerPcs => Req(d) # r
      BY <2>a, <3>1 DEF OwnerPcs, Holding
    <3>3. objects[o] = "torn"
      BY <3>1, <3>2 DEF OwnerFacts, Answer
    <3>4. \A p \in Responses \ {o} : objects'[p] = objects[p]
      BY <3>1 DEF TypeInv, InvocationTypeOK
    <3>5. \A p \in Responses : objects[p] = "written" => objects'[p] = "written"
      BY <3>3, <3>4
    <3>6. \A d \in Callers \ {c} : At(d, "putting") =>
            objects'[Answer(d).response] = objects[Answer(d).response]
      BY <2>d, <3>1, <3>4, CallerType DEF Running
    <3>7. RequestFacts(claims'[r], terminals'[r], answers'[r], calls'[r], objects')
      BY <2>0, <3>1, <3>2, NoAnswerIsNone DEF RequestFacts, OwnerFacts, history
    <3>8. CASE Fail(c, "error")
      BY <2>0, <2>f, <3>1, <3>2, <3>5, <3>6, <3>7, <3>8, OwnerStep DEF history
    <3>9. CASE Goto(c, "record") /\ objects' = [objects EXCEPT ![o] = "written"]
      <4>1. /\ task'[c].pc = "record" /\ task'[c].answer = Answer(c) /\ Req(c)' = r
            /\ task'[c].result \notin Told
            /\ \A d \in Callers \ {c} : task'[d] = task[d]
        BY <2>e, <3>1, <3>9 DEF Running, Holding
      <4>2. objects'[o] = "written"
        BY <3>1, <3>9 DEF TypeInv, InvocationTypeOK
      <4>3. OwnerFacts(task'[c], claims'[r], terminals'[r], answers'[r], calls'[r], objects')
        BY <3>1, <3>2, <4>1, <4>2 DEF OwnerFacts, Holding, history, Answer
      <4>4. QED
        BY <2>0, <3>1, <3>2, <3>5, <3>6, <3>7, <4>1, <4>3, OwnerStep DEF history
    <3>10. QED
      BY <3>1, <3>8, <3>9
  <2>13. CASE OpenTerminal(c)
    <3>1. At(c, "record") /\ UNCHANGED <<claims, objects, history>>
      BY <2>13 DEF OpenTerminal
    <3>2. /\ OwnerFacts(task[c], claims[r], terminals[r], answers[r], calls[r], objects)
          /\ \A d \in Callers \ {c} : task[d].pc \in OwnerPcs => Req(d) # r
      BY <2>a, <3>1 DEF OwnerPcs, Holding
    <3>3. Goto(c, "recording") /\ terminals' = [terminals EXCEPT ![r] = Torn]
      BY <2>13, <3>1, <3>2 DEF OpenTerminal, OwnerFacts
    <3>4. /\ task'[c].pc = "recording" /\ task'[c].answer = Answer(c) /\ Req(c)' = r
          /\ task'[c].result \notin Told
          /\ \A d \in Callers \ {c} : task'[d] = task[d]
      BY <2>e, <3>1, <3>3 DEF Running, Holding
    <3>5. terminals'[r] = Torn
      BY <2>0, <3>3 DEF TypeInv, InvocationTypeOK
    <3>6. OwnerFacts(task'[c], claims'[r], terminals'[r], answers'[r], calls'[r], objects')
      BY <3>1, <3>2, <3>4, <3>5 DEF OwnerFacts, Holding, history, Answer
    <3>7. RequestFacts(claims'[r], terminals'[r], answers'[r], calls'[r], objects')
      BY <2>0, <3>1, <3>2, <3>5, NoAnswerIsNone DEF RequestFacts, OwnerFacts, history
    <3>8. QED
      BY <2>0, <3>1, <3>2, <3>3, <3>4, <3>6, <3>7, OwnerStep DEF TypeInv, InvocationTypeOK, history
  <2>14. CASE WriteTerminal(c)
    <3>1. /\ At(c, "recording") /\ UNCHANGED <<claims, objects, history>>
          /\ terminals' = [terminals EXCEPT ![r] = Answer(c)]
          /\ \E result \in {"generation", "failure"} : Finish(c, result, Answer(c))
      BY <2>14 DEF WriteTerminal
    <3>2. /\ OwnerFacts(task[c], claims[r], terminals[r], answers[r], calls[r], objects)
          /\ \A d \in Callers \ {c} : task[d].pc \in OwnerPcs => Req(d) # r
      BY <2>a, <3>1 DEF OwnerPcs, Holding
    <3>3. Answer(c) \in Answers
      BY <2>0, <3>1, CallerType DEF Holding
    <3>4. /\ task'[c].pc = "done" /\ Req(c)' = r /\ Answer(c)' = Answer(c)
          /\ \A d \in Callers \ {c} : task'[d] = task[d]
      BY <2>0, <3>1, <3>3, FinishType DEF Results
    <3>5. terminals'[r] = Answer(c) /\ answers[r] = Answer(c) /\ claims[r] # "absent"
      BY <2>0, <3>1, <3>2 DEF TypeInv, InvocationTypeOK, OwnerFacts, Holding, Answer
    <3>6. RequestFacts(claims'[r], terminals'[r], answers'[r], calls'[r], objects')
      BY <2>0, <3>1, <3>2, <3>5 DEF RequestFacts, OwnerFacts, history, Answer
    <3>7. task'[c].pc \notin OwnerPcs /\ task'[c].pc # "putting"
      BY <3>4 DEF OwnerPcs, Holding
    <3>8. \A q \in Requests \ {r} : terminals'[q] = terminals[q]
      BY <3>1 DEF TypeInv, InvocationTypeOK
    <3>9. QED
      BY <2>0, <3>1, <3>2, <3>3, <3>4, <3>5, <3>6, <3>7, <3>8, OwnerStep DEF history
  <2>15. CASE TerminalWriteFails(c)
    <3>1. /\ At(c, "recording") /\ UNCHANGED <<claims, objects, history>>
          /\ terminals' = [terminals EXCEPT ![r] = NoAnswer] /\ Fail(c, "error")
      BY <2>15 DEF TerminalWriteFails
    <3>2. /\ OwnerFacts(task[c], claims[r], terminals[r], answers[r], calls[r], objects)
          /\ \A d \in Callers \ {c} : task[d].pc \in OwnerPcs => Req(d) # r
      BY <2>a, <3>1 DEF OwnerPcs, Holding
    <3>3. terminals'[r] = NoAnswer
      BY <2>0, <3>1 DEF TypeInv, InvocationTypeOK
    <3>4. RequestFacts(claims'[r], terminals'[r], answers'[r], calls'[r], objects')
      BY <2>0, <3>1, <3>2, <3>3, NoAnswerIsNone DEF RequestFacts, OwnerFacts, history
    <3>5. QED
      BY <2>0, <2>f, <3>1, <3>2, <3>4, OwnerStep DEF TypeInv, InvocationTypeOK, history
  <2>16. QED
    BY <1>3, <2>1, <2>2, <2>3, <2>4, <2>5, <2>6, <2>7, <2>8, <2>9, <2>10, <2>11, <2>12,
       <2>13, <2>14, <2>15 DEF InvokerStep
<1>4. CASE UNCHANGED invocationVars
  BY <1>4 DEF invocationVars, journal, history, JournalInv, OwnersKnow, RequestsAreSound,
     OneOwner, OnePutter, CallersAgree, Req, Answer
<1>5. QED
  BY <1>1, <1>2, <1>3, <1>4 DEF InvocationNext

-----------------------------------------------------------------------------
(* Theorems *)

LEMMA InvocationInductive == InvocationSpec => [](TypeInv /\ JournalInv)
<1>1. InvocationInit => TypeInv /\ JournalInv
  BY TypeInit, JournalInit
<1>2. TypeInv /\ JournalInv /\ [InvocationNext]_invocationVars => (TypeInv /\ JournalInv)'
  BY TypeStep, JournalStep
<1>3. QED
  BY <1>1, <1>2, PTL DEF InvocationSpec

\* Whatever dies, fails or races, the files and the callers' locals stay in
\* their types.
THEOREM InvocationTypeCorrect == InvocationSpec => []InvocationTypeOK
<1>1. TypeInv => InvocationTypeOK
  BY DEF TypeInv
<1>2. QED
  BY <1>1, InvocationInductive, PTL

\* For any number of callers the provider is entered at most once per request:
\* the claim outlives every caller that dies after entering it.
THEOREM ProviderEnteredOnce == InvocationSpec => []AtMostOnce
<1>1. JournalInv => AtMostOnce
  BY DEF JournalInv, RequestsAreSound, RequestFacts, AtMostOnce
<1>2. QED
  BY <1>1, InvocationInductive, PTL

\* A complete terminal record holds the provider's answer, and the response it
\* names is readable.
THEOREM JournalAlwaysTruthful == InvocationSpec => []JournalIsTruthful
<1>1. JournalInv => JournalIsTruthful
  BY DEF JournalInv, RequestsAreSound, RequestFacts, JournalIsTruthful, Readable
<1>2. QED
  BY <1>1, InvocationInductive, PTL

\* invoke hands every caller the provider's one answer, called or recovered.
THEOREM CallersAlwaysAgree == InvocationSpec => []CallersAgree
<1>1. JournalInv => CallersAgree
  BY DEF JournalInv
<1>2. QED
  BY <1>1, InvocationInductive, PTL

\* Only the owner of an unresolved request opens or closes its record.
ResolvedStay == \A r \in Requests : terminals[r] \in Answers => terminals'[r] = terminals[r]

LEMMA ResolvedStep == TypeInv /\ JournalInv /\ [InvocationNext]_invocationVars => ResolvedStay
<1> SUFFICES ASSUME TypeInv, JournalInv, [InvocationNext]_invocationVars,
                    NEW r \in Requests, terminals[r] \in Answers
             PROVE  terminals'[r] = terminals[r]
  BY DEF ResolvedStay
<1>1. ASSUME NEW c \in Callers, InvokerStep(c) PROVE terminals'[r] = terminals[r]
  <2>1. CASE OpenTerminal(c) \/ WriteTerminal(c) \/ TerminalWriteFails(c)
    <3>1. task[c].pc \in {"record", "recording"}
      BY <2>1 DEF OpenTerminal, WriteTerminal, TerminalWriteFails, At
    <3>2. terminals[Req(c)] \notin Answers
      BY <3>1, NoAnswerIsNone DEF JournalInv, OwnersKnow, OwnerFacts, OwnerPcs, Holding
    <3>3. \A q \in Requests \ {Req(c)} : terminals'[q] = terminals[q]
      BY <2>1 DEF OpenTerminal, WriteTerminal, TerminalWriteFails, TypeInv, InvocationTypeOK
    <3>4. QED
      BY <3>2, <3>3
  <2>2. CASE ~(OpenTerminal(c) \/ WriteTerminal(c) \/ TerminalWriteFails(c))
    BY <1>1, <2>2 DEF InvokerStep, FindTerminal, CheckClaim, CreateClaim, WriteClaim,
       ClaimWriteFails, EnterProvider, ProviderAnswers, ProviderBreaks, CheckObject,
       CreateObject, WriteObject, ObjectWriteFails, Recover, journal
  <2>3. QED
    BY <2>1, <2>2
<1>2. QED
  BY <1>1 DEF InvocationNext, Invoke, Die, journal, invocationVars

\* A complete terminal record is never replaced or removed.
THEOREM ResolvedStaysResolved == InvocationSpec => ResolvedStays
<1>1. ResolvedStay => \A r \in Requests : terminals[r] \in Answers => terminals'[r] = terminals[r]
  BY DEF ResolvedStay
<1>2. QED
  BY <1>1, ResolvedStep, InvocationInductive, PTL DEF InvocationSpec, ResolvedStays

-----------------------------------------------------------------------------
(* A phase charges what the journal says *)

\* Workers that end an item or die with their process leave the journal sound.
LEMMA CallersLeave ==
  ASSUME TypeInv, JournalInv, UNCHANGED <<journal, history, invocations>>,
         task' \in [Callers -> GoodTasks],
         \A c \in Callers : task'[c] = task[c] \/ task'[c] = Idle
  PROVE  TypeInv' /\ JournalInv'
<1>1. \A c \in Callers :
        task'[c] = task[c] \/ (/\ task'[c].pc \notin OwnerPcs /\ task'[c].pc # "putting"
                              /\ task'[c].result \notin Told)
  BY IdleType DEF OwnerPcs, Holding, Told
<1>2. TypeInv'
  BY DEF TypeInv, InvocationTypeOK, GoodTasks, journal, history
<1>3. OwnersKnow' /\ RequestsAreSound'
  BY <1>1 DEF JournalInv, OwnersKnow, RequestsAreSound, Req, journal, history
<1>4. OneOwner' /\ OnePutter'
  BY <1>1 DEF JournalInv, OneOwner, OnePutter, Req, At, Answer
<1>5. CallersAgree'
  BY <1>1 DEF JournalInv, CallersAgree, Req, Answer, Told, journal, history
<1>6. QED
  BY <1>2, <1>3, <1>4, <1>5 DEF JournalInv

\* What a caller tells is in the terminal record, and a generation is metered.
Tells(c) ==
  task[c].result \in Told =>
    /\ Req(c) \in Requests
    /\ terminals[Req(c)] = Answer(c) /\ Answer(c) \in Answers
    /\ task[c].result = "generation" => Answer(c).metered

LEMMA TellsStep ==
  ASSUME TypeInv, JournalInv, NEW c \in Callers, InvokerStep(c)
  PROVE  Tells(c)' /\ \A d \in Callers \ {c} : task'[d] = task[d]
<1>0. task \in [Callers -> GoodTasks] /\ task[c] \in Locals
  BY DEF TypeInv, GoodTasks
<1>1. task[c].pc \in Running
  BY DEF InvokerStep, FindTerminal, CheckClaim, CreateClaim, WriteClaim,
     ClaimWriteFails, EnterProvider, ProviderAnswers, ProviderBreaks, CheckObject,
     CreateObject, WriteObject, ObjectWriteFails, Recover, OpenTerminal, WriteTerminal,
     TerminalWriteFails, At, Running
<1>2. task[c].result = "none" /\ Req(c) \in Requests
  BY <1>0, <1>1 DEF GoodTasks, Running, Req
<1>3. ASSUME NEW pc, Goto(c, pc)
      PROVE  task'[c].result = "none" /\ \A d \in Callers \ {c} : task'[d] = task[d]
  BY <1>0, <1>2, <1>3 DEF Goto, Locals
<1>4. ASSUME NEW result, NEW a, Finish(c, result, a)
      PROVE  /\ task'[c].result = result /\ Answer(c)' = a /\ Req(c)' = Req(c)
             /\ \A d \in Callers \ {c} : task'[d] = task[d]
  BY <1>0, <1>4 DEF Finish, Req, Answer
<1>5. ASSUME NEW a \in Answers, terminals'[Req(c)] = a,
             Finish(c, IF a.status = "SUCCEEDED" THEN "generation" ELSE "failure", a)
      PROVE  Tells(c)' /\ \A d \in Callers \ {c} : task'[d] = task[d]
  <2>1. a.status = "SUCCEEDED" => a.metered
    BY DEF Answers
  <2>2. /\ task'[c].result = IF a.status = "SUCCEEDED" THEN "generation" ELSE "failure"
        /\ Answer(c)' = a /\ Req(c)' = Req(c)
        /\ \A d \in Callers \ {c} : task'[d] = task[d]
    BY <1>4, <1>5
  <2>3. Tells(c)'
    BY <1>2, <1>5, <2>1, <2>2 DEF Tells
  <2>4. QED
    BY <2>2, <2>3
<1>6. CASE WriteTerminal(c)
  <2>1. Answer(c) \in Answers
    BY <1>1, <1>6, CallerType DEF WriteTerminal, At, Holding
  <2>2. terminals'[Req(c)] = Answer(c)
    BY <1>2, <1>6 DEF WriteTerminal, TypeInv, InvocationTypeOK
  <2>3. QED
    BY <1>5, <1>6, <2>1, <2>2 DEF WriteTerminal
<1>7. CASE Recover(c)
  <2>1. UNCHANGED terminals
    BY <1>7 DEF Recover, journal
  <2>2. \/ Fail(c, "malformed") \/ Fail(c, "error")
        \/ /\ terminals[Req(c)] \in Answers
           /\ Finish(c, IF terminals[Req(c)].status = "SUCCEEDED"
                        THEN "generation" ELSE "failure", terminals[Req(c)])
    BY <1>2, <1>7, NoAnswerIsNone DEF Recover, TypeInv, InvocationTypeOK
  <2>3. CASE Fail(c, "malformed") \/ Fail(c, "error")
    BY <2>3, <1>4 DEF Fail, Tells, Told
  <2>4. CASE ~(Fail(c, "malformed") \/ Fail(c, "error"))
    BY <2>1, <2>2, <2>4, <1>5
  <2>5. QED
    BY <2>3, <2>4
<1>8. CASE ProviderAnswers(c)
  <2>1. PICK a \in Answers :
          task' = [task EXCEPT ![c].pc = IF a.response = "none" THEN "record" ELSE "store",
                               ![c].answer = a]
    BY <1>8 DEF ProviderAnswers
  <2>2. task'[c].result = "none" /\ \A d \in Callers \ {c} : task'[d] = task[d]
    BY <1>0, <1>2, <2>1 DEF Locals
  <2>3. QED
    BY <2>2 DEF Tells, Told
<1>9. CASE ~(WriteTerminal(c) \/ Recover(c) \/ ProviderAnswers(c))
  <2>1. \/ \E pc : Goto(c, pc)
        \/ Fail(c, "malformed") \/ Fail(c, "error") \/ Fail(c, "unknown")
    <3>1. CASE CheckObject(c)
      <4>1. objects[Answer(c).response] \in FileStates
        BY <1>1, <3>1, CallerType DEF CheckObject, At, TypeInv, InvocationTypeOK
      <4>2. QED
        BY <3>1, <4>1 DEF CheckObject, FileStates
    <3>2. CASE ~CheckObject(c)
      BY <1>9, <3>2 DEF InvokerStep, FindTerminal, CheckClaim, CreateClaim, WriteClaim,
         ClaimWriteFails, EnterProvider, ProviderBreaks, CreateObject, WriteObject,
         ObjectWriteFails, OpenTerminal, TerminalWriteFails
    <3>3. QED
      BY <3>1, <3>2
  <2>2. QED
    BY <2>1, <1>3, <1>4 DEF Fail, Tells, Told
<1>10. QED
  BY <1>6, <1>7, <1>8, <1>9

\* What the phase keeps: callers tell the journal's truth, and a charged draw
\* stands on a metered record.
DrawInv ==
  /\ draws \in [Requests -> DrawStates]
  /\ \A c \in Callers : Tells(c)
  /\ \A c \in saving : c \in Callers /\ At(c, "done")
                        /\ task[c].result \in {"generation", "failure", "malformed"}
  /\ \A r \in Requests : draws[r] = "charged" => terminals[r] \in Answers /\ terminals[r].metered

PhaseInv == TypeInv /\ JournalInv /\ DrawInv

LEMMA PhaseStartsSound == PhaseInit => PhaseInv
<1> SUFFICES ASSUME PhaseInit PROVE PhaseInv
  OBVIOUS
<1>1. TypeInv /\ JournalInv
  BY TypeInit, JournalInit DEF PhaseInit
<1>2. \A c \in Callers : task[c].result \notin Told
  BY IdleType DEF PhaseInit, InvocationInit, Told
<1>3. DrawInv
  BY <1>2 DEF PhaseInit, DrawInv, DrawStates, Tells
<1>4. QED
  BY <1>1, <1>3 DEF PhaseInv

LEMMA PhaseStep == PhaseInv /\ [PhaseNext]_drawVars => PhaseInv'
<1> SUFFICES ASSUME PhaseInv, [PhaseNext]_drawVars PROVE PhaseInv'
  OBVIOUS
<1> USE DEF PhaseInv
<1>0. task \in [Callers -> GoodTasks]
  BY DEF TypeInv
\* The journal's own steps.
<1>1. ASSUME NEW c \in Callers, InvokerStep(c) \/ \E r \in Requests : Invoke(c, r),
             UNCHANGED <<draws, saving>>, c \notin saving
      PROVE  PhaseInv'
  <2>1. TypeInv' /\ JournalInv' /\ ResolvedStay
    BY <1>1, TypeStep, JournalStep, ResolvedStep DEF InvocationNext
  <2>2. Tells(c)' /\ \A d \in Callers \ {c} : task'[d] = task[d]
    <3>1. CASE InvokerStep(c)
      BY <3>1, TellsStep
    <3>2. CASE \E r \in Requests : Invoke(c, r)
      BY <3>2, <1>0 DEF Invoke, Tells, Told
    <3>3. QED
      BY <1>1, <3>1, <3>2
  <2>3. ASSUME NEW d \in Callers \ {c} PROVE Tells(d)'
    BY <2>1, <2>2 DEF DrawInv, Tells, ResolvedStay, Req, Answer
  <2>4. DrawInv'
    BY <1>1, <2>1, <2>2, <2>3 DEF DrawInv, ResolvedStay, At
  <2>5. QED
    BY <2>1, <2>4
\* Steps that end items, or none.
<1>2. ASSUME UNCHANGED <<journal, history, invocations>>, task' \in [Callers -> GoodTasks],
             \A c \in Callers : task'[c] = task[c] \/ task'[c] = Idle,
             \A c \in saving' : c \in saving /\ task'[c] = task[c],
             draws' \in [Requests -> DrawStates],
             \A r \in Requests : draws'[r] = "charged" =>
               terminals[r] \in Answers /\ terminals[r].metered
      PROVE  PhaseInv'
  <2>1. TypeInv' /\ JournalInv'
    BY <1>2, CallersLeave
  <2>2. \A c \in Callers : Tells(c)'
    BY <1>2, IdleType DEF DrawInv, Tells, Told, Req, Answer, journal
  <2>3. DrawInv'
    BY <1>2, <2>2 DEF DrawInv, At, journal
  <2>4. QED
    BY <2>1, <2>3
<1>3. ASSUME NEW c \in Callers, InvokerStep(c), UNCHANGED phaseVars PROVE PhaseInv'
  <2>1. task[c].pc # "done"
    BY <1>3 DEF InvokerStep, FindTerminal, CheckClaim, CreateClaim, WriteClaim,
     ClaimWriteFails, EnterProvider, ProviderAnswers, ProviderBreaks, CheckObject,
     CreateObject, WriteObject, ObjectWriteFails, Recover, OpenTerminal, WriteTerminal,
     TerminalWriteFails, At
  <2>2. QED
    BY <1>1, <1>3, <2>1 DEF DrawInv, At, phaseVars
<1>4. ASSUME NEW c \in Callers, NEW r \in Requests, Draw(c, r) PROVE PhaseInv'
  BY <1>1, <1>4 DEF Draw, Busy, DrawInv, At
<1>5. ASSUME NEW c \in Callers, OpenCheckpoint(c) PROVE PhaseInv'
  <2>1. Req(c) \in Requests
    BY <1>0, <1>5 DEF OpenCheckpoint, At, Req, GoodTasks
  <2>2. UNCHANGED invocationVars /\ draws' = [draws EXCEPT ![Req(c)] = "torn"]
        /\ saving' = saving \cup {c}
    BY <1>5 DEF OpenCheckpoint
  <2>3. TypeInv' /\ JournalInv'
    BY <2>2, TypeStep, JournalStep
  <2>4. \A d \in Callers : Tells(d)'
    BY <2>2 DEF DrawInv, Tells, Req, Answer, invocationVars, journal
  <2>5. DrawInv'
    BY <1>5, <2>1, <2>2, <2>4 DEF OpenCheckpoint, DrawInv, DrawStates, At, invocationVars, journal
  <2>6. QED
    BY <2>3, <2>5
<1>6. ASSUME NEW c \in Callers, WriteCheckpoint(c) PROVE PhaseInv'
  <2>1. /\ At(c, "done") /\ task[c].result \in {"generation", "failure", "malformed"} /\ Tells(c)
    BY <1>6 DEF WriteCheckpoint, DrawInv
  <2>2. Req(c) \in Requests
    BY <1>0, <2>1 DEF At, Req, GoodTasks
  <2>0. PICK d \in Charge(task[c]) : draws' = [draws EXCEPT ![Req(c)] = d]
    BY <1>6 DEF WriteCheckpoint
  <2>3. /\ d \in DrawStates
        /\ d = "charged" => terminals[Req(c)] \in Answers /\ terminals[Req(c)].metered
    BY <2>0, <2>1 DEF Charge, DrawStates, Tells, Told, Answer
  <2>4. draws' = [draws EXCEPT ![Req(c)] = d] /\ draws \in [Requests -> DrawStates]
    BY <1>6, <2>0 DEF WriteCheckpoint, DrawInv
  <2>5. \A r \in Requests : draws'[r] = "charged" => terminals[r] \in Answers /\ terminals[r].metered
    BY <2>2, <2>3, <2>4 DEF DrawInv
  <2>6. QED
    BY <1>0, <1>2, <1>6, <2>2, <2>3, <2>4, <2>5, IdleType DEF WriteCheckpoint
<1>7. ASSUME NEW c \in Callers, CheckpointWriteFails(c) PROVE PhaseInv'
  BY <1>0, <1>2, <1>7, IdleType DEF CheckpointWriteFails, DrawInv, DrawStates
<1>8. ASSUME NEW c \in Callers, ItemFails(c) PROVE PhaseInv'
  BY <1>0, <1>2, <1>8, IdleType DEF ItemFails, DrawInv, phaseVars
<1>9. CASE Crash
  BY <1>0, <1>2, <1>9, IdleType DEF Crash, DrawInv
<1>10. ASSUME UNCHANGED <<invocationVars, draws, saving>> PROVE PhaseInv'
  BY <1>0, <1>2, <1>10 DEF DrawInv, invocationVars
<1>11. QED
  BY <1>3, <1>4, <1>5, <1>6, <1>7, <1>8, <1>9, <1>10
     DEF PhaseNext, Work, OpenPhase, SkipDrawn, ClosePhase, drawVars, phaseVars

\* Across any crashes and repeated phases, a draw is charged only when the
\* journal holds its complete terminal record with the provider's own usage.
THEOREM ChargesAlwaysJournaled == PhaseSpec => []ChargesAreJournaled
<1>1. PhaseInv => ChargesAreJournaled
  BY DEF PhaseInv, DrawInv, JournalInv, RequestsAreSound, RequestFacts, ChargesAreJournaled
<1>2. QED
  BY <1>1, PhaseStartsSound, PhaseStep, PTL DEF PhaseSpec
============================================================================
