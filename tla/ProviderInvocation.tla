------------------------- MODULE ProviderInvocation -------------------------
(***************************************************************************)
(* DurableProviderInvoker.invoke                                           *)
(* (src/discoveryos/runtime/provider_invocations.py) over the create-once  *)
(* files of ArtifactStore (runtime/artifacts.py): a claim before the       *)
(* provider is entered, the response as a content-addressed object, then a *)
(* terminal record.  Files are created empty (O_EXCL) and then written, so *)
(* another caller, or a restart, may meet a torn one.                      *)
(*                                                                         *)
(* A caller is a thread or process inside invoke; it may die at any step.  *)
(* The response and the transport log are kept as one object.              *)
(***************************************************************************)
EXTENDS Naturals

CONSTANTS
  Callers,
  Requests,       \* invocation ids: namespace and request binding
  Responses,      \* digests of what a provider may send back
  MaxInvocations  \* bound: calls of invoke in one behaviour

ASSUME InvocationAssumption ==
  /\ "none" \notin Responses
  /\ MaxInvocations \in Nat

VARIABLES
  claims,       \* claim.json per request: a file state
  terminals,    \* terminal.json per request: absent, torn or an answer
  objects,      \* objects/<digest>/payload: a file state
  calls,        \* history: how often the provider was entered
  answers,      \* history: what the provider answered
  task,         \* task[c]: control state and locals of caller c
  invocations

journal == <<claims, terminals, objects>>
history == <<calls, answers>>
invocationVars == <<journal, history, task, invocations>>

FileStates == {"absent", "torn", "written"}

\* A ProviderGeneration, or a GenerationProviderError that may carry neither a
\* response nor its usage.
Answers ==
  [status : {"SUCCEEDED"}, response : Responses, metered : {TRUE}] \cup
  [status : {"PROVIDER_FAILURE"}, response : Responses \cup {"none"}, metered : BOOLEAN]

NoAnswer == [status |-> "NONE", response |-> "none", metered |-> FALSE]
Torn     == [status |-> "TORN", response |-> "none", metered |-> FALSE]

Running == {"find", "claim", "create", "claiming", "call", "calling",
            "store", "put", "putting", "record", "recording", "recover"}

\* How invoke ends: a generation, the provider's failure, InvocationStateUnknown,
\* a JSON error on a torn record, or another exception.
Results == {"generation", "failure", "unknown", "malformed", "error"}

At(c, pc) == task[c].pc = pc
Req(c) == task[c].req
Answer(c) == task[c].answer

Idle == [pc |-> "idle", req |-> "none", answer |-> NoAnswer, result |-> "none"]

Goto(c, pc) == task' = [task EXCEPT ![c].pc = pc]

Finish(c, result, answer) ==
  task' = [task EXCEPT ![c] = [pc |-> "done", req |-> Req(c),
                               answer |-> answer, result |-> result]]

Fail(c, result) == Finish(c, result, NoAnswer)

InvocationInit ==
  /\ claims = [r \in Requests |-> "absent"]
  /\ terminals = [r \in Requests |-> NoAnswer]
  /\ objects = [o \in Responses |-> "absent"]
  /\ calls = [r \in Requests |-> 0]
  /\ answers = [r \in Requests |-> NoAnswer]
  /\ task = [c \in Callers |-> Idle]
  /\ invocations = 0

-----------------------------------------------------------------------------
(* The terminal record, then the claim *)

Invoke(c, r) ==
  /\ task[c].pc \notin Running
  /\ invocations < MaxInvocations
  /\ invocations' = invocations + 1
  /\ task' = [task EXCEPT ![c] = [pc |-> "find", req |-> r,
                                  answer |-> NoAnswer, result |-> "none"]]
  /\ UNCHANGED <<journal, history>>

FindTerminal(c) ==
  /\ At(c, "find")
  /\ Goto(c, IF terminals[Req(c)] = NoAnswer THEN "claim" ELSE "recover")
  /\ UNCHANGED <<journal, history, invocations>>

\* Mutant: a claim without a terminal record is taken over.
CheckClaimTakingOver(c) ==
  /\ At(c, "claim")
  /\ \/ claims[Req(c)] = "absent" /\ Goto(c, "create")
     \/ /\ claims[Req(c)] # "absent"
        /\ Goto(c, IF terminals[Req(c)] # NoAnswer THEN "recover" ELSE "call")
  /\ UNCHANGED <<journal, history, invocations>>

\* write_record finds no claim; or it finds one, which never equals the caller's
\* own, and the caller recovers, or gives up after reading the claim back.
CheckClaim(c) ==
  /\ At(c, "claim")
  /\ \/ claims[Req(c)] = "absent" /\ Goto(c, "create")
     \/ /\ claims[Req(c)] # "absent"
        /\ IF terminals[Req(c)] # NoAnswer THEN Goto(c, "recover")
           ELSE Fail(c, IF claims[Req(c)] = "torn" THEN "malformed" ELSE "unknown")
  /\ UNCHANGED <<journal, history, invocations>>

CreateClaim(c) ==
  /\ At(c, "create")
  /\ \/ /\ claims[Req(c)] = "absent"
        /\ claims' = [claims EXCEPT ![Req(c)] = "torn"]
        /\ Goto(c, "claiming")
     \/ /\ claims[Req(c)] # "absent"   \* FileExistsError
        /\ Fail(c, "error")
        /\ UNCHANGED claims
  /\ UNCHANGED <<terminals, objects, history, invocations>>

WriteClaim(c) ==
  /\ At(c, "claiming")
  /\ claims' = [claims EXCEPT ![Req(c)] = "written"]
  /\ Goto(c, "call")
  /\ UNCHANGED <<terminals, objects, history, invocations>>

\* A write that fails removes its file; the provider was not entered.
ClaimWriteFails(c) ==
  /\ At(c, "claiming")
  /\ claims' = [claims EXCEPT ![Req(c)] = "absent"]
  /\ Fail(c, "error")
  /\ UNCHANGED <<terminals, objects, history, invocations>>

-----------------------------------------------------------------------------
(* The provider *)

EnterProvider(c) ==
  /\ At(c, "call")
  /\ calls' = [calls EXCEPT ![Req(c)] = @ + 1]
  /\ Goto(c, "calling")
  /\ UNCHANGED <<journal, answers, invocations>>

ProviderAnswers(c) ==
  /\ At(c, "calling")
  /\ \E a \in Answers :
       /\ answers' = [answers EXCEPT ![Req(c)] = a]
       /\ task' = [task EXCEPT ![c].pc = IF a.response = "none" THEN "record" ELSE "store",
                               ![c].answer = a]
  /\ UNCHANGED <<journal, calls, invocations>>

\* Any other exception leaves the claim without a terminal record.
ProviderBreaks(c) ==
  /\ At(c, "calling")
  /\ Fail(c, "error")
  /\ UNCHANGED <<journal, history, invocations>>

-----------------------------------------------------------------------------
(* put_bytes, then the terminal record *)

\* Mutant: an existing payload is taken for the response.
CheckObjectUnhashed(c) ==
  /\ At(c, "store")
  /\ Goto(c, IF objects[Answer(c).response] = "absent" THEN "put" ELSE "record")
  /\ UNCHANGED <<journal, history, invocations>>

\* A payload that does not hash to its name is an ImmutableWriteError.
CheckObject(c) ==
  /\ At(c, "store")
  /\ CASE objects[Answer(c).response] = "absent"  -> Goto(c, "put")
       [] objects[Answer(c).response] = "torn"    -> Fail(c, "error")
       [] objects[Answer(c).response] = "written" -> Goto(c, "record")
  /\ UNCHANGED <<journal, history, invocations>>

CreateObject(c) ==
  /\ At(c, "put")
  /\ \/ /\ objects[Answer(c).response] = "absent"
        /\ objects' = [objects EXCEPT ![Answer(c).response] = "torn"]
        /\ Goto(c, "putting")
     \/ /\ objects[Answer(c).response] # "absent"
        /\ Fail(c, "error")
        /\ UNCHANGED objects
  /\ UNCHANGED <<claims, terminals, history, invocations>>

\* The manifest is written after the payload, and may fail on its own.
WriteObject(c) ==
  /\ At(c, "putting")
  /\ objects' = [objects EXCEPT ![Answer(c).response] = "written"]
  /\ Goto(c, "record") \/ Fail(c, "error")
  /\ UNCHANGED <<claims, terminals, history, invocations>>

ObjectWriteFails(c) ==
  /\ At(c, "putting")
  /\ objects' = [objects EXCEPT ![Answer(c).response] = "absent"]
  /\ Fail(c, "error")
  /\ UNCHANGED <<claims, terminals, history, invocations>>

\* Mutant: the record is opened for writing whether it exists or not, by a
\* caller that recovers as well.
OpenTerminalTruncating(c) ==
  /\ At(c, "record") \/ (At(c, "recover") /\ terminals[Req(c)] # NoAnswer)
  /\ terminals' = [terminals EXCEPT ![Req(c)] = Torn]
  /\ Goto(c, "recording")
  /\ UNCHANGED <<claims, objects, history, invocations>>

OpenTerminal(c) ==
  /\ At(c, "record")
  /\ \/ /\ terminals[Req(c)] = NoAnswer
        /\ terminals' = [terminals EXCEPT ![Req(c)] = Torn]
        /\ Goto(c, "recording")
     \/ /\ terminals[Req(c)] # NoAnswer
        /\ Fail(c, "error")
        /\ UNCHANGED terminals
  /\ UNCHANGED <<claims, objects, history, invocations>>

WriteTerminal(c) ==
  /\ At(c, "recording")
  /\ terminals' = [terminals EXCEPT ![Req(c)] = Answer(c)]
  /\ Finish(c, IF Answer(c).status = "SUCCEEDED" THEN "generation" ELSE "failure", Answer(c))
  /\ UNCHANGED <<claims, objects, history, invocations>>

TerminalWriteFails(c) ==
  /\ At(c, "recording")
  /\ terminals' = [terminals EXCEPT ![Req(c)] = NoAnswer]
  /\ Fail(c, "error")
  /\ UNCHANGED <<claims, objects, history, invocations>>

-----------------------------------------------------------------------------
(* _recover *)

Readable(a) == a.response = "none" \/ objects[a.response] = "written"

\* Mutant: the record is taken as it is read.
RecoverUnverified(c) ==
  /\ At(c, "recover")
  /\ LET a == terminals[Req(c)] IN
       Finish(c, IF a.status = "SUCCEEDED" THEN "generation" ELSE "failure", a)
  /\ UNCHANGED <<journal, history, invocations>>

Recover(c) ==
  /\ At(c, "recover")
  /\ LET a == terminals[Req(c)] IN
       CASE a \in {Torn, NoAnswer} -> Fail(c, IF a = Torn THEN "malformed" ELSE "error")
         [] a \in Answers /\ ~Readable(a) -> Fail(c, "error")
         [] a \in Answers /\ Readable(a) ->
              Finish(c, IF a.status = "SUCCEEDED" THEN "generation" ELSE "failure", a)
  /\ UNCHANGED <<journal, history, invocations>>

-----------------------------------------------------------------------------

InvokerStep(c) ==
  \/ FindTerminal(c) \/ CheckClaim(c) \/ CreateClaim(c) \/ WriteClaim(c) \/ ClaimWriteFails(c)
  \/ EnterProvider(c) \/ ProviderAnswers(c) \/ ProviderBreaks(c)
  \/ CheckObject(c) \/ CreateObject(c) \/ WriteObject(c) \/ ObjectWriteFails(c)
  \/ OpenTerminal(c) \/ WriteTerminal(c) \/ TerminalWriteFails(c)
  \/ Recover(c)

\* The caller dies; a provider it entered may still have answered.
Die(c) ==
  /\ task[c].pc \in Running
  /\ task' = [task EXCEPT ![c] = Idle]
  /\ UNCHANGED <<journal, history, invocations>>

InvocationNext ==
  \E c \in Callers :
    \/ InvokerStep(c)
    \/ Die(c)
    \/ \E r \in Requests : Invoke(c, r)

InvocationSpec == InvocationInit /\ [][InvocationNext]_invocationVars

-----------------------------------------------------------------------------
(* Properties *)

Locals == [pc : Running \cup {"idle", "done"}, req : Requests \cup {"none"},
           answer : Answers \cup {NoAnswer}, result : Results \cup {"none"}]

InvocationTypeOK ==
  /\ claims \in [Requests -> FileStates]
  /\ terminals \in [Requests -> Answers \cup {NoAnswer, Torn}]
  /\ objects \in [Responses -> FileStates]
  /\ calls \in [Requests -> Nat]
  /\ answers \in [Requests -> Answers \cup {NoAnswer}]
  /\ task \in [Callers -> Locals]
  /\ invocations \in 0..MaxInvocations

\* The docstring's promise: however many callers race, die and retry, the
\* provider is entered at most once for a request.
AtMostOnce == \A r \in Requests : calls[r] <= 1

\* A complete terminal record tells what the provider answered, and what it
\* refers to can be read back, whoever else was storing the same response.
JournalIsTruthful ==
  \A r \in Requests :
    terminals[r] \in Answers => terminals[r] = answers[r] /\ Readable(terminals[r])

\* Whether it called, recovered, or met the record of another caller, invoke
\* hands out nothing but the provider's one answer to that request.
CallersAgree ==
  \A c \in Callers :
    task[c].result \in {"generation", "failure"} =>
      Answer(c) = answers[Req(c)] /\ Answer(c) \in Answers

\* A resolved invocation stays resolved: no late caller, failed write or
\* restart replaces or removes a complete terminal record.
ResolvedStays ==
  [][\A r \in Requests : terminals[r] \in Answers => terminals'[r] = terminals[r]]_invocationVars
============================================================================
