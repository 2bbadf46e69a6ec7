----------------------------- MODULE Messaging ------------------------------
(***************************************************************************)
(* The AI service and the notification service together: the chunks of     *)
(* Chat travel through NATS and Notification to the subscribers.           *)
(***************************************************************************)
EXTENDS Naturals, Sequences

CONSTANTS
    Questions, Models, MaxChunks, NoThread,     \* see Chat
    Events,                                     \* see Notification
    Faults, MaxFaults

FaultKinds ==
    { "mongo",      \* a create fails, or its reply is lost
      "redis",      \* the context of a question cannot be had
      "nats",       \* NATS loses a message
      "user",       \* the user service does not answer
      "crash" }     \* one of the services restarts

ASSUME ChatAssumption == Models \in Nat \ {0} /\ MaxChunks \in Nat
ASSUME NoThreadAssumption == NoThread \notin Questions
ASSUME FaultAssumption == Faults \subseteq FaultKinds /\ MaxFaults \in Nat

VARIABLES
    threads, messages, ask,             \* of the AI service
    stream, alerts, notes, job, marking, mailed,  \* of the notification service
    inbox, lost, faults                 \* of both

chat == <<threads, messages, ask>>
notification == <<stream, alerts, notes, job, marking, mailed>>
vars == <<threads, messages, ask, stream, alerts, notes, job, marking, mailed, inbox, lost, faults>>

C == INSTANCE Chat
N == INSTANCE Notification

Init ==
    /\ C!Init
    /\ N!Init
    /\ inbox = <<>>
    /\ lost = {}
    /\ faults = 0

Next ==
    \/ C!Next /\ UNCHANGED notification
    \/ N!Next /\ UNCHANGED chat

\* Requests that have begun are served, Gemini's stream ends in one way or
\* another, and NATS delivers what it has not lost.
Fairness ==
    /\ \A q \in Questions : WF_vars(C!Answer(q) /\ UNCHANGED notification)
    /\ WF_vars(N!Receive /\ UNCHANGED chat)

Spec == Init /\ [][Next]_vars /\ Fairness

-----------------------------------------------------------------------------
(* Properties                                                              *)

ChunkMessage == [thread: Questions, of: Questions, token: C!Tokens, final: BOOLEAN]

\* Every variable holds a value of its type: NATS carries chunks of the threads
\* there are, and the subscribers are sent chunks, and told of events.
TypeOK ==
    /\ C!TypeOK
    /\ N!TypeOK
    /\ inbox \in Seq(ChunkMessage)
    /\ stream \in Seq(ChunkMessage)
    /\ alerts \in Seq(Events)

\* The last that the subscriber has seen when the i-th chunk comes is the text,
\* in the thread of that chunk.
ShownLast(text, i) ==
    /\ Len(text) < i
    /\ \A k \in DOMAIN text :
          LET m == stream[i - 1 - Len(text) + k]
          IN  m.thread = stream[i].thread /\ m.token = text[k] /\ ~m.final

\* When the final chunk reaches the subscriber, the answer is in the database;
\* and if no other question was under way and no chunk was lost, it is the end
\* of what she has seen in the thread: what came before it are models that
\* failed, and requests that did.
ShownIsStored ==
    \A i \in DOMAIN stream :
        LET q == stream[i].of
        IN  stream[i].final =>
               \E a \in C!Answers(q) :
                  /\ \A b \in C!Answers(q) : b <= a
                  /\ ask[q].alone /\ <<q, "chunk">> \notin lost =>
                        ShownLast(messages[a].text, i)

AnswerIsWhole  == C!AnswerIsWhole
OneAnswer      == C!OneAnswer
RacingThreads  == C!RacingThreads
ToldIsStored   == N!ToldIsStored
DeletedForGood == N!DeletedForGood

Closed(q) == \E i \in DOMAIN stream : stream[i].of = q /\ stream[i].final

\* A question that is stored is closed by a final chunk that reaches the
\* subscriber, through failing models, a lost context and a failing store; it
\* is not only if a restart comes, the excuse cannot be stored, or the final
\* chunk itself is lost.
QuestionsClose ==
    \A q \in Questions :
        ask[q].step = "context" ~> (Closed(q) \/ <<q, "final">> \in lost)

=============================================================================
