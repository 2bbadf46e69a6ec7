-------------------------------- MODULE Chat --------------------------------
(***************************************************************************)
(* The conversation of one user about one auction in the AI service: the   *)
(* threads and messages in Mongo, and the executions of sendMessage, which *)
(* store the question, stream the answer of the first Gemini model that    *)
(* gives one as chunks over NATS, store it, and close the stream with a    *)
(* final chunk.  What the texts say is left out: a text is the sequence of *)
(* the models its chunks come from.                                        *)
(*                                                                         *)
(* A chunk bears the thread and the user, not the question it answers.     *)
(***************************************************************************)
EXTENDS Naturals, Sequences, SequencesExt

CONSTANTS
    Questions,      \* executions of sendMessage; a thread is named after the
                    \* one that has created it
    Models,         \* how many models there are to be tried
    MaxChunks,      \* no answer has more chunks: a bound for model checking
    Faults,         \* the faults that may happen
    MaxFaults,      \* how many of them: a bound for model checking
    NoThread        \* no thread has been found yet

VARIABLES
    threads,        \* the threads of the user about the auction
    messages,       \* the messages of all threads, oldest first
    ask,            \* ask[q]: where question q is
    inbox,          \* the chunks that NATS is to deliver, in their order
    lost,           \* history: <<q, what>>: a chunk or the final chunk of q
                    \* will never be delivered
    faults          \* history: faults so far

vars == <<threads, messages, ask, inbox, lost, faults>>

\* The token of the text that says that there is no answer; the others are
\* the numbers of the models.
Sorry == 0

Active(q) == ask[q].step \notin {"idle", "done", "failed"}
At(q, step) == ask[q].step = step
Goes(q, step) == ask' = [ask EXCEPT ![q].step = step]

\* A fault of kind k happens.
Fault(k) == k \in Faults /\ faults < MaxFaults /\ faults' = faults + 1

\* How many chunks of its model have come.
Said(q) == Cardinality({i \in DOMAIN ask[q].text : ask[q].text[i] = ask[q].model})

Init ==
    /\ threads = {}
    /\ messages = <<>>
    /\ ask = [q \in Questions |->
                 [step |-> "idle", thread |-> NoThread, model |-> 1, plan |-> 0,
                  text |-> <<>>, alone |-> TRUE]]

\* emitChunk drops its errors, and nobody repeats a chunk.
Emit(q, token, final) ==
    LET chunk == [thread |-> ask[q].thread, of |-> q, token |-> token, final |-> final]
    IN  \/ inbox' = Append(inbox, chunk) /\ UNCHANGED <<lost, faults>>
        \/ /\ Fault("nats")
           /\ lost' = lost \union {<<q, IF final THEN "final" ELSE "chunk">>}
           /\ UNCHANGED inbox

\* A create: if it fails, the message may be there all the same.
Store(q, role, text, next, otherwise) ==
    LET new == Append(messages, [thread |-> ask[q].thread, of |-> q, role |-> role,
                                 text |-> text])
    IN  \/ messages' = new /\ Goes(q, next) /\ UNCHANGED <<lost, faults>>
        \/ /\ Fault("mongo")
           /\ messages' \in {messages, new}
           /\ Goes(q, otherwise)
           /\ lost' = IF otherwise = "failed" THEN lost \union {<<q, "final">>} ELSE lost

-----------------------------------------------------------------------------
(* Before the answer                                                       *)

\* A blank text ends the request, after its thread has been made.
AfterThread == {"save", "done"}

\* Variant: the query asks for a field that no thread has.
MatchesNothing == {}

\* The threads of this user about this auction.
Matching == threads

\* findOne in no order: any thread will do.
Find(q) ==
    /\ At(q, "idle")
    /\ \E next \in AfterThread, t \in Matching \union {NoThread} :
          /\ t = NoThread <=> Matching = {}
          /\ ask' = [p \in Questions |->
                        IF p = q
                        THEN [ask[q] EXCEPT
                                !.thread = t,
                                !.step = IF t = NoThread THEN "create" ELSE next,
                                !.alone = \A o \in Questions \ {q} : ~Active(o)]
                        ELSE [ask[p] EXCEPT !.alone = @ /\ ~Active(p)]]
    /\ UNCHANGED <<threads, messages, inbox, lost, faults>>

Create(q) ==
    /\ At(q, "create")
    /\ \/ /\ threads' = threads \union {q}
          /\ \E next \in AfterThread :
                ask' = [ask EXCEPT ![q].thread = q, ![q].step = next]
          /\ UNCHANGED faults
       \/ /\ Fault("mongo")
          /\ threads' \in {threads, threads \union {q}}
          /\ Goes(q, "failed")
    /\ UNCHANGED <<messages, inbox, lost>>

Save(q) ==
    /\ At(q, "save")
    /\ Store(q, "user", <<>>, "context", "failed")
    /\ UNCHANGED <<threads, inbox>>

\* The model is asked for an answer, one of n chunks if it gives it.
Asked(q, model, n) ==
    ask' = [ask EXCEPT ![q].step = "stream", ![q].model = model, ![q].plan = n]

\* The context and the history of the thread.  A user, an auction or bids that
\* do not come are left out of it; Redis or the history that does not come is
\* an error.
Context(q) ==
    /\ At(q, "context")
    /\ \/ (\E n \in 0 .. MaxChunks : Asked(q, 1, n)) /\ UNCHANGED faults
       \/ Fault("redis") /\ Goes(q, "apologise")
    /\ UNCHANGED <<threads, messages, inbox, lost>>

-----------------------------------------------------------------------------
(* The answer                                                              *)

Chunk(q) ==
    /\ At(q, "stream")
    /\ Said(q) < ask[q].plan
    /\ ask' = [ask EXCEPT ![q].text = Append(@, ask[q].model)]
    /\ Emit(q, ask[q].model, FALSE)
    /\ UNCHANGED <<threads, messages>>

\* An empty message does not pass the schema.
AnswerEnds(q) ==
    /\ At(q, "stream")
    /\ Said(q) = ask[q].plan
    /\ Goes(q, IF ask[q].text = <<>> THEN "apologise" ELSE "store")
    /\ UNCHANGED <<threads, messages, inbox, lost, faults>>

\* Variant: an answer that breaks off is taken for the whole.
TakesHalf(q, fatal) ==
    Goes(q, IF fatal \/ ask[q].text = <<>> THEN "apologise" ELSE "store")

\* Variant: a fatal error leaves sendMessage.
FatalEscapes(q, fatal) ==
    IF fatal THEN Goes(q, "failed")
    ELSE IF ask[q].model = Models THEN Goes(q, "apologise")
    ELSE \E n \in 0 .. MaxChunks : Asked(q, ask[q].model + 1, n)

\* Variant: the models are counted from zero.
OneModelMore(q, fatal) ==
    IF fatal \/ ask[q].model > Models THEN Goes(q, "apologise")
    ELSE \E n \in 0 .. MaxChunks : Asked(q, ask[q].model + 1, n)

\* What the next model says goes on from what this one has said.
TriesNext(q, fatal) ==
    IF fatal \/ ask[q].model = Models THEN Goes(q, "apologise")
    ELSE \E n \in 0 .. MaxChunks : Asked(q, ask[q].model + 1, n)

ModelFails(q) ==
    /\ At(q, "stream")
    /\ \E fatal \in BOOLEAN : TriesNext(q, fatal)
    /\ UNCHANGED <<threads, messages, inbox, lost, faults>>

StoreAnswer(q) ==
    /\ At(q, "store")
    /\ Store(q, "model", ask[q].text, "final", "apologise")
    /\ UNCHANGED <<threads, inbox>>

\* The catch block: a text instead of an answer.
Apologise(q) ==
    /\ At(q, "apologise")
    /\ Goes(q, "excuse")
    /\ Emit(q, Sorry, FALSE)
    /\ UNCHANGED <<threads, messages>>

\* Variant: it is sent and not stored.
KeepsNoExcuse(q) ==
    /\ At(q, "excuse")
    /\ Goes(q, "final")
    /\ UNCHANGED <<threads, messages, inbox, lost, faults>>

\* Variant: a failed store is tried again.
StoresTwice(q) ==
    /\ At(q, "excuse")
    /\ Store(q, "model", <<Sorry>>, "final", "excuse")
    /\ UNCHANGED <<threads, inbox>>

\* An error in here is nobody's: there will be no final chunk.
StoreExcuse(q) ==
    /\ At(q, "excuse")
    /\ Store(q, "model", <<Sorry>>, "final", "failed")
    /\ UNCHANGED <<threads, inbox>>

Close(q) ==
    /\ At(q, "final")
    /\ Goes(q, "done")
    /\ Emit(q, Sorry, TRUE)
    /\ UNCHANGED <<threads, messages>>

\* The AI service restarts.
Crash ==
    /\ Fault("crash")
    /\ ask' = [q \in Questions |-> IF Active(q) THEN [ask[q] EXCEPT !.step = "failed"]
                                   ELSE ask[q]]
    /\ lost' = lost \union {<<q, "final">> : q \in {p \in Questions : Active(p)}}
    /\ UNCHANGED <<threads, messages, inbox>>

-----------------------------------------------------------------------------

Answer(q) ==
    \/ Create(q) \/ Save(q) \/ Context(q) \/ Chunk(q) \/ AnswerEnds(q) \/ ModelFails(q)
    \/ StoreAnswer(q) \/ Apologise(q) \/ StoreExcuse(q) \/ Close(q)

Next == (\E q \in Questions : Find(q) \/ Answer(q)) \/ Crash

-----------------------------------------------------------------------------
(* Properties                                                              *)

Tokens == 0 .. Models

Threads == Questions \union {NoThread}

\* Every variable of the AI service holds a value of its type.
TypeOK ==
    /\ threads \subseteq Questions
    /\ messages \in Seq([thread: Questions, of: Questions, role: {"user", "model"},
                         text: Seq(Tokens)])
    /\ ask \in [Questions ->
                   [step: {"idle", "create", "save", "context", "stream", "store",
                           "apologise", "excuse", "final", "done", "failed"},
                    thread: Threads, model: 1 .. Models, plan: 0 .. MaxChunks,
                    text: Seq(Tokens), alone: BOOLEAN]]
    /\ lost \subseteq Questions \X {"chunk", "final"}
    /\ faults \in 0 .. MaxFaults

\* Where the answers to q are in the database.
Answers(q) == {i \in DOMAIN messages : messages[i].of = q /\ messages[i].role = "model"}

\* An answer that is kept is the whole answer of one model, whatever models
\* that failed had said before it, or the excuse: half an answer is never
\* taken for one.
AnswerIsWhole ==
    \A q \in Questions :
        \A i \in Answers(q) :
            \/ messages[i].text = <<Sorry>>
            \/ /\ messages[i].text = ask[q].text
               /\ Said(q) = ask[q].plan
               /\ Last(messages[i].text) # Sorry

\* A question is answered once; the excuse follows an answer only if the
\* database has stored that and failed to say so.
OneAnswer ==
    \A q \in Questions :
        \A i, j \in Answers(q) :
            i < j => /\ faults > 0
                     /\ messages[i].text # <<Sorry>>
                     /\ messages[j].text = <<Sorry>>

\* A conversation is split over two threads only by requests that overlap:
\* whoever asks alone finds the thread, or makes the only one.
RacingThreads ==
    \A t, u \in threads : t # u => ~ask[t].alone /\ ~ask[u].alone

=============================================================================
