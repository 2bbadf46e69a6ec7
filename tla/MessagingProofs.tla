--------------------------- MODULE MessagingProofs ---------------------------
(***************************************************************************)
(* Theorems about Messaging, for any questions, models, lengths of answers,*)
(* events and faults:                                                      *)
(*                                                                         *)
(*   TypesHold             []TypeOK                                        *)
(*   AnswersAreWhole       []AnswerIsWhole                                 *)
(*   AnsweredOnce          []OneAnswer                                     *)
(*   ThreadsRace           []RacingThreads                                 *)
(*   ToldAreStored         []ToldIsStored                                  *)
(*   DeletionIsFinal       DeletedForGood                                  *)
(*   ShownAreStored        []ShownIsStored                                 *)
(*                                                                         *)
(* The invariant has five parts beside the types and ToldIsStored.         *)
(* HasThread is the program order of sendMessage: no chunk without thread. *)
(* Handled is that of the handler of an event.  Alone is about the threads:*)
(* who asked alone stays so until another asks.  Answered says what an     *)
(* execution of sendMessage has said and stored when it is at a given      *)
(* step, and Streamed what the chunks that were sent end in at that step,  *)
(* those that have arrived and those on their way taken together.          *)
(***************************************************************************)
EXTENDS Messaging, SequencesExt, SequenceTheorems, TLAPS

USE DEF C!At

\* A question at work: what ask says of it.
Steps == {"idle", "create", "save", "context", "stream", "store", "apologise", "excuse",
          "final", "done", "failed"}
Ask == [step: Steps, thread: C!Threads, model: 1 .. Models, plan: 0 .. MaxChunks,
        text: Seq(C!Tokens), alone: BOOLEAN]

\* The steps of a question that has a thread.
Threaded == {"save", "context", "stream", "store", "apologise", "excuse", "final"}

HasThread == \A q \in Questions : ask[q].step \in Threaded => ask[q].thread \in Questions

ChatMessage == [thread: Questions, of: Questions, role: {"user", "model"}, text: Seq(C!Tokens)]

\* The fields of a question, one by one.
LEMMA AskFields ==
    ASSUME TypeOK, NEW q \in Questions
    PROVE  /\ ask \in [Questions -> Ask] /\ ask[q] \in Ask
           /\ ask[q].step \in Steps /\ ask[q].thread \in C!Threads
           /\ ask[q].model \in 1 .. Models /\ ask[q].plan \in 0 .. MaxChunks
           /\ ask[q].text \in Seq(C!Tokens) /\ ask[q].alone \in BOOLEAN
<1>1. ask \in [Questions -> Ask]
  BY DEF TypeOK, C!TypeOK, Ask, Steps
<1> QED
  BY <1>1 DEF Ask

\* A question that goes on to another step keeps all else.
LEMMA Goes ==
    ASSUME TypeOK, NEW q \in Questions, NEW s \in Steps, C!Goes(q, s)
    PROVE  /\ ask' \in [Questions -> Ask]
           /\ ask'[q] = [ask[q] EXCEPT !.step = s]
           /\ ask'[q].step = s
           /\ ask'[q].thread = ask[q].thread /\ ask'[q].model = ask[q].model
           /\ ask'[q].plan = ask[q].plan /\ ask'[q].text = ask[q].text
           /\ ask'[q].alone = ask[q].alone
           /\ \A p \in Questions : p # q => ask'[p] = ask[p]
<1>1. ask \in [Questions -> Ask] /\ ask[q] \in Ask
  BY AskFields
<1>2. ask'[q] = [ask[q] EXCEPT !.step = s] /\ \A p \in Questions : p # q => ask'[p] = ask[p]
  BY <1>1 DEF C!Goes
<1>3. ask'[q] \in Ask
  BY <1>1, <1>2 DEF Ask
<1>4. ask' \in [Questions -> Ask]
  BY <1>1, <1>3 DEF C!Goes
<1> QED
  BY <1>1, <1>2, <1>4 DEF Ask

\* A question that has a thread still has it at another step.
LEMMA GoesWithThread ==
    ASSUME TypeOK, HasThread, NEW q \in Questions, ask[q].thread \in Questions,
           NEW s \in Steps, C!Goes(q, s)
    PROVE  /\ ask' \in [Questions -> Ask]
           /\ \A p \in Questions : ask'[p].step \in Threaded => ask'[p].thread \in Questions
<1>1. ask' \in [Questions -> Ask] /\ ask'[q].thread = ask[q].thread
  BY Goes
<1>2. \A p \in Questions : p # q => ask'[p] = ask[p]
  BY Goes
<1> QED
  BY <1>1, <1>2 DEF HasThread

\* The next model is asked.
LEMMA Asked ==
    ASSUME TypeOK, NEW q \in Questions, NEW m \in 1 .. Models, NEW n \in 0 .. MaxChunks,
           C!Asked(q, m, n)
    PROVE  /\ ask' \in [Questions -> Ask]
           /\ ask'[q].step = "stream" /\ ask'[q].model = m /\ ask'[q].plan = n
           /\ ask'[q].thread = ask[q].thread /\ ask'[q].text = ask[q].text
           /\ ask'[q].alone = ask[q].alone
           /\ \A p \in Questions : p # q => ask'[p] = ask[p]
<1>1. ask \in [Questions -> Ask] /\ ask[q] \in Ask
  BY AskFields
<1>2. /\ ask'[q] = [ask[q] EXCEPT !.step = "stream", !.model = m, !.plan = n]
      /\ \A p \in Questions : p # q => ask'[p] = ask[p]
  BY <1>1 DEF C!Asked
<1>3. ask'[q] \in Ask
  BY <1>1, <1>2 DEF Ask, Steps
<1>4. ask' \in [Questions -> Ask]
  BY <1>1, <1>2, <1>3 DEF C!Asked
<1> QED
  BY <1>1, <1>2, <1>4 DEF Ask

\* A chunk of the model that is asked.
LEMMA TextGrows ==
    ASSUME TypeOK, NEW q \in Questions, C!Chunk(q)
    PROVE  /\ ask' \in [Questions -> Ask]
           /\ ask'[q].text = Append(ask[q].text, ask[q].model)
           /\ ask'[q].step = ask[q].step
           /\ ask'[q].thread = ask[q].thread /\ ask'[q].model = ask[q].model
           /\ ask'[q].plan = ask[q].plan /\ ask'[q].alone = ask[q].alone
           /\ \A p \in Questions : p # q => ask'[p] = ask[p]
<1>1. ask \in [Questions -> Ask] /\ ask[q] \in Ask
  BY AskFields
<1>2. /\ ask'[q] = [ask[q] EXCEPT !.text = Append(@, ask[q].model)]
      /\ \A p \in Questions : p # q => ask'[p] = ask[p]
  BY <1>1 DEF C!Chunk
<1>3. Append(ask[q].text, ask[q].model) \in Seq(C!Tokens)
  <2>1. ask[q].text \in Seq(C!Tokens) /\ ask[q].model \in C!Tokens
    BY AskFields, ChatAssumption DEF C!Tokens
  <2> QED
    BY <2>1
<1>4. ask'[q] \in Ask
  BY <1>1, <1>2, <1>3 DEF Ask
<1>5. ask' \in [Questions -> Ask]
  BY <1>1, <1>2, <1>4 DEF C!Chunk
<1> QED
  BY <1>1, <1>2, <1>5 DEF Ask

\* sendMessage begins.
LEMMA Found ==
    ASSUME TypeOK, NEW q \in Questions, C!Find(q)
    PROVE  /\ ask' \in [Questions -> Ask]
           /\ ask'[q].step \in {"create", "save", "done"}
           /\ ask'[q].step = "create" => threads = {}
           /\ ask'[q].step # "create" => ask'[q].thread \in threads
           /\ ask'[q].alone = \A o \in Questions \ {q} : ~C!Active(o)
           /\ ask'[q].model = ask[q].model /\ ask'[q].plan = ask[q].plan
           /\ ask'[q].text = ask[q].text
           /\ \A p \in Questions : p # q =>
                 /\ ask'[p].step = ask[p].step /\ ask'[p].thread = ask[p].thread
                 /\ ask'[p].model = ask[p].model /\ ask'[p].plan = ask[p].plan
                 /\ ask'[p].text = ask[p].text
                 /\ ask'[p].alone = (ask[p].alone /\ ~C!Active(p))
<1>1. ask \in [Questions -> Ask] /\ \A p \in Questions : ask[p] \in Ask
  BY AskFields
<1>2. PICK next \in C!AfterThread, t \in threads \union {NoThread} :
         /\ t = NoThread <=> threads = {}
         /\ ask' = [p \in Questions |->
                       IF p = q
                       THEN [ask[q] EXCEPT
                               !.thread = t,
                               !.step = IF t = NoThread THEN "create" ELSE next,
                               !.alone = \A o \in Questions \ {q} : ~C!Active(o)]
                       ELSE [ask[p] EXCEPT !.alone = @ /\ ~C!Active(p)]]
  BY DEF C!Find, C!Matching
<1>3. ask'[q] = [ask[q] EXCEPT !.thread = t,
                               !.step = IF t = NoThread THEN "create" ELSE next,
                               !.alone = \A o \in Questions \ {q} : ~C!Active(o)]
  BY <1>2
<1>4. \A p \in Questions : p # q => ask'[p] = [ask[p] EXCEPT !.alone = @ /\ ~C!Active(p)]
  BY <1>2
<1>5. ask'[q] \in Ask
  <2>1. t \in C!Threads /\ next \in {"save", "done"}
    BY <1>2 DEF TypeOK, C!TypeOK, C!Threads, C!AfterThread
  <2>2. (\A o \in Questions \ {q} : ~C!Active(o)) \in BOOLEAN
    OBVIOUS
  <2> QED
    BY <1>1, <1>3, <2>1, <2>2 DEF Ask, Steps
<1>6. ASSUME NEW p \in Questions, p # q
      PROVE  /\ ask'[p] \in Ask
             /\ ask'[p].step = ask[p].step /\ ask'[p].thread = ask[p].thread
             /\ ask'[p].model = ask[p].model /\ ask'[p].plan = ask[p].plan
             /\ ask'[p].text = ask[p].text
             /\ ask'[p].alone = (ask[p].alone /\ ~C!Active(p))
  <2> DEFINE a == (ask[p].alone /\ ~C!Active(p))
  <2>1. a \in BOOLEAN
    OBVIOUS
  <2>2. ask'[p] = [ask[p] EXCEPT !.alone = a]
    BY <1>4, <1>6
  <2> HIDE DEF a
  <2>3. /\ ask'[p] \in Ask /\ ask'[p].alone = a
        /\ ask'[p].step = ask[p].step /\ ask'[p].thread = ask[p].thread
        /\ ask'[p].model = ask[p].model /\ ask'[p].plan = ask[p].plan
        /\ ask'[p].text = ask[p].text
    BY <1>1, <2>1, <2>2 DEF Ask
  <2> QED
    BY <2>3 DEF a
<1>7. ask' \in [Questions -> Ask]
  BY <1>2, <1>5, <1>6
<1>8. /\ ask'[q].step = (IF t = NoThread THEN "create" ELSE next) /\ ask'[q].thread = t
      /\ ask'[q].alone = \A o \in Questions \ {q} : ~C!Active(o)
      /\ ask'[q].model = ask[q].model /\ ask'[q].plan = ask[q].plan
      /\ ask'[q].text = ask[q].text
  BY <1>1, <1>3 DEF Ask
<1>9. NoThread \notin threads /\ next \in {"save", "done"}
  BY <1>2, NoThreadAssumption DEF TypeOK, C!TypeOK, C!AfterThread
<1> QED
  BY <1>2, <1>6, <1>7, <1>8, <1>9

-----------------------------------------------------------------------------
(* Types                                                                   *)

Lost == Questions \X {"chunk", "final"}

\* A fault is counted.
LEMMA FaultType ==
    ASSUME TypeOK, NEW k, C!Fault(k) \/ N!Fault(k)
    PROVE  faults' \in 0 .. MaxFaults /\ faults' = faults + 1 /\ faults' > 0
BY FaultAssumption DEF TypeOK, C!TypeOK, C!Fault, N!Fault

\* What emitChunk does to NATS.
LEMMA Emitted ==
    ASSUME TypeOK, NEW q \in Questions, ask[q].thread \in Questions, NEW token \in C!Tokens,
           NEW final \in BOOLEAN, C!Emit(q, token, final)
    PROVE  /\ inbox' \in Seq(ChunkMessage) /\ lost' \subseteq Lost /\ faults' \in 0 .. MaxFaults
           /\ \/ inbox' = inbox
              \/ \E m \in ChunkMessage : m.of = q /\ inbox' = Append(inbox, m)
           /\ faults' >= faults
<1>1. inbox \in Seq(ChunkMessage) /\ lost \subseteq Lost /\ faults \in 0 .. MaxFaults
  BY DEF TypeOK, C!TypeOK, Lost
<1> DEFINE chunk == [thread |-> ask[q].thread, of |-> q, token |-> token, final |-> final]
<1>2. chunk \in ChunkMessage /\ chunk.of = q
  BY DEF ChunkMessage
<1>3. CASE inbox' = Append(inbox, chunk) /\ UNCHANGED <<lost, faults>>
  <2>1. inbox' \in Seq(ChunkMessage)
    BY <1>1, <1>2, <1>3
  <2> QED
    BY <1>1, <1>2, <1>3, <2>1, FaultAssumption
<1>4. CASE /\ C!Fault("nats") /\ UNCHANGED inbox
           /\ lost' = lost \union {<<q, IF final THEN "final" ELSE "chunk">>}
  BY <1>1, <1>4, FaultType, FaultAssumption DEF Lost
<1> QED
  BY <1>3, <1>4 DEF C!Emit

\* What a create does to the messages.
LEMMA Created ==
    ASSUME TypeOK, NEW q \in Questions, ask[q].thread \in Questions, NEW role \in {"user", "model"},
           NEW text \in Seq(C!Tokens), NEW next \in Steps, NEW otherwise \in Steps,
           C!Store(q, role, text, next, otherwise)
    PROVE  /\ messages' \in Seq(ChatMessage) /\ lost' \subseteq Lost /\ faults' \in 0 .. MaxFaults
           /\ \E m \in ChatMessage :
                 /\ m.of = q /\ m.role = role /\ m.text = text
                 /\ \/ messages' = Append(messages, m) /\ faults' = faults /\ C!Goes(q, next)
                    \/ /\ messages' = Append(messages, m) \/ messages' = messages
                       /\ faults' = faults + 1 /\ faults' > 0 /\ C!Goes(q, otherwise)
<1>1. messages \in Seq(ChatMessage) /\ lost \subseteq Lost /\ faults \in 0 .. MaxFaults
  BY DEF TypeOK, C!TypeOK, ChatMessage, Lost
<1> DEFINE m == [thread |-> ask[q].thread, of |-> q, role |-> role, text |-> text]
<1>2. m \in ChatMessage /\ m.of = q /\ m.role = role /\ m.text = text
  BY DEF ChatMessage
<1> HIDE DEF m
<1>3. Append(messages, m) \in Seq(ChatMessage)
  BY <1>1, <1>2
<1>4. CASE messages' = Append(messages, m) /\ C!Goes(q, next) /\ UNCHANGED <<lost, faults>>
  BY <1>1, <1>2, <1>3, <1>4
<1>5. CASE /\ C!Fault("mongo") /\ messages' \in {messages, Append(messages, m)}
           /\ C!Goes(q, otherwise)
           /\ lost' = IF otherwise = "failed" THEN lost \union {<<q, "final">>} ELSE lost
  <2>1. messages' \in Seq(ChatMessage)
    BY <1>1, <1>3, <1>5
  <2>2. lost' \subseteq Lost
    BY <1>1, <1>5 DEF Lost
  <2>3. faults' \in 0 .. MaxFaults /\ faults' = faults + 1 /\ faults' > 0
    BY <1>5, FaultType
  <2> QED
    BY <1>2, <1>5, <2>1, <2>2, <2>3
<1> QED
  BY <1>4, <1>5 DEF C!Store, m

\* The answer is stored, or the excuse will follow.
LEMMA AnswerStored ==
    ASSUME TypeOK, HasThread, NEW q \in Questions, C!StoreAnswer(q)
    PROVE  \E m \in ChatMessage :
              /\ m.of = q /\ m.role = "model" /\ m.text = ask[q].text
              /\ \/ messages' = Append(messages, m) /\ faults' = faults /\ C!Goes(q, "final")
                 \/ /\ messages' = Append(messages, m) \/ messages' = messages
                    /\ faults' = faults + 1 /\ faults' > 0 /\ C!Goes(q, "apologise")
<1>1. ask[q].thread \in Questions
  BY DEF C!StoreAnswer, HasThread, Threaded
<1>2. ask[q].text \in Seq(C!Tokens) /\ "model" \in {"user", "model"}
  BY AskFields
<1>3. "final" \in Steps /\ "apologise" \in Steps
  BY DEF Steps
<1>4. C!Store(q, "model", ask[q].text, "final", "apologise")
  BY DEF C!StoreAnswer
<1> QED
  BY <1>1, <1>2, <1>3, <1>4, Created

\* The excuse is stored, or nothing more will come.
LEMMA ExcuseStored ==
    ASSUME TypeOK, HasThread, NEW q \in Questions, C!StoreExcuse(q)
    PROVE  \E m \in ChatMessage :
              /\ m.of = q /\ m.role = "model" /\ m.text = <<C!Sorry>>
              /\ \/ messages' = Append(messages, m) /\ faults' = faults /\ C!Goes(q, "final")
                 \/ /\ messages' = Append(messages, m) \/ messages' = messages
                    /\ faults' = faults + 1 /\ faults' > 0 /\ C!Goes(q, "failed")
<1> DEFINE text == <<C!Sorry>>
<1>1. ask[q].thread \in Questions
  BY DEF C!StoreExcuse, HasThread, Threaded
<1>2. text \in Seq(C!Tokens) /\ "model" \in {"user", "model"}
  BY ChatAssumption DEF C!Tokens, C!Sorry
<1>3. "final" \in Steps /\ "failed" \in Steps
  BY DEF Steps
<1>4. C!Store(q, "model", text, "final", "failed")
  BY DEF C!StoreExcuse
<1> HIDE DEF text
<1>5. \E m \in ChatMessage :
         /\ m.of = q /\ m.role = "model" /\ m.text = text
         /\ \/ messages' = Append(messages, m) /\ faults' = faults /\ C!Goes(q, "final")
            \/ /\ messages' = Append(messages, m) \/ messages' = messages
               /\ faults' = faults + 1 /\ faults' > 0 /\ C!Goes(q, "failed")
  BY <1>1, <1>2, <1>3, <1>4, Created
<1> QED
  BY <1>5 DEF text

\* The types of the chat after a step that has been typed part by part.
LEMMA ChatTyped ==
    ASSUME TypeOK, UNCHANGED notification, threads' \subseteq Questions,
           messages' \in Seq(ChatMessage), ask' \in [Questions -> Ask],
           inbox' \in Seq(ChunkMessage), lost' \subseteq Lost, faults' \in 0 .. MaxFaults,
           \A q \in Questions : ask'[q].step \in Threaded => ask'[q].thread \in Questions
    PROVE  TypeOK' /\ HasThread'
BY DEF TypeOK, C!TypeOK, N!TypeOK, HasThread, ChatMessage, Ask, Steps, Lost, notification

\* The AI service keeps the types, and sends no chunk without a thread.
LEMMA ChatTypeStep ==
    ASSUME TypeOK, HasThread, C!Next, UNCHANGED notification
    PROVE  TypeOK' /\ HasThread'
<1> USE DEF HasThread
<1>1. /\ threads \subseteq Questions /\ messages \in Seq(ChatMessage)
      /\ ask \in [Questions -> Ask] /\ \A q \in Questions : ask[q] \in Ask
      /\ inbox \in Seq(ChunkMessage) /\ lost \subseteq Lost /\ faults \in 0 .. MaxFaults
  BY AskFields DEF TypeOK, C!TypeOK, ChatMessage, Lost
<1>2. ASSUME NEW q \in Questions, C!Find(q) PROVE TypeOK' /\ HasThread'
  <2>1. UNCHANGED <<threads, messages, inbox, lost, faults>>
    BY <1>2 DEF C!Find
  <2>2. ask' \in [Questions -> Ask]
    BY <1>2, Found
  <2>3. \A p \in Questions : ask'[p].step \in Threaded => ask'[p].thread \in Questions
    BY <1>1, <1>2, Found DEF Threaded
  <2> QED
    BY <1>1, <2>1, <2>2, <2>3, ChatTyped
<1>3. ASSUME NEW q \in Questions, C!Create(q) PROVE TypeOK' /\ HasThread'
  <2>1. CASE C!Fault("mongo") /\ threads' \in {threads, threads \union {q}} /\ C!Goes(q, "failed")
    <3>1. /\ ask' \in [Questions -> Ask]
          /\ \A p \in Questions : ask'[p].step \in Threaded => ask'[p].thread \in Questions
      <4>1. /\ ask' \in [Questions -> Ask] /\ ask'[q].step = "failed"
            /\ \A p \in Questions : p # q => ask'[p] = ask[p]
        BY <2>1, Goes DEF Steps
      <4> QED
        BY <4>1 DEF Threaded
    <3>2. faults' \in 0 .. MaxFaults
      BY <2>1, FaultType
    <3> QED
      BY <1>1, <1>3, <2>1, <3>1, <3>2, ChatTyped DEF C!Create
  <2>2. ASSUME NEW next \in C!AfterThread, threads' = threads \union {q}, faults' = faults,
               ask' = [ask EXCEPT ![q].thread = q, ![q].step = next]
        PROVE  TypeOK' /\ HasThread'
    <3>1. ask'[q] = [ask[q] EXCEPT !.thread = q, !.step = next]
      BY <1>1, <2>2
    <3>2. ask'[q] \in Ask /\ ask'[q].thread = q
      BY <1>1, <3>1 DEF Ask, Steps, C!Threads, C!AfterThread
    <3>3. ask' \in [Questions -> Ask] /\ \A p \in Questions : p # q => ask'[p] = ask[p]
      BY <1>1, <2>2, <3>2
    <3>4. \A p \in Questions : ask'[p].step \in Threaded => ask'[p].thread \in Questions
      BY <3>2, <3>3
    <3>5. UNCHANGED <<messages, inbox, lost, faults>> /\ threads' \subseteq Questions
      BY <1>1, <1>3, <2>2 DEF C!Create
    <3> QED
      BY <1>1, <3>3, <3>4, <3>5, ChatTyped
  <2> QED
    BY <1>3, <2>1, <2>2 DEF C!Create
<1>4. ASSUME NEW q \in Questions, ask[q].thread \in Questions, NEW role \in {"user", "model"},
             NEW text \in Seq(C!Tokens), NEW next \in Steps, NEW otherwise \in Steps,
             C!Store(q, role, text, next, otherwise), UNCHANGED <<threads, inbox>>
      PROVE  TypeOK' /\ HasThread'
  <2>1. /\ messages' \in Seq(ChatMessage) /\ lost' \subseteq Lost /\ faults' \in 0 .. MaxFaults
        /\ C!Goes(q, next) \/ C!Goes(q, otherwise)
    BY <1>4, Created
  <2>2. /\ ask' \in [Questions -> Ask]
        /\ \A p \in Questions : ask'[p].step \in Threaded => ask'[p].thread \in Questions
    <3>1. PICK s \in Steps : C!Goes(q, s)
      BY <1>4, <2>1
    <3> QED
      BY <1>4, <3>1, GoesWithThread
  <2> QED
    BY <1>1, <1>4, <2>1, <2>2, ChatTyped
<1>5. ASSUME NEW q \in Questions, C!Save(q) \/ C!StoreAnswer(q) \/ C!StoreExcuse(q)
      PROVE  TypeOK' /\ HasThread'
  <2>1. ask[q].thread \in Questions
    BY <1>5 DEF Threaded, C!Save, C!StoreAnswer, C!StoreExcuse
  <2>2. <<>> \in Seq(C!Tokens) /\ <<C!Sorry>> \in Seq(C!Tokens) /\ ask[q].text \in Seq(C!Tokens)
    BY AskFields, ChatAssumption DEF C!Tokens, C!Sorry
  <2> QED
    BY <1>4, <1>5, <2>1, <2>2 DEF C!Save, C!StoreAnswer, C!StoreExcuse, Steps
<1>6. ASSUME NEW q \in Questions, C!Context(q) \/ C!AnswerEnds(q) \/ C!ModelFails(q)
      PROVE  TypeOK' /\ HasThread'
  <2>1. ask[q].thread \in Questions /\ UNCHANGED <<threads, messages, inbox, lost>>
    BY <1>6 DEF Threaded, C!Context, C!AnswerEnds, C!ModelFails
  <2>2. faults' \in 0 .. MaxFaults
    BY <1>1, <1>6, FaultType DEF C!Context, C!AnswerEnds, C!ModelFails
  <2>3. \/ \E s \in Steps : C!Goes(q, s)
        \/ \E m \in 1 .. Models, n \in 0 .. MaxChunks : C!Asked(q, m, n)
    <3>1. 1 \in 1 .. Models /\ (ask[q].model # Models => ask[q].model + 1 \in 1 .. Models)
      BY AskFields, ChatAssumption
    <3> QED
      BY <1>6, <3>1 DEF C!Context, C!AnswerEnds, C!ModelFails, C!TriesNext, Steps
  <2>4. /\ ask' \in [Questions -> Ask]
        /\ \A p \in Questions : ask'[p].step \in Threaded => ask'[p].thread \in Questions
    <3>1. ASSUME NEW s \in Steps, C!Goes(q, s)
          PROVE  /\ ask' \in [Questions -> Ask]
                 /\ \A p \in Questions : ask'[p].step \in Threaded => ask'[p].thread \in Questions
      BY <2>1, <3>1, GoesWithThread
    <3>2. ASSUME NEW m \in 1 .. Models, NEW n \in 0 .. MaxChunks, C!Asked(q, m, n)
          PROVE  /\ ask' \in [Questions -> Ask]
                 /\ \A p \in Questions : ask'[p].step \in Threaded => ask'[p].thread \in Questions
      BY <2>1, <3>2, Asked
    <3> QED
      BY <2>3, <3>1, <3>2
  <2> QED
    BY <1>1, <2>1, <2>2, <2>4, ChatTyped
<1>7. ASSUME NEW q \in Questions, C!Chunk(q) \/ C!Apologise(q) \/ C!Close(q)
      PROVE  TypeOK' /\ HasThread'
  <2>1. ask[q].thread \in Questions /\ UNCHANGED <<threads, messages>>
    BY <1>7 DEF Threaded, C!Chunk, C!Apologise, C!Close
  <2>2. ask[q].model \in C!Tokens /\ C!Sorry \in C!Tokens
    BY AskFields, ChatAssumption DEF C!Tokens, C!Sorry
  <2>3. inbox' \in Seq(ChunkMessage) /\ lost' \subseteq Lost /\ faults' \in 0 .. MaxFaults
    BY <1>7, <2>1, <2>2, Emitted DEF C!Chunk, C!Apologise, C!Close
  <2>4. /\ ask' \in [Questions -> Ask]
        /\ \A p \in Questions : ask'[p].step \in Threaded => ask'[p].thread \in Questions
    <3>1. CASE C!Chunk(q)
      BY <3>1, TextGrows
    <3>2. CASE C!Apologise(q) \/ C!Close(q)
      BY <2>1, <3>2, Goes DEF C!Apologise, C!Close, Steps
    <3> QED
      BY <1>7, <3>1, <3>2
  <2> QED
    BY <1>1, <2>1, <2>3, <2>4, ChatTyped
<1>8. CASE C!Crash
  <2>1. UNCHANGED <<threads, messages, inbox>> /\ lost' \subseteq Lost /\ faults' \in 0 .. MaxFaults
    BY <1>1, <1>8, FaultType DEF C!Crash, Lost
  <2>2. \A q \in Questions : \/ ask'[q] = ask[q]
                             \/ ask'[q] = [ask[q] EXCEPT !.step = "failed"]
    BY <1>8 DEF C!Crash
  <2>3. ASSUME NEW q \in Questions
        PROVE  ask'[q] \in Ask /\ (ask'[q].step \in Threaded => ask'[q].thread \in Questions)
    <3>1. CASE ask'[q] = [ask[q] EXCEPT !.step = "failed"]
      BY <1>1, <3>1 DEF Ask, Steps, Threaded
    <3> QED
      BY <1>1, <2>2, <3>1
  <2>4. ask' \in [Questions -> Ask]
    BY <1>8, <2>3 DEF C!Crash
  <2> QED
    BY <1>1, <2>1, <2>3, <2>4, ChatTyped
<1> QED
  BY <1>2, <1>3, <1>5, <1>6, <1>7, <1>8 DEF C!Next, C!Answer

\* The chunk that comes next, and those that are left.
LEMMA Received ==
    ASSUME TypeOK, N!Receive
    PROVE  /\ Len(inbox) > 0 /\ Head(inbox) = inbox[1] /\ Head(inbox) \in ChunkMessage
           /\ inbox' \in Seq(ChunkMessage) /\ Len(inbox') = Len(inbox) - 1
           /\ \A i \in DOMAIN inbox' : i + 1 \in DOMAIN inbox /\ inbox'[i] = inbox[i + 1]
           /\ stream' = Append(stream, Head(inbox)) /\ stream' \in Seq(ChunkMessage)
<1>1. /\ inbox \in Seq(ChunkMessage) /\ inbox # <<>> /\ inbox' = Tail(inbox)
      /\ stream \in Seq(ChunkMessage) /\ stream' = Append(stream, Head(inbox))
  BY DEF N!Receive, TypeOK
<1> QED
  BY <1>1

\* The types of the notification service after a step typed part by part.
LEMMA NotificationTyped ==
    ASSUME TypeOK, HasThread, UNCHANGED chat,
           notes' \in [Events -> {"none", "unread", "read", "deleted"}],
           job' \in [Events -> {"unsent", "sent", "create", "broadcast", "mail", "done", "lost"}],
           marking' \subseteq Events, mailed' \subseteq Events, inbox' \in Seq(ChunkMessage),
           stream' \in Seq(ChunkMessage), alerts' \in Seq(Events), lost' \subseteq Lost,
           faults' \in 0 .. MaxFaults
    PROVE  TypeOK' /\ HasThread'
BY DEF TypeOK, C!TypeOK, N!TypeOK, HasThread, Lost, chat

\* So does the notification service, which does not touch the questions.
LEMMA NotificationTypeStep ==
    ASSUME TypeOK, HasThread, N!Next, UNCHANGED chat
    PROVE  TypeOK' /\ HasThread'
<1>1. /\ notes \in [Events -> {"none", "unread", "read", "deleted"}]
      /\ job \in [Events -> {"unsent", "sent", "create", "broadcast", "mail", "done", "lost"}]
      /\ marking \subseteq Events /\ mailed \subseteq Events /\ inbox \in Seq(ChunkMessage)
      /\ stream \in Seq(ChunkMessage) /\ alerts \in Seq(Events) /\ lost \subseteq Lost
      /\ faults \in 0 .. MaxFaults
  BY DEF TypeOK, C!TypeOK, N!TypeOK, Lost
<1>2. ASSUME NEW e \in Events, N!Publish(e) PROVE TypeOK' /\ HasThread'
  <2>1. faults' \in 0 .. MaxFaults
    BY <1>1, <1>2, FaultType DEF N!Publish
  <2> QED
    BY <1>1, <1>2, <2>1, NotificationTyped DEF N!Publish, N!Goes
<1>3. CASE N!Receive
  BY <1>1, <1>3, Received, NotificationTyped DEF N!Receive
<1>4. ASSUME NEW e \in Events, N!Create(e) PROVE TypeOK' /\ HasThread'
  <2>1. faults' \in 0 .. MaxFaults
    BY <1>1, <1>4, FaultType DEF N!Create
  <2> QED
    BY <1>1, <1>4, <2>1, NotificationTyped DEF N!Create, N!Goes
<1>5. ASSUME NEW e \in Events, N!Take(e) \/ N!Broadcast(e) PROVE TypeOK' /\ HasThread'
  <2>1. alerts' \in Seq(Events) /\ stream' = stream
    <3>1. stream' = stream /\ (alerts' = alerts \/ alerts' = Append(alerts, e))
      BY <1>5 DEF N!Take, N!Broadcast
    <3>2. alerts \in Seq(Events)
      BY <1>1
    <3> QED
      BY <3>1, <3>2
  <2>2. job' \in [Events -> {"unsent", "sent", "create", "broadcast", "mail", "done", "lost"}]
    BY <1>1, <1>5 DEF N!Take, N!Broadcast, N!Goes
  <2> QED
    BY <1>1, <1>5, <2>1, <2>2, NotificationTyped DEF N!Take, N!Broadcast
<1>6. ASSUME NEW e \in Events, N!Mail(e) PROVE TypeOK' /\ HasThread'
  <2>1. faults' \in 0 .. MaxFaults
    BY <1>1, <1>6, FaultType DEF N!Mail
  <2> QED
    BY <1>1, <1>6, <2>1, NotificationTyped DEF N!Mail, N!Goes
<1>7. ASSUME NEW e \in Events, N!MarkFind(e) \/ N!MarkUpdate(e) \/ N!Delete(e)
      PROVE  TypeOK' /\ HasThread'
  BY <1>1, <1>7, NotificationTyped DEF N!MarkFind, N!MarkUpdate, N!Marked, N!Delete
<1>8. CASE N!MarkAll
  BY <1>1, <1>8, NotificationTyped DEF N!MarkAll
<1>9. CASE N!Crash
  <2>1. inbox' \in Seq(ChunkMessage) /\ faults' \in 0 .. MaxFaults
    BY <1>9, FaultType DEF N!Crash
  <2>2. ASSUME NEW j \in DOMAIN inbox PROVE inbox[j].of \in Questions
    <3>1. inbox[j] \in ChunkMessage
      BY <1>1, <2>2
    <3> QED
      BY <3>1 DEF ChunkMessage
  <2>3. lost' \subseteq Lost
    BY <1>1, <1>9, <2>2 DEF N!Crash, N!Range, Range, Lost
  <2> QED
    BY <1>1, <1>9, <2>1, <2>3, NotificationTyped DEF N!Crash
<1> QED
  BY <1>2, <1>3, <1>4, <1>5, <1>6, <1>7, <1>8, <1>9 DEF N!Next, N!Handle

-----------------------------------------------------------------------------
(* The handlers of events                                                  *)

\* What the handler of an event has done: it is told of only after its
\* notification is there, and there is one handler.
Handled ==
    \A e \in Events :
        /\ job[e] \in {"unsent", "sent", "create"} => notes[e] = "none"
        /\ job[e] \in {"unsent", "sent", "create", "broadcast"} =>
              e \notin mailed /\ \A i \in DOMAIN alerts : alerts[i] # e
        /\ job[e] \in {"broadcast", "mail"} => notes[e] # "none"
        /\ job[e] = "mail" => \E i \in DOMAIN alerts : alerts[i] = e

\* The handlers go through their steps in order.
LEMMA HandledStep ==
    ASSUME TypeOK, Handled, N!Next
    PROVE  Handled'
<1> USE DEF TypeOK, N!TypeOK
<1>1. ASSUME NEW e \in Events, N!Publish(e) \/ N!Take(e) PROVE Handled'
  <2>1. /\ job[e] \in {"unsent", "sent"} /\ job'[e] \in {"sent", "create", "lost"}
        /\ UNCHANGED <<alerts, notes, mailed>> /\ \A f \in Events : f # e => job'[f] = job[f]
    BY <1>1 DEF N!Publish, N!Take, N!Goes
  <2> QED
    BY <2>1 DEF Handled
<1>2. CASE N!Receive
  BY <1>2 DEF Handled, N!Receive
<1>3. ASSUME NEW e \in Events, N!Create(e) PROVE Handled'
  <2>1. /\ job[e] = "create" /\ UNCHANGED <<alerts, mailed>>
        /\ \A f \in Events : f # e => job'[f] = job[f] /\ notes'[f] = notes[f]
        /\ job'[e] = "done" \/ (job'[e] = "broadcast" /\ notes'[e] = "unread")
    BY <1>3 DEF N!Create, N!Goes
  <2> QED
    BY <2>1 DEF Handled
<1>4. ASSUME NEW e \in Events, N!Broadcast(e) PROVE Handled'
  <2>1. /\ job[e] = "broadcast" /\ UNCHANGED <<notes, mailed>>
        /\ \A f \in Events : f # e => job'[f] = job[f]
        /\ job'[e] = "mail" /\ alerts' = Append(alerts, e)
    BY <1>4 DEF N!Broadcast, N!Goes
  <2>2. /\ \A i \in DOMAIN alerts : i \in DOMAIN alerts' /\ alerts'[i] = alerts[i]
        /\ \A i \in DOMAIN alerts' : i \in DOMAIN alerts \/ alerts'[i] = e
        /\ Len(alerts) + 1 \in DOMAIN alerts' /\ alerts'[Len(alerts) + 1] = e
    BY <2>1
  <2> QED
    BY <2>1, <2>2 DEF Handled
<1>5. ASSUME NEW e \in Events, N!Mail(e) PROVE Handled'
  BY <1>5 DEF Handled, TypeOK, N!TypeOK, N!Mail, N!Goes
<1>6. ASSUME NEW e \in Events, N!MarkFind(e) \/ N!MarkUpdate(e) \/ N!Delete(e) PROVE Handled'
  BY <1>6 DEF Handled, TypeOK, N!TypeOK, N!MarkFind, N!MarkUpdate, N!Marked, N!Delete, N!Exists
<1>7. CASE N!MarkAll
  BY <1>7 DEF Handled, TypeOK, N!TypeOK, N!MarkAll, N!Exists
<1>8. CASE N!Crash
  BY <1>8 DEF Handled, TypeOK, N!TypeOK, N!Crash
<1> QED
  BY <1>1, <1>2, <1>3, <1>4, <1>5, <1>6, <1>7, <1>8 DEF N!Next, N!Handle

\* Nobody is told of an event before its notification is stored, or twice.
LEMMA ToldStep ==
    ASSUME TypeOK, Handled, ToldIsStored, N!Next
    PROVE  ToldIsStored'
<1> USE DEF ToldIsStored, N!ToldIsStored
<1>1. ASSUME UNCHANGED alerts, UNCHANGED mailed,
             \A e \in Events : notes[e] # "none" => notes'[e] # "none"
      PROVE  ToldIsStored'
  BY <1>1
<1>2. ASSUME NEW e \in Events, N!Broadcast(e) PROVE ToldIsStored'
  <2>1. /\ job[e] = "broadcast" /\ UNCHANGED <<notes, mailed>> /\ alerts' = Append(alerts, e)
        /\ alerts \in Seq(Events)
    BY <1>2 DEF N!Broadcast, TypeOK
  <2>2. /\ \A i \in DOMAIN alerts : i \in DOMAIN alerts' /\ alerts'[i] = alerts[i]
        /\ \A i \in DOMAIN alerts' : i \in DOMAIN alerts \/ (i = Len(alerts) + 1 /\ alerts'[i] = e)
        /\ Len(alerts) + 1 \in DOMAIN alerts' /\ alerts'[Len(alerts) + 1] = e
    BY <2>1
  <2>3. notes[e] # "none" /\ \A i \in DOMAIN alerts : alerts[i] # e
    BY <2>1 DEF Handled
  <2>4. ASSUME NEW f \in Events PROVE
           LET told == {i \in DOMAIN alerts' : alerts'[i] = f}
           IN  /\ told # {} => notes'[f] # "none"
               /\ f \in mailed' => told # {}
               /\ \A i, j \in told : i = j
    <3>1. CASE f = e
      BY <2>1, <2>2, <2>3, <3>1
    <3>2. CASE f # e
      <4>1. {i \in DOMAIN alerts' : alerts'[i] = f} = {i \in DOMAIN alerts : alerts[i] = f}
        BY <2>2, <3>2
      <4> QED
        BY <2>1, <4>1
    <3> QED
      BY <3>1, <3>2
  <2> QED
    BY <2>4
<1>3. ASSUME NEW e \in Events, N!Mail(e) PROVE ToldIsStored'
  <2>1. /\ job[e] = "mail" /\ UNCHANGED <<notes, alerts>> /\ mailed' \subseteq mailed \union {e}
    BY <1>3 DEF N!Mail
  <2>2. \E i \in DOMAIN alerts : alerts[i] = e
    BY <2>1 DEF Handled
  <2> QED
    BY <2>1, <2>2
<1>4. ASSUME NEW e \in Events,
             \/ N!Publish(e) \/ N!Take(e) \/ N!Create(e) \/ N!MarkFind(e) \/ N!MarkUpdate(e)
             \/ N!Delete(e)
      PROVE  ToldIsStored'
  <2>1. UNCHANGED alerts /\ UNCHANGED mailed
    BY <1>4 DEF N!Publish, N!Take, N!Create, N!MarkFind, N!MarkUpdate, N!Delete
  <2>2. \A f \in Events : notes[f] # "none" => notes'[f] # "none"
    BY <1>4 DEF N!Publish, N!Take, N!Create, N!MarkFind, N!MarkUpdate, N!Marked, N!Delete, N!Exists,
       TypeOK, N!TypeOK
  <2> QED
    BY <1>1, <2>1, <2>2
<1>5. CASE N!Receive \/ N!MarkAll \/ N!Crash
  <2>1. UNCHANGED alerts /\ UNCHANGED mailed
    BY <1>5 DEF N!Receive, N!MarkAll, N!Crash
  <2>2. \A f \in Events : notes[f] # "none" => notes'[f] # "none"
    BY <1>5 DEF N!Receive, N!MarkAll, N!Crash, N!Exists, TypeOK, N!TypeOK
  <2> QED
    BY <1>1, <2>1, <2>2
<1> QED
  BY <1>2, <1>3, <1>4, <1>5 DEF N!Next, N!Handle

\* A notification that was deleted is not there again: whoever stores it has
\* not yet, and whoever marks it does so only while it is there.
LEMMA DeletedStep ==
    ASSUME TypeOK, Handled, N!Next
    PROVE  \A e \in Events : notes[e] = "deleted" => notes'[e] = "deleted"
<1>1. ASSUME NEW e \in Events, N!Create(e)
      PROVE  \A f \in Events : notes[f] = "deleted" => notes'[f] = "deleted"
  BY <1>1 DEF N!Create, Handled, TypeOK, N!TypeOK
<1>2. ASSUME NEW e \in Events,
             \/ N!Publish(e) \/ N!Take(e) \/ N!Broadcast(e) \/ N!Mail(e) \/ N!MarkFind(e)
             \/ N!MarkUpdate(e) \/ N!Delete(e)
      PROVE  \A f \in Events : notes[f] = "deleted" => notes'[f] = "deleted"
  BY <1>2 DEF N!Publish, N!Take, N!Broadcast, N!Mail, N!MarkFind, N!MarkUpdate, N!Marked, N!Exists,
     N!Delete, TypeOK, N!TypeOK
<1>3. CASE N!Receive \/ N!MarkAll \/ N!Crash
  BY <1>3 DEF N!Receive, N!MarkAll, N!Exists, N!Crash, TypeOK, N!TypeOK
<1> QED
  BY <1>1, <1>2, <1>3 DEF N!Next, N!Handle

-----------------------------------------------------------------------------
(* The threads                                                             *)

\* A question that asked alone goes on alone, and makes the only thread.
Alone ==
    /\ \A q \in Questions :
          ask[q].alone /\ C!Active(q) => \A o \in Questions \ {q} : ~C!Active(o)
    /\ \A q \in Questions : ask[q].alone /\ ask[q].step = "create" => threads = {}
    /\ \A t \in threads :
          /\ ask[t].step \notin {"idle", "create"}
          /\ ask[t].alone => threads = {t} /\ \A p \in Questions : ask[p].step # "create"

\* A step of a question that is at work, as far as the threads can tell.
LEMMA Works ==
    ASSUME TypeOK, NEW q \in Questions, C!Answer(q), ~C!Create(q)
    PROVE  /\ threads' = threads /\ ask[q].step \notin {"idle", "create", "done", "failed"}
           /\ ask'[q].step \notin {"idle", "create"} /\ ask'[q].alone = ask[q].alone
           /\ \A p \in Questions : p # q => ask'[p] = ask[p]
<1>1. CASE C!Chunk(q)
  BY <1>1, TextGrows DEF C!Chunk
<1>2. ASSUME NEW s \in Steps \ {"idle", "create"}, C!Goes(q, s)
      PROVE  /\ ask'[q].step \notin {"idle", "create"} /\ ask'[q].alone = ask[q].alone
             /\ \A p \in Questions : p # q => ask'[p] = ask[p]
  BY <1>2, Goes
<1>3. ASSUME NEW m \in 1 .. Models, NEW n \in 0 .. MaxChunks, C!Asked(q, m, n)
      PROVE  /\ ask'[q].step \notin {"idle", "create"} /\ ask'[q].alone = ask[q].alone
             /\ \A p \in Questions : p # q => ask'[p] = ask[p]
  BY <1>3, Asked
<1>4. CASE \/ C!Save(q) \/ C!Context(q) \/ C!AnswerEnds(q) \/ C!ModelFails(q)
           \/ C!StoreAnswer(q) \/ C!Apologise(q) \/ C!StoreExcuse(q) \/ C!Close(q)
  <2>1. threads' = threads /\ ask[q].step \notin {"idle", "create", "done", "failed"}
    BY <1>4 DEF C!Save, C!Context, C!AnswerEnds, C!ModelFails, C!StoreAnswer, C!Apologise,
       C!StoreExcuse, C!Close
  <2>2. 1 \in 1 .. Models /\ (ask[q].model # Models => ask[q].model + 1 \in 1 .. Models)
    BY AskFields, ChatAssumption
  <2>3. \/ \E s \in Steps \ {"idle", "create"} : C!Goes(q, s)
        \/ \E m \in 1 .. Models, n \in 0 .. MaxChunks : C!Asked(q, m, n)
    BY <1>4, <2>2 DEF C!Save, C!Store, C!Context, C!AnswerEnds, C!ModelFails, C!TriesNext,
       C!StoreAnswer, C!Apologise, C!StoreExcuse, C!Close, Steps
  <2> QED
    BY <1>2, <1>3, <2>1, <2>3
<1> QED
  BY <1>1, <1>4 DEF C!Answer

\* The question that has found no thread is the only one, or was not alone.
LEMMA AloneStep ==
    ASSUME TypeOK, Alone, C!Next
    PROVE  Alone'
<1> USE DEF C!Active
<1>1. ASSUME NEW q \in Questions, C!Find(q) PROVE Alone'
  <2>1. threads' = threads /\ ask[q].step = "idle" /\ threads \subseteq Questions
    BY <1>1 DEF C!Find, TypeOK, C!TypeOK
  <2>2. q \notin threads
    BY <2>1 DEF Alone
  <2>3. /\ ask'[q].step \in {"create", "save", "done"}
        /\ ask'[q].step = "create" => threads = {}
        /\ ask'[q].alone => \A o \in Questions \ {q} : ~C!Active(o)
    BY <1>1, Found
  <2>4. ASSUME NEW p \in Questions, p # q
        PROVE  /\ ask'[p].step = ask[p].step
               /\ ask'[p].alone => ask[p].alone /\ ~C!Active(p)
    BY <1>1, <2>4, Found
  <2>5. ASSUME NEW p \in Questions, ask'[p].alone, C!Active(p)', NEW o \in Questions \ {p}
        PROVE  ~C!Active(o)'
    <3>1. p = q
      BY <2>4, <2>5
    <3> QED
      BY <2>3, <2>4, <2>5, <3>1
  <2>6. \A p \in Questions : ask'[p].alone /\ ask'[p].step = "create" => threads = {}
    BY <2>3, <2>4
  <2>7. ASSUME NEW t \in threads
        PROVE  /\ ask'[t].step \notin {"idle", "create"}
               /\ ask'[t].alone => threads = {t} /\ \A p \in Questions : ask'[p].step # "create"
    BY <2>1, <2>2, <2>3, <2>4 DEF Alone
  <2> QED
    BY <2>1, <2>5, <2>6, <2>7 DEF Alone
<1>2. ASSUME NEW q \in Questions, C!Create(q) PROVE Alone'
  <2>1. /\ ask[q].step = "create" /\ ask'[q].step \notin {"idle", "create"}
        /\ ask'[q].alone = ask[q].alone
        /\ \A p \in Questions : p # q => ask'[p] = ask[p]
        /\ threads' \in {threads, threads \union {q}} /\ threads \subseteq Questions
    <3>1. CASE C!Goes(q, "failed")
      BY <1>2, <3>1, Goes DEF C!Create, TypeOK, C!TypeOK, Steps
    <3>2. ASSUME NEW next \in C!AfterThread, ask' = [ask EXCEPT ![q].thread = q, ![q].step = next]
          PROVE  /\ ask'[q].step \notin {"idle", "create"} /\ ask'[q].alone = ask[q].alone
                 /\ \A p \in Questions : p # q => ask'[p] = ask[p]
      BY <3>2, AskFields DEF Ask, C!AfterThread
    <3> QED
      BY <1>2, <3>1, <3>2 DEF C!Create, TypeOK, C!TypeOK
  <2> QED
    BY <2>1 DEF Alone
<1>3. ASSUME NEW q \in Questions, C!Answer(q), ~C!Create(q) PROVE Alone'
  <2>1. threads \subseteq Questions
    BY DEF TypeOK, C!TypeOK
  <2> QED
    BY <1>3, <2>1, Works DEF Alone
<1>4. CASE C!Crash
  <2>1. threads' = threads /\ threads \subseteq Questions
    BY <1>4 DEF C!Crash, TypeOK, C!TypeOK
  <2>2. ASSUME NEW p \in Questions
        PROVE  /\ ask'[p].step \in {"idle", "done", "failed"}
               /\ ask'[p].alone = ask[p].alone
               /\ ask[p].step # "idle" => ask'[p].step # "idle"
    BY <1>4, AskFields DEF C!Crash, Ask
  <2> QED
    BY <2>1, <2>2 DEF Alone
<1> QED
  BY <1>1, <1>2, <1>3, <1>4 DEF C!Next

-----------------------------------------------------------------------------
(* The answers                                                             *)

\* The steps before an answer may be in the database, and after it has come
\* to nothing.
Unanswered == {"idle", "create", "save", "context", "stream", "store"}
Sorrowful == {"apologise", "excuse"}

\* What an answer to q can be: the excuse, or all that was said.
Whole(q, text) ==
    \/ text = <<C!Sorry>>
    \/ text = ask[q].text /\ text # <<>> /\ C!Said(q) = ask[q].plan

\* No answer is stored before its last chunk has come; one that is there
\* although its store has failed is followed by the excuse, and by no more.
Fine(q) ==
    /\ ask[q].text \in Seq(1 .. Models)
    /\ ask[q].step \in Unanswered => C!Answers(q) = {}
    /\ ask[q].step = "store" => ask[q].text # <<>> /\ C!Said(q) = ask[q].plan
    /\ \A i \in C!Answers(q) :
          /\ Whole(q, messages[i].text)
          /\ ask[q].step \in Sorrowful => faults > 0 /\ messages[i].text # <<C!Sorry>>
    /\ \A i, j \in C!Answers(q) :
          i < j => /\ ask[q].step \notin Sorrowful
                   /\ faults > 0
                   /\ messages[i].text # <<C!Sorry>>
                   /\ messages[j].text = <<C!Sorry>>

Answered == \A q \in Questions : Fine(q)

\* What has been said depends on the text and the model only.
LEMMA SaidSame ==
    ASSUME NEW q \in Questions, ask'[q].text = ask[q].text, ask'[q].model = ask[q].model
    PROVE  C!Said(q)' = C!Said(q)
BY DEF C!Said

\* A text is the excuse, or it has been said.
LEMMA TextIsNoExcuse ==
    ASSUME NEW text \in Seq(1 .. Models), text # <<>>
    PROVE  text # <<C!Sorry>> /\ Last(text) # C!Sorry
<1>1. Len(text) \in Nat
  BY LenProperties
<1>2. Len(text) # 0
  BY EmptySeq
<1>3. \A i \in 1 .. Len(text) : text[i] \in 1 .. Models
  BY ElementOfSeq
<1>4. text[1] # 0 /\ text[Len(text)] # 0
  BY <1>1, <1>2, <1>3, ChatAssumption
<1>5. <<C!Sorry>>[1] = 0
  BY DEF C!Sorry
<1> QED
  BY <1>4, <1>5 DEF Last, C!Sorry

\* Where the answers are after a message more.
LEMMA Appended ==
    ASSUME TypeOK, NEW m \in ChatMessage, messages' = Append(messages, m), NEW p \in Questions
    PROVE  /\ \A i \in C!Answers(p) :
                 messages'[i] = messages[i] /\ i \in Nat /\ i < Len(messages) + 1
           /\ messages'[Len(messages) + 1] = m
           /\ C!Answers(p)' = IF m.of = p /\ m.role = "model"
                              THEN C!Answers(p) \union {Len(messages) + 1}
                              ELSE C!Answers(p)
<1>1. messages \in Seq(ChatMessage)
  BY DEF TypeOK, C!TypeOK, ChatMessage
<1>2. /\ DOMAIN messages = 1 .. Len(messages) /\ DOMAIN messages' = 1 .. Len(messages) + 1
      /\ \A i \in DOMAIN messages : messages'[i] = messages[i]
      /\ messages'[Len(messages) + 1] = m /\ Len(messages) \in Nat
  BY <1>1
<1>3. \A i : i \in DOMAIN messages' <=> i \in DOMAIN messages \/ i = Len(messages) + 1
  BY <1>2
<1> QED
  BY <1>2, <1>3 DEF C!Answers

\* A question whose part in it all stays is as fine as before.
LEMMA FineStays ==
    ASSUME Answered, NEW p \in Questions,
           ask'[p].text = ask[p].text, ask'[p].model = ask[p].model, ask'[p].plan = ask[p].plan,
           C!Answers(p)' = C!Answers(p), \A i \in C!Answers(p) : messages'[i] = messages[i],
           faults' >= faults, faults \in Nat, faults' \in Nat,
           \/ ask'[p].step = ask[p].step
           \/ /\ ask'[p].step \notin Unanswered \union Sorrowful
           \/ /\ ask[p].step \in Unanswered
              /\ ask'[p].step # "store"
    PROVE  Fine(p)'
<1>1. C!Said(p)' = C!Said(p)
  BY SaidSame
<1> QED
  BY <1>1 DEF Answered, Fine, Whole, Unanswered, Sorrowful

\* A message of q changes nothing for the others.
LEMMA OthersFine ==
    ASSUME TypeOK, Answered, NEW q \in Questions, NEW p \in Questions, p # q, ask'[p] = ask[p],
           \/ messages' = messages
           \/ \E m \in ChatMessage : m.of = q /\ messages' = Append(messages, m),
           faults' >= faults, faults' \in Nat
    PROVE  Fine(p)'
<1>1. faults \in Nat
  BY FaultAssumption DEF TypeOK, C!TypeOK
<1>2. CASE messages' = messages
  BY <1>1, <1>2, FineStays DEF C!Answers
<1>3. ASSUME NEW m \in ChatMessage, m.of = q, messages' = Append(messages, m)
      PROVE  Fine(p)'
  BY <1>1, <1>3, Appended, FineStays
<1> QED
  BY <1>2, <1>3

\* Faults are counted.
LEMMA ChatFaults ==
    ASSUME C!Next, faults \in Nat
    PROVE  faults' >= faults
<1>1. \A k : C!Fault(k) => faults' >= faults
  BY DEF C!Fault
<1>2. ASSUME NEW q \in Questions, C!Find(q) \/ C!Answer(q) PROVE faults' >= faults
  <2>1. \A token, final : C!Emit(q, token, final) => faults' >= faults
    BY <1>1 DEF C!Emit
  <2>2. \A role, text, next, otherwise :
           C!Store(q, role, text, next, otherwise) => faults' >= faults
    BY <1>1 DEF C!Store
  <2>3. CASE C!Save(q) \/ C!StoreAnswer(q) \/ C!StoreExcuse(q)
    BY <2>2, <2>3 DEF C!Save, C!StoreAnswer, C!StoreExcuse
  <2>4. CASE C!Chunk(q) \/ C!Apologise(q) \/ C!Close(q)
    BY <2>1, <2>4 DEF C!Chunk, C!Apologise, C!Close
  <2>5. CASE C!Find(q) \/ C!AnswerEnds(q) \/ C!ModelFails(q)
    <3>1. faults' = faults
      BY <2>5 DEF C!Find, C!AnswerEnds, C!ModelFails
    <3> QED
      BY <3>1
  <2>6. CASE C!Create(q) \/ C!Context(q)
    BY <1>1, <2>6 DEF C!Create, C!Context
  <2> QED
    BY <1>2, <2>3, <2>4, <2>5, <2>6 DEF C!Answer
<1> QED
  BY <1>1, <1>2 DEF C!Next, C!Crash

\* sendMessage stores an answer when it is whole, and the excuse after that.
LEMMA AnsweredStep ==
    ASSUME TypeOK, HasThread, Answered, C!Next, TypeOK'
    PROVE  Answered'
<1>1. faults \in Nat /\ faults' \in Nat /\ \A q \in Questions : ask[q] \in Ask
  <2>1. faults \in 0 .. MaxFaults /\ faults' \in 0 .. MaxFaults
    BY DEF TypeOK, C!TypeOK
  <2> QED
    BY <2>1, FaultAssumption, AskFields
<1>2. faults' >= faults
  BY <1>1, ChatFaults
<1>3. ASSUME NEW q \in Questions, C!Find(q) PROVE Answered'
  <2>1. messages' = messages /\ ask[q].step = "idle"
    BY <1>3 DEF C!Find
  <2>2. ASSUME NEW p \in Questions PROVE Fine(p)'
    BY <1>1, <1>2, <1>3, <2>1, Found, FineStays DEF C!Answers, Unanswered
  <2> QED
    BY <2>2 DEF Answered
<1>4. ASSUME NEW q \in Questions, C!Create(q) PROVE Answered'
  <2>1. messages' = messages /\ ask[q].step = "create"
    BY <1>4 DEF C!Create
  <2>2. /\ ask'[q].text = ask[q].text /\ ask'[q].model = ask[q].model /\ ask'[q].plan = ask[q].plan
        /\ ask'[q].step # "store"
        /\ \A p \in Questions : p # q => ask'[p] = ask[p]
    <3>1. CASE C!Goes(q, "failed")
      BY <3>1, Goes DEF Steps
    <3>2. ASSUME NEW next \in C!AfterThread, ask' = [ask EXCEPT ![q].thread = q, ![q].step = next]
          PROVE  /\ ask'[q].text = ask[q].text /\ ask'[q].model = ask[q].model
                 /\ ask'[q].plan = ask[q].plan /\ ask'[q].step # "store"
                 /\ \A p \in Questions : p # q => ask'[p] = ask[p]
      BY <3>2, AskFields DEF Ask, C!AfterThread
    <3> QED
      BY <1>4, <3>1, <3>2 DEF C!Create
  <2>3. Fine(q)'
    BY <1>1, <1>2, <2>1, <2>2, FineStays DEF C!Answers, Unanswered
  <2>4. \A p \in Questions : p # q => Fine(p)'
    BY <1>1, <1>2, <2>1, <2>2, OthersFine
  <2> QED
    BY <2>3, <2>4 DEF Answered
<1>5. ASSUME NEW q \in Questions, C!Save(q) PROVE Answered'
  <2>1. ask[q].step = "save" /\ ask[q].thread \in Questions
    BY <1>5 DEF C!Save, HasThread, Threaded
  <2>2. <<>> \in Seq(C!Tokens)
    OBVIOUS
  <2>3. PICK m \in ChatMessage :
           /\ m.of = q /\ m.role = "user" /\ m.text = <<>>
           /\ \/ messages' = Append(messages, m) /\ faults' = faults /\ C!Goes(q, "context")
              \/ /\ messages' = Append(messages, m) \/ messages' = messages
                 /\ faults' = faults + 1 /\ faults' > 0 /\ C!Goes(q, "failed")
    <3>1. C!Store(q, "user", <<>>, "context", "failed")
      BY <1>5 DEF C!Save
    <3>2. "context" \in Steps /\ "failed" \in Steps /\ "user" \in {"user", "model"}
      BY DEF Steps
    <3>3. \E m \in ChatMessage :
             /\ m.of = q /\ m.role = "user" /\ m.text = <<>>
             /\ \/ messages' = Append(messages, m) /\ faults' = faults /\ C!Goes(q, "context")
                \/ /\ messages' = Append(messages, m) \/ messages' = messages
                   /\ faults' = faults + 1 /\ faults' > 0 /\ C!Goes(q, "failed")
      BY <2>1, <2>2, <3>1, <3>2, Created
    <3> QED
      BY <3>3
  <2>4. /\ ask'[q].step \in {"context", "failed"} /\ ask'[q].text = ask[q].text
        /\ ask'[q].model = ask[q].model /\ ask'[q].plan = ask[q].plan
        /\ \A p \in Questions : p # q => ask'[p] = ask[p]
    BY <2>3, Goes DEF Steps
  <2>5. C!Answers(q)' = C!Answers(q) /\ \A i \in C!Answers(q) : messages'[i] = messages[i]
    <3>1. CASE messages' = messages
      BY <3>1 DEF C!Answers
    <3>2. CASE messages' = Append(messages, m)
      BY <2>3, <3>2, Appended
    <3> QED
      BY <2>3, <3>1, <3>2
  <2>6. Fine(q)'
    BY <1>1, <1>2, <2>1, <2>4, <2>5, FineStays DEF Unanswered
  <2>7. \A p \in Questions : p # q => Fine(p)'
    BY <1>1, <1>2, <2>3, <2>4, OthersFine
  <2> QED
    BY <2>6, <2>7 DEF Answered
<1>6. ASSUME NEW q \in Questions,
             C!Context(q) \/ C!Chunk(q) \/ C!AnswerEnds(q) \/ C!ModelFails(q)
      PROVE  Answered'
  <2>1. messages' = messages /\ ask[q].step \in {"context", "stream"}
    BY <1>6 DEF C!Context, C!Chunk, C!AnswerEnds, C!ModelFails
  <2>2. C!Answers(q)' = {}
    BY <2>1 DEF C!Answers, Answered, Fine, Unanswered
  <2>3. /\ ask'[q].text \in Seq(1 .. Models)
        /\ ask'[q].step = "store" => ask'[q].text # <<>> /\ C!Said(q)' = ask'[q].plan
        /\ \A p \in Questions : p # q => ask'[p] = ask[p]
    <3>1. ask[q].text \in Seq(1 .. Models) /\ ask[q].model \in 1 .. Models
      BY AskFields DEF Answered, Fine
    <3>2. CASE C!Chunk(q)
      <4>1. ask'[q].step = "stream" /\ \A p \in Questions : p # q => ask'[p] = ask[p]
        BY <3>2, TextGrows DEF C!Chunk
      <4>2. ask'[q].text \in Seq(1 .. Models)
        <5>1. ask'[q].text = Append(ask[q].text, ask[q].model)
          BY <3>2, TextGrows
        <5>2. Append(ask[q].text, ask[q].model) \in Seq(1 .. Models)
          BY <3>1, AppendProperties
        <5> QED
          BY <5>1, <5>2
      <4> QED
        BY <4>1, <4>2
    <3>3. ASSUME NEW s \in Steps \ {"store"}, C!Goes(q, s)
          PROVE  /\ ask'[q].text \in Seq(1 .. Models) /\ ask'[q].step # "store"
                 /\ \A p \in Questions : p # q => ask'[p] = ask[p]
      BY <3>1, <3>3, Goes
    <3>4. ASSUME NEW m \in 1 .. Models, NEW n \in 0 .. MaxChunks, C!Asked(q, m, n)
          PROVE  /\ ask'[q].text \in Seq(1 .. Models) /\ ask'[q].step # "store"
                 /\ \A p \in Questions : p # q => ask'[p] = ask[p]
      BY <3>1, <3>4, Asked
    <3>5. CASE C!Context(q) \/ C!ModelFails(q)
      <4>1. 1 \in 1 .. Models /\ (ask[q].model # Models => ask[q].model + 1 \in 1 .. Models)
        BY AskFields, ChatAssumption
      <4>2. \/ \E s \in Steps \ {"store"} : C!Goes(q, s)
            \/ \E m \in 1 .. Models, n \in 0 .. MaxChunks : C!Asked(q, m, n)
        BY <3>5, <4>1 DEF C!Context, C!ModelFails, C!TriesNext, Steps
      <4> QED
        BY <3>3, <3>4, <4>2
    <3>6. CASE C!AnswerEnds(q) /\ ask[q].text # <<>>
      BY <3>1, <3>6, Goes, SaidSame DEF C!AnswerEnds, Steps
    <3>7. CASE C!AnswerEnds(q) /\ ask[q].text = <<>>
      BY <3>3, <3>7 DEF C!AnswerEnds, Steps
    <3> QED
      BY <1>6, <3>2, <3>5, <3>6, <3>7
  <2>4. Fine(q)'
    BY <2>2, <2>3 DEF Fine
  <2>5. \A p \in Questions : p # q => Fine(p)'
    BY <1>1, <1>2, <2>1, <2>3, OthersFine
  <2> QED
    BY <2>4, <2>5 DEF Answered
<1>7. ASSUME NEW q \in Questions, C!StoreAnswer(q) PROVE Answered'
  <2>1. /\ ask[q].step = "store" /\ ask[q].thread \in Questions
        /\ C!Answers(q) = {} /\ ask[q].text # <<>> /\ C!Said(q) = ask[q].plan
        /\ ask[q].text \in Seq(1 .. Models) /\ ask[q].text \in Seq(C!Tokens)
    BY <1>7, AskFields DEF C!StoreAnswer, HasThread, Threaded, Answered, Fine, Unanswered
  <2>2. PICK m \in ChatMessage :
           /\ m.of = q /\ m.role = "model" /\ m.text = ask[q].text
           /\ \/ messages' = Append(messages, m) /\ C!Goes(q, "final")
              \/ /\ messages' = Append(messages, m) \/ messages' = messages
                 /\ faults' > 0 /\ C!Goes(q, "apologise")
    BY <1>7, AnswerStored
  <2>3. /\ ask'[q].step \in {"final", "apologise"} /\ ask'[q].text = ask[q].text
        /\ ask'[q].step = "apologise" => faults' > 0
        /\ ask'[q].model = ask[q].model /\ ask'[q].plan = ask[q].plan
        /\ \A p \in Questions : p # q => ask'[p] = ask[p]
    BY <2>2, Goes DEF Steps
  <2>4. /\ C!Answers(q)' \subseteq {Len(messages) + 1}
        /\ \A i \in C!Answers(q)' : messages'[i].text = ask[q].text
    <3>1. CASE messages' = messages
      BY <2>1, <3>1 DEF C!Answers
    <3>2. CASE messages' = Append(messages, m)
      BY <2>1, <2>2, <3>2, Appended
    <3> QED
      BY <2>2, <3>1, <3>2
  <2>5. ask[q].text # <<C!Sorry>> /\ C!Said(q)' = C!Said(q)
    BY <2>1, <2>3, TextIsNoExcuse, SaidSame
  <2>6. \A i, j \in C!Answers(q)' : ~(i < j)
    <3>1. Len(messages) \in Nat
      BY DEF TypeOK, C!TypeOK
    <3> QED
      BY <2>4, <3>1
  <2>7. Fine(q)'
    BY <2>1, <2>3, <2>4, <2>5, <2>6 DEF Fine, Whole, Unanswered, Sorrowful
  <2>8. \A p \in Questions : p # q => Fine(p)'
    BY <1>1, <1>2, <2>2, <2>3, OthersFine
  <2> QED
    BY <2>7, <2>8 DEF Answered
<1>8. ASSUME NEW q \in Questions, C!StoreExcuse(q) PROVE Answered'
  <2>1. ask[q].step = "excuse" /\ ask[q].thread \in Questions /\ Fine(q)
    BY <1>8 DEF C!StoreExcuse, HasThread, Threaded, Answered
  <2>2. <<C!Sorry>> \in Seq(C!Tokens)
    BY ChatAssumption DEF C!Tokens, C!Sorry
  <2>3. PICK m \in ChatMessage :
           /\ m.of = q /\ m.role = "model" /\ m.text = <<C!Sorry>>
           /\ \/ messages' = Append(messages, m) /\ faults' = faults /\ C!Goes(q, "final")
              \/ /\ messages' = Append(messages, m) \/ messages' = messages
                 /\ faults' = faults + 1 /\ faults' > 0 /\ C!Goes(q, "failed")
    BY <1>8, ExcuseStored
  <2>4. /\ ask'[q].step \in {"final", "failed"} /\ ask'[q].text = ask[q].text
        /\ ask'[q].model = ask[q].model /\ ask'[q].plan = ask[q].plan
        /\ \A p \in Questions : p # q => ask'[p] = ask[p]
    BY <2>3, Goes DEF Steps
  <2>5. C!Said(q)' = C!Said(q)
    BY <2>4, SaidSame
  <2>6. ASSUME messages' = messages PROVE Fine(q)'
    <3>1. C!Answers(q)' = C!Answers(q)
      BY <2>6 DEF C!Answers
    <3>2. ask'[q].step \notin Unanswered \union Sorrowful
      BY <2>4 DEF Unanswered, Sorrowful
    <3>3. \A i \in C!Answers(q) : messages'[i] = messages[i]
      BY <2>6
    <3>4. /\ ask'[q].text = ask[q].text /\ ask'[q].model = ask[q].model
          /\ ask'[q].plan = ask[q].plan
      BY <2>4
    <3> QED
      BY <1>1, <1>2, <3>1, <3>2, <3>3, <3>4, FineStays
  <2>7. ASSUME messages' = Append(messages, m) PROVE Fine(q)'
    <3>1. /\ \A i \in C!Answers(q) :
                messages'[i] = messages[i] /\ i \in Nat /\ i < Len(messages) + 1
          /\ messages'[Len(messages) + 1].text = <<C!Sorry>>
          /\ C!Answers(q)' = C!Answers(q) \union {Len(messages) + 1}
      BY <2>3, <2>7, Appended
    <3>2. \A i, j \in C!Answers(q) : ~(i < j)
      BY <2>1 DEF Fine, Sorrowful
    <3>3. \A i \in C!Answers(q) : faults > 0 /\ messages[i].text # <<C!Sorry>>
      BY <2>1 DEF Fine, Sorrowful
    <3>4. Len(messages) + 1 \in Nat
      BY DEF TypeOK, C!TypeOK
    <3>5. \A i \in C!Answers(q)' : Whole(q, messages[i].text)'
      BY <2>1, <2>4, <2>5, <3>1 DEF Fine, Whole
    <3>6. \A i, j \in C!Answers(q)' :
             i < j => /\ faults' > 0
                      /\ messages'[i].text # <<C!Sorry>>
                      /\ messages'[j].text = <<C!Sorry>>
      BY <1>1, <1>2, <3>1, <3>2, <3>3, <3>4
    <3>7. /\ ask'[q].text \in Seq(1 .. Models)
          /\ ask'[q].step \notin Unanswered \union Sorrowful
          /\ ask'[q].step # "store"
      BY <2>1, <2>4 DEF Fine, Unanswered, Sorrowful
    <3>8. \A i \in C!Answers(q)' :
             /\ Whole(q, messages[i].text)'
             /\ ask'[q].step \in Sorrowful => faults' > 0 /\ messages'[i].text # <<C!Sorry>>
      BY <3>5, <3>7
    <3>9. \A i, j \in C!Answers(q)' :
             i < j => /\ ask'[q].step \notin Sorrowful
                      /\ faults' > 0
                      /\ messages'[i].text # <<C!Sorry>>
                      /\ messages'[j].text = <<C!Sorry>>
      BY <3>6, <3>7
    <3> QED
      BY <3>7, <3>8, <3>9 DEF Fine
  <2>8. \A p \in Questions : p # q => Fine(p)'
    BY <1>1, <1>2, <2>3, <2>4, OthersFine
  <2> QED
    BY <2>3, <2>6, <2>7, <2>8 DEF Answered
<1>9. ASSUME NEW q \in Questions, C!Apologise(q) \/ C!Close(q) PROVE Answered'
  <2>1. messages' = messages
    BY <1>9 DEF C!Apologise, C!Close
  <2>2. /\ ask'[q].text = ask[q].text /\ ask'[q].model = ask[q].model /\ ask'[q].plan = ask[q].plan
        /\ \/ ask[q].step = "apologise" /\ ask'[q].step = "excuse"
           \/ ask'[q].step = "done"
        /\ \A p \in Questions : p # q => ask'[p] = ask[p]
    BY <1>9, Goes DEF C!Apologise, C!Close, Steps
  <2>3. C!Said(q)' = C!Said(q) /\ C!Answers(q)' = C!Answers(q)
    BY <2>1, <2>2, SaidSame DEF C!Answers
  <2>4. Fine(q)'
    BY <1>1, <1>2, <2>1, <2>2, <2>3 DEF Answered, Fine, Whole, Unanswered, Sorrowful
  <2>5. \A p \in Questions : p # q => Fine(p)'
    BY <1>1, <1>2, <2>1, <2>2, OthersFine
  <2> QED
    BY <2>4, <2>5 DEF Answered
<1>10. CASE C!Crash
  <2>1. messages' = messages
    BY <1>10 DEF C!Crash
  <2>2. ASSUME NEW p \in Questions
        PROVE  /\ ask'[p].text = ask[p].text /\ ask'[p].model = ask[p].model
               /\ ask'[p].plan = ask[p].plan
               /\ ask'[p].step = ask[p].step \/ ask'[p].step = "failed"
    BY <1>1, <1>10 DEF C!Crash, Ask
  <2>3. ASSUME NEW p \in Questions PROVE Fine(p)'
    BY <1>1, <1>2, <2>1, <2>2, FineStays DEF C!Answers, Unanswered, Sorrowful
  <2> QED
    BY <2>3 DEF Answered
<1> QED
  BY <1>3, <1>4, <1>5, <1>6, <1>7, <1>8, <1>9, <1>10 DEF C!Next, C!Answer

-----------------------------------------------------------------------------
(* The chunks                                                              *)

\* The chunks that have come to the subscriber, and then those on their way.
Sent == stream \o inbox

\* The last of the first i chunks of s are the text, said by q in a thread.
EndsIn(s, i, q, thread, text) ==
    /\ Len(text) <= i
    /\ \A k \in DOMAIN text :
          s[i - Len(text) + k] = [thread |-> thread, of |-> q, token |-> text[k], final |-> FALSE]

\* No other question has been under way, and no chunk was lost.
Clean(q) == ask[q].alone /\ <<q, "chunk">> \notin lost

LastAnswer(q, a) == a \in C!Answers(q) /\ \A b \in C!Answers(q) : b <= a

\* What q has sent last while it is at work: all it has said, the excuse, or
\* what it has stored.
Sends(q) ==
    /\ ask[q].step \in {"idle", "create", "save", "context"} => ask[q].text = <<>>
    /\ ask[q].step \in {"stream", "store", "apologise"} /\ Clean(q) =>
          EndsIn(Sent, Len(Sent), q, ask[q].thread, ask[q].text)
    /\ ask[q].step = "excuse" /\ Clean(q) =>
          EndsIn(Sent, Len(Sent), q, ask[q].thread, <<C!Sorry>>)
    /\ ask[q].step = "final" =>
          \E a \in Nat :
             /\ LastAnswer(q, a)
             /\ Clean(q) => EndsIn(Sent, Len(Sent), q, ask[q].thread, messages[a].text)

\* What a final chunk follows: it comes from a question that is over and has
\* been answered.
Closes(i) ==
    LET q == Sent[i].of
    IN  Sent[i].final =>
           /\ ask[q].step = "done" /\ ask[q].thread = Sent[i].thread
           /\ \E a \in Nat :
                 /\ LastAnswer(q, a)
                 /\ Clean(q) => EndsIn(Sent, i - 1, q, ask[q].thread, messages[a].text)

Streamed == (\A q \in Questions : Sends(q)) /\ (\A i \in DOMAIN Sent : Closes(i))

\* A chunk that is sent joins those that are on their way.
LEMMA SentGrows ==
    ASSUME TypeOK, stream' = stream, NEW m \in ChunkMessage, inbox' = Append(inbox, m)
    PROVE  Sent' = Append(Sent, m)
<1>1. stream \in Seq(ChunkMessage) /\ inbox \in Seq(ChunkMessage) /\ <<m>> \in Seq(ChunkMessage)
  BY DEF TypeOK
<1>2. inbox' = inbox \o <<m>>
  BY <1>1, AppendIsConcat
<1>3. Sent \in Seq(ChunkMessage)
  BY <1>1, ConcatProperties DEF Sent
<1>4. Sent' = Sent \o <<m>>
  BY <1>1, <1>2, ConcatAssociative DEF Sent
<1> QED
  BY <1>3, <1>4, AppendIsConcat

\* A chunk that arrives keeps its place.
LEMMA SentArrives ==
    ASSUME TypeOK, N!Receive
    PROVE  Sent' = Sent
<1> DEFINE h == Head(inbox)
           t == Tail(inbox)
<1>1. /\ stream \in Seq(ChunkMessage) /\ inbox \in Seq(ChunkMessage) /\ inbox # <<>>
      /\ stream' = Append(stream, h) /\ inbox' = t
  BY DEF TypeOK, N!Receive
<1>2. /\ h \in ChunkMessage /\ t \in Seq(ChunkMessage) /\ <<h>> \in Seq(ChunkMessage)
      /\ Len(t) = Len(inbox) - 1 /\ inbox[1] = h /\ \A i \in 1 .. Len(t) : t[i] = inbox[i + 1]
  BY <1>1
<1> HIDE DEF h, t
<1>3. <<h>> \o t = inbox
  <2>1. <<h>> \o t \in Seq(ChunkMessage) /\ Len(<<h>> \o t) = Len(inbox)
    BY <1>1, <1>2, ConcatProperties
  <2>2. \A i \in 1 .. Len(inbox) : (<<h>> \o t)[i] = inbox[i]
    <3>1. Len(<<h>>) = 1 /\ <<h>>[1] = h /\ Len(inbox) \in Nat
      BY <1>1
    <3>2. \A i \in 1 .. Len(inbox) : (<<h>> \o t)[i] = IF i <= 1 THEN <<h>>[i] ELSE t[i - 1]
      BY <1>2, <3>1, ConcatProperties
    <3>3. \A i \in 1 .. Len(inbox) : i = 1 \/ (i - 1 \in 1 .. Len(t) /\ i = (i - 1) + 1)
      BY <1>2, <3>1
    <3> QED
      BY <1>2, <3>1, <3>2, <3>3
  <2> QED
    BY <1>1, <2>1, <2>2, SeqEqual
<1>4. stream' = stream \o <<h>>
  BY <1>1, <1>2, AppendIsConcat
<1>5. (stream \o <<h>>) \o t = stream \o (<<h>> \o t)
  BY <1>1, <1>2, ConcatAssociative
<1>6. Sent' = (stream \o <<h>>) \o t
  BY <1>1, <1>4 DEF Sent
<1> QED
  BY <1>3, <1>5, <1>6 DEF Sent

LEMMA SentType ==
    ASSUME TypeOK
    PROVE  /\ Sent \in Seq(ChunkMessage) /\ Len(Sent) \in Nat /\ DOMAIN Sent = 1 .. Len(Sent)
           /\ \A i \in DOMAIN Sent : Sent[i] \in ChunkMessage /\ Sent[i].of \in Questions
           /\ Len(Sent) = Len(stream) + Len(inbox)
           /\ \A i \in 1 .. Len(stream) : i \in DOMAIN Sent /\ Sent[i] = stream[i]
           /\ \A i \in 1 .. Len(inbox) : Sent[Len(stream) + i] = inbox[i]
<1>1. /\ stream \in Seq(ChunkMessage) /\ inbox \in Seq(ChunkMessage)
      /\ Len(stream) \in Nat /\ Len(inbox) \in Nat
  BY DEF TypeOK
<1>2. /\ Sent \in Seq(ChunkMessage) /\ Len(Sent) = Len(stream) + Len(inbox)
      /\ \A i \in 1 .. Len(stream) + Len(inbox) :
            Sent[i] = IF i <= Len(stream) THEN stream[i] ELSE inbox[i - Len(stream)]
  BY <1>1, ConcatProperties DEF Sent
<1>3. DOMAIN Sent = 1 .. Len(Sent)
  BY <1>2, LenProperties
<1>4. \A i \in DOMAIN Sent : Sent[i] \in ChunkMessage
  BY <1>2, <1>3, ElementOfSeq
<1>5. \A i \in 1 .. Len(inbox) :
         /\ Len(stream) + i \in 1 .. Len(stream) + Len(inbox)
         /\ ~(Len(stream) + i <= Len(stream)) /\ (Len(stream) + i) - Len(stream) = i
  BY <1>1
<1>6. \A i \in 1 .. Len(stream) : i \in 1 .. Len(stream) + Len(inbox)
  BY <1>1
<1> QED
  BY <1>1, <1>2, <1>3, <1>4, <1>5, <1>6 DEF ChunkMessage

\* A text that goes on.
LEMMA EndsGrow ==
    ASSUME NEW s \in Seq(ChunkMessage), NEW text \in Seq(C!Tokens), NEW token \in C!Tokens,
           NEW q, NEW thread, EndsIn(s, Len(s), q, thread, text)
    PROVE  EndsIn(Append(s, [thread |-> thread, of |-> q, token |-> token, final |-> FALSE]),
                  Len(s) + 1, q, thread, Append(text, token))
<1> DEFINE m == [thread |-> thread, of |-> q, token |-> token, final |-> FALSE]
<1>1. Len(s) \in Nat /\ Len(text) \in Nat /\ Len(text) <= Len(s) /\ DOMAIN text = 1 .. Len(text)
  BY DEF EndsIn
<1>2. /\ Len(Append(text, token)) = Len(text) + 1
      /\ DOMAIN Append(text, token) = 1 .. Len(text) + 1
      /\ \A k \in 1 .. Len(text) : Append(text, token)[k] = text[k]
      /\ Append(text, token)[Len(text) + 1] = token
  OBVIOUS
<1>3. Append(s, m)[Len(s) + 1] = m /\ \A i \in 1 .. Len(s) : Append(s, m)[i] = s[i]
  OBVIOUS
<1>4. ASSUME NEW k \in 1 .. Len(text) + 1
      PROVE  Append(s, m)[(Len(s) + 1) - (Len(text) + 1) + k]
                = [thread |-> thread, of |-> q, token |-> Append(text, token)[k], final |-> FALSE]
  <2>1. CASE k = Len(text) + 1
    <3>1. (Len(s) + 1) - (Len(text) + 1) + k = Len(s) + 1
      BY <1>1, <2>1
    <3> QED
      BY <1>2, <1>3, <2>1, <3>1
  <2>2. CASE k \in 1 .. Len(text)
    <3>1. /\ (Len(s) + 1) - (Len(text) + 1) + k = Len(s) - Len(text) + k
          /\ Len(s) - Len(text) + k \in 1 .. Len(s)
      BY <1>1, <2>2
    <3>2. s[Len(s) - Len(text) + k]
             = [thread |-> thread, of |-> q, token |-> text[k], final |-> FALSE]
      BY <1>1, <2>2 DEF EndsIn
    <3> QED
      BY <1>2, <1>3, <2>2, <3>1, <3>2
  <2>3. k = Len(text) + 1 \/ k \in 1 .. Len(text)
    BY <1>1
  <2> QED
    BY <2>1, <2>2, <2>3
<1> DEFINE u == Append(s, m)
           w == Append(text, token)
<1>5. /\ Len(w) = Len(text) + 1 /\ DOMAIN w = 1 .. Len(text) + 1
      /\ \A k \in 1 .. Len(text) + 1 :
            u[(Len(s) + 1) - (Len(text) + 1) + k]
               = [thread |-> thread, of |-> q, token |-> w[k], final |-> FALSE]
  BY <1>2, <1>4
<1> HIDE DEF m, u, w
<1>6. EndsIn(u, Len(s) + 1, q, thread, w)
  BY <1>1, <1>5 DEF EndsIn
<1> QED
  BY <1>6 DEF m, u, w

\* What comes later changes nothing.
LEMMA EndsStay ==
    ASSUME NEW s \in Seq(ChunkMessage), NEW u \in Seq(ChunkMessage), NEW i \in Nat,
           \A j \in 1 .. i : u[j] = s[j],
           NEW text \in Seq(C!Tokens), NEW q, NEW thread, EndsIn(s, i, q, thread, text)
    PROVE  EndsIn(u, i, q, thread, text)
<1>1. Len(text) \in Nat /\ Len(text) <= i /\ DOMAIN text = 1 .. Len(text)
  BY DEF EndsIn
<1>2. \A k \in DOMAIN text : i - Len(text) + k \in 1 .. i
  BY <1>1
<1> QED
  BY <1>1, <1>2 DEF EndsIn

\* The excuse ends whatever was sent before it.
LEMMA EndsExcused ==
    ASSUME NEW s \in Seq(ChunkMessage), NEW q, NEW thread
    PROVE  EndsIn(Append(s, [thread |-> thread, of |-> q, token |-> C!Sorry, final |-> FALSE]),
                  Len(s) + 1, q, thread, <<C!Sorry>>)
<1>1. EndsIn(s, Len(s), q, thread, <<>>)
  BY DEF EndsIn
<1>2. <<>> \in Seq(C!Tokens) /\ C!Sorry \in C!Tokens /\ Append(<<>>, C!Sorry) = <<C!Sorry>>
  BY ChatAssumption DEF C!Tokens, C!Sorry
<1> QED
  BY <1>1, <1>2, EndsGrow

\* The answers that are stored stay, and those of another question are no
\* more than they were.
LEMMA AnswersStay ==
    ASSUME TypeOK, NEW q \in Questions, NEW p \in Questions,
           \/ messages' = messages
           \/ p # q /\ \E m \in ChatMessage : m.of = q /\ messages' = Append(messages, m)
    PROVE  C!Answers(p)' = C!Answers(p) /\ \A a \in C!Answers(p) : messages'[a] = messages[a]
<1>1. CASE messages' = messages
  BY <1>1 DEF C!Answers
<1>2. ASSUME p # q, NEW m \in ChatMessage, m.of = q, messages' = Append(messages, m)
      PROVE  C!Answers(p)' = C!Answers(p) /\ \A a \in C!Answers(p) : messages'[a] = messages[a]
  BY <1>2, Appended
<1> QED
  BY <1>1, <1>2

\* The texts of messages.
LEMMA TextType ==
    ASSUME TypeOK, NEW p \in Questions, NEW a \in C!Answers(p)
    PROVE  messages[a].text \in Seq(C!Tokens)
<1>1. messages \in Seq(ChatMessage) /\ a \in DOMAIN messages
  BY DEF TypeOK, C!TypeOK, ChatMessage, C!Answers
<1>2. messages[a] \in ChatMessage
  BY <1>1
<1> QED
  BY <1>2 DEF ChatMessage

\* A final chunk follows what it followed.
LEMMA ClosesStay ==
    ASSUME TypeOK, TypeOK', NEW i \in DOMAIN Sent, Closes(i), \A j \in 1 .. i : Sent'[j] = Sent[j],
           lost \subseteq lost',
           \A p \in Questions : ask[p].step = "done" =>
              /\ ask'[p].step = "done" /\ ask'[p].thread = ask[p].thread
              /\ ask'[p].alone => ask[p].alone
              /\ C!Answers(p)' = C!Answers(p) /\ \A a \in C!Answers(p) : messages'[a] = messages[a]
    PROVE  Closes(i)'
<1> PICK q \in Questions : q = Sent[i].of
  BY SentType
<1>1. Sent \in Seq(ChunkMessage) /\ i \in 1 .. Len(Sent) /\ Len(Sent) \in Nat /\ q \in Questions
  BY SentType
<1>2. Sent' \in Seq(ChunkMessage)
  <2>1. stream' \in Seq(ChunkMessage) /\ inbox' \in Seq(ChunkMessage)
    BY DEF TypeOK
  <2> QED
    BY <2>1, ConcatProperties DEF Sent
<1>3. Sent'[i] = Sent[i]
  BY <1>1
<1>4. CASE Sent[i].final
  <2>1. ask[q].step = "done" /\ ask[q].thread = Sent[i].thread
    BY <1>4 DEF Closes
  <2>2. PICK a \in Nat : /\ LastAnswer(q, a)
                         /\ Clean(q) => EndsIn(Sent, i - 1, q, ask[q].thread, messages[a].text)
    BY <1>4 DEF Closes
  <2>3. LastAnswer(q, a)' /\ messages'[a] = messages[a] /\ messages[a].text \in Seq(C!Tokens)
    <3>1. /\ C!Answers(q)' = C!Answers(q) /\ a \in C!Answers(q)
          /\ \A b \in C!Answers(q) : messages'[b] = messages[b]
      BY <1>1, <2>1, <2>2 DEF LastAnswer
    <3>2. LastAnswer(q, a)'
      BY <2>2, <3>1 DEF LastAnswer
    <3> QED
      BY <1>1, <3>1, <3>2, TextType
  <2>4. Clean(q)' => Clean(q)
    <3>1. ask'[q].alone => ask[q].alone
      BY <1>1, <2>1
    <3> QED
      BY <3>1 DEF Clean
  <2>5. Clean(q)' => EndsIn(Sent', i - 1, q, ask[q].thread, messages[a].text)
    <3>1. i - 1 \in Nat /\ \A j \in 1 .. i - 1 : Sent'[j] = Sent[j]
      BY <1>1
    <3> QED
      <4>1. Clean(q)' => EndsIn(Sent, i - 1, q, ask[q].thread, messages[a].text)
        BY <2>2, <2>4
      <4> QED
        BY <1>1, <1>2, <2>3, <3>1, <4>1, EndsStay
  <2>6. ask'[q].step = "done" /\ ask'[q].thread = ask[q].thread
    BY <1>1, <2>1
  <2> QED
    BY <1>3, <2>1, <2>2, <2>3, <2>5, <2>6 DEF Closes
<1>5. CASE ~Sent[i].final
  BY <1>3, <1>5 DEF Closes
<1> QED
  BY <1>4, <1>5

\* A question that does nothing has sent what it had, if it was.
LEMMA SendsStay ==
    ASSUME TypeOK, NEW p \in Questions, Sends(p), ask'[p].step = ask[p].step,
           ask'[p].text = ask[p].text, ask'[p].thread = ask[p].thread,
           ask'[p].alone => ask[p].alone, lost \subseteq lost',
           C!Answers(p)' = C!Answers(p), \A a \in C!Answers(p) : messages'[a] = messages[a],
           \A text \in Seq(C!Tokens) :
              C!Active(p) /\ Clean(p)' /\ EndsIn(Sent, Len(Sent), p, ask[p].thread, text) =>
                 EndsIn(Sent', Len(Sent'), p, ask[p].thread, text)
    PROVE  Sends(p)'
<1>1. Clean(p)' => Clean(p)
  BY DEF Clean
<1>2. ask[p].text \in Seq(C!Tokens) /\ <<C!Sorry>> \in Seq(C!Tokens)
  BY AskFields, ChatAssumption DEF C!Tokens, C!Sorry
<1>3. ask'[p].step \in {"stream", "store", "apologise"} /\ Clean(p)' =>
         EndsIn(Sent', Len(Sent'), p, ask'[p].thread, ask'[p].text)
  BY <1>1, <1>2 DEF Sends, C!Active
<1>4. ask'[p].step = "excuse" /\ Clean(p)' =>
         EndsIn(Sent', Len(Sent'), p, ask'[p].thread, <<C!Sorry>>)
  BY <1>1, <1>2 DEF Sends, C!Active
<1>5. ASSUME ask'[p].step = "final"
      PROVE  \E a \in Nat :
                /\ LastAnswer(p, a)'
                /\ Clean(p)' => EndsIn(Sent', Len(Sent'), p, ask'[p].thread, messages'[a].text)
  <2>1. PICK a \in Nat :
           /\ LastAnswer(p, a)
           /\ Clean(p) => EndsIn(Sent, Len(Sent), p, ask[p].thread, messages[a].text)
    BY <1>5 DEF Sends
  <2>2. LastAnswer(p, a)' /\ messages'[a] = messages[a] /\ messages[a].text \in Seq(C!Tokens)
    BY <2>1, TextType DEF LastAnswer
  <2> QED
    BY <1>1, <1>5, <2>1, <2>2 DEF C!Active
<1>6. ask'[p].step \in {"idle", "create", "save", "context"} => ask'[p].text = <<>>
  BY DEF Sends
<1> QED
  BY <1>3, <1>4, <1>5, <1>6 DEF Sends

\* A step of a question at work: as there is no other one that asked alone,
\* only its own chunks matter.
LEMMA WorkStreams ==
    ASSUME TypeOK, TypeOK', Alone, Streamed, NEW q \in Questions, C!Active(q),
           \A p \in Questions : p # q => ask'[p] = ask[p],
           lost \subseteq lost',
           \/ messages' = messages
           \/ \E m \in ChatMessage : m.of = q /\ messages' = Append(messages, m),
           Sent' = Sent \/ \E m \in ChunkMessage : Sent' = Append(Sent, m) /\ Closes(Len(Sent))',
           Sends(q)'
    PROVE  Streamed'
<1>1. ASSUME NEW p \in Questions, p # q PROVE Sends(p)'
  <2>1. C!Answers(p)' = C!Answers(p) /\ \A a \in C!Answers(p) : messages'[a] = messages[a]
    BY <1>1, AnswersStay
  <2>2. ask'[p] = ask[p]
    BY <1>1
  <2>3. ~(C!Active(p) /\ Clean(p)')
    BY <1>1, <2>2 DEF Alone, Clean
  <2> QED
    BY <2>1, <2>2, <2>3, SendsStay DEF Streamed
<1>2. Sent \in Seq(ChunkMessage) /\ Len(Sent) \in Nat /\ DOMAIN Sent = 1 .. Len(Sent)
  BY SentType
<1>3. ASSUME NEW i \in DOMAIN Sent PROVE Closes(i)'
  <2>1. \A j \in 1 .. i : Sent'[j] = Sent[j]
    BY <1>2, <1>3
  <2>2. ASSUME NEW p \in Questions, ask[p].step = "done"
        PROVE  /\ p # q /\ ask'[p] = ask[p]
               /\ C!Answers(p)' = C!Answers(p) /\ \A a \in C!Answers(p) : messages'[a] = messages[a]
    <3>1. p # q
      BY <2>2 DEF C!Active
    <3> QED
      BY <3>1, AnswersStay
  <2>3. Closes(i)
    BY <1>3 DEF Streamed
  <2> QED
    BY <1>3, <2>1, <2>2, <2>3, ClosesStay
<1>4. ASSUME NEW i \in DOMAIN Sent' PROVE Closes(i)'
  <2>1. CASE Sent' = Sent
    BY <1>3, <1>4, <2>1
  <2>2. ASSUME NEW m \in ChunkMessage, Sent' = Append(Sent, m), Closes(Len(Sent))'
        PROVE  Closes(i)'
    <3>1. DOMAIN Append(Sent, m) = 1 .. Len(Sent) + 1
      BY <1>2
    <3>2. i \in 1 .. Len(Sent) + 1
      BY <1>4, <2>2, <3>1
    <3>3. i \in DOMAIN Sent \/ i = Len(Sent) + 1
      BY <1>2, <3>2
    <3>4. CASE i = Len(Sent) + 1
      <4>1. Len(Sent') = i
        <5>1. Len(Append(Sent, m)) = Len(Sent) + 1
          BY <1>2
        <5> QED
          BY <2>2, <3>4, <5>1
      <4> QED
        BY <2>2, <4>1
    <3> QED
      BY <1>3, <3>3, <3>4
  <2> QED
    BY <2>1, <2>2
<1> QED
  BY <1>1, <1>4 DEF Streamed

\* What emitChunk sends, or loses.
LEMMA EmitStreams ==
    ASSUME TypeOK, stream' = stream, NEW q \in Questions, ask[q].thread \in Questions,
           NEW token \in C!Tokens, NEW final \in BOOLEAN, C!Emit(q, token, final)
    PROVE  /\ lost \subseteq lost'
           /\ \/ Sent' = Append(Sent, [thread |-> ask[q].thread, of |-> q, token |-> token,
                                       final |-> final])
              \/ Sent' = Sent /\ (~final => <<q, "chunk">> \in lost')
<1> DEFINE m == [thread |-> ask[q].thread, of |-> q, token |-> token, final |-> final]
<1>1. CASE inbox' = Append(inbox, m) /\ UNCHANGED <<lost, faults>>
  <2>1. m \in ChunkMessage
    BY DEF ChunkMessage
  <2>2. Sent' = Append(Sent, m)
    BY <1>1, <2>1, SentGrows
  <2> QED
    BY <1>1, <2>2
<1>2. CASE /\ C!Fault("nats") /\ UNCHANGED inbox
           /\ lost' = lost \union {<<q, IF final THEN "final" ELSE "chunk">>}
  BY <1>2 DEF Sent
<1> QED
  BY <1>1, <1>2 DEF C!Emit

\* Before it asks the first model a question has said nothing.
LEMMA StreamedFind ==
    ASSUME TypeOK, TypeOK', Streamed, NEW q \in Questions, C!Find(q), UNCHANGED notification
    PROVE  Streamed'
<1>1. UNCHANGED <<messages, inbox, lost>> /\ ask[q].step = "idle" /\ Sent' = Sent
  BY DEF C!Find, notification, Sent
<1>2. \A p \in Questions : C!Answers(p)' = C!Answers(p)
  BY <1>1 DEF C!Answers
<1>3. ASSUME NEW p \in Questions, p # q
      PROVE  /\ ask'[p].step = ask[p].step /\ ask'[p].thread = ask[p].thread
             /\ ask'[p].text = ask[p].text /\ (ask'[p].alone => ask[p].alone)
  BY <1>3, Found
<1>4. ASSUME NEW p \in Questions, p # q PROVE Sends(p)'
  <2>1. Sends(p)
    BY DEF Streamed
  <2> QED
    BY <1>1, <1>2, <1>3, <1>4, <2>1, SendsStay
<1>5. Sends(q)'
  <2>1. ask'[q].step \in {"create", "save", "done"} /\ ask'[q].text = <<>>
    <3>1. ask[q].text = <<>>
      BY <1>1 DEF Streamed, Sends
    <3> QED
      BY <3>1, Found
  <2> QED
    BY <2>1 DEF Sends
<1>6. ASSUME NEW i \in DOMAIN Sent PROVE Closes(i)'
  <2>1. Closes(i)
    BY <1>6 DEF Streamed
  <2>2. ASSUME NEW p \in Questions, ask[p].step = "done" PROVE p # q
    BY <1>1, <2>2
  <2> QED
    BY <1>1, <1>2, <1>3, <1>6, <2>1, <2>2, ClosesStay
<1> QED
  BY <1>1, <1>4, <1>5, <1>6 DEF Streamed

\* A model that fails, or ends, and the next one go on from the same text.
LEMMA StreamedSame ==
    ASSUME TypeOK, NEW q \in Questions, Sends(q), Sent' = Sent, lost \subseteq lost',
           ask'[q].text = ask[q].text, ask'[q].thread = ask[q].thread,
           ask'[q].alone = ask[q].alone,
           \/ ask[q].step \in {"create", "save"} /\ ask'[q].step \in {"save", "context"}
           \/ /\ ask[q].step \in {"context", "stream", "store"}
              /\ ask'[q].step \in {"stream", "store", "apologise"}
           \/ ask'[q].step \in {"done", "failed"}
    PROVE  Sends(q)'
<1>1. Clean(q)' => Clean(q)
  BY DEF Clean
<1>2. ASSUME ask[q].step = "context" PROVE EndsIn(Sent, Len(Sent), q, ask[q].thread, ask[q].text)
  <2>1. ask[q].text = <<>> /\ Len(Sent) \in Nat
    BY <1>2, SentType DEF Sends
  <2> QED
    BY <2>1 DEF EndsIn
<1> QED
  BY <1>1, <1>2 DEF Sends

\* What is stored before the final chunk is what was sent last.
LEMMA StreamedStore ==
    ASSUME TypeOK, NEW q \in Questions, Sends(q), Sent' = Sent, lost \subseteq lost',
           NEW m \in ChatMessage, m.of = q, m.role = "model", messages' = Append(messages, m),
           ask'[q].thread = ask[q].thread, ask'[q].alone = ask[q].alone,
           ask'[q].step = "final",
           \/ ask[q].step = "store" /\ m.text = ask[q].text
           \/ ask[q].step = "excuse" /\ m.text = <<C!Sorry>>
    PROVE  Sends(q)'
<1>1. PICK a \in Nat : a = Len(messages) + 1
  BY DEF TypeOK, C!TypeOK
<1>2. /\ \A i \in C!Answers(q) : i \in Nat /\ i < a
      /\ messages'[a] = m /\ C!Answers(q)' = C!Answers(q) \union {a}
  BY <1>1, Appended
<1>3. LastAnswer(q, a)'
  BY <1>2 DEF LastAnswer
<1>4. Clean(q)' => EndsIn(Sent', Len(Sent'), q, ask'[q].thread, messages'[a].text)
  BY <1>2 DEF Sends, Clean
<1> QED
  BY <1>3, <1>4 DEF Sends

\* The AI service stores what it has sent last, and closes what it has stored.
LEMMA StreamedChatStep ==
    ASSUME TypeOK, TypeOK', HasThread, Alone, Streamed, C!Next, UNCHANGED notification
    PROVE  Streamed'
<1>1. stream' = stream /\ \A q \in Questions : Sends(q)
  BY DEF notification, Streamed
<1>2. ASSUME NEW q \in Questions, C!Create(q) PROVE Streamed'
  <2>1. UNCHANGED <<messages, lost>> /\ ask[q].step = "create" /\ Sent' = Sent
    BY <1>1, <1>2 DEF C!Create, Sent
  <2>2. /\ ask'[q].text = ask[q].text /\ ask'[q].step \in {"save", "done", "failed"}
        /\ \A p \in Questions : p # q => ask'[p] = ask[p]
    <3>1. CASE C!Goes(q, "failed")
      BY <3>1, Goes DEF Steps
    <3>2. ASSUME NEW next \in C!AfterThread, ask' = [ask EXCEPT ![q].thread = q, ![q].step = next]
          PROVE  /\ ask'[q].text = ask[q].text /\ ask'[q].step \in {"save", "done", "failed"}
                 /\ \A p \in Questions : p # q => ask'[p] = ask[p]
      BY <3>2, AskFields DEF Ask, C!AfterThread
    <3> QED
      BY <1>2, <3>1, <3>2 DEF C!Create
  <2>3. Sends(q)'
    BY <1>1, <2>1, <2>2 DEF Sends
  <2> QED
    BY <2>1, <2>2, <2>3, WorkStreams DEF C!Active
<1>3. ASSUME NEW q \in Questions, C!Save(q) PROVE Streamed'
  <2>1. ask[q].step = "save" /\ ask[q].thread \in Questions /\ Sent' = Sent
    BY <1>1, <1>3 DEF C!Save, HasThread, Threaded, Sent
  <2>2. <<>> \in Seq(C!Tokens) /\ C!Store(q, "user", <<>>, "context", "failed")
    BY <1>3 DEF C!Save
  <2>3. PICK m \in ChatMessage :
           /\ m.of = q
           /\ messages' = Append(messages, m) \/ messages' = messages
           /\ C!Goes(q, "context") \/ C!Goes(q, "failed")
    <3>1. "context" \in Steps /\ "failed" \in Steps /\ "user" \in {"user", "model"}
      BY DEF Steps
    <3>2. \E m \in ChatMessage :
             /\ m.of = q /\ m.role = "user" /\ m.text = <<>>
             /\ \/ messages' = Append(messages, m) /\ faults' = faults /\ C!Goes(q, "context")
                \/ /\ messages' = Append(messages, m) \/ messages' = messages
                   /\ faults' = faults + 1 /\ faults' > 0 /\ C!Goes(q, "failed")
      BY <2>1, <2>2, <3>1, Created
    <3> QED
      BY <3>2
  <2>4. lost \subseteq lost'
    BY <2>2 DEF C!Store
  <2>5. /\ ask'[q].text = ask[q].text /\ ask'[q].step \in {"context", "failed"}
        /\ ask'[q].thread = ask[q].thread /\ ask'[q].alone = ask[q].alone
        /\ \A p \in Questions : p # q => ask'[p] = ask[p]
    BY <2>3, Goes DEF Steps
  <2>6. Sends(q)'
    BY <1>1, <2>1, <2>4, <2>5, StreamedSame
  <2> QED
    BY <2>1, <2>3, <2>4, <2>5, <2>6, WorkStreams DEF C!Active
<1>4. ASSUME NEW q \in Questions, C!Context(q) \/ C!AnswerEnds(q) \/ C!ModelFails(q)
      PROVE  Streamed'
  <2>1. UNCHANGED <<messages, lost>> /\ ask[q].step \in {"context", "stream"} /\ Sent' = Sent
    BY <1>1, <1>4 DEF C!Context, C!AnswerEnds, C!ModelFails, Sent
  <2>2. \/ \E s \in {"store", "apologise"} : C!Goes(q, s)
        \/ \E m \in 1 .. Models, n \in 0 .. MaxChunks : C!Asked(q, m, n)
    <3>1. 1 \in 1 .. Models /\ (ask[q].model # Models => ask[q].model + 1 \in 1 .. Models)
      BY AskFields, ChatAssumption
    <3> QED
      BY <1>4, <3>1 DEF C!Context, C!AnswerEnds, C!ModelFails, C!TriesNext
  <2>3. /\ ask'[q].text = ask[q].text /\ ask'[q].step \in {"stream", "store", "apologise"}
        /\ ask'[q].thread = ask[q].thread /\ ask'[q].alone = ask[q].alone
        /\ \A p \in Questions : p # q => ask'[p] = ask[p]
    <3>1. ASSUME NEW s \in {"store", "apologise"}, C!Goes(q, s)
          PROVE  /\ ask'[q].text = ask[q].text /\ ask'[q].step \in {"store", "apologise"}
                 /\ ask'[q].thread = ask[q].thread /\ ask'[q].alone = ask[q].alone
                 /\ \A p \in Questions : p # q => ask'[p] = ask[p]
      BY <3>1, Goes DEF Steps
    <3>2. ASSUME NEW m \in 1 .. Models, NEW n \in 0 .. MaxChunks, C!Asked(q, m, n)
          PROVE  /\ ask'[q].text = ask[q].text /\ ask'[q].step = "stream"
                 /\ ask'[q].thread = ask[q].thread /\ ask'[q].alone = ask[q].alone
                 /\ \A p \in Questions : p # q => ask'[p] = ask[p]
      BY <3>2, Asked
    <3> QED
      BY <2>2, <3>1, <3>2
  <2>4. Sends(q)'
    BY <1>1, <2>1, <2>3, StreamedSame
  <2> QED
    BY <2>1, <2>3, <2>4, WorkStreams DEF C!Active
<1>5. ASSUME NEW q \in Questions, C!StoreAnswer(q) \/ C!StoreExcuse(q) PROVE Streamed'
  <2>1. /\ ask[q].step \in {"store", "excuse"} /\ ask[q].thread \in Questions /\ Sent' = Sent
        /\ lost \subseteq lost'
    BY <1>1, <1>5 DEF C!StoreAnswer, C!StoreExcuse, C!Store, HasThread, Threaded, Sent
  <2>2. ask[q].text \in Seq(C!Tokens) /\ <<C!Sorry>> \in Seq(C!Tokens)
    BY AskFields, ChatAssumption DEF C!Tokens, C!Sorry
  <2>3. PICK m \in ChatMessage :
           /\ m.of = q /\ m.role = "model"
           /\ \/ ask[q].step = "store" /\ m.text = ask[q].text
              \/ ask[q].step = "excuse" /\ m.text = <<C!Sorry>>
           /\ \/ messages' = Append(messages, m) /\ C!Goes(q, "final")
              \/ /\ messages' = Append(messages, m) \/ messages' = messages
                 /\ \/ ask[q].step = "store" /\ C!Goes(q, "apologise")
                    \/ C!Goes(q, "failed")
    <3>1. CASE C!StoreAnswer(q)
      <4>1. ask[q].step = "store"
        BY <3>1 DEF C!StoreAnswer
      <4> QED
        BY <3>1, <4>1, AnswerStored
    <3>2. CASE C!StoreExcuse(q)
      <4>1. ask[q].step = "excuse"
        BY <3>2 DEF C!StoreExcuse
      <4> QED
        BY <3>2, <4>1, ExcuseStored
    <3> QED
      BY <1>5, <3>1, <3>2
  <2>4. /\ ask'[q].text = ask[q].text /\ ask'[q].step \in {"final", "apologise", "failed"}
        /\ ask'[q].thread = ask[q].thread /\ ask'[q].alone = ask[q].alone
        /\ \A p \in Questions : p # q => ask'[p] = ask[p]
        /\ ask'[q].step = "final" => messages' = Append(messages, m)
        /\ ask'[q].step = "apologise" => ask[q].step = "store"
    BY <2>3, Goes DEF Steps
  <2>5. CASE ask'[q].step = "final"
    <3>1. Sends(q)'
      BY <1>1, <2>1, <2>3, <2>4, <2>5, StreamedStore
    <3> QED
      BY <2>1, <2>3, <2>4, <3>1, WorkStreams DEF C!Active
  <2>6. CASE ask'[q].step \in {"apologise", "failed"}
    <3>1. Sends(q)'
      BY <1>1, <2>1, <2>4, <2>6, StreamedSame
    <3> QED
      BY <2>1, <2>3, <2>4, <3>1, WorkStreams DEF C!Active
  <2> QED
    BY <2>4, <2>5, <2>6
<1>6. ASSUME NEW q \in Questions, C!Chunk(q) \/ C!Apologise(q) PROVE Streamed'
  <2> DEFINE token == IF C!Chunk(q) THEN ask[q].model ELSE C!Sorry
             m == [thread |-> ask[q].thread, of |-> q, token |-> token, final |-> FALSE]
  <2>1. /\ ask[q].step \in {"stream", "apologise"} /\ ask[q].thread \in Questions
        /\ messages' = messages
    BY <1>6 DEF C!Chunk, C!Apologise, HasThread, Threaded
  <2>2. ask[q].model \in C!Tokens /\ C!Sorry \in C!Tokens /\ ask[q].text \in Seq(C!Tokens)
    BY AskFields, ChatAssumption DEF C!Tokens, C!Sorry
  <2>3. token \in C!Tokens /\ C!Emit(q, token, FALSE)
    BY <1>6, <2>2 DEF C!Chunk, C!Apologise
  <2>4. /\ ask'[q].thread = ask[q].thread /\ ask'[q].alone = ask[q].alone
        /\ \A p \in Questions : p # q => ask'[p] = ask[p]
        /\ \/ /\ C!Chunk(q) /\ ask[q].step = "stream" /\ ask'[q].step = "stream"
              /\ ask'[q].text = Append(ask[q].text, ask[q].model)
           \/ ~C!Chunk(q) /\ ask'[q].step = "excuse"
    <3>1. CASE C!Chunk(q)
      BY <3>1, TextGrows DEF C!Chunk
    <3>2. CASE C!Apologise(q)
      BY <3>2, Goes DEF C!Apologise, C!Chunk, Steps
    <3> QED
      BY <1>6, <3>1, <3>2
  <2> HIDE DEF token
  <2>5. /\ lost \subseteq lost'
        /\ Sent' = Append(Sent, m) \/ (Sent' = Sent /\ <<q, "chunk">> \in lost')
    BY <1>1, <2>1, <2>3, EmitStreams
  <2>6. Sent \in Seq(ChunkMessage) /\ m \in ChunkMessage /\ m.final = FALSE
    BY <2>1, <2>3, SentType DEF ChunkMessage
  <2>7. Clean(q)' => Clean(q) /\ Sent' = Append(Sent, m)
    BY <2>4, <2>5 DEF Clean
  <2>8. ASSUME C!Chunk(q) PROVE Sends(q)'
    <3>1. token = ask[q].model
      BY <2>8 DEF token
    <3>2. Clean(q) => EndsIn(Append(Sent, m), Len(Sent) + 1, q, ask[q].thread, ask'[q].text)
      BY <1>1, <2>2, <2>4, <2>6, <2>8, <3>1, EndsGrow DEF Sends
    <3>3. Len(Append(Sent, m)) = Len(Sent) + 1
      BY <2>6
    <3> QED
      BY <2>4, <2>7, <2>8, <3>2, <3>3 DEF Sends
  <2>9. ASSUME ~C!Chunk(q) PROVE Sends(q)'
    <3>1. token = C!Sorry
      BY <2>9 DEF token
    <3>2. EndsIn(Append(Sent, m), Len(Sent) + 1, q, ask[q].thread, <<C!Sorry>>)
      BY <2>6, <3>1, EndsExcused
    <3>3. Len(Append(Sent, m)) = Len(Sent) + 1
      BY <2>6
    <3> QED
      BY <2>4, <2>7, <2>9, <3>2, <3>3 DEF Sends
  <2>10. Sends(q)'
    BY <2>8, <2>9
  <2>11. Sent' = Sent \/ (Sent' = Append(Sent, m) /\ Closes(Len(Sent))')
    <3>1. ASSUME Sent' = Append(Sent, m) PROVE ~Sent'[Len(Sent')].final
      BY <2>6, <3>1
    <3> QED
      BY <2>5, <3>1 DEF Closes
  <2> QED
    BY <2>1, <2>4, <2>5, <2>6, <2>10, <2>11, WorkStreams DEF C!Active
<1>7. ASSUME NEW q \in Questions, C!Close(q) PROVE Streamed'
  <2> DEFINE m == [thread |-> ask[q].thread, of |-> q, token |-> C!Sorry, final |-> TRUE]
  <2>1. ask[q].step = "final" /\ ask[q].thread \in Questions /\ messages' = messages
    BY <1>7 DEF C!Close, HasThread, Threaded
  <2>2. /\ ask'[q].thread = ask[q].thread /\ ask'[q].alone = ask[q].alone
        /\ ask'[q].step = "done"
        /\ \A p \in Questions : p # q => ask'[p] = ask[p]
    BY <1>7, Goes DEF C!Close, Steps
  <2>3. C!Emit(q, C!Sorry, TRUE) /\ C!Sorry \in C!Tokens
    <3>1. C!Sorry \in C!Tokens
      BY ChatAssumption DEF C!Tokens, C!Sorry
    <3> QED
      BY <1>7, <3>1 DEF C!Close
  <2>4. /\ lost \subseteq lost'
        /\ Sent' = Append(Sent, m) \/ Sent' = Sent
    BY <1>1, <2>1, <2>3, EmitStreams
  <2>5. Sent \in Seq(ChunkMessage) /\ m \in ChunkMessage /\ m.final = TRUE /\ Len(Sent) \in Nat
    BY <2>1, <2>3, SentType DEF ChunkMessage
  <2>6. PICK a \in Nat :
           /\ LastAnswer(q, a)
           /\ Clean(q) => EndsIn(Sent, Len(Sent), q, ask[q].thread, messages[a].text)
    BY <1>1, <2>1 DEF Sends
  <2>7. C!Answers(q)' = C!Answers(q)
    BY <2>1 DEF C!Answers
  <2>8. ASSUME Sent' = Append(Sent, m) PROVE Closes(Len(Sent))'
    <3>1. Len(Sent') = Len(Sent) + 1 /\ Sent'[Len(Sent')] = m /\ Len(Sent') - 1 = Len(Sent)
      BY <2>5, <2>8
    <3>2. Clean(q)' => EndsIn(Sent', Len(Sent), q, ask[q].thread, messages[a].text)
      <4>1. messages[a].text \in Seq(C!Tokens)
        BY <2>6, TextType DEF LastAnswer
      <4>2. \A j \in 1 .. Len(Sent) : Sent'[j] = Sent[j]
        BY <2>5, <2>8
      <4>3. Sent' \in Seq(ChunkMessage)
        BY <2>5, <2>8
      <4>4. Clean(q)' => Clean(q)
        BY <2>2, <2>4 DEF Clean
      <4> QED
        BY <2>5, <2>6, <4>1, <4>2, <4>3, <4>4, EndsStay
    <3>3. LastAnswer(q, a)'
      BY <2>6, <2>7 DEF LastAnswer
    <3>4. m.of = q /\ m.thread = ask[q].thread
      OBVIOUS
    <3> QED
      BY <2>1, <2>2, <3>1, <3>2, <3>3, <3>4 DEF Closes
  <2>9. Sends(q)'
    BY <2>2 DEF Sends
  <2> QED
    BY <2>1, <2>2, <2>4, <2>5, <2>8, <2>9, WorkStreams DEF C!Active
<1>8. CASE C!Crash
  <2>1. UNCHANGED messages /\ lost \subseteq lost' /\ Sent' = Sent
    BY <1>1, <1>8 DEF C!Crash, Sent
  <2>2. \A p \in Questions : ask'[p] = IF C!Active(p) THEN [ask[p] EXCEPT !.step = "failed"] ELSE ask[p]
    BY <1>8 DEF C!Crash
  <2>3. \A p \in Questions : C!Answers(p)' = C!Answers(p)
    BY <2>1 DEF C!Answers
  <2>4. ASSUME NEW p \in Questions PROVE Sends(p)'
    <3>1. CASE C!Active(p)
      <4>1. ask'[p].step = "failed"
        BY <2>2, <3>1, AskFields DEF Ask
      <4> QED
        BY <4>1 DEF Sends
    <3>2. CASE ~C!Active(p)
      BY <1>1, <2>1, <2>2, <2>3, <3>2, SendsStay
    <3> QED
      BY <3>1, <3>2
  <2>5. ASSUME NEW i \in DOMAIN Sent PROVE Closes(i)'
    <3>1. Closes(i)
      BY <2>5 DEF Streamed
    <3>2. \A p \in Questions : ask[p].step = "done" => ask'[p] = ask[p]
      BY <2>2 DEF C!Active
    <3> QED
      BY <2>1, <2>3, <2>5, <3>1, <3>2, ClosesStay
  <2> QED
    BY <2>1, <2>4, <2>5 DEF Streamed
<1> QED
  BY <1>2, <1>3, <1>4, <1>5, <1>6, <1>7, <1>8, StreamedFind DEF C!Next, C!Answer

\* The notification service passes the chunks on in their order.  What was on
\* its way when it restarts is lost, and missed where the last chunk was.
LEMMA StreamedNotificationStep ==
    ASSUME TypeOK, TypeOK', Streamed, N!Next, UNCHANGED chat
    PROVE  Streamed'
<1>1. ask' = ask /\ messages' = messages
  BY DEF chat
<1>2. \A p \in Questions : C!Answers(p)' = C!Answers(p)
  BY <1>1 DEF C!Answers
<1>3. Sent \in Seq(ChunkMessage) /\ Len(Sent) \in Nat /\ DOMAIN Sent = 1 .. Len(Sent)
  BY SentType
<1>4. CASE ~N!Crash
  <2>1. lost' = lost
    BY <1>4 DEF N!Next, N!Handle, N!Publish, N!Take, N!Receive, N!Create, N!Broadcast, N!Mail,
       N!MarkFind, N!MarkUpdate, N!MarkAll, N!Delete
  <2>2. Sent' = Sent
    <3>1. CASE N!Receive
      BY <3>1, SentArrives
    <3>2. CASE ~N!Receive
      <4>1. inbox' = inbox /\ stream' = stream
        BY <1>4, <3>2 DEF N!Next, N!Handle, N!Publish, N!Take, N!Create, N!Broadcast, N!Mail,
           N!MarkFind, N!MarkUpdate, N!MarkAll, N!Delete
      <4> QED
        BY <4>1 DEF Sent
    <3> QED
      BY <3>1, <3>2
  <2>3. ASSUME NEW p \in Questions PROVE Sends(p)'
    BY <1>1, <1>2, <2>1, <2>2, <2>3, SendsStay DEF Streamed
  <2>4. ASSUME NEW i \in DOMAIN Sent PROVE Closes(i)'
    BY <1>1, <1>2, <2>1, <2>2, <2>4, ClosesStay DEF Streamed
  <2> QED
    BY <2>2, <2>3, <2>4 DEF Streamed
<1>5. CASE N!Crash
  <2>1. /\ inbox' = <<>> /\ stream' = stream /\ lost \subseteq lost'
        /\ \A i \in DOMAIN inbox :
              <<inbox[i].of, IF inbox[i].final THEN "final" ELSE "chunk">> \in lost'
    BY <1>5 DEF N!Crash, N!Range, Range
  <2>2. /\ stream \in Seq(ChunkMessage) /\ inbox \in Seq(ChunkMessage)
        /\ Len(stream) \in Nat /\ Len(inbox) \in Nat
    BY DEF TypeOK
  <2>3. Sent' = stream
    BY <2>1, <2>2, ConcatEmptySeq DEF Sent
  <2>4. ASSUME NEW p \in Questions, NEW text \in Seq(C!Tokens), Clean(p)',
               EndsIn(Sent, Len(Sent), p, ask[p].thread, text)
        PROVE  EndsIn(stream, Len(stream), p, ask[p].thread, text)
    <3>1. Len(text) \in Nat /\ DOMAIN text = 1 .. Len(text)
      OBVIOUS
    <3>2. CASE Len(text) = 0
      BY <2>2, <3>1, <3>2 DEF EndsIn
    <3>3. CASE inbox = <<>>
      <4>1. Sent = stream
        BY <2>2, <3>3, ConcatEmptySeq DEF Sent
      <4> QED
        BY <2>4, <4>1
    <3>4. CASE Len(text) # 0 /\ inbox # <<>>
      <4>1. Len(inbox) \in DOMAIN inbox /\ Len(inbox) \in 1 .. Len(inbox)
        BY <2>2, <3>4
      <4>2. Sent[Len(Sent)] = inbox[Len(inbox)]
        BY <4>1, SentType
      <4>3. Len(text) \in DOMAIN text /\ Len(Sent) - Len(text) + Len(text) = Len(Sent)
        BY <1>3, <3>1, <3>4
      <4>4. Sent[Len(Sent)]
               = [thread |-> ask[p].thread, of |-> p, token |-> text[Len(text)], final |-> FALSE]
        BY <2>4, <4>3 DEF EndsIn
      <4>5. <<p, "chunk">> \in lost'
        <5>1. inbox[Len(inbox)].of = p /\ inbox[Len(inbox)].final = FALSE
          BY <4>2, <4>4
        <5>2. <<inbox[Len(inbox)].of, IF inbox[Len(inbox)].final THEN "final" ELSE "chunk">> \in lost'
          BY <2>1, <4>1
        <5> QED
          BY <5>1, <5>2
      <4> QED
        BY <2>4, <4>5 DEF Clean
    <3> QED
      BY <3>2, <3>3, <3>4
  <2>5. ASSUME NEW p \in Questions PROVE Sends(p)'
    BY <1>1, <1>2, <2>1, <2>3, <2>4, <2>5, SendsStay DEF Streamed
  <2>6. ASSUME NEW i \in DOMAIN stream PROVE Closes(i)'
    <3>1. i \in DOMAIN Sent /\ \A j \in 1 .. i : Sent'[j] = Sent[j]
      BY <2>2, <2>3, <2>6, SentType
    <3> QED
      BY <1>1, <1>2, <2>1, <3>1, ClosesStay DEF Streamed
  <2> QED
    BY <2>3, <2>5, <2>6 DEF Streamed
<1> QED
  BY <1>4, <1>5

-----------------------------------------------------------------------------
(* The invariant                                                           *)

Inv == TypeOK /\ HasThread /\ Handled /\ ToldIsStored /\ Alone /\ Answered /\ Streamed

LEMMA InvInit == Init => Inv
<1> SUFFICES ASSUME Init PROVE Inv
  OBVIOUS
<1>1. TypeOK
  BY ChatAssumption, FaultAssumption
     DEF Init, C!Init, N!Init, TypeOK, C!TypeOK, N!TypeOK, C!Threads, C!Tokens
<1>2. HasThread
  BY DEF Init, C!Init, HasThread, Threaded
<1>3. Handled /\ ToldIsStored
  BY DEF Init, N!Init, Handled, ToldIsStored, N!ToldIsStored
<1>4. Alone
  BY DEF Init, C!Init, Alone, C!Active
<1>5. Answered
  <2>1. ASSUME NEW q \in Questions PROVE Fine(q)
    <3>1. ask[q].text = <<>> /\ ask[q].step = "idle" /\ messages = <<>>
      BY DEF Init, C!Init
    <3>2. C!Answers(q) = {} /\ ask[q].text \in Seq(1 .. Models)
      BY <3>1 DEF C!Answers
    <3> QED
      BY <3>1, <3>2 DEF Fine
  <2> QED
    BY <2>1 DEF Answered
<1>6. Streamed
  <2>1. Sent = <<>>
    BY DEF Init, N!Init, Sent
  <2>2. \A q \in Questions : Sends(q)
    BY DEF Init, C!Init, Sends
  <2> QED
    BY <2>1, <2>2 DEF Streamed
<1> QED
  BY <1>1, <1>2, <1>3, <1>4, <1>5, <1>6 DEF Inv

\* The AI service takes a step.
LEMMA ChatStep ==
    ASSUME Inv, C!Next, UNCHANGED notification
    PROVE  Inv'
<1>1. TypeOK' /\ HasThread'
  BY ChatTypeStep DEF Inv
<1>2. Handled' /\ Alone'
  BY AloneStep DEF Inv, Handled, notification
<1>3. Answered'
  BY <1>1, AnsweredStep DEF Inv
<1>4. ToldIsStored'
  BY DEF Inv, ToldIsStored, N!ToldIsStored, notification
<1>5. Streamed'
  BY <1>1, StreamedChatStep DEF Inv
<1> QED
  BY <1>1, <1>2, <1>3, <1>4, <1>5 DEF Inv

\* The notification service takes a step.
LEMMA NotificationStep ==
    ASSUME Inv, N!Next, UNCHANGED chat
    PROVE  Inv'
<1>1. TypeOK' /\ HasThread'
  BY NotificationTypeStep DEF Inv
<1>2. Handled' /\ ToldIsStored'
  BY HandledStep, ToldStep DEF Inv
<1>3. UNCHANGED <<threads, messages, ask>>
  BY DEF chat
<1>4. Alone'
  BY <1>3 DEF Inv, Alone, C!Active
<1>5. faults \in Nat /\ faults' \in Nat /\ faults' >= faults
  <2>1. faults \in 0 .. MaxFaults /\ faults' \in 0 .. MaxFaults
    BY <1>1 DEF Inv, TypeOK, C!TypeOK
  <2>2. \/ faults' = faults
        \/ faults' = faults + 1
    BY DEF N!Next, N!Handle, N!Publish, N!Take, N!Receive, N!Create, N!Broadcast, N!Mail, N!Crash,
       N!MarkFind, N!MarkUpdate, N!MarkAll, N!Delete, N!Fault
  <2> QED
    BY <2>1, <2>2, FaultAssumption
<1>6. Answered'
  <2>1. ASSUME NEW q \in Questions PROVE Fine(q)'
    <3>1. C!Answers(q)' = C!Answers(q)
      BY <1>3 DEF C!Answers
    <3> QED
      BY <1>3, <1>5, <3>1, FineStays DEF Inv
  <2> QED
    BY <2>1 DEF Answered
<1>7. Streamed'
  BY <1>1, StreamedNotificationStep DEF Inv
<1> QED
  BY <1>1, <1>2, <1>4, <1>6, <1>7 DEF Inv

LEMMA InvHolds == Spec => []Inv
<1>1. Inv /\ [Next]_vars => Inv'
  <2>1. ASSUME Inv, UNCHANGED vars PROVE Inv'
    <3>1. TypeOK'
      BY <2>1 DEF vars, Inv, TypeOK, C!TypeOK, N!TypeOK
    <3>2. HasThread' /\ Handled' /\ ToldIsStored'
      BY <2>1 DEF vars, Inv, HasThread, Handled, ToldIsStored, N!ToldIsStored
    <3>3. Alone'
      BY <2>1 DEF vars, Inv, Alone, C!Active
    <3>4. Answered'
      <4>1. messages' = messages /\ ask' = ask /\ faults' = faults
        BY <2>1 DEF vars
      <4>2. ASSUME NEW q \in Questions PROVE C!Answers(q)' = C!Answers(q) /\ C!Said(q)' = C!Said(q)
        BY <4>1 DEF C!Answers, C!Said
      <4>3. ASSUME NEW q \in Questions, Fine(q) PROVE Fine(q)'
        BY <4>1, <4>2, <4>3 DEF Fine, Whole
      <4> QED
        BY <2>1, <4>3 DEF Inv, Answered
    <3>5. Streamed'
      <4>1. UNCHANGED <<ask, messages, lost, stream, inbox>> /\ TypeOK /\ Streamed
        BY <2>1 DEF vars, Inv
      <4>2. Sent' = Sent /\ \A p \in Questions : C!Answers(p)' = C!Answers(p)
        BY <4>1 DEF Sent, C!Answers
      <4>3. ASSUME NEW p \in Questions PROVE Sends(p)'
        BY <4>1, <4>2, SendsStay DEF Streamed
      <4>4. ASSUME NEW i \in DOMAIN Sent PROVE Closes(i)'
        BY <3>1, <4>1, <4>2, <4>4, ClosesStay DEF Streamed
      <4> QED
        BY <4>2, <4>3, <4>4 DEF Streamed
    <3> QED
      BY <3>1, <3>2, <3>3, <3>4, <3>5 DEF Inv
  <2> QED
    BY <2>1, ChatStep, NotificationStep DEF Next
<1> QED
  BY InvInit, <1>1, PTL DEF Spec

-----------------------------------------------------------------------------

\* Every variable holds a value of its type, and NATS carries nothing but
\* chunks of threads that there are and events.
THEOREM TypesHold == Spec => []TypeOK
BY InvHolds, PTL DEF Inv

\* Half an answer is never stored for one: what is stored is the whole text of
\* the model that has answered, with what those that failed had said, or the
\* excuse.
THEOREM AnswersAreWhole == Spec => []AnswerIsWhole
<1>1. Inv => AnswerIsWhole
  <2> SUFFICES ASSUME Inv, NEW q \in Questions, NEW i \in C!Answers(q)
               PROVE  \/ messages[i].text = <<C!Sorry>>
                      \/ /\ messages[i].text = ask[q].text
                         /\ C!Said(q) = ask[q].plan
                         /\ Last(messages[i].text) # C!Sorry
    BY DEF AnswerIsWhole, C!AnswerIsWhole, C!Last, Last
  <2>1. Whole(q, messages[i].text) /\ ask[q].text \in Seq(1 .. Models)
    BY DEF Inv, Answered, Fine
  <2>2. ask[q].text # <<>> => Last(ask[q].text) # C!Sorry
    BY <2>1, TextIsNoExcuse
  <2> QED
    BY <2>1, <2>2 DEF Whole
<1> QED
  BY InvHolds, <1>1, PTL

\* A question is answered once, and a second time only by the excuse, after a
\* create that has done its work and failed.
THEOREM AnsweredOnce == Spec => []OneAnswer
<1>1. Inv => OneAnswer
  BY DEF Inv, Answered, Fine, OneAnswer, C!OneAnswer
<1> QED
  BY InvHolds, <1>1, PTL

\* Only requests that overlap make two threads about one auction.
THEOREM ThreadsRace == Spec => []RacingThreads
<1>1. Inv => RacingThreads
  BY DEF Inv, Alone, RacingThreads, C!RacingThreads
<1> QED
  BY InvHolds, <1>1, PTL

\* Subscribers and mails are told of nothing that was not stored first, and of
\* nothing twice, whatever fails and whenever the service restarts.
THEOREM ToldAreStored == Spec => []ToldIsStored
BY InvHolds, PTL DEF Inv

\* No step brings a deleted notification back: neither the handler of its event
\* nor the user who marks it or all of them as read.
THEOREM DeletionIsFinal == Spec => DeletedForGood
<1> DEFINE Kept == \A e \in Events : notes[e] = "deleted" => notes'[e] = "deleted"
<1>1. Inv /\ [Next]_vars => [Kept]_notes
  <2>1. Inv /\ N!Next => Kept
    BY DeletedStep DEF Inv
  <2>2. C!Next /\ UNCHANGED notification => UNCHANGED notes
    BY DEF notification
  <2>3. UNCHANGED vars => UNCHANGED notes
    BY DEF vars
  <2> QED
    BY <2>1, <2>2, <2>3 DEF Next
<1> QED
  BY InvHolds, <1>1, PTL DEF Spec, DeletedForGood, N!DeletedForGood

\* When the final chunk comes, the answer is stored; and the subscriber of a
\* question that was asked alone has seen it last, chunk by chunk, if none was
\* lost: through the models that failed before, the excuse, and a restart of
\* either service.
THEOREM ShownAreStored == Spec => []ShownIsStored
<1>1. Inv => ShownIsStored
  <2> SUFFICES ASSUME Inv, NEW i \in DOMAIN stream, stream[i].final
               PROVE  \E a \in C!Answers(stream[i].of) :
                         /\ \A b \in C!Answers(stream[i].of) : b <= a
                         /\ Clean(stream[i].of) => ShownLast(messages[a].text, i)
    BY DEF ShownIsStored, Clean
  <2> DEFINE q == stream[i].of
  <2>1. TypeOK /\ Streamed
    BY DEF Inv
  <2>2. i \in 1 .. Len(stream) /\ Len(stream) \in Nat
    BY <2>1 DEF TypeOK
  <2>3. i \in DOMAIN Sent /\ Sent[i] = stream[i] /\ \A j \in 1 .. i : Sent[j] = stream[j]
    BY <2>1, <2>2, SentType
  <2>4. q \in Questions
    BY <2>1, <2>3, SentType
  <2>5. PICK a \in Nat : /\ LastAnswer(q, a) /\ ask[q].thread = stream[i].thread
                         /\ Clean(q) => EndsIn(Sent, i - 1, q, ask[q].thread, messages[a].text)
    BY <2>1, <2>3 DEF Streamed, Closes
  <2>6. ASSUME Clean(q) PROVE ShownLast(messages[a].text, i)
    <3> DEFINE text == messages[a].text
    <3>1. text \in Seq(C!Tokens) /\ EndsIn(Sent, i - 1, q, stream[i].thread, text)
      BY <2>1, <2>4, <2>5, <2>6, TextType DEF LastAnswer
    <3> HIDE DEF text
    <3>2. Len(text) \in Nat /\ DOMAIN text = 1 .. Len(text)
      BY <3>1
    <3>3. \A k \in DOMAIN text : i - 1 - Len(text) + k \in 1 .. i
      BY <2>2, <3>1, <3>2 DEF EndsIn
    <3>4. Len(text) < i
      BY <2>2, <3>1, <3>2 DEF EndsIn
    <3>5. ASSUME NEW k \in DOMAIN text
          PROVE  stream[i - 1 - Len(text) + k]
                    = [thread |-> stream[i].thread, of |-> q, token |-> text[k], final |-> FALSE]
      BY <2>3, <3>1, <3>3 DEF EndsIn
    <3>6. ASSUME NEW k \in DOMAIN text
          PROVE  /\ stream[i - 1 - Len(text) + k].thread = stream[i].thread
                 /\ stream[i - 1 - Len(text) + k].token = text[k]
                 /\ stream[i - 1 - Len(text) + k].final = FALSE
      <4> DEFINE m == stream[i - 1 - Len(text) + k]
      <4>1. m = [thread |-> stream[i].thread, of |-> q, token |-> text[k], final |-> FALSE]
        BY <3>5, <3>6
      <4> HIDE DEF m
      <4>2. m.thread = stream[i].thread /\ m.token = text[k] /\ m.final = FALSE
        BY <4>1
      <4> QED
        BY <4>2 DEF m
    <3>7. ShownLast(text, i)
      BY <3>4, <3>6 DEF ShownLast
    <3> QED
      BY <3>7 DEF text
  <2> QED
    BY <2>5, <2>6 DEF LastAnswer
<1> QED
  BY InvHolds, <1>1, PTL
=============================================================================
