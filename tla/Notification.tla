---------------------------- MODULE Notification ----------------------------
(***************************************************************************)
(* The notification service.  A chunk of an answer it passes on to the     *)
(* subscribers at once, in the order NATS has the chunks.  Of an event of  *)
(* a bid or an auction, which NATS may bring before or after any other, it *)
(* makes a notification, which it stores, shows to the subscribers and     *)
(* mails to the user, call by call and overlapping with other events and   *)
(* with what the user does to her notifications.  The subscribers listen   *)
(* to two channels of Redis.                                               *)
(***************************************************************************)
EXTENDS Naturals, Sequences, Functions

CONSTANTS
    Events,         \* bid.created, bid.outbid, auction.ended, bid.won
    Faults,         \* the faults that may happen
    MaxFaults       \* how many of them: a bound for model checking

VARIABLES
    inbox,          \* the chunks that NATS is to deliver, in their order
    stream,         \* AI_MESSAGE_CHUNK: the chunks the subscribers have been sent
    alerts,         \* NOTIFICATION_CREATED: the events they have been told of
    notes,          \* notes[e]: the notification of event e: "none" at first
    job,            \* job[e]: the next step of the handler of e; NATS has the
                    \* events that are "sent"
    marking,        \* notifications a markAsRead has found and not yet updated
    mailed,         \* events of which a mail was sent
    lost,           \* history: see Chat
    faults          \* history: faults so far

vars == <<inbox, stream, alerts, notes, job, marking, mailed, lost, faults>>

\* A fault of kind k happens.
Fault(k) == k \in Faults /\ faults < MaxFaults /\ faults' = faults + 1

Goes(e, step) == job' = [job EXCEPT ![e] = step]

Init ==
    /\ stream = <<>>
    /\ alerts = <<>>
    /\ notes = [e \in Events |-> "none"]
    /\ job = [e \in Events |-> "unsent"]
    /\ marking = {}
    /\ mailed = {}

-----------------------------------------------------------------------------
(* The events                                                              *)

\* Another service publishes e, and nobody repeats it.
Publish(e) ==
    /\ job[e] = "unsent"
    /\ \/ Goes(e, "sent") /\ UNCHANGED faults
       \/ Fault("nats") /\ Goes(e, "lost")
    /\ UNCHANGED <<inbox, stream, alerts, notes, marking, mailed, lost>>

\* The handlers of events overlap.
Take(e) ==
    /\ job[e] = "sent"
    /\ Goes(e, "create")
    /\ UNCHANGED <<inbox, stream, alerts, notes, marking, mailed, lost, faults>>

\* If the store fails, the notification may be there all the same.
Create(e) ==
    /\ job[e] = "create"
    /\ \/ /\ notes' = [notes EXCEPT ![e] = "unread"]
          /\ Goes(e, "broadcast")
          /\ UNCHANGED faults
       \/ /\ Fault("mongo")
          /\ notes' \in {notes, [notes EXCEPT ![e] = "unread"]}
          /\ Goes(e, "done")
    /\ UNCHANGED <<inbox, stream, alerts, marking, mailed, lost>>

\* Variant: the mail goes whether the notification was stored or not.
MailsAnyway(e) ==
    /\ job[e] \in {"broadcast", "done"}
    /\ alerts' = Append(alerts, e)
    /\ Goes(e, "mail")
    /\ UNCHANGED <<inbox, stream, notes, marking, mailed, lost, faults>>

\* publish is not awaited.
Broadcast(e) ==
    /\ job[e] = "broadcast"
    /\ alerts' = Append(alerts, e)
    /\ Goes(e, "mail")
    /\ UNCHANGED <<inbox, stream, notes, marking, mailed, lost, faults>>

\* No mail if the user service does not know the user, or not answer.
Mail(e) ==
    /\ job[e] = "mail"
    /\ \/ mailed' = mailed \union {e} /\ UNCHANGED faults
       \/ Fault("user") /\ UNCHANGED mailed
    /\ Goes(e, "done")
    /\ UNCHANGED <<inbox, stream, alerts, notes, marking, lost>>

-----------------------------------------------------------------------------
(* The chunks                                                              *)

\* The handler of a chunk is over at once.
Receive ==
    /\ inbox # <<>>
    /\ inbox' = Tail(inbox)
    /\ stream' = Append(stream, Head(inbox))
    /\ UNCHANGED <<alerts, notes, job, marking, mailed, lost, faults>>

\* A restart: also what a publish or a mail that fails comes to, for nobody
\* handles its rejection.  NATS keeps nothing for a subscriber who is gone.
Crash ==
    /\ Fault("crash")
    /\ inbox' = <<>>
    /\ job' = [e \in Events |-> IF job[e] \in {"unsent", "lost", "done"} THEN job[e]
                                ELSE "lost"]
    /\ marking' = {}
    /\ lost' = lost \union
           {<<m.of, IF m.final THEN "final" ELSE "chunk">> : m \in Range(inbox)}
    /\ UNCHANGED <<stream, alerts, notes, mailed>>

-----------------------------------------------------------------------------
(* What the user does                                                      *)

Exists(e) == notes[e] \in {"unread", "read"}

\* findOne, for the owner of the notification
MarkFind(e) ==
    /\ Exists(e)
    /\ marking' = marking \union {e}
    /\ UNCHANGED <<inbox, stream, alerts, notes, job, mailed, lost, faults>>

\* Variant: the document found is saved.
SavesCopy(e) == [notes EXCEPT ![e] = "read"]

\* findOneAndUpdate, without upsert
Marked(e) == [notes EXCEPT ![e] = IF Exists(e) THEN "read" ELSE @]

MarkUpdate(e) ==
    /\ e \in marking
    /\ marking' = marking \ {e}
    /\ notes' = Marked(e)
    /\ UNCHANGED <<inbox, stream, alerts, job, mailed, lost, faults>>

MarkAll ==
    /\ \E e \in Events : notes[e] = "unread"
    /\ notes' = [e \in Events |-> IF Exists(e) THEN "read" ELSE notes[e]]
    /\ UNCHANGED <<inbox, stream, alerts, job, marking, mailed, lost, faults>>

Delete(e) ==
    /\ Exists(e)
    /\ notes' = [notes EXCEPT ![e] = "deleted"]
    /\ UNCHANGED <<inbox, stream, alerts, job, marking, mailed, lost, faults>>

-----------------------------------------------------------------------------

Handle(e) == Take(e) \/ Create(e) \/ Broadcast(e) \/ Mail(e)

Next ==
    \/ \E e \in Events : \/ Publish(e) \/ Handle(e)
                         \/ MarkFind(e) \/ MarkUpdate(e) \/ Delete(e)
    \/ Receive \/ MarkAll \/ Crash

-----------------------------------------------------------------------------
(* Properties                                                              *)

\* Every variable of the notification service holds a value of its type.
TypeOK ==
    /\ notes \in [Events -> {"none", "unread", "read", "deleted"}]
    /\ job \in [Events -> {"unsent", "sent", "create", "broadcast", "mail", "done",
                           "lost"}]
    /\ marking \subseteq Events
    /\ mailed \subseteq Events

\* Subscribers and mails are told of events whose notifications
\* are in the database, or were until their users deleted them; and nobody is
\* told twice.
ToldIsStored ==
    \A e \in Events :
        LET told == {i \in DOMAIN alerts : alerts[i] = e}
        IN  /\ told # {} => notes[e] # "none"
            /\ e \in mailed => told # {}
            /\ \A i, j \in told : i = j

\* What its owner has deleted stays deleted, although she may be marking it
\* as read at that moment.
DeletedForGood ==
    [][\A e \in Events : notes[e] = "deleted" => notes'[e] = "deleted"]_notes

=============================================================================
