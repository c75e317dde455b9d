------------------------------- MODULE PubSub --------------------------------
(***************************************************************************)
(* Publishers and subscribers of one topic: the sample registries in which *)
(* they keep loaned memory between rmw calls, the payload memory iceoryx2  *)
(* hands out, and every publish, take, borrow and return operation.        *)
(*                                                                         *)
(* Each rmw call is one step, except that a publish sends and notifies in  *)
(* two: subscribers may take the message in between.  The application      *)
(* follows the rmw contract: it writes only to memory it has borrowed and  *)
(* gives up a pointer when it passes it back.                              *)
(***************************************************************************)
EXTENDS Naturals, Sequences, FiniteSets

CONSTANTS
    Publishers, Subscribers,
    Chunks,          \* addresses of payload memory
    SerializedOnly,  \* the application uses only the serialized variants
    MaxLoans,        \* samples a publisher may have on loan (iceoryx2)
    MaxBorrows,      \* samples a subscriber may hold (iceoryx2)
    BufferSize,      \* subscriber_max_buffer_size
    HistorySize,     \* history_size
    MaxMessages,     \* bound: messages sent per publisher
    Faults           \* the external calls that may fail

FaultKinds == {"loan", "serialize", "send", "notify", "receive", "deserialize", "resize"}

ASSUME PubSubAssumption ==
    /\ Publishers \cap Subscribers = {}
    /\ IsFiniteSet(Chunks)
    /\ SerializedOnly \in BOOLEAN
    /\ {MaxLoans, MaxBorrows, BufferSize} \subseteq Nat \ {0}
    /\ {HistorySize, MaxMessages} \subseteq Nat
    /\ Faults \subseteq FaultKinds

\* iceoryx2 sizes the data segment of a publisher so that memory is never short
\* before MaxLoans is reached: a chunk for each loan and for each sample that can
\* be in a buffer, in a registry or in a history.
ASSUME ChunksAssumption ==
    LET inUse == Cardinality(Subscribers) * (BufferSize + MaxBorrows)
                    + Cardinality(Publishers) * HistorySize
        everSent == Cardinality(Publishers) * MaxMessages
    IN  Cardinality(Chunks) >= Cardinality(Publishers) * MaxLoans
                                + (IF everSent < inUse THEN everSent ELSE inUse)

Endpoints == Publishers \cup Subscribers

VARIABLES
    can_loan,   \* can_loan_messages of the endpoints: the type is self-contained (is_pod)
    registry,   \* SampleRegistry of each endpoint: the payload addresses it holds
    lent,       \* addresses the application holds, per endpoint
    buffer,     \* iceoryx2: the samples each subscriber has yet to receive
    history,    \* iceoryx2: the samples each publisher keeps for late joiners
    content,    \* what is written at each address
    sent,       \* messages sent so far, per publisher
    notifying,  \* the publishers whose publish has sent but not yet notified
    got,        \* history: the last message each subscriber took from each publisher
    ret         \* the last return code at each endpoint

vars == <<can_loan, registry, lent, buffer, history, content, sent, notifying, got, ret>>

\* A payload is raw (the message's bytes) or cdr (serialized); before anything
\* is written it is uninitialized.
Formats == {"raw", "cdr"}
UNINIT == [from |-> "nobody", seq |-> 0, format |-> "uninit"]
Message(p, format) == [from |-> p, seq |-> sent[p] + 1, format |-> format]
Elements(seq) == {seq[i] : i \in DOMAIN seq}

\* Messages cross as they are in memory, on loan or copied; otherwise serialized.
LoansInUse == can_loan /\ ~SerializedOnly

Init ==
    /\ can_loan \in BOOLEAN
    /\ registry = [e \in Endpoints |-> {}]
    /\ lent = [e \in Endpoints |-> {}]
    /\ buffer = [s \in Subscribers |-> <<>>]
    /\ history = [p \in Publishers |-> <<>>]
    /\ content = [c \in Chunks |-> UNINIT]
    /\ sent = [p \in Publishers |-> 0]
    /\ notifying = {}
    /\ got = [s \in Subscribers |-> [p \in Publishers |-> 0]]
    /\ ret = [e \in Endpoints |-> "NONE"]

(***************************************************************************)
(* iceoryx2: loaning, sending and receiving samples                        *)
(***************************************************************************)

\* What subscribers can read, now or later.
Visible ==
    UNION ({Elements(buffer[s]) \cup registry[s] : s \in Subscribers}
           \cup {Elements(history[p]) : p \in Publishers})

\* Memory is reused once nobody refers to it.
Free == Chunks \ (Visible \cup UNION {registry[p] : p \in Publishers})

MayLoan(p) == Cardinality(registry[p]) < MaxLoans
MayBorrow(s) == Cardinality(registry[s]) < MaxBorrows

\* A bounded queue that drops its oldest element when it overflows.
Push(queue, size, c) ==
    LET longer == Append(queue, c)
    IN  IF Len(longer) > size THEN Tail(longer) ELSE longer

\* A sample reaches the buffer of every subscriber and the history.
Deliver(p, c) ==
    /\ buffer' = [s \in Subscribers |-> Push(buffer[s], BufferSize, c)]
    /\ history' = [history EXCEPT ![p] = Push(@, HistorySize, c)]
    /\ sent' = [sent EXCEPT ![p] = @ + 1]
    /\ notifying' = notifying \cup {p}

(***************************************************************************)
(* SampleRegistry                                                          *)
(***************************************************************************)

store(samples, c) == samples \cup {c}

\* Mutant of release: the sample is found and not erased.
ReleaseKeeps(samples, c) == samples

release(samples, c) == samples \ {c}

(***************************************************************************)
(* Publisher: rmw_publish, rmw_publish_serialized_message and the loans    *)
(***************************************************************************)

\* An endpoint is in at most one call; the bound ends the run.
Idle(p) == p \notin notifying
MayPublish(p) == Idle(p) /\ sent[p] < MaxMessages

\* Mutant of Fails: the error of the implementation class is passed on.
FailsWithInnerError(e) ==
    /\ ret' = [ret EXCEPT ![e] = "PUBLISH_FAILURE"]
    /\ UNCHANGED <<can_loan, registry, lent, buffer, history, content, sent, notifying, got>>

Fails(e) ==
    /\ ret' = [ret EXCEPT ![e] = "ERROR"]
    /\ UNCHANGED <<can_loan, registry, lent, buffer, history, content, sent, notifying, got>>

\* loan: the sample waits in the registry to be published or returned.
loan(p, c) ==
    /\ MayLoan(p) /\ c \in Free
    /\ registry' = [registry EXCEPT ![p] = store(@, c)]

return_loan(e, c) ==
    /\ c \in registry[e]
    /\ registry' = [registry EXCEPT ![e] = release(@, c)]

\* publish_loan as far as the notification: a sample that cannot be sent is
\* dropped.
publish_loan(p, c) ==
    /\ c \in registry[p]
    /\ registry' = [registry EXCEPT ![p] = release(@, c)]
    /\ \/ /\ Deliver(p, c)
          /\ UNCHANGED ret
       \/ /\ "send" \in Faults
          /\ ret' = [ret EXCEPT ![p] = "ERROR"]
          /\ UNCHANGED <<buffer, history, sent, notifying>>

\* publish_copy: iceoryx2 copies the bytes into a sample of its own.
publish_copy(p, format) ==
    /\ MayPublish(p)
    /\ \/ /\ MayLoan(p)
          /\ \E c \in Free : /\ content' = [content EXCEPT ![c] = Message(p, format)]
                             /\ Deliver(p, c)
          /\ UNCHANGED <<can_loan, registry, lent, got, ret>>
       \/ /\ "send" \in Faults \/ ~MayLoan(p)
          /\ Fails(p)


\* rmw_serialize, if it succeeds: the payload is the serialized message.
rmw_serialize(p, c) == content' = [content EXCEPT ![c] = Message(p, "cdr")]

\* rmw_publish of a message that has to be serialized: loan, serialize into the
\* loan, publish_loan.  An error of rmw_serialize returns without the loan.
PublishSerialized(p) ==
    /\ MayPublish(p)
    /\ \/ /\ MayLoan(p)
          /\ \E c \in Free :
                \/ /\ rmw_serialize(p, c)
                   /\ registry' = [registry EXCEPT ![p] = release(store(@, c), c)]
                   /\ Deliver(p, c)
                   /\ UNCHANGED <<can_loan, lent, got, ret>>
                \/ /\ "serialize" \in Faults
                   /\ loan(p, c)
                   /\ ret' = [ret EXCEPT ![p] = "ERROR"]
                   /\ UNCHANGED <<can_loan, lent, buffer, history, content, sent, notifying, got>>
       \/ /\ {"loan", "send"} \cap Faults # {} \/ ~MayLoan(p)
          /\ Fails(p)

RmwPublish(p) ==
    /\ ~SerializedOnly
    /\ IF can_loan THEN publish_copy(p, "raw") ELSE PublishSerialized(p)

RmwPublishSerialized(p) ==
    /\ ~LoansInUse
    /\ publish_copy(p, "cdr")

\* rmw_borrow_loaned_message
RmwBorrow(p) ==
    /\ Idle(p) /\ LoansInUse
    /\ \/ /\ \E c \in Free : /\ loan(p, c)
                             /\ lent' = [lent EXCEPT ![p] = @ \cup {c}]
                             /\ content' = [content EXCEPT ![c] = UNINIT]
          /\ ret' = [ret EXCEPT ![p] = "OK"]
          /\ UNCHANGED <<can_loan, buffer, history, sent, notifying, got>>
       \/ /\ "loan" \in Faults \/ ~MayLoan(p)
          /\ Fails(p)

\* rmw_publish_loaned_message with any address, one given up before included:
\* publish_loan rejects what is not in the registry.  The application writes the
\* message before it gives up its loan.  Where messages cannot be loaned it can
\* still make the call, but has got no address in the registry to pass.
RmwPublishLoaned(p, c) ==
    /\ MayPublish(p) /\ ~SerializedOnly
    /\ can_loan \/ c \notin registry[p]
    /\ \/ /\ publish_loan(p, c)
          /\ lent' = [lent EXCEPT ![p] = @ \ {c}]
          /\ content' = IF c \in lent[p]
                        THEN [content EXCEPT ![c] = Message(p, "raw")] ELSE content
          /\ UNCHANGED <<can_loan, got>>
       \/ c \notin registry[p] /\ Fails(p)

\* The notification that ends every publish; its failure is an error although
\* the message has been sent.
PublishNotifies(p) ==
    /\ p \in notifying
    /\ notifying' = notifying \ {p}
    /\ \/ ret' = [ret EXCEPT ![p] = "OK"]
       \/ "notify" \in Faults /\ ret' = [ret EXCEPT ![p] = "ERROR"]
    /\ UNCHANGED <<can_loan, registry, lent, buffer, history, content, sent, got>>

\* rmw_return_loaned_message_from_publisher and _from_subscription
RmwReturnLoaned(e, c) ==
    /\ LoansInUse
    /\ e \notin notifying
    /\ \/ /\ return_loan(e, c)
          /\ lent' = [lent EXCEPT ![e] = @ \ {c}]
          /\ ret' = [ret EXCEPT ![e] = "OK"]
          /\ UNCHANGED <<can_loan, buffer, history, content, sent, notifying, got>>
       \/ c \notin registry[e] /\ Fails(e)

(***************************************************************************)
(* Subscriber: rmw_take, rmw_take_serialized_message and the loans         *)
(***************************************************************************)

\* receive: the oldest sample of the buffer.
receive(s) ==
    /\ MayBorrow(s) /\ buffer[s] # <<>>
    /\ buffer' = [buffer EXCEPT ![s] = Tail(@)]

\* take_loan: the sample is kept until it is returned.
take_loan(s) ==
    /\ receive(s)
    /\ registry' = [registry EXCEPT ![s] = store(@, Head(buffer[s]))]

\* The application has got a whole message.
Take(s, c) ==
    /\ got' = [got EXCEPT ![s][content[c].from] = content[c].seq]
    /\ ret' = [ret EXCEPT ![s] = "OK"]

ReceiveFails(s) ==
    /\ "receive" \in Faults \/ ~MayBorrow(s)
    /\ Fails(s)

\* Any take that finds nothing: RMW_RET_OK, and taken is false.
TakeNothing(s) ==
    /\ buffer[s] = <<>>
    /\ ret' = [ret EXCEPT ![s] = "OK"]
    /\ UNCHANGED <<can_loan, registry, lent, buffer, history, content, sent, notifying, got>>

\* rmw_take of a self-contained message: take_copy drops the sample again.
take_copy(s) ==
    /\ LoansInUse
    /\ receive(s)
    /\ Take(s, Head(buffer[s]))
    /\ UNCHANGED <<can_loan, registry, lent, history, content, sent, notifying>>

\* rmw_take of a message that has to be deserialized, and rmw_take_serialized_
\* message: take_loan, convert, return_loan.  An error of the conversion
\* returns without return_loan.
TakeConverted(s, fault) ==
    LET c == Head(buffer[s])
    IN  /\ \/ /\ receive(s)
              /\ registry' = [registry EXCEPT ![s] = release(store(@, c), c)]
              /\ Take(s, c)
           \/ /\ fault \in Faults
              /\ take_loan(s)
              /\ ret' = [ret EXCEPT ![s] = "ERROR"]
              /\ UNCHANGED got
        /\ UNCHANGED <<can_loan, lent, history, content, sent, notifying>>

RmwTake(s) ==
    \/ take_copy(s)
    \/ ~can_loan /\ ~SerializedOnly /\ TakeConverted(s, "deserialize")

RmwTakeSerialized(s) ==
    /\ ~LoansInUse
    /\ TakeConverted(s, "resize")

\* Mutant of RmwTakeLoaned: the sample is not stored and drops when the call ends.
TakeLoanedUnstored(s) ==
    LET c == Head(buffer[s])
    IN  /\ LoansInUse
        /\ receive(s)
        /\ lent' = [lent EXCEPT ![s] = @ \cup {c}]
        /\ Take(s, c)
        /\ UNCHANGED <<can_loan, registry, history, content, sent, notifying>>

\* rmw_take_loaned_message
RmwTakeLoaned(s) ==
    LET c == Head(buffer[s])
    IN  /\ LoansInUse
        /\ take_loan(s)
        /\ lent' = [lent EXCEPT ![s] = @ \cup {c}]
        /\ Take(s, c)
        /\ UNCHANGED <<can_loan, history, content, sent, notifying>>

(***************************************************************************)
(* Specification                                                           *)
(***************************************************************************)

\* The application writes to memory it has borrowed and not yet given up.
AppWrites(p, c) ==
    /\ c \in lent[p]
    /\ content' = [content EXCEPT ![c] = [from |-> p, seq |-> 0, format |-> "draft"]]
    /\ UNCHANGED <<can_loan, registry, lent, buffer, history, sent, notifying, got, ret>>

Publish(p) ==
    \/ RmwPublish(p) \/ RmwPublishSerialized(p)
    \/ \E c \in Chunks : RmwPublishLoaned(p, c)

PublisherStep(p) ==
    \/ Publish(p) \/ RmwBorrow(p) \/ PublishNotifies(p)
    \/ \E c \in Chunks : RmwReturnLoaned(p, c) \/ AppWrites(p, c)

TakeStep(s) == RmwTake(s) \/ RmwTakeSerialized(s) \/ RmwTakeLoaned(s)

ReturnStep(s) == \E c \in lent[s] : RmwReturnLoaned(s, c)

SubscriberStep(s) ==
    \/ TakeStep(s) \/ TakeNothing(s) \/ ReceiveFails(s)
    \/ \E c \in Chunks : RmwReturnLoaned(s, c)

Next ==
    \/ \E p \in Publishers : PublisherStep(p)
    \/ \E s \in Subscribers : SubscriberStep(s)

Spec == Init /\ [][Next]_vars

\* A started publish runs to its end; a subscriber's application keeps taking
\* what there is and returns what it has taken on loan.
FairSpec ==
    /\ Spec
    /\ \A p \in Publishers : WF_vars(PublishNotifies(p))
    /\ \A s \in Subscribers : WF_vars(TakeStep(s)) /\ WF_vars(ReturnStep(s))

(***************************************************************************)
(* Properties                                                              *)
(***************************************************************************)

Payloads == [from : Publishers, seq : Nat, format : Formats \cup {"draft"}] \cup {UNINIT}

TypeOK ==
    /\ can_loan \in BOOLEAN
    /\ registry \in [Endpoints -> SUBSET Chunks]
    /\ lent \in [Endpoints -> SUBSET Chunks]
    /\ buffer \in [Subscribers -> Seq(Chunks)]
    /\ history \in [Publishers -> Seq(Chunks)]
    /\ content \in [Chunks -> Payloads]
    /\ sent \in [Publishers -> Nat]
    /\ notifying \subseteq Publishers
    /\ got \in [Subscribers -> [Publishers -> Nat]]
    /\ ret \in [Endpoints -> {"NONE", "OK", "ERROR"}]

\* The format in which the take operations in use read a payload.
ExpectedFormat == IF LoansInUse THEN "raw" ELSE "cdr"

\* What a subscriber has yet to take is whole messages, in the format in which
\* it will read them, each publisher's in the order sent and all newer than what
\* it has taken: nothing is torn, duplicated, reordered or unwritten, however
\* loans, overflows, failed calls and reused memory interleave.
BuffersInOrder ==
    \A s \in Subscribers : \A i \in DOMAIN buffer[s] :
        LET m == content[buffer[s][i]]
        IN  /\ m.from \in Publishers
            /\ m.format = ExpectedFormat
            /\ got[s][m.from] < m.seq /\ m.seq <= sent[m.from]
            /\ \A j \in 1 .. i - 1 :
                    content[buffer[s][j]].from = m.from => content[buffer[s][j]].seq < m.seq

\* Memory on loan for writing is on loan once and is not visible to a
\* subscriber: publish_loan gives the sample up before it is sent.
LoansExclusive ==
    \A p \in Publishers :
        /\ registry[p] \cap Visible = {}
        /\ \A q \in Publishers \ {p} : registry[p] \cap registry[q] = {}

\* A payload does not change while a subscriber may yet receive it or its
\* application reads it on loan.
Readable == Visible \cup UNION {lent[s] : s \in Subscribers}
PayloadStable ==
    [][\A c \in Readable : c \in Readable' => content'[c] = content[c]]_vars

\* The registries hold what the application has on loan and nothing else, so
\* that every loan can be given back and the iceoryx2 limits are not used up;
\* unless messages are converted and a conversion may fail, which leaves its loan.
ConversionFaults == {"serialize", "deserialize", "resize"}
NoLeakedLoans ==
    LoansInUse \/ Faults \cap ConversionFaults = {}
        => \A e \in Endpoints : registry[e] = lent[e]

\* Every message sent is taken by or displaced at every subscriber: no failure
\* leaves an endpoint unable to receive.
BuffersDrained ==
    \A s \in Subscribers : []<>(buffer[s] = <<>>)
===============================================================================
