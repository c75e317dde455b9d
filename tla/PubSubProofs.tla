----------------------------- MODULE PubSubProofs -----------------------------
(* Proofs about PubSub: its type invariant, that memory on loan is exclusive,*)
(* that what is in the buffers is whole and in order, that no loan leaks and *)
(* that payloads are stable while they can be read; for any publishers,      *)
(* subscribers, limits and failures.                                         *)
EXTENDS PubSub, SequenceTheorems, TLAPS

(***************************************************************************)
(* The inductive invariant                                                 *)
(***************************************************************************)

\* The application holds what is stored, as far as loans are in use at all;
\* otherwise it is never lent anything.
\* (What a failed conversion leaves in a registry is lent to nobody.)
LentStored ==
    /\ LoansInUse => registry = lent
    /\ ~LoansInUse => \A e \in Endpoints : lent[e] = {}

\* A subscriber has taken nothing that was not sent.
TakenSent == \A s \in Subscribers : \A p \in Publishers : got[s][p] <= sent[p]

IndInv == TypeOK /\ LoansExclusive /\ LentStored /\ TakenSent /\ BuffersInOrder

(***************************************************************************)
(* Queues and visible memory                                               *)
(***************************************************************************)

\* A queue has the elements of an earlier one in their order, d places further
\* to the front, and c behind them.
Follows(new, old, d, c) ==
    \A i \in DOMAIN new :
        /\ i \in Nat \ {0}
        /\ \/ i + d \in DOMAIN old /\ new[i] = old[i + d]
           \/ i + d = Len(old) + 1 /\ new[i] = c

\* A push appends, and drops the oldest element or not.
LEMMA PushFollows ==
    ASSUME NEW S, NEW queue \in Seq(S), NEW size \in Nat, NEW c \in S
    PROVE  /\ Push(queue, size, c) \in Seq(S)
           /\ \/ Follows(Push(queue, size, c), queue, 0, c)
              \/ Follows(Push(queue, size, c), queue, 1, c)
<1> DEFINE longer == Append(queue, c)
<1>1. /\ longer \in Seq(S) /\ longer # <<>> /\ Len(longer) = Len(queue) + 1
      /\ \A i \in 1 .. Len(queue) : longer[i] = queue[i]
      /\ longer[Len(queue) + 1] = c
  BY AppendProperties
<1>2. Tail(longer) \in Seq(S) /\ Len(Tail(longer)) = Len(queue)
      /\ \A i \in 1 .. Len(queue) : Tail(longer)[i] = longer[i + 1]
  BY <1>1, HeadTailProperties
<1>3. Len(queue) \in Nat /\ DOMAIN queue = 1 .. Len(queue)
  OBVIOUS
<1>4. Push(queue, size, c) \in {longer, Tail(longer)}
  BY DEF Push
<1>. HIDE DEF longer
<1>5. Follows(longer, queue, 0, c)
  BY <1>1, <1>3 DEF Follows
<1>6. Follows(Tail(longer), queue, 1, c)
  BY <1>1, <1>2, <1>3 DEF Follows
<1>. QED
  BY <1>1, <1>2, <1>4, <1>5, <1>6

\* What a queue holds after a push and after its oldest element is taken.
LEMMA PushElements ==
    ASSUME NEW S, NEW queue \in Seq(S), NEW size \in Nat, NEW c \in S
    PROVE  Elements(Push(queue, size, c)) \subseteq Elements(queue) \cup {c}
<1>1. ASSUME NEW new, NEW d, Follows(new, queue, d, c)
      PROVE  Elements(new) \subseteq Elements(queue) \cup {c}
  BY <1>1 DEF Follows, Elements
<1>. QED
  BY <1>1, PushFollows

\* What a receive takes off a queue, and what it leaves.
LEMMA TailElements ==
    ASSUME NEW S, NEW queue \in Seq(S), queue # <<>>
    PROVE  /\ Head(queue) \in S /\ Tail(queue) \in Seq(S)
           /\ Head(queue) = queue[1] /\ 1 \in DOMAIN queue
           /\ \A i \in DOMAIN Tail(queue) :
                i \in Nat \ {0} /\ i + 1 \in DOMAIN queue /\ Tail(queue)[i] = queue[i + 1]
           /\ Elements(Tail(queue)) \cup {Head(queue)} \subseteq Elements(queue)
<1>1. /\ Head(queue) \in S /\ Tail(queue) \in Seq(S) /\ Len(Tail(queue)) = Len(queue) - 1
      /\ \A i \in 1 .. Len(Tail(queue)) : Tail(queue)[i] = queue[i + 1]
  BY HeadTailProperties
<1>2. Len(queue) \in Nat /\ Len(queue) # 0 /\ DOMAIN queue = 1 .. Len(queue)
  BY EmptySeq
<1>3. Head(queue) = queue[1] /\ 1 \in DOMAIN queue
  BY <1>2
<1>4. \A i \in DOMAIN Tail(queue) :
            i \in Nat \ {0} /\ i + 1 \in DOMAIN queue /\ Tail(queue)[i] = queue[i + 1]
  BY <1>1, <1>2
<1>. QED
  BY <1>1, <1>3, <1>4 DEF Elements

\* What is in a buffer or a history, or taken from a buffer, is visible.
LEMMA BufferVisible ==
    ASSUME NEW s \in Subscribers
    PROVE  Elements(buffer[s]) \cup registry[s] \subseteq Visible
  BY DEF Visible

\* What a history holds can be read by a subscriber to come.
LEMMA HistoryVisible ==
    ASSUME NEW p \in Publishers
    PROVE  Elements(history[p]) \subseteq Visible
  BY DEF Visible

\* Visible memory shrinks, or grows by what is sent, if the parts it is made of do.
LEMMA VisibleGrows ==
    ASSUME NEW X,
           \A s \in Subscribers : Elements(buffer'[s]) \subseteq Elements(buffer[s]) \cup X,
           \A s \in Subscribers : registry'[s] \subseteq registry[s] \cup Elements(buffer[s]),
           \A p \in Publishers : Elements(history'[p]) \subseteq Elements(history[p]) \cup X
    PROVE  Visible' \subseteq Visible \cup X
<1>1. SUFFICES ASSUME NEW c \in Visible' PROVE c \in Visible \cup X
  OBVIOUS
<1>2. ASSUME NEW s \in Subscribers, c \in Elements(buffer'[s]) \cup registry'[s]
      PROVE  c \in Visible \cup X
  <2>1. c \in Elements(buffer[s]) \cup registry[s] \cup X
    BY <1>2
  <2>. QED
    BY <2>1, BufferVisible
<1>3. ASSUME NEW p \in Publishers, c \in Elements(history'[p])
      PROVE  c \in Visible \cup X
  <2>1. c \in Elements(history[p]) \cup X
    BY <1>3
  <2>. QED
    BY <2>1, HistoryVisible
<1>4. (\E s \in Subscribers : c \in Elements(buffer'[s]) \cup registry'[s])
        \/ \E p \in Publishers : c \in Elements(history'[p])
  BY <1>1 DEF Visible, Elements
<1>. QED
  BY <1>2, <1>3, <1>4

\* Memory is reused only when no endpoint refers to it.
LEMMA FreeIsUnused ==
    ASSUME NEW c \in Free
    PROVE  /\ c \in Chunks /\ c \notin Visible
           /\ \A p \in Publishers : c \notin registry[p]
  BY DEF Free

(***************************************************************************)
(* The order of a buffer                                                   *)
(***************************************************************************)

\* The message at place i of buffer b, with the payloads con, after messages
\* numbered up to g[q] have been taken and up to n[q] sent.
InPlace(b, i, con, g, n) ==
    LET m == con[b[i]]
    IN  /\ m.from \in Publishers
        /\ m.format = ExpectedFormat
        /\ g[m.from] < m.seq /\ m.seq <= n[m.from]
        /\ \A j \in 1 .. i - 1 : con[b[j]].from = m.from => con[b[j]].seq < m.seq

Ordered(b, con, g, n) == \A i \in DOMAIN b : InPlace(b, i, con, g, n)

\* BuffersInOrder, one buffer at a time, before a step
LEMMA BuffersOrdered ==
    BuffersInOrder <=> \A s \in Subscribers : Ordered(buffer[s], content, got[s], sent)
  BY DEF BuffersInOrder, Ordered, InPlace

\* and after it.
LEMMA BuffersOrderedNext ==
    ASSUME UNCHANGED can_loan
    PROVE  BuffersInOrder'
             <=> \A s \in Subscribers : Ordered(buffer'[s], content', got'[s], sent')
  BY DEF BuffersInOrder, Ordered, InPlace, ExpectedFormat, LoansInUse

\* The payloads of a buffer are the same before and after.
SamePayloads(b, con, con1) ==
    \A k \in DOMAIN b : con1[b[k]] = con[b[k]] /\ con[b[k]].seq \in Nat

\* The payload at c is message number n[p] of publisher p.
IsMessage(con, c, p, n) ==
    con[c].from = p /\ con[c].seq = n[p] /\ con[c].format = ExpectedFormat

\* Publisher p has sent another message.
OneMoreSent(n, n1, p) == n1 = [n EXCEPT ![p] = @ + 1]

\* Appending the next message of a publisher to a buffer, in memory that was not
\* in it.
LEMMA OrderedAfterPush ==
    ASSUME NEW old \in Seq(Chunks), NEW size \in Nat, NEW c \in Chunks,
           NEW con, NEW con1, SamePayloads(old, con, con1),
           NEW g \in [Publishers -> Nat], NEW n \in [Publishers -> Nat], NEW n1,
           NEW p \in Publishers, OneMoreSent(n, n1, p), g[p] <= n[p],
           IsMessage(con1, c, p, n1),
           Ordered(old, con, g, n)
    PROVE  Ordered(Push(old, size, c), con1, g, n1)
<1> DEFINE new == Push(old, size, c)
<1>0. PICK d \in Nat : Follows(new, old, d, c)
  BY PushFollows
<1>1. /\ DOMAIN old = 1 .. Len(old) /\ DOMAIN new = 1 .. Len(new)
      /\ Len(old) \in Nat /\ Len(new) \in Nat
  <2>1. new \in Seq(Chunks)
    BY PushFollows
  <2>. HIDE DEF new
  <2>. QED
    BY <2>1
<1>2. n1[p] = n[p] + 1 /\ \A q \in Publishers : n1[q] \in Nat /\ n[q] <= n1[q]
  BY DEF OneMoreSent
<1>3. \A q \in Publishers : n[q] \in Nat /\ g[q] \in Nat
  OBVIOUS
<1>. HIDE DEF new
<1>. SUFFICES ASSUME NEW i \in DOMAIN new PROVE InPlace(new, i, con1, g, n1)
  BY DEF Ordered, new
<1>4. \A j \in 1 .. i - 1 : /\ j + d \in DOMAIN old /\ new[j] = old[j + d]
                            /\ j + d \in 1 .. (i + d) - 1
  <2>. TAKE j \in 1 .. i - 1
  <2>1. i \in Nat \ {0} /\ i <= Len(new)
    BY <1>1
  <2>2. i + d \in DOMAIN old \/ i + d = Len(old) + 1
    BY <1>0 DEF Follows
  <2>3. j \in DOMAIN new /\ j \in Nat /\ j + d < i + d /\ j + d # Len(old) + 1
    BY <1>1, <2>1, <2>2
  <2>. QED
    BY <1>0, <1>1, <2>1, <2>3 DEF Follows
<1>5. CASE i + d \in DOMAIN old /\ new[i] = old[i + d]
  <2> DEFINE m == con[old[i + d]]
  <2>1. InPlace(old, i + d, con, g, n) /\ con1[new[i]] = m /\ m.seq \in Nat
    BY <1>5 DEF Ordered, SamePayloads
  <2>2. m.from \in Publishers /\ m.format = ExpectedFormat /\ g[m.from] < m.seq
        /\ m.seq <= n[m.from]
    BY <2>1 DEF InPlace
  <2>3. m.seq <= n1[m.from]
    BY <1>2, <1>3, <2>1, <2>2
  <2>4. \A j \in 1 .. i - 1 : con1[new[j]] = con[old[j + d]]
    BY <1>4 DEF SamePayloads
  <2>5. \A j \in 1 .. i - 1 : con1[new[j]].from = m.from => con1[new[j]].seq < m.seq
    BY <1>4, <2>1, <2>4 DEF InPlace
  <2>. QED
    BY <2>1, <2>2, <2>3, <2>5 DEF InPlace
<1>6. CASE i + d = Len(old) + 1 /\ new[i] = c
  <2>1. \A j \in 1 .. i - 1 : con1[new[j]].from = p => con1[new[j]].seq < n[p] + 1
    <3>. TAKE j \in 1 .. i - 1
    <3>1. InPlace(old, j + d, con, g, n) /\ con1[new[j]] = con[old[j + d]]
          /\ con[old[j + d]].seq \in Nat
      BY <1>4 DEF Ordered, SamePayloads
    <3>. QED
      BY <1>3, <3>1 DEF InPlace
  <2>2. g[p] < n[p] + 1 /\ n1[p] = n[p] + 1 /\ n[p] + 1 <= n1[p]
    BY <1>2, <1>3
  <2>. QED
    BY <1>6, <2>1, <2>2 DEF InPlace, IsMessage
<1>. QED
  BY <1>0, <1>5, <1>6 DEF Follows

\* What has been taken from each publisher is what it was, or message m.
TakenNow(g, g1, m) == \A q \in Publishers : g1[q] \in {g[q], IF q = m.from THEN m.seq ELSE g[q]}

\* Taking the oldest message of a buffer.
LEMMA OrderedAfterTake ==
    ASSUME NEW old \in Seq(Chunks), old # <<>>,
           NEW con, NEW g, NEW g1, NEW n,
           Ordered(old, con, g, n),
           TakenNow(g, g1, con[Head(old)])
    PROVE  Ordered(Tail(old), con, g1, n)
<1>. SUFFICES ASSUME NEW i \in DOMAIN Tail(old) PROVE InPlace(Tail(old), i, con, g1, n)
  BY DEF Ordered
<1> DEFINE m == con[old[i + 1]]
<1>1. /\ i \in Nat \ {0} /\ i + 1 \in DOMAIN old /\ Tail(old)[i] = old[i + 1]
      /\ Head(old) = old[1]
  BY TailElements
<1>2. \A j \in 1 .. i - 1 : Tail(old)[j] = old[j + 1] /\ j + 1 \in 1 .. (i + 1) - 1
  <2>1. i <= Len(Tail(old)) /\ Len(Tail(old)) \in Nat
        /\ \A j \in 1 .. Len(Tail(old)) : Tail(old)[j] = old[j + 1]
    BY HeadTailProperties
  <2>. QED
    BY <1>1, <2>1
<1>3. InPlace(old, i + 1, con, g, n)
  BY <1>1 DEF Ordered
<1>4. 1 \in 1 .. (i + 1) - 1
  BY <1>1
<1>5. g1[m.from] < m.seq
  BY <1>1, <1>3, <1>4 DEF InPlace, TakenNow
<1>. QED
  BY <1>1, <1>2, <1>3, <1>5 DEF InPlace

(***************************************************************************)
(* What steps may do                                                       *)
(***************************************************************************)

ReturnCodes == {"NONE", "OK", "ERROR"}

\* Nothing is sent or lent in the beginning.
LEMMA InitInductive == Init => IndInv
<1> SUFFICES ASSUME Init PROVE IndInv
  OBVIOUS
<1>1. TypeOK
  BY DEF Init, TypeOK, Payloads
<1>2. LoansExclusive
  BY DEF Init, LoansExclusive, Endpoints
<1>3. LentStored /\ TakenSent /\ BuffersInOrder
  BY DEF Init, LentStored, TakenSent, BuffersInOrder
<1>. QED
  BY <1>1, <1>2, <1>3 DEF IndInv

\* A step that leaves samples and messages alone.
LEMMA QuietInductive ==
    ASSUME IndInv,
           UNCHANGED <<can_loan, registry, lent, buffer, history, content, sent, got>>,
           notifying' \subseteq Publishers,
           ret' \in [Endpoints -> ReturnCodes]
    PROVE  IndInv'
<1>1. TypeOK'
  BY DEF IndInv, TypeOK, ReturnCodes
<1>2. LoansExclusive'
  BY DEF IndInv, LoansExclusive, Visible
<1>3. LentStored' /\ TakenSent' /\ BuffersInOrder'
  BY DEF IndInv, LentStored, TakenSent, BuffersInOrder, LoansInUse, ExpectedFormat
<1>. QED
  BY <1>1, <1>2, <1>3 DEF IndInv

\* What can be read is memory of the topic.
LEMMA VisibleType ==
    ASSUME IndInv PROVE Visible \subseteq Chunks
  BY DEF IndInv, TypeOK, Visible, Elements, Endpoints

\* While the buffers do not change and what is in them keeps its content, they
\* stay in order.
LEMMA OrderKept ==
    ASSUME IndInv, UNCHANGED <<can_loan, buffer, sent, got>>,
           \A x \in Visible : content'[x] = content[x]
    PROVE  BuffersInOrder'
<1>1. \A s \in Subscribers : \A i \in DOMAIN buffer[s] :
          content'[buffer[s][i]] = content[buffer[s][i]]
  BY BufferVisible DEF Elements
<1>2. \A s \in Subscribers : \A i \in DOMAIN buffer[s] : \A j \in 1 .. i - 1 :
          j \in DOMAIN buffer[s]
  BY DEF IndInv, TypeOK
<1>. QED
  BY <1>1, <1>2 DEF IndInv, BuffersInOrder, ExpectedFormat, LoansInUse

\* Memory c that nobody else refers to is lent by a publisher, given back,
\* dropped or written to.
LEMMA LoanInductive ==
    ASSUME IndInv,
           NEW p \in Publishers, NEW c \in Chunks, NEW R, NEW L \in SUBSET Chunks,
           c \notin Visible,
           \A q \in Publishers \ {p} : c \notin registry[q],
           R \subseteq registry[p] \cup {c},
           registry' = [registry EXCEPT ![p] = R],
           lent' = [lent EXCEPT ![p] = L],
           IF LoansInUse THEN R = L ELSE L = {},
           content' \in [Chunks -> Payloads],
           \A x \in Chunks \ {c} : content'[x] = content[x],
           UNCHANGED <<can_loan, buffer, history, sent, notifying, got>>,
           ret' \in [Endpoints -> ReturnCodes]
    PROVE  IndInv'
<1>1. registry \in [Endpoints -> SUBSET Chunks] /\ lent \in [Endpoints -> SUBSET Chunks]
      /\ p \in Endpoints /\ Publishers \cap Subscribers = {}
  BY PubSubAssumption DEF IndInv, TypeOK, Endpoints
<1>2. TypeOK'
  BY <1>1 DEF IndInv, TypeOK, ReturnCodes
<1>3. Visible' \subseteq Visible
  <2>1. \A s \in Subscribers : registry'[s] = registry[s]
    BY <1>1 DEF Endpoints
  <2>. QED
    BY <2>1, VisibleGrows
<1>4. LoansExclusive'
  <2>1. \A q \in Publishers : registry'[q] = IF q = p THEN R ELSE registry[q]
    BY <1>1 DEF Endpoints
  <2>. QED
    BY <1>3, <2>1 DEF IndInv, LoansExclusive
<1>5. LentStored'
  BY <1>1 DEF IndInv, LentStored, LoansInUse
<1>6. TakenSent'
  BY DEF IndInv, TakenSent
<1>7. BuffersInOrder'
  BY VisibleType, OrderKept
<1>. QED
  BY <1>2, <1>4, <1>5, <1>6, <1>7 DEF IndInv

\* A publisher sends memory c that nobody else refers to, with its next message.
LEMMA SendInductive ==
    ASSUME IndInv,
           NEW p \in Publishers, NEW c \in Chunks,
           c \notin Visible,
           \A q \in Publishers \ {p} : c \notin registry[q],
           registry' = [registry EXCEPT ![p] = @ \ {c}],
           lent' = [lent EXCEPT ![p] = @ \ {c}],
           content' = [content EXCEPT ![c] = Message(p, ExpectedFormat)],
           Deliver(p, c),
           UNCHANGED <<can_loan, got, ret>>
    PROVE  IndInv'
<1>1. /\ registry \in [Endpoints -> SUBSET Chunks] /\ lent \in [Endpoints -> SUBSET Chunks]
      /\ content \in [Chunks -> Payloads] /\ sent \in [Publishers -> Nat]
      /\ buffer \in [Subscribers -> Seq(Chunks)] /\ history \in [Publishers -> Seq(Chunks)]
      /\ p \in Endpoints /\ Publishers \cap Subscribers = {}
      /\ BufferSize \in Nat /\ HistorySize \in Nat
  BY PubSubAssumption DEF IndInv, TypeOK, Endpoints
<1>2. /\ buffer' = [s \in Subscribers |-> Push(buffer[s], BufferSize, c)]
      /\ history' = [history EXCEPT ![p] = Push(@, HistorySize, c)]
      /\ sent' = [sent EXCEPT ![p] = @ + 1]
      /\ notifying' = notifying \cup {p}
  BY DEF Deliver
<1>3. TypeOK'
  <2>1. Message(p, ExpectedFormat) \in Payloads
    BY <1>1 DEF Message, Payloads, ExpectedFormat, Formats
  <2>2. buffer' \in [Subscribers -> Seq(Chunks)] /\ history' \in [Publishers -> Seq(Chunks)]
    BY <1>1, <1>2, PushFollows
  <2>3. registry' \in [Endpoints -> SUBSET Chunks] /\ lent' \in [Endpoints -> SUBSET Chunks]
    BY <1>1
  <2>4. content' \in [Chunks -> Payloads] /\ sent' \in [Publishers -> Nat]
        /\ notifying' \subseteq Publishers
    BY <1>1, <1>2, <2>1 DEF IndInv, TypeOK
  <2>. QED
    BY <2>2, <2>3, <2>4 DEF IndInv, TypeOK
<1>4. Visible' \subseteq Visible \cup {c}
  <2>1. \A s \in Subscribers : Elements(buffer'[s]) \subseteq Elements(buffer[s]) \cup {c}
    BY <1>1, <1>2, PushElements
  <2>2. \A s \in Subscribers : registry'[s] = registry[s]
    BY <1>1 DEF Endpoints
  <2>3. \A q \in Publishers : Elements(history'[q]) \subseteq Elements(history[q]) \cup {c}
    BY <1>1, <1>2, PushElements
  <2>. QED
    BY <2>1, <2>2, <2>3, VisibleGrows
<1>5. LoansExclusive'
  <2>1. \A q \in Publishers : registry'[q] \subseteq registry[q] /\ c \notin registry'[q]
    BY <1>1 DEF Endpoints
  <2>. QED
    BY <1>4, <2>1 DEF IndInv, LoansExclusive
<1>6. LentStored'
  BY <1>1 DEF IndInv, LentStored, LoansInUse
<1>7. TakenSent'
  <2>1. \A q \in Publishers : sent'[q] \in Nat /\ sent[q] \in Nat /\ sent[q] <= sent'[q]
    BY <1>1, <1>2
  <2>2. \A s \in Subscribers : \A q \in Publishers : got[s][q] \in Nat
    BY DEF IndInv, TypeOK
  <2>. QED
    BY <2>1, <2>2 DEF IndInv, TakenSent
<1>8. BuffersInOrder'
  <2>. SUFFICES ASSUME NEW s \in Subscribers
                PROVE  Ordered(buffer'[s], content', got'[s], sent')
    BY BuffersOrderedNext
  <2>1. buffer'[s] = Push(buffer[s], BufferSize, c) /\ buffer[s] \in Seq(Chunks)
    BY <1>1, <1>2
  <2>4. IsMessage(content', c, p, sent')
    BY <1>1, <1>2 DEF Message, IsMessage
  <2>5. \A k \in DOMAIN buffer[s] : buffer[s][k] \in Chunks /\ buffer[s][k] # c
    BY <1>1, <2>1, BufferVisible DEF Elements
  <2>6. SamePayloads(buffer[s], content, content')
    BY <1>1, <2>5 DEF SamePayloads, Payloads, UNINIT
  <2>7. got[s] \in [Publishers -> Nat] /\ got[s][p] <= sent[p] /\ got' = got
    BY DEF IndInv, TypeOK, TakenSent
  <2>8. Ordered(buffer[s], content, got[s], sent)
    BY BuffersOrdered DEF IndInv
  <2>9. sent \in [Publishers -> Nat] /\ OneMoreSent(sent, sent', p)
        /\ buffer[s] \in Seq(Chunks)
    BY <1>1, <1>2 DEF OneMoreSent
  <2>10. ASSUME NEW con1, SamePayloads(buffer[s], content, con1),
                NEW n1, OneMoreSent(sent, n1, p), IsMessage(con1, c, p, n1)
         PROVE  Ordered(Push(buffer[s], BufferSize, c), con1, got[s], n1)
    BY <1>1, <2>7, <2>8, <2>9, <2>10, OrderedAfterPush
  <2>. QED
    BY <2>1, <2>4, <2>6, <2>7, <2>9, <2>10

<1>. QED
  BY <1>3, <1>5, <1>6, <1>7, <1>8 DEF IndInv

\* A subscriber receives the oldest sample c of its buffer, keeps it or not, and
\* hands the message to the application or not.
LEMMA ReceiveInductive ==
    ASSUME IndInv,
           NEW s \in Subscribers, NEW R, NEW L \in SUBSET Chunks,
           buffer[s] # <<>>,
           buffer' = [buffer EXCEPT ![s] = Tail(@)],
           R \subseteq registry[s] \cup {Head(buffer[s])},
           registry' = [registry EXCEPT ![s] = R],
           lent' = [lent EXCEPT ![s] = L],
           IF LoansInUse THEN R = L ELSE L = {},
           UNCHANGED <<can_loan, history, content, sent, notifying>>,
           \/ UNCHANGED got
           \/ LET m == content[Head(buffer[s])]
              IN  got' = [got EXCEPT ![s][m.from] = m.seq],
           ret' \in [Endpoints -> ReturnCodes]
    PROVE  IndInv'
<1> DEFINE m == content[Head(buffer[s])]
<1>1. /\ registry \in [Endpoints -> SUBSET Chunks] /\ lent \in [Endpoints -> SUBSET Chunks]
      /\ content \in [Chunks -> Payloads] /\ got \in [Subscribers -> [Publishers -> Nat]]
      /\ buffer \in [Subscribers -> Seq(Chunks)]
      /\ s \in Endpoints /\ Publishers \cap Subscribers = {}
  BY PubSubAssumption DEF IndInv, TypeOK, Endpoints
<1>2. /\ Head(buffer[s]) \in Chunks /\ Tail(buffer[s]) \in Seq(Chunks)
      /\ Head(buffer[s]) = buffer[s][1] /\ 1 \in DOMAIN buffer[s]
      /\ \A i \in DOMAIN Tail(buffer[s]) :
            i \in Nat \ {0} /\ i + 1 \in DOMAIN buffer[s]
              /\ Tail(buffer[s])[i] = buffer[s][i + 1]
      /\ Elements(Tail(buffer[s])) \cup {Head(buffer[s])} \subseteq Elements(buffer[s])
  BY <1>1, TailElements
<1>3. m.from \in Publishers /\ m.seq \in Nat /\ m.seq <= sent[m.from]
  <2>1. m \in Payloads
    BY <1>1, <1>2
  <2>2. InPlace(buffer[s], 1, content, got[s], sent)
    BY <1>2, BuffersOrdered DEF IndInv, Ordered
  <2>. QED
    BY <1>2, <2>1, <2>2 DEF InPlace, Payloads, UNINIT
<1>4. /\ got' \in [Subscribers -> [Publishers -> Nat]]
      /\ \A r \in Subscribers : \A q \in Publishers :
            got'[r][q] \in {got[r][q], IF r = s /\ q = m.from THEN m.seq ELSE got[r][q]}
  <2>1. CASE UNCHANGED got
    BY <1>1, <2>1
  <2>2. CASE got' = [got EXCEPT ![s][m.from] = m.seq]
    <3>. HIDE DEF m
    <3>. QED
      BY <1>1, <1>3, <2>2
  <2>. QED
    BY <2>1, <2>2
<1>. HIDE DEF m
<1>5. TypeOK'
  BY <1>1, <1>2, <1>4 DEF IndInv, TypeOK, ReturnCodes
<1>6. Visible' \subseteq Visible
  <2>1. \A r \in Subscribers : Elements(buffer'[r]) \subseteq Elements(buffer[r]) \cup {}
    BY <1>1, <1>2
  <2>2. \A r \in Subscribers : registry'[r] \subseteq registry[r] \cup Elements(buffer[r])
    BY <1>1, <1>2
  <2>. QED
    BY <2>1, <2>2, VisibleGrows
<1>7. LoansExclusive'
  <2>1. \A q \in Publishers : registry'[q] = registry[q]
    BY <1>1 DEF Endpoints
  <2>. QED
    BY <1>6, <2>1 DEF IndInv, LoansExclusive
<1>8. LentStored'
  BY <1>1 DEF IndInv, LentStored, LoansInUse
<1>9. TakenSent'
  BY <1>3, <1>4 DEF IndInv, TakenSent
<1>10. BuffersInOrder'
  <2>. SUFFICES ASSUME NEW r \in Subscribers
                PROVE  Ordered(buffer'[r], content', got'[r], sent')
    BY BuffersOrderedNext
  <2>1. Ordered(buffer[r], content, got[r], sent)
    BY BuffersOrdered DEF IndInv
  <2>2. CASE r # s
    <3>1. buffer'[r] = buffer[r] /\ \A q \in Publishers : got'[r][q] = got[r][q]
      BY <1>1, <1>4, <2>2
    <3>2. got'[r] = got[r]
      BY <1>1, <1>4, <3>1
    <3>. QED
      BY <2>1, <3>1, <3>2
  <2>3. CASE r = s
    <3>1. buffer'[s] = Tail(buffer[s]) /\ buffer[s] \in Seq(Chunks)
      BY <1>1
    <3>2. TakenNow(got[s], got'[s], content[Head(buffer[s])])
      BY <1>4 DEF TakenNow, m
    <3>3. Ordered(Tail(buffer[s]), content, got'[s], sent)
      BY <2>1, <2>3, <3>1, <3>2, OrderedAfterTake
    <3>. QED
      BY <2>3, <3>1, <3>3
  <2>. QED
    BY <2>2, <2>3
<1>. QED
  BY <1>5, <1>7, <1>8, <1>9, <1>10 DEF IndInv

(***************************************************************************)
(* Each operation keeps the invariant                                      *)
(***************************************************************************)

\* A return code is set.
LEMMA ReturnCodeType ==
    ASSUME IndInv, NEW e \in Endpoints, NEW code \in ReturnCodes
    PROVE  /\ ret \in [Endpoints -> ReturnCodes]
           /\ [ret EXCEPT ![e] = code] \in [Endpoints -> ReturnCodes]
  BY DEF IndInv, TypeOK, ReturnCodes

\* A call that fails before it changes anything.
LEMMA FailsInductive ==
    ASSUME IndInv, NEW e \in Endpoints, Fails(e)
    PROVE  IndInv'
<1>1. ret' \in [Endpoints -> ReturnCodes]
  BY ReturnCodeType DEF Fails, ReturnCodes
<1>2. notifying' \subseteq Publishers
  BY DEF Fails, IndInv, TypeOK
<1>. QED
  BY <1>1, <1>2, QuietInductive DEF Fails

\* Sending memory that was free: nothing changes in the registry.
LEMMA SendFreeInductive ==
    ASSUME IndInv, NEW p \in Publishers, NEW c \in Free,
           content' = [content EXCEPT ![c] = Message(p, ExpectedFormat)],
           Deliver(p, c),
           UNCHANGED <<can_loan, registry, lent, got, ret>>
    PROVE  IndInv'
<1>1. /\ registry \in [Endpoints -> SUBSET Chunks] /\ lent \in [Endpoints -> SUBSET Chunks]
      /\ p \in Endpoints
  BY DEF IndInv, TypeOK, Endpoints
<1>2. /\ c \in Chunks /\ c \notin Visible /\ \A q \in Publishers : c \notin registry[q]
  BY FreeIsUnused
<1>3. c \notin lent[p]
  BY <1>1, <1>2 DEF IndInv, LentStored
<1>4. registry' = [registry EXCEPT ![p] = @ \ {c}] /\ lent' = [lent EXCEPT ![p] = @ \ {c}]
  BY <1>1, <1>2, <1>3
<1>. QED
  BY <1>2, <1>4, SendInductive

\* publish_copy.
LEMMA PublishCopyInductive ==
    ASSUME IndInv, NEW p \in Publishers, publish_copy(p, ExpectedFormat)
    PROVE  IndInv'
<1>1. CASE \E c \in Free : /\ content' = [content EXCEPT ![c] = Message(p, ExpectedFormat)]
                           /\ Deliver(p, c)
                           /\ UNCHANGED <<can_loan, registry, lent, got, ret>>
  BY <1>1, SendFreeInductive
<1>2. CASE Fails(p)
  BY <1>2, FailsInductive DEF Endpoints
<1>. QED
  BY <1>1, <1>2 DEF publish_copy

\* The loan is stored, written and given up again, or it stays where rmw_serialize
\* has failed.
LEMMA PublishSerializedInductive ==
    ASSUME IndInv, ~LoansInUse, NEW p \in Publishers, PublishSerialized(p)
    PROVE  IndInv'
<1>1. /\ registry \in [Endpoints -> SUBSET Chunks] /\ lent \in [Endpoints -> SUBSET Chunks]
      /\ content \in [Chunks -> Payloads] /\ p \in Endpoints
  BY DEF IndInv, TypeOK, Endpoints
<1>2. ASSUME NEW c \in Free,
             rmw_serialize(p, c),
             registry' = [registry EXCEPT ![p] = release(store(@, c), c)],
             Deliver(p, c), UNCHANGED <<can_loan, lent, got, ret>>
      PROVE  IndInv'
  <2>1. c \notin registry[p]
    BY FreeIsUnused
  <2>2. registry' = registry
    BY <1>1, <1>2, <2>1 DEF release, store
  <2>3. content' = [content EXCEPT ![c] = Message(p, ExpectedFormat)]
    BY <1>2 DEF rmw_serialize, ExpectedFormat, LoansInUse
  <2>. QED
    BY <1>2, <2>2, <2>3, SendFreeInductive
<1>3. ASSUME NEW c \in Free,
             loan(p, c), ret' = [ret EXCEPT ![p] = "ERROR"],
             UNCHANGED <<can_loan, lent, buffer, history, content, sent, notifying, got>>
      PROVE  IndInv'
  <2>1. c \in Chunks /\ c \notin Visible /\ \A q \in Publishers : c \notin registry[q]
    BY FreeIsUnused
  <2>2. registry' = [registry EXCEPT ![p] = registry[p] \cup {c}]
    BY <1>3 DEF loan, store
  <2>3. lent[p] = {} /\ lent' = [lent EXCEPT ![p] = {}]
    BY <1>1, <1>3 DEF IndInv, LentStored
  <2>4. ret' \in [Endpoints -> ReturnCodes]
    BY <1>1, <1>3, ReturnCodeType DEF ReturnCodes
  <2>. QED
    BY <1>1, <1>3, <2>1, <2>2, <2>3, <2>4, LoanInductive
<1>4. CASE Fails(p)
  BY <1>1, <1>4, FailsInductive
<1>. QED
  BY <1>2, <1>3, <1>4 DEF PublishSerialized

\* rmw_borrow_loaned_message.
LEMMA BorrowInductive ==
    ASSUME IndInv, NEW p \in Publishers, RmwBorrow(p)
    PROVE  IndInv'
<1>1. /\ registry \in [Endpoints -> SUBSET Chunks] /\ lent \in [Endpoints -> SUBSET Chunks]
      /\ content \in [Chunks -> Payloads] /\ p \in Endpoints /\ UNINIT \in Payloads
  BY DEF IndInv, TypeOK, Endpoints, Payloads
<1>2. LoansInUse
  BY DEF RmwBorrow, LoansInUse
<1>3. ASSUME NEW c \in Free,
             loan(p, c), lent' = [lent EXCEPT ![p] = @ \cup {c}],
             content' = [content EXCEPT ![c] = UNINIT],
             ret' = [ret EXCEPT ![p] = "OK"],
             UNCHANGED <<can_loan, buffer, history, sent, notifying, got>>
      PROVE  IndInv'
  <2>1. c \in Chunks /\ c \notin Visible /\ \A q \in Publishers : c \notin registry[q]
    BY FreeIsUnused
  <2>2. registry' = [registry EXCEPT ![p] = registry[p] \cup {c}]
    BY <1>3 DEF loan, store
  <2>3. registry[p] = lent[p] /\ lent[p] \cup {c} \in SUBSET Chunks
    BY <1>1, <1>2, <2>1 DEF IndInv, LentStored
  <2>4. ret' \in [Endpoints -> ReturnCodes]
    BY <1>1, <1>3, ReturnCodeType DEF ReturnCodes
  <2>5. content' \in [Chunks -> Payloads] /\ \A x \in Chunks \ {c} : content'[x] = content[x]
    BY <1>1, <1>3
  <2>. QED
    BY <1>2, <1>3, <2>1, <2>2, <2>3, <2>4, <2>5, LoanInductive
<1>4. CASE Fails(p)
  BY <1>1, <1>4, FailsInductive
<1>. QED
  BY <1>3, <1>4 DEF RmwBorrow

\* What is in the registry of a publisher is nowhere else.
LEMMA StoredIsExclusive ==
    ASSUME IndInv, NEW p \in Publishers, NEW c \in registry[p]
    PROVE  /\ c \in Chunks /\ c \notin Visible
           /\ \A q \in Publishers \ {p} : c \notin registry[q]
  BY DEF IndInv, TypeOK, LoansExclusive, Endpoints

\* rmw_publish_loaned_message, of any address.
LEMMA PublishLoanedInductive ==
    ASSUME IndInv, NEW p \in Publishers, NEW c \in Chunks, RmwPublishLoaned(p, c)
    PROVE  IndInv'
<1>1. /\ registry \in [Endpoints -> SUBSET Chunks] /\ lent \in [Endpoints -> SUBSET Chunks]
      /\ content \in [Chunks -> Payloads] /\ p \in Endpoints /\ sent \in [Publishers -> Nat]
  BY DEF IndInv, TypeOK, Endpoints
<1>2. c \in registry[p] => LoansInUse
  BY DEF RmwPublishLoaned, LoansInUse
<1>3. LoansInUse => registry[p] = lent[p]
  BY <1>1 DEF IndInv, LentStored, LoansInUse
<1>4. CASE Fails(p)
  BY <1>1, <1>4, FailsInductive
<1>5. ASSUME publish_loan(p, c),
             lent' = [lent EXCEPT ![p] = @ \ {c}],
             content' = IF c \in lent[p]
                        THEN [content EXCEPT ![c] = Message(p, "raw")] ELSE content,
             UNCHANGED <<can_loan, got>>
      PROVE  IndInv'
  <2>1. /\ c \in registry[p] /\ c \notin Visible
        /\ \A q \in Publishers \ {p} : c \notin registry[q]
    BY <1>5, StoredIsExclusive DEF publish_loan
  <2>2. registry' = [registry EXCEPT ![p] = @ \ {c}]
    BY <1>5 DEF publish_loan, release
  <2>3. content' = [content EXCEPT ![c] = Message(p, ExpectedFormat)]
    BY <1>2, <1>3, <1>5, <2>1 DEF ExpectedFormat, LoansInUse
  <2>4. CASE Deliver(p, c) /\ UNCHANGED ret
    BY <1>5, <2>1, <2>2, <2>3, <2>4, SendInductive
  <2>5. CASE ret' = [ret EXCEPT ![p] = "ERROR"] /\ UNCHANGED <<buffer, history, sent, notifying>>
    <3>1. ret' \in [Endpoints -> ReturnCodes]
      BY <1>1, <2>5, ReturnCodeType DEF ReturnCodes
    <3>2. Message(p, ExpectedFormat) \in Payloads
      BY <1>1 DEF Message, Payloads, ExpectedFormat, Formats
    <3>3. content' \in [Chunks -> Payloads] /\ \A x \in Chunks \ {c} : content'[x] = content[x]
      BY <1>1, <2>3, <3>2
    <3>4. lent[p] \ {c} \in SUBSET Chunks
      BY <1>1
    <3>. QED
      BY <1>2, <1>3, <1>5, <2>1, <2>2, <2>5, <3>1, <3>3, <3>4, LoanInductive
  <2>. QED
    BY <1>5, <2>4, <2>5 DEF publish_loan
<1>. QED
  BY <1>4, <1>5 DEF RmwPublishLoaned

\* The notification that ends a publish.
LEMMA NotifiesInductive ==
    ASSUME IndInv, NEW p \in Publishers, PublishNotifies(p)
    PROVE  IndInv'
<1>1. ret' \in [Endpoints -> ReturnCodes]
  BY ReturnCodeType DEF PublishNotifies, ReturnCodes, Endpoints
<1>2. notifying' \subseteq Publishers
  BY DEF PublishNotifies, IndInv, TypeOK
<1>. QED
  BY <1>1, <1>2, QuietInductive DEF PublishNotifies

\* Giving back a loan, by either kind of endpoint.
LEMMA ReturnInductive ==
    ASSUME IndInv, NEW e \in Endpoints, NEW c \in Chunks, RmwReturnLoaned(e, c)
    PROVE  IndInv'
<1>1. CASE Fails(e)
  BY <1>1, FailsInductive
<1>2. ASSUME c \in registry[e],
             registry' = [registry EXCEPT ![e] = @ \ {c}],
             lent' = [lent EXCEPT ![e] = @ \ {c}],
             ret' = [ret EXCEPT ![e] = "OK"],
             UNCHANGED <<can_loan, buffer, history, content, sent, notifying, got>>
      PROVE  IndInv'
  <2>1. registry \in [Endpoints -> SUBSET Chunks] /\ lent \in [Endpoints -> SUBSET Chunks]
    BY DEF IndInv, TypeOK
  <2>2. ret' \in [Endpoints -> ReturnCodes]
    BY <1>2, ReturnCodeType DEF ReturnCodes
  <2>3. TypeOK'
    BY <1>2, <2>1, <2>2 DEF IndInv, TypeOK, ReturnCodes
  <2>4. \A f \in Endpoints : registry'[f] \subseteq registry[f]
    BY <1>2, <2>1
  <2>5. Visible' \subseteq Visible
    BY <1>2, <2>4, VisibleGrows DEF Endpoints
  <2>6. LoansExclusive'
    BY <2>4, <2>5 DEF IndInv, LoansExclusive, Endpoints
  <2>7. LentStored'
    BY <1>2, <2>1 DEF IndInv, LentStored, LoansInUse
  <2>8. TakenSent' /\ BuffersInOrder'
    BY <1>2, OrderKept DEF IndInv, TakenSent
  <2>. QED
    BY <2>3, <2>6, <2>7, <2>8 DEF IndInv
<1>. QED
  BY <1>1, <1>2 DEF RmwReturnLoaned, return_loan, release

\* The application fills memory it has borrowed.
LEMMA AppWritesInductive ==
    ASSUME IndInv, NEW p \in Publishers, NEW c \in Chunks, AppWrites(p, c)
    PROVE  IndInv'
<1>1. /\ registry \in [Endpoints -> SUBSET Chunks] /\ lent \in [Endpoints -> SUBSET Chunks]
      /\ content \in [Chunks -> Payloads] /\ p \in Endpoints
  BY DEF IndInv, TypeOK, Endpoints
<1>2. LoansInUse /\ registry[p] = lent[p] /\ c \in registry[p]
  BY <1>1 DEF AppWrites, IndInv, LentStored
<1>3. /\ c \notin Visible /\ \A q \in Publishers \ {p} : c \notin registry[q]
  BY <1>2, StoredIsExclusive
<1>4. [from |-> p, seq |-> 0, format |-> "draft"] \in Payloads
  BY DEF Payloads
<1>5. content' \in [Chunks -> Payloads] /\ \A x \in Chunks \ {c} : content'[x] = content[x]
  BY <1>1, <1>4 DEF AppWrites
<1>6. registry' = [registry EXCEPT ![p] = registry[p]] /\ lent' = [lent EXCEPT ![p] = lent[p]]
  BY <1>1 DEF AppWrites
<1>7. ret' \in [Endpoints -> ReturnCodes]
        /\ UNCHANGED <<can_loan, buffer, history, sent, notifying, got>>
  BY DEF AppWrites, IndInv, TypeOK, ReturnCodes
<1>8. lent[p] \in SUBSET Chunks
  BY <1>1
<1>. QED
  BY <1>2, <1>3, <1>5, <1>6, <1>7, <1>8, LoanInductive

\* A take from an empty buffer.
LEMMA TakeNothingInductive ==
    ASSUME IndInv, NEW s \in Subscribers, TakeNothing(s)
    PROVE  IndInv'
<1>1. ret' \in [Endpoints -> ReturnCodes]
  BY ReturnCodeType DEF TakeNothing, ReturnCodes, Endpoints
<1>2. notifying' \subseteq Publishers
  BY DEF TakeNothing, IndInv, TypeOK
<1>. QED
  BY <1>1, <1>2, QuietInductive DEF TakeNothing

\* take_copy.
LEMMA TakeCopyInductive ==
    ASSUME IndInv, NEW s \in Subscribers, take_copy(s)
    PROVE  IndInv'
<1>1. /\ registry \in [Endpoints -> SUBSET Chunks] /\ lent \in [Endpoints -> SUBSET Chunks]
      /\ s \in Endpoints
  BY DEF IndInv, TypeOK, Endpoints
<1>2. LoansInUse /\ registry[s] = lent[s] /\ lent[s] \in SUBSET Chunks
  BY <1>1 DEF take_copy, IndInv, LentStored, LoansInUse
<1>3. registry' = [registry EXCEPT ![s] = registry[s]] /\ lent' = [lent EXCEPT ![s] = lent[s]]
  BY <1>1 DEF take_copy
<1>4. /\ buffer[s] # <<>> /\ buffer' = [buffer EXCEPT ![s] = Tail(@)]
      /\ UNCHANGED <<can_loan, history, content, sent, notifying>>
      /\ LET m == content[Head(buffer[s])]
         IN  got' = [got EXCEPT ![s][m.from] = m.seq]
  BY DEF take_copy, receive, Take
<1>5. ret' \in [Endpoints -> ReturnCodes]
  BY <1>1, ReturnCodeType DEF take_copy, Take, ReturnCodes
<1>. QED
  BY <1>2, <1>3, <1>4, <1>5, ReceiveInductive

\* Where messages are converted nothing is lent.  A failed conversion leaves the
\* sample in the registry.
LEMMA TakeConvertedInductive ==
    ASSUME IndInv, ~LoansInUse, NEW s \in Subscribers, NEW fault, TakeConverted(s, fault)
    PROVE  IndInv'
<1> DEFINE c == Head(buffer[s])
           kept == registry[s] \ {c}
           more == registry[s] \cup {c}
<1>1. /\ registry \in [Endpoints -> SUBSET Chunks] /\ lent \in [Endpoints -> SUBSET Chunks]
      /\ s \in Endpoints
  BY DEF IndInv, TypeOK, Endpoints
<1>2. lent' = [lent EXCEPT ![s] = {}]
  BY <1>1 DEF TakeConverted, IndInv, LentStored
<1>3. /\ buffer[s] # <<>> /\ buffer' = [buffer EXCEPT ![s] = Tail(@)]
      /\ UNCHANGED <<can_loan, history, content, sent, notifying>>
      /\ \/ UNCHANGED got
         \/ LET m == content[Head(buffer[s])]
            IN  got' = [got EXCEPT ![s][m.from] = m.seq]
  BY DEF TakeConverted, take_loan, receive, Take
<1>4. ret' \in [Endpoints -> ReturnCodes]
  BY <1>1, ReturnCodeType DEF TakeConverted, Take, ReturnCodes
<1>5. \/ registry' = [registry EXCEPT ![s] = kept]
      \/ registry' = [registry EXCEPT ![s] = more]
  <2>1. release(store(registry[s], c), c) = kept /\ store(registry[s], c) = more
    BY DEF release, store
  <2>. HIDE DEF kept, more
  <2>. QED
    BY <2>1 DEF TakeConverted, take_loan
<1>6. PICK R : /\ registry' = [registry EXCEPT ![s] = R]
               /\ R \subseteq registry[s] \cup {Head(buffer[s])}
  BY <1>5
<1>7. PICK L \in SUBSET Chunks : L = {} /\ lent' = [lent EXCEPT ![s] = L]
  BY <1>2
<1>. QED
  BY <1>3, <1>4, <1>6, <1>7, ReceiveInductive

\* rmw_take_loaned_message.
LEMMA TakeLoanedInductive ==
    ASSUME IndInv, NEW s \in Subscribers, RmwTakeLoaned(s)
    PROVE  IndInv'
<1> DEFINE c == Head(buffer[s])
<1>1. /\ registry \in [Endpoints -> SUBSET Chunks] /\ lent \in [Endpoints -> SUBSET Chunks]
      /\ s \in Endpoints
  BY DEF IndInv, TypeOK, Endpoints
<1>2. /\ buffer[s] # <<>> /\ buffer' = [buffer EXCEPT ![s] = Tail(@)]
      /\ UNCHANGED <<can_loan, history, content, sent, notifying>>
      /\ LET m == content[Head(buffer[s])]
         IN  got' = [got EXCEPT ![s][m.from] = m.seq]
  BY DEF RmwTakeLoaned, take_loan, receive, Take
<1>3. c \in Chunks
  BY <1>2, TailElements DEF IndInv, TypeOK
<1>4. /\ LoansInUse /\ registry[s] = lent[s] /\ lent[s] \cup {c} \in SUBSET Chunks
  BY <1>1, <1>3 DEF RmwTakeLoaned, IndInv, LentStored, LoansInUse
<1>5. /\ registry' = [registry EXCEPT ![s] = registry[s] \cup {c}]
      /\ lent' = [lent EXCEPT ![s] = lent[s] \cup {c}]
  BY DEF RmwTakeLoaned, take_loan, store
<1>6. ret' \in [Endpoints -> ReturnCodes]
  BY <1>1, ReturnCodeType DEF RmwTakeLoaned, Take, ReturnCodes
<1>. QED
  BY <1>2, <1>4, <1>5, <1>6, ReceiveInductive

\* The calls of a publisher
LEMMA PublisherInductive ==
    ASSUME IndInv, NEW p \in Publishers, PublisherStep(p)
    PROVE  IndInv'
<1>1. CASE RmwPublish(p)
  <2>1. LoansInUse => publish_copy(p, ExpectedFormat)
    BY <1>1 DEF RmwPublish, ExpectedFormat, LoansInUse
  <2>2. ~LoansInUse => PublishSerialized(p)
    BY <1>1 DEF RmwPublish, LoansInUse
  <2>. QED
    BY <2>1, <2>2, PublishCopyInductive, PublishSerializedInductive
<1>2. CASE RmwPublishSerialized(p)
  <2>1. publish_copy(p, ExpectedFormat)
    BY <1>2 DEF RmwPublishSerialized, ExpectedFormat
  <2>. QED
    BY <2>1, PublishCopyInductive
<1>3. CASE \E c \in Chunks : RmwPublishLoaned(p, c)
  BY <1>3, PublishLoanedInductive
<1>4. CASE RmwBorrow(p)
  BY <1>4, BorrowInductive
<1>5. CASE PublishNotifies(p)
  BY <1>5, NotifiesInductive
<1>6. CASE \E c \in Chunks : RmwReturnLoaned(p, c)
  BY <1>6, ReturnInductive DEF Endpoints
<1>7. CASE \E c \in Chunks : AppWrites(p, c)
  BY <1>7, AppWritesInductive
<1>. QED
  BY <1>1, <1>2, <1>3, <1>4, <1>5, <1>6, <1>7 DEF PublisherStep, Publish

\* and those of a subscription keep the invariant;
LEMMA SubscriberInductive ==
    ASSUME IndInv, NEW s \in Subscribers, SubscriberStep(s)
    PROVE  IndInv'
<1>1. CASE RmwTake(s)
  BY <1>1, TakeCopyInductive, TakeConvertedInductive DEF RmwTake, LoansInUse
<1>2. CASE RmwTakeSerialized(s)
  BY <1>2, TakeConvertedInductive DEF RmwTakeSerialized, LoansInUse
<1>3. CASE RmwTakeLoaned(s)
  BY <1>3, TakeLoanedInductive
<1>4. CASE TakeNothing(s)
  BY <1>4, TakeNothingInductive
<1>5. CASE ReceiveFails(s)
  BY <1>5, FailsInductive DEF ReceiveFails, Endpoints
<1>6. CASE \E c \in Chunks : RmwReturnLoaned(s, c)
  BY <1>6, ReturnInductive DEF Endpoints
<1>. QED
  BY <1>1, <1>2, <1>3, <1>4, <1>5, <1>6 DEF SubscriberStep, TakeStep

\* so does every step,
LEMMA NextInductive == IndInv /\ [Next]_vars => IndInv'
<1> SUFFICES ASSUME IndInv, [Next]_vars PROVE IndInv'
  OBVIOUS
<1>1. CASE Next
  BY <1>1, PublisherInductive, SubscriberInductive DEF Next
<1>2. CASE UNCHANGED vars
  <2>1. UNCHANGED <<can_loan, registry, lent, buffer, history, content, sent, got, notifying, ret>>
    BY <1>2 DEF vars
  <2>2. notifying' \subseteq Publishers /\ ret' \in [Endpoints -> ReturnCodes]
    BY <2>1 DEF IndInv, TypeOK, ReturnCodes
  <2>. QED
    BY <2>1, <2>2, QuietInductive
<1>. QED
  BY <1>1, <1>2

\* and it holds in every reachable state.
LEMMA IndInvHolds == Spec => []IndInv
  BY InitInductive, NextInductive, PTL DEF Spec

(***************************************************************************)
(* Theorems                                                                *)
(***************************************************************************)

\* Every variable keeps its type, whatever calls are made and fail.
THEOREM TypeCorrect == Spec => []TypeOK
<1>1. IndInv => TypeOK
  BY DEF IndInv
<1>. QED
  BY <1>1, IndInvHolds, PTL

\* publish_loan, return_loan, take and the reuse of memory never let two
\* publishers have the same memory on loan, or a publisher write to memory that a
\* subscriber can read.
THEOREM LoansAreExclusive == Spec => []LoansExclusive
<1>1. IndInv => LoansExclusive
  BY DEF IndInv
<1>. QED
  BY <1>1, IndInvHolds, PTL

\* The buffers hold whole messages in the format the take operations read, each
\* publisher's in the order of rmw_publish, for any number of endpoints, sizes of
\* buffers and failures.
THEOREM BuffersAreInOrder == Spec => []BuffersInOrder
<1>1. IndInv => BuffersInOrder
  BY DEF IndInv
<1>. QED
  BY <1>1, IndInvHolds, PTL

(***************************************************************************)
(* Payloads are stable                                                     *)
(***************************************************************************)

\* No step writes to memory that is visible.
LEMMA WritesOnlyInvisible ==
    ASSUME IndInv, Next, NEW x \in Visible
    PROVE  content'[x] = content[x]
<1>1. content \in [Chunks -> Payloads] /\ x \in Chunks
  BY VisibleType DEF IndInv, TypeOK
<1>2. ASSUME NEW c \in Free, NEW m, content' = [content EXCEPT ![c] = m]
      PROVE  content'[x] = content[x]
  BY <1>1, <1>2, FreeIsUnused
<1>3. ASSUME NEW p \in Publishers, Publish(p)
      PROVE  content'[x] = content[x]
  <2>1. ASSUME NEW format, publish_copy(p, format)
        PROVE  content'[x] = content[x]
    BY <1>2, <2>1 DEF publish_copy, Fails
  <2>2. CASE PublishSerialized(p)
    BY <1>2, <2>2 DEF PublishSerialized, rmw_serialize, Fails
  <2>3. ASSUME NEW c \in Chunks, RmwPublishLoaned(p, c)
        PROVE  content'[x] = content[x]
    <3>1. CASE c \in registry[p]
      <4>1. x # c
        BY <3>1, StoredIsExclusive
      <4>2. content' = [content EXCEPT ![c] = Message(p, "raw")] \/ content' = content
        BY <2>3 DEF RmwPublishLoaned, Fails
      <4>. QED
        BY <1>1, <4>1, <4>2
    <3>2. CASE c \notin registry[p]
      BY <2>3, <3>2 DEF RmwPublishLoaned, publish_loan, Fails
    <3>. QED
      BY <3>1, <3>2
  <2>. QED
    BY <1>3, <2>1, <2>2, <2>3 DEF Publish, RmwPublish, RmwPublishSerialized
<1>4. ASSUME NEW p \in Publishers, RmwBorrow(p)
      PROVE  content'[x] = content[x]
  BY <1>2, <1>4 DEF RmwBorrow, Fails
<1>5. ASSUME NEW p \in Publishers, PublishNotifies(p)
      PROVE  content'[x] = content[x]
  BY <1>5 DEF PublishNotifies
<1>6. ASSUME NEW e, NEW c, RmwReturnLoaned(e, c)
      PROVE  content'[x] = content[x]
  BY <1>6 DEF RmwReturnLoaned, Fails
<1>7. ASSUME NEW p \in Publishers, NEW c \in Chunks, AppWrites(p, c)
      PROVE  content'[x] = content[x]
  <2>1. c \in registry[p]
    BY <1>7 DEF AppWrites, IndInv, LentStored, Endpoints
  <2>. QED
    BY <1>1, <1>7, <2>1, StoredIsExclusive DEF AppWrites
<1>8. ASSUME NEW s \in Subscribers, SubscriberStep(s)
      PROVE  content'[x] = content[x]
  <2>1. CASE TakeStep(s)
    BY <2>1 DEF TakeStep, RmwTake, RmwTakeSerialized, RmwTakeLoaned, take_copy, TakeConverted
  <2>2. CASE TakeNothing(s) \/ ReceiveFails(s)
    BY <2>2 DEF TakeNothing, ReceiveFails, Fails
  <2>. QED
    BY <1>6, <1>8, <2>1, <2>2 DEF SubscriberStep
<1>. QED
  BY <1>3, <1>4, <1>5, <1>6, <1>7, <1>8 DEF Next, PublisherStep

\* No publish, borrow or write of the application changes a payload while a
\* subscriber may yet receive it or has it on loan.
THEOREM PayloadsAreStable == Spec => PayloadStable
<1>1. IndInv => Readable = Visible
  <2> SUFFICES ASSUME IndInv, NEW s \in Subscribers PROVE lent[s] \subseteq Visible
    BY DEF Readable
  <2>1. lent[s] \subseteq registry[s]
    BY DEF IndInv, LentStored, Endpoints
  <2>. QED
    BY <2>1, BufferVisible
<1>2. IndInv /\ [Next]_vars
        => [\A c \in Readable : c \in Readable' => content'[c] = content[c]]_vars
  BY <1>1, WritesOnlyInvisible
<1>. QED
  BY <1>2, IndInvHolds, PTL DEF Spec, PayloadStable

(***************************************************************************)
(* No loan leaks                                                           *)
(***************************************************************************)

\* Whether messages can be loaned is settled when the endpoints are created.
LEMMA CanLoanFixed == [Next]_vars => UNCHANGED can_loan
<1>1. ASSUME NEW e, Fails(e) PROVE UNCHANGED can_loan
  BY <1>1 DEF Fails
<1>2. ASSUME NEW p \in Publishers, PublisherStep(p) PROVE UNCHANGED can_loan
  BY <1>1, <1>2
  DEF PublisherStep, Publish, RmwPublish, RmwPublishSerialized, publish_copy, PublishSerialized,
      RmwPublishLoaned, RmwBorrow, RmwReturnLoaned, PublishNotifies, AppWrites
<1>3. ASSUME NEW s \in Subscribers, SubscriberStep(s) PROVE UNCHANGED can_loan
  BY <1>1, <1>3
  DEF SubscriberStep, TakeStep, RmwTake, RmwTakeSerialized, take_copy, TakeConverted,
      RmwTakeLoaned, TakeNothing, ReceiveFails, RmwReturnLoaned
<1>. QED
  BY <1>2, <1>3 DEF Next, vars

\* Where messages are converted and no conversion can fail the registries are
\* empty between calls.
RegistriesEmpty ==
    ~LoansInUse /\ Faults \cap ConversionFaults = {} => \A e \in Endpoints : registry[e] = {}

\* With all conversions succeeding and no loans in use, each call empties the
\* registry it has filled.
LEMMA RegistriesStayEmpty == IndInv /\ RegistriesEmpty /\ [Next]_vars => RegistriesEmpty'
<1> SUFFICES ASSUME IndInv, RegistriesEmpty, [Next]_vars, ~LoansInUse',
                    Faults \cap ConversionFaults = {}
             PROVE  \A e \in Endpoints : registry'[e] = {}
  BY DEF RegistriesEmpty
<1>0. UNCHANGED can_loan
  BY CanLoanFixed
<1>1. /\ registry \in [Endpoints -> SUBSET Chunks] /\ \A e \in Endpoints : registry[e] = {}
      /\ Faults \cap {"serialize", "deserialize", "resize"} = {}
      /\ ~LoansInUse
  BY <1>0 DEF IndInv, TypeOK, RegistriesEmpty, ConversionFaults, LoansInUse
<1>2. CASE UNCHANGED registry
  BY <1>1, <1>2
<1>3. ASSUME NEW e \in Endpoints, NEW c,
             registry' = [registry EXCEPT ![e] = release(store(@, c), c)]
      PROVE  \A f \in Endpoints : registry'[f] = {}
  BY <1>1, <1>3 DEF release, store
<1>4. ASSUME NEW p \in Publishers, PublisherStep(p)
      PROVE  \A e \in Endpoints : registry'[e] = {}
  <2>1. ASSUME NEW format, publish_copy(p, format)
        PROVE  UNCHANGED registry
    BY <2>1 DEF publish_copy, Fails
  <2>2. CASE PublishSerialized(p)
    BY <1>1, <1>2, <1>3, <2>2 DEF PublishSerialized, Fails, Endpoints
  <2>3. CASE PublishNotifies(p) \/ \E c \in Chunks : AppWrites(p, c)
    BY <1>2, <2>3 DEF PublishNotifies, AppWrites
  <2>4. ASSUME NEW c \in Chunks, RmwPublishLoaned(p, c)
        PROVE  UNCHANGED registry
    BY <1>1, <2>4 DEF RmwPublishLoaned, publish_loan, Fails, Endpoints
  <2>. QED
    BY <1>1, <1>2, <1>4, <2>1, <2>2, <2>3, <2>4
    DEF PublisherStep, Publish, RmwPublish, RmwPublishSerialized, RmwBorrow, RmwReturnLoaned
<1>5. ASSUME NEW s \in Subscribers, SubscriberStep(s)
      PROVE  \A e \in Endpoints : registry'[e] = {}
  <2>1. ASSUME NEW fault \in {"deserialize", "resize"}, TakeConverted(s, fault)
        PROVE  \A e \in Endpoints : registry'[e] = {}
    BY <1>1, <1>3, <2>1 DEF TakeConverted, Endpoints
  <2>2. CASE TakeNothing(s) \/ ReceiveFails(s)
    BY <1>2, <2>2 DEF TakeNothing, ReceiveFails, Fails
  <2>. QED
    BY <1>1, <1>5, <2>1, <2>2
    DEF SubscriberStep, TakeStep, RmwTake, RmwTakeSerialized, RmwTakeLoaned, take_copy,
        RmwReturnLoaned
<1>. QED
  BY <1>2, <1>4, <1>5 DEF Next, vars

\* The registries hold what the application has on loan and nothing else, unless
\* a conversion can fail between store and return_loan: the error returns of
\* rmw_publish, rmw_take and rmw_take_serialized_message are the only leaks.
THEOREM NoLoanLeaks == Spec => []NoLeakedLoans
<1>1. Init => RegistriesEmpty
  BY DEF Init, RegistriesEmpty
<1>2. IndInv /\ RegistriesEmpty => NoLeakedLoans
  BY DEF IndInv, LentStored, RegistriesEmpty, NoLeakedLoans
<1>. QED
  BY <1>1, <1>2, RegistriesStayEmpty, IndInvHolds, PTL DEF Spec
===============================================================================
