---------------------------- MODULE StreamProofs ----------------------------
(***************************************************************************)
(* What the live feed shows its clients, for any number of clients, any    *)
(* capacity of their queues and any number of events.  Everything is said  *)
(* of the feed of a client, its yielded events followed by its queue: the  *)
(* generator moves events from one to the other and leaves the feed as it  *)
(* is, and a broadcast appends an event that is larger than all before.    *)
(***************************************************************************)
EXTENDS EventStream, SequenceTheorems, TLAPS

Events == 1 .. MaxEvents

-----------------------------------------------------------------------------
(* The feed under the two operations on its parts.                         *)

\* Taking the head of the queue leaves the feed as it is.
LEMMA MoveHead ==
  ASSUME NEW s \in Seq(Events), NEW q \in Seq(Events), q # <<>>
  PROVE  Append(s, Head(q)) \o Tail(q) = s \o q
<1>. DEFINE t == Append(s, Head(q))
            left == t \o Tail(q)
            right == s \o q
<1>1. /\ Head(q) = q[1] /\ Head(q) \in Events
      /\ Tail(q) \in Seq(Events) /\ Len(Tail(q)) = Len(q) - 1
      /\ \A i \in 1 .. Len(Tail(q)) : Tail(q)[i] = q[i + 1]
  BY HeadTailProperties
<1>2. /\ t \in Seq(Events) /\ Len(t) = Len(s) + 1
      /\ \A i \in 1 .. Len(s) : t[i] = s[i]
      /\ t[Len(s) + 1] = Head(q)
  BY <1>1, AppendProperties
<1>3. Len(s) \in Nat /\ Len(q) \in Nat \ {0}
  BY LenProperties, EmptySeq
<1>4. /\ left \in Seq(Events) /\ Len(left) = Len(s) + Len(q)
      /\ \A i \in 1 .. Len(s) + Len(q) :
           left[i] = IF i <= Len(s) + 1 THEN t[i] ELSE Tail(q)[i - (Len(s) + 1)]
  <2>. HIDE DEF t
  <2>1. /\ left \in Seq(Events) /\ Len(left) = Len(t) + Len(Tail(q))
        /\ \A i \in 1 .. Len(t) + Len(Tail(q)) :
             left[i] = IF i <= Len(t) THEN t[i] ELSE Tail(q)[i - Len(t)]
    BY <1>1, <1>2, ConcatProperties
  <2>2. Len(t) + Len(Tail(q)) = Len(s) + Len(q)
    BY <1>1, <1>2, <1>3
  <2>. QED
    BY <1>2, <2>1, <2>2
<1>5. /\ right \in Seq(Events) /\ Len(right) = Len(s) + Len(q)
      /\ \A i \in 1 .. Len(s) + Len(q) :
           right[i] = IF i <= Len(s) THEN s[i] ELSE q[i - Len(s)]
  BY ConcatProperties
<1>6. ASSUME NEW i \in 1 .. Len(s) + Len(q)
      PROVE  left[i] = right[i]
  <2>. HIDE DEF left, right, t
  <2>1. CASE i <= Len(s)
    BY <1>2, <1>3, <1>4, <1>5, <2>1
  <2>2. CASE i = Len(s) + 1
    <3>1. i - Len(s) = 1 /\ ~ (i <= Len(s)) /\ i <= Len(s) + 1
      BY <1>3, <2>2
    <3>. QED
      BY <1>1, <1>2, <1>4, <1>5, <2>2, <3>1
  <2>3. CASE i > Len(s) + 1
    <3>1. /\ ~ (i <= Len(s)) /\ ~ (i <= Len(s) + 1)
          /\ i - (Len(s) + 1) \in 1 .. Len(Tail(q))
          /\ (i - (Len(s) + 1)) + 1 = i - Len(s)
      BY <1>1, <1>3, <2>3
    <3>. QED
      BY <1>1, <1>4, <1>5, <3>1
  <2>. QED
    BY <1>3, <2>1, <2>2, <2>3
<1>7. left = right
  <2>. HIDE DEF left, right
  <2>. QED
    BY <1>4, <1>5, <1>6, SeqEqual
<1>. QED
  BY <1>7

\* An event put into the queue is the last of the feed.
LEMMA AppendFeed ==
  ASSUME NEW s \in Seq(Events), NEW q \in Seq(Events), NEW e \in Events
  PROVE  s \o Append(q, e) = Append(s \o q, e)
<1>1. Append(q, e) = q \o <<e>> /\ <<e>> \in Seq(Events)
  BY AppendIsConcat
<1>2. s \o q \in Seq(Events)
  BY ConcatProperties
<1>3. Append(s \o q, e) = (s \o q) \o <<e>>
  BY <1>2, AppendIsConcat
<1>. QED
  BY <1>1, <1>3, ConcatAssociative

-----------------------------------------------------------------------------
(* The inductive invariant, client by client.                              *)

\* A client that is not connected has no feed, and no queue among the
\* subscribers.
Absent(c) == sent[c] = <<>> /\ queue[c] = <<>> /\ c \notin subscribers

Ordered(c) ==
  \A i \in DOMAIN Feed(c) :
    /\ Feed(c)[i] \in joined[c] + 1 .. count
    /\ \A j \in DOMAIN Feed(c) : i < j => Feed(c)[i] < Feed(c)[j]

\* Where the last event of a full backlog stands in the feed, given the place
\* that had been reached when event e was broadcast.
Backlog(c, e) == reached[c][e] + Capacity

Explained(c, e) ==
  \/ \E i \in DOMAIN Feed(c) : Feed(c)[i] = e
  \/ Backlog(c, e) \in DOMAIN Feed(c) /\ Feed(c)[Backlog(c, e)] < e

ClientInv(c) ==
  /\ joined[c] <= count
  /\ gen[c] = "none" => Absent(c)
  /\ Ordered(c)
  /\ c \in subscribers => \A e \in joined[c] + 1 .. count : Explained(c, e)

StreamInv == TypeOK /\ \A c \in Clients : ClientInv(c)

LEMMA FeedType ==
  ASSUME TypeOK, NEW c \in Clients
  PROVE  /\ Feed(c) \in Seq(Events)
         /\ Len(Feed(c)) \in Nat
         /\ DOMAIN Feed(c) = 1 .. Len(Feed(c))
         /\ Len(Feed(c)) >= Len(queue[c])
<1>1. sent[c] \in Seq(Events) /\ queue[c] \in Seq(Events)
  BY DEF TypeOK, Events
<1>2. Feed(c) \in Seq(Events) /\ Len(Feed(c)) = Len(sent[c]) + Len(queue[c])
  BY <1>1, ConcatProperties DEF Feed
<1>3. Len(sent[c]) \in Nat /\ Len(queue[c]) \in Nat
  BY <1>1, LenProperties
<1>4. Len(Feed(c)) \in Nat /\ DOMAIN Feed(c) = 1 .. Len(Feed(c))
  BY <1>2, LenProperties
<1>5. Len(Feed(c)) >= Len(queue[c])
  <2>1. \A m, n \in Nat : m + n >= n
    OBVIOUS
  <2>. QED
    BY <1>2, <1>3, <2>1
<1>. QED
  BY <1>2, <1>4, <1>5

-----------------------------------------------------------------------------
(* What a step does to the feed of a client.                               *)

\* Nothing of client c changes but its place in the loop, or it leaves.
Undisturbed(c) ==
  /\ UNCHANGED <<count, joined, reached>>
  /\ Feed(c)' = Feed(c)
  /\ subscribers' \subseteq subscribers
  /\ gen'[c] = "none" => gen[c] = "none" /\ sent'[c] = sent[c] /\ queue'[c] = queue[c]

\* A step of another client, or of nobody.
LEMMA OtherStep ==
  ASSUME TypeOK, NEW c \in Clients,
         UNCHANGED <<count, joined, reached>>, subscribers' \subseteq subscribers,
         gen'[c] = gen[c], sent'[c] = sent[c], queue'[c] = queue[c]
  PROVE  Undisturbed(c)
BY DEF Undisturbed, Feed

\* The generator passes events from the queue on and loses none.
LEMMA GenerateStep ==
  ASSUME TypeOK, NEW d \in Clients, Generate(d) \/ Cancel(d), NEW c \in Clients
  PROVE  Undisturbed(c)
<1>1. CASE Receive(d)
  <2>1. /\ sent[d] \in Seq(Events) /\ queue[d] \in Seq(Events)
        /\ queue[d] # <<>> /\ gen' = [gen EXCEPT ![d] = "sending"]
        /\ sent' = [sent EXCEPT ![d] = Append(sent[d], Head(queue[d]))]
        /\ queue' = [queue EXCEPT ![d] = Tail(queue[d])]
        /\ UNCHANGED <<count, joined, reached, subscribers>>
    BY <1>1 DEF Receive, TypeOK, Events, Goto
  <2>2. CASE c = d
    <3>1. gen'[c] = "sending" /\ sent'[c] = Append(sent[c], Head(queue[c]))
          /\ queue'[c] = Tail(queue[c])
      BY <2>1, <2>2 DEF TypeOK
    <3>2. Append(sent[c], Head(queue[c])) \o Tail(queue[c]) = sent[c] \o queue[c]
      BY <2>1, <2>2, MoveHead
    <3>3. Feed(c)' = Feed(c)
      BY <3>1, <3>2 DEF Feed
    <3>. QED
      BY <2>1, <3>1, <3>3 DEF Undisturbed
  <2>3. CASE c # d
    BY <2>1, <2>3, OtherStep DEF TypeOK
  <2>. QED
    BY <2>2, <2>3
<1>2. CASE Greet(d) \/ Resume(d) \/ CheckConnection(d) \/ KeepAlive(d) \/ Cancel(d)
  <2>1. /\ UNCHANGED <<count, joined, reached, sent, queue>>
        /\ subscribers' \subseteq subscribers
        /\ \E l \in Places \ {"none"} : gen' = [gen EXCEPT ![d] = l]
    BY <1>2 DEF Greet, Resume, CheckConnection, KeepAlive, Cancel, Finish, Goto,
       Places, BeforeTry, InTry
  <2>2. gen'[c] = "none" => gen[c] = "none"
    BY <2>1 DEF TypeOK
  <2>. QED
    BY <2>1, <2>2 DEF Undisturbed, Feed
<1>. QED
  BY <1>1, <1>2 DEF Generate

\* Whoever takes a broadcast gets it last; the others keep their feed.
LEMMA BroadcastStep ==
  ASSUME TypeOK, Broadcast, NEW c \in Clients
  PROVE  /\ count' = count + 1 /\ count' \in Events
         /\ UNCHANGED <<subscribers, gen, sent, joined>>
         /\ Feed(c)' = IF c \in Takers THEN Append(Feed(c), count + 1) ELSE Feed(c)
         /\ c \notin Takers => queue'[c] = queue[c]
         /\ \A e \in 1 .. count : reached'[c][e] = reached[c][e]
         /\ c \in subscribers \ Takers => reached'[c][count + 1] = Len(sent[c])
<1>1. /\ count' = count + 1 /\ count' \in Events
      /\ UNCHANGED <<subscribers, gen, sent, joined>>
      /\ queue'[c] = IF c \in Takers THEN Append(queue[c], count + 1) ELSE queue[c]
      /\ sent[c] \in Seq(Events) /\ queue[c] \in Seq(Events)
  BY StreamAssumption DEF Broadcast, TypeOK, Events
<1>2. sent[c] \o Append(queue[c], count + 1) = Append(sent[c] \o queue[c], count + 1)
  BY <1>1, AppendFeed
<1>. DEFINE n == IF c \in subscribers \ Takers THEN Len(sent[c]) ELSE 0
<1>3. n \in Nat
  BY <1>1, LenProperties
<1>4. reached[c] \in Seq(Nat) /\ Len(reached[c]) = count
  BY DEF TypeOK
<1>5. reached'[c] = Append(reached[c], n)
  BY DEF Broadcast
<1>. HIDE DEF n
<1>6. /\ \A e \in 1 .. count : reached'[c][e] = reached[c][e]
      /\ reached'[c][count + 1] = n
  BY <1>3, <1>4, <1>5, AppendProperties
<1>. QED
  BY <1>1, <1>2, <1>6 DEF Feed, n

-----------------------------------------------------------------------------
(* The invariant is kept.                                                  *)

LEMMA TypeStep ==
  ASSUME TypeOK, [Next]_vars
  PROVE  TypeOK'
<1>. USE DEF TypeOK, Places, BeforeTry, InTry
<1>1. CASE Handle \/ EndQuietly \/ UNCHANGED vars
  BY <1>1 DEF Handle, EndQuietly, vars
<1>2. CASE Broadcast
  <2>1. count' \in Events /\ count' = count + 1 /\ count' \in 0 .. MaxEvents
    <3>1. count \in 0 .. MaxEvents /\ count < MaxEvents /\ count' = count + 1
      BY <1>2 DEF Broadcast
    <3>. QED
      BY <3>1, StreamAssumption DEF Events
  <2>2. ASSUME NEW c \in Clients
        PROVE  queue'[c] \in Seq(1 .. MaxEvents) /\ Len(queue'[c]) <= Capacity
    <3>1. CASE c \in Takers
      <4>1. queue'[c] = Append(queue[c], count + 1) /\ Len(queue[c]) < Capacity
        BY <1>2, <3>1 DEF Broadcast, Takers, HasRoom
      <4>2. queue[c] \in Seq(1 .. MaxEvents) /\ count + 1 \in 1 .. MaxEvents
        BY <2>1 DEF Events
      <4>3. Append(queue[c], count + 1) \in Seq(1 .. MaxEvents)
            /\ Len(Append(queue[c], count + 1)) = Len(queue[c]) + 1
        BY <4>2, AppendProperties
      <4>. QED
        BY <4>1, <4>2, <4>3, LenProperties, StreamAssumption
    <3>2. CASE c \notin Takers
      BY <1>2, <3>2 DEF Broadcast
    <3>. QED
      BY <3>1, <3>2
  <2>3. queue' \in [Clients -> Seq(1 .. MaxEvents)]
    BY <1>2, <2>2 DEF Broadcast
  <2>4. ASSUME NEW c \in Clients
        PROVE  reached'[c] \in Seq(Nat) /\ Len(reached'[c]) = count'
    <3>. DEFINE n == IF c \in subscribers \ Takers THEN Len(sent[c]) ELSE 0
    <3>1. n \in Nat /\ reached[c] \in Seq(Nat) /\ Len(reached[c]) = count
      BY LenProperties
    <3>2. reached'[c] = Append(reached[c], n)
      BY <1>2 DEF Broadcast
    <3>. HIDE DEF n
    <3>. QED
      BY <2>1, <3>1, <3>2, AppendProperties
  <2>5. reached' \in [Clients -> Seq(Nat)]
    BY <1>2, <2>4 DEF Broadcast
  <2>. QED
    BY <1>2, <2>1, <2>2, <2>3, <2>4, <2>5 DEF Broadcast
<1>3. ASSUME NEW c \in Clients, Receive(c)
      PROVE  TypeOK'
  <2>1. queue[c] \in Seq(1 .. MaxEvents) /\ queue[c] # <<>>
        /\ sent[c] \in Seq(1 .. MaxEvents)
    BY <1>3 DEF Receive
  <2>2. /\ Head(queue[c]) \in 1 .. MaxEvents
        /\ Tail(queue[c]) \in Seq(1 .. MaxEvents)
        /\ Len(Tail(queue[c])) = Len(queue[c]) - 1 /\ Len(queue[c]) \in Nat
    BY <2>1, HeadTailProperties, LenProperties
  <2>3. Append(sent[c], Head(queue[c])) \in Seq(1 .. MaxEvents)
    BY <2>1, <2>2, AppendProperties
  <2>4. /\ queue' = [queue EXCEPT ![c] = Tail(queue[c])]
        /\ sent' = [sent EXCEPT ![c] = Append(sent[c], Head(queue[c]))]
        /\ gen' = [gen EXCEPT ![c] = "sending"]
        /\ UNCHANGED <<busy, count, subscribers, gone, joined, reached>>
    BY <1>3 DEF Receive, Goto
  <2>5. /\ queue' \in [Clients -> Seq(1 .. MaxEvents)]
        /\ sent' \in [Clients -> Seq(1 .. MaxEvents)]
        /\ gen' \in [Clients -> Places]
    BY <2>2, <2>3, <2>4
  <2>6. ASSUME NEW d \in Clients
        PROVE  Len(queue'[d]) <= Capacity
    <3>1. Len(Tail(queue[c])) <= Capacity
      BY <2>2, StreamAssumption
    <3>. QED
      BY <2>4, <3>1
  <2>. QED
    BY <2>4, <2>5, <2>6
<1>4. ASSUME NEW c \in Clients,
             Connect(c) \/ Greet(c) \/ Resume(c) \/ CheckConnection(c)
               \/ KeepAlive(c) \/ Disconnect(c) \/ Cancel(c)
      PROVE  TypeOK'
  BY <1>4 DEF Connect, Greet, Resume, CheckConnection, KeepAlive, Disconnect,
     Cancel, Finish, Goto
<1>. QED
  BY <1>1, <1>2, <1>3, <1>4 DEF Next, Generate

\* What an undisturbed client has seen stays in order and explained.
LEMMA UndisturbedInv ==
  ASSUME NEW c \in Clients, ClientInv(c), Undisturbed(c)
  PROVE  ClientInv(c)'
BY DEF ClientInv, Undisturbed, Absent, Ordered, Explained, Backlog

LEMMA BroadcastInv ==
  ASSUME TypeOK, Broadcast, NEW c \in Clients, ClientInv(c)
  PROVE  ClientInv(c)'
<1>. DEFINE f == Feed(c)
            n == Len(Feed(c))
<1>1. /\ f \in Seq(Events) /\ n \in Nat /\ DOMAIN f = 1 .. n
      /\ n >= Len(queue[c])
  BY FeedType
<1>2. /\ count' = count + 1 /\ count' \in Events /\ count \in Nat
      /\ UNCHANGED <<subscribers, gen, sent, joined>>
      /\ Feed(c)' = IF c \in Takers THEN Append(f, count + 1) ELSE f
      /\ c \notin Takers => queue'[c] = queue[c]
      /\ \A e \in 1 .. count : Backlog(c, e)' = Backlog(c, e)
      /\ c \in subscribers \ Takers =>
           \A e : e = count + 1 => Backlog(c, e)' = Len(sent[c]) + Capacity
  BY BroadcastStep DEF TypeOK, Backlog
<1>3. joined[c] \in Nat /\ joined[c] <= count
  BY DEF TypeOK, ClientInv
<1>. HIDE DEF f, n
<1>4. CASE c \in Takers
  <2>1. DEFINE g == Append(f, count + 1)
  <2>2. /\ g \in Seq(Events) /\ Len(g) = n + 1 /\ DOMAIN g = 1 .. n + 1
        /\ \A i \in 1 .. n : g[i] = f[i]
        /\ g[n + 1] = count + 1
    BY <1>1, <1>2, AppendProperties, LenProperties DEF n, f
  <2>. HIDE DEF g
  <2>3. \A i \in 1 .. n : /\ f[i] \in joined[c] + 1 .. count
                          /\ \A j \in 1 .. n : i < j => f[i] < f[j]
    BY <1>1 DEF ClientInv, Ordered, f
  <2>4. \A i \in 1 .. n + 1 :
          /\ g[i] \in joined[c] + 1 .. count + 1
          /\ \A j \in 1 .. n + 1 : i < j => g[i] < g[j]
    <3>1. ASSUME NEW i \in 1 .. n
          PROVE  g[i] = f[i] /\ g[i] \in joined[c] + 1 .. count /\ g[i] < g[n + 1]
      BY <1>1, <1>2, <1>3, <2>2, <2>3
    <3>2. \A i \in 1 .. n + 1 : i \in 1 .. n \/ i = n + 1
      BY <1>1
    <3>3. g[n + 1] \in joined[c] + 1 .. count + 1
      BY <1>2, <1>3, <2>2
    <3>4. ASSUME NEW i \in 1 .. n + 1
          PROVE  g[i] \in joined[c] + 1 .. count + 1
      BY <1>2, <1>3, <3>1, <3>2, <3>3
    <3>5. ASSUME NEW i \in 1 .. n + 1, NEW j \in 1 .. n + 1, i < j
          PROVE  g[i] < g[j]
      <4>1. i \in 1 .. n
        BY <1>1, <3>5
      <4>. QED
        BY <2>3, <3>1, <3>2, <3>5, <4>1
    <3>. QED
      BY <3>4, <3>5
  <2>5. c \in subscribers /\ gen[c] # "none"
    BY <1>4 DEF Takers, ClientInv, Absent
  <2>6. ASSUME NEW e \in joined[c] + 1 .. count + 1
        PROVE  \/ \E i \in 1 .. n + 1 : g[i] = e
               \/ Backlog(c, e)' \in 1 .. n + 1 /\ g[Backlog(c, e)'] < e
    <3>1. CASE e = count + 1
      BY <1>1, <2>2, <3>1
    <3>2. CASE e \in joined[c] + 1 .. count
      <4>1. \/ \E i \in 1 .. n : f[i] = e
            \/ Backlog(c, e) \in 1 .. n /\ f[Backlog(c, e)] < e
        BY <1>1, <2>5, <3>2 DEF ClientInv, Explained, f
      <4>2. 1 .. n \subseteq 1 .. n + 1
        BY <1>1
      <4>3. Backlog(c, e)' = Backlog(c, e)
        BY <1>2, <1>3, <3>2
      <4>. QED
        BY <2>2, <4>1, <4>2, <4>3
    <3>. QED
      BY <1>2, <1>3, <3>1, <3>2
  <2>7. Feed(c)' = g
    BY <1>2, <1>4 DEF g
  <2>8. Ordered(c)'
    BY <1>2, <2>2, <2>4, <2>7 DEF Ordered
  <2>9. ASSUME NEW e \in joined'[c] + 1 .. count'
        PROVE  Explained(c, e)'
    BY <1>2, <2>2, <2>6, <2>7, <2>9 DEF Explained
  <2>10. joined'[c] <= count' /\ gen'[c] # "none"
    BY <1>2, <1>3, <2>5
  <2>. QED
    BY <2>8, <2>9, <2>10 DEF ClientInv
<1>5. CASE c \notin Takers
  <2>1. \A i \in DOMAIN f :
          /\ f[i] \in joined[c] + 1 .. count + 1
          /\ \A j \in DOMAIN f : i < j => f[i] < f[j]
    BY <1>2, <1>3 DEF ClientInv, Ordered, f
  <2>2. ASSUME c \in subscribers, NEW e \in joined[c] + 1 .. count + 1
        PROVE  \/ \E i \in DOMAIN f : f[i] = e
               \/ Backlog(c, e)' \in DOMAIN f /\ f[Backlog(c, e)'] < e
    <3>1. CASE e \in joined[c] + 1 .. count
      <4>1. Backlog(c, e)' = Backlog(c, e)
        BY <1>2, <1>3, <3>1
      <4>. QED
        BY <2>2, <3>1, <4>1 DEF ClientInv, Explained, f
    <3>2. CASE e = count + 1
      <4>1. Len(queue[c]) >= Capacity /\ Len(queue[c]) \in Nat
        <5>1. Len(queue[c]) \in Nat
          BY LenProperties DEF TypeOK
        <5>. QED
          BY <1>5, <2>2, <5>1, StreamAssumption DEF Takers, HasRoom
      <4>. DEFINE m == Len(sent[c]) + Capacity
      <4>2. m \in DOMAIN f /\ Backlog(c, e)' = m
        <5>1. n = Len(sent[c]) + Len(queue[c]) /\ Len(sent[c]) \in Nat
          BY ConcatProperties, LenProperties DEF TypeOK, Feed, n
        <5>2. Backlog(c, e)' = m
          BY <1>2, <1>5, <2>2, <3>2
        <5>3. m \in 1 .. n
          <6>1. \A i, j \in Nat, k \in Nat \ {0} : j >= k => i + k \in 1 .. i + j
            OBVIOUS
          <6>. QED
            BY <4>1, <5>1, <6>1, StreamAssumption
        <5>. QED
          BY <1>1, <5>2, <5>3
      <4>. HIDE DEF m
      <4>3. f[m] \in joined[c] + 1 .. count
        BY <4>2 DEF ClientInv, Ordered, f
      <4>. QED
        BY <1>2, <1>3, <3>2, <4>2, <4>3
    <3>. QED
      BY <1>2, <1>3, <2>2, <3>1, <3>2
  <2>3. joined'[c] <= count'
    BY <1>2, <1>3
  <2>4. gen'[c] = "none" => Absent(c)'
    BY <1>2, <1>5 DEF ClientInv, Absent
  <2>5. Feed(c)' = f
    BY <1>2, <1>5
  <2>6. Ordered(c)'
    BY <1>2, <2>1, <2>5 DEF Ordered
  <2>7. ASSUME c \in subscribers', NEW e \in joined'[c] + 1 .. count'
        PROVE  Explained(c, e)'
    BY <1>2, <2>2, <2>5, <2>7 DEF Explained
  <2>. QED
    BY <2>3, <2>4, <2>6, <2>7 DEF ClientInv
<1>. QED
  BY <1>4, <1>5

LEMMA ConnectInv ==
  ASSUME TypeOK, NEW c \in Clients, ClientInv(c), Connect(c)
  PROVE  ClientInv(c)'
<1>1. /\ sent'[c] = <<>> /\ queue'[c] = <<>> /\ count' = count
      /\ joined'[c] = count /\ gen'[c] = "opened" /\ count \in Nat
  BY DEF Connect, Goto, ClientInv, Absent, TypeOK
<1>2. Feed(c)' = <<>>
  BY <1>1 DEF Feed
<1>3. Ordered(c)'
  BY <1>2 DEF Ordered
<1>4. joined'[c] + 1 .. count' = {}
  BY <1>1
<1>. QED
  BY <1>1, <1>3, <1>4 DEF ClientInv

LEMMA InvStep ==
  ASSUME StreamInv, [Next]_vars
  PROVE  StreamInv'
<1>1. ASSUME NEW c \in Clients
      PROVE  ClientInv(c)'
  <2>1. CASE Broadcast
    BY <2>1, BroadcastInv DEF StreamInv
  <2>2. CASE Handle \/ EndQuietly \/ UNCHANGED vars
    BY <2>2, OtherStep, UndisturbedInv DEF Handle, EndQuietly, vars, StreamInv
  <2>3. ASSUME NEW d \in Clients, Generate(d) \/ Cancel(d)
        PROVE  ClientInv(c)'
    BY <2>3, GenerateStep, UndisturbedInv DEF StreamInv
  <2>4. ASSUME NEW d \in Clients, Disconnect(d)
        PROVE  ClientInv(c)'
    BY <2>4, OtherStep, UndisturbedInv DEF Disconnect, StreamInv
  <2>5. ASSUME NEW d \in Clients, Connect(d)
        PROVE  ClientInv(c)'
    <3>1. CASE c = d
      BY <2>5, <3>1, ConnectInv DEF StreamInv
    <3>2. CASE c # d
      <4>1. /\ count' = count /\ joined'[c] = joined[c] /\ gen'[c] = gen[c]
            /\ reached' = reached /\ sent'[c] = sent[c] /\ queue'[c] = queue[c]
            /\ c \in subscribers' <=> c \in subscribers
        BY <2>5, <3>2 DEF Connect, Goto, StreamInv, TypeOK
      <4>2. Feed(c)' = Feed(c)
        BY <4>1 DEF Feed
      <4>. QED
        BY <4>1, <4>2 DEF StreamInv, ClientInv, Absent, Ordered, Explained, Backlog
    <3>. QED
      BY <3>1, <3>2
  <2>. QED
    BY <2>1, <2>2, <2>3, <2>4, <2>5 DEF Next
<1>. QED
  BY <1>1, TypeStep DEF StreamInv

LEMMA InvStart == Init => StreamInv
<1>. SUFFICES ASSUME Init PROVE StreamInv
  OBVIOUS
<1>1. TypeOK
  <2>1. /\ <<>> \in Seq(1 .. MaxEvents) /\ Len(<<>>) = 0
        /\ 0 <= Capacity /\ 0 \in 0 .. MaxEvents
    BY StreamAssumption, EmptySeq
  <2>2. /\ queue \in [Clients -> Seq(1 .. MaxEvents)]
        /\ \A c \in Clients : Len(queue[c]) <= Capacity
        /\ sent \in [Clients -> Seq(1 .. MaxEvents)]
        /\ joined \in [Clients -> 0 .. MaxEvents]
        /\ reached \in [Clients -> Seq(Nat)]
        /\ \A c \in Clients : Len(reached[c]) = count
    BY <2>1 DEF Init
  <2>. QED
    BY <2>1, <2>2 DEF Init, TypeOK, Places
<1>2. ASSUME NEW c \in Clients
      PROVE  ClientInv(c)
  <2>1. /\ sent[c] = <<>> /\ queue[c] = <<>> /\ joined[c] = 0 /\ count = 0
        /\ c \notin subscribers
    BY DEF Init
  <2>2. Feed(c) = <<>>
    BY <2>1 DEF Feed
  <2>. QED
    BY <2>1, <2>2 DEF ClientInv, Absent, Ordered
<1>. QED
  BY <1>1, <1>2 DEF StreamInv

\* What a client was sent, its queue and the events broadcast fit together.
THEOREM StreamInvariant == Spec => []StreamInv
BY InvStart, InvStep, PTL DEF Spec

-----------------------------------------------------------------------------
(* What the clients see.                                                   *)

\* Every variable keeps its type, and no queue exceeds its capacity.
THEOREM TypeCorrect == Spec => []TypeOK
BY StreamInvariant, PTL DEF StreamInv

\* Events arrive in order, each once and none from before the connection.
THEOREM FeedInOrder == Spec => []InOrder
<1>1. StreamInv => InOrder
  BY DEF StreamInv, ClientInv, Ordered, InOrder
<1>. QED
  BY <1>1, StreamInvariant, PTL

\* An event is missed only by a client that still has Capacity earlier events
\* of its own to be sent at the moment of that very broadcast.
THEOREM GapsExplained == Spec => []GapsNeedBacklog
<1>1. StreamInv => GapsNeedBacklog
  BY DEF StreamInv, TypeOK, ClientInv, Explained, Backlog, GapsNeedBacklog
<1>. QED
  BY <1>1, StreamInvariant, PTL

-----------------------------------------------------------------------------
(* What a step may not do to a client.                                     *)

\* What a client was given is never taken back or reordered: its feed is only
\* added to, at the end.
FeedKept ==
  [][\A c \in Clients : \A i \in DOMAIN Feed(c) :
       i \in DOMAIN Feed(c)' /\ Feed(c)'[i] = Feed(c)[i]]_vars

\* An event in the queue of a client keeps its place until it is yielded: no
\* broadcast to a full queue, disconnection or clean-up removes it.
THEOREM NothingWithdrawn == Spec => FeedKept
<1>1. StreamInv /\ [Next]_vars
      => \A c \in Clients : \A i \in DOMAIN Feed(c) :
           i \in DOMAIN Feed(c)' /\ Feed(c)'[i] = Feed(c)[i]
  <2>. SUFFICES ASSUME StreamInv, [Next]_vars, NEW c \in Clients,
                       NEW i \in DOMAIN Feed(c)
                PROVE  i \in DOMAIN Feed(c)' /\ Feed(c)'[i] = Feed(c)[i]
    OBVIOUS
  <2>1. TypeOK /\ Feed(c) \in Seq(Events)
    BY FeedType DEF StreamInv
  <2>2. CASE Feed(c)' = Feed(c)
    BY <2>2
  <2>3. CASE Broadcast
    <3>1. count + 1 \in Events
      BY <2>1, <2>3, BroadcastStep
    <3>. DEFINE f == Feed(c)
                g == Append(f, count + 1)
    <3>2. i \in 1 .. Len(f) /\ Len(f) \in Nat
      BY <2>1, LenProperties
    <3>3. /\ Len(g) = Len(f) + 1 /\ g \in Seq(Events)
          /\ \A j \in 1 .. Len(f) : g[j] = f[j]
      BY <2>1, <3>1, AppendProperties
    <3>4. DOMAIN g = 1 .. Len(f) + 1
      <4>. HIDE DEF g
      <4>. QED
        BY <3>3, LenProperties
    <3>5. i \in DOMAIN g /\ g[i] = f[i]
      BY <3>2, <3>3, <3>4
    <3>. QED
      BY <2>1, <2>2, <2>3, <3>5, BroadcastStep
  <2>4. ASSUME NEW d \in Clients, Generate(d) \/ Cancel(d)
        PROVE  Feed(c)' = Feed(c)
    BY <2>1, <2>4, GenerateStep DEF Undisturbed
  <2>5. CASE Handle \/ EndQuietly \/ UNCHANGED vars
    BY <2>5 DEF Handle, EndQuietly, vars, Feed
  <2>6. ASSUME NEW d \in Clients, Connect(d) \/ Disconnect(d)
        PROVE  Feed(c)' = Feed(c)
    BY <2>6 DEF Connect, Disconnect, Feed
  <2>. QED
    BY <2>2, <2>3, <2>4, <2>5, <2>6 DEF Next, Feed
<1>. QED
  BY <1>1, StreamInvariant, PTL DEF Spec, FeedKept

-----------------------------------------------------------------------------
(* Where a queue is left behind.                                           *)

\* Whoever has a generator that is not closed is among the subscribers.
Listening ==
  \A c \in Clients : gen[c] \in BeforeTry \cup InTry => c \in subscribers

\* A queue is left behind by a generator that is closed before its try block,
\* and by nothing else; what is released is never subscribed again.
LeftBeforeTry ==
  [][\A c \in Clients : c \in subscribers' /\ gen'[c] = "closed" =>
       \/ gen[c] \in BeforeTry
       \/ gen[c] = "closed" /\ c \in subscribers]_vars

LEMMA StreamStep ==
  ASSUME TypeOK, [Next]_vars, NEW c \in Clients
  PROVE  \/ gen'[c] = gen[c] /\ (c \in subscribers' <=> c \in subscribers)
         \/ gen[c] = "none" /\ gen'[c] = "opened" /\ c \in subscribers'
         \/ /\ gen[c] \in BeforeTry \cup InTry /\ gen'[c] \in InTry \cup {"greeting"}
            /\ c \in subscribers' <=> c \in subscribers
         \/ gen[c] \in InTry /\ gen'[c] = "closed" /\ c \notin subscribers'
         \/ gen[c] \in BeforeTry /\ gen'[c] = "closed"
<1>1. CASE Handle \/ EndQuietly \/ Broadcast \/ UNCHANGED vars
  BY <1>1 DEF Handle, EndQuietly, Broadcast, vars
<1>2. ASSUME NEW d \in Clients,
             Connect(d) \/ Generate(d) \/ Disconnect(d) \/ Cancel(d), c # d
      PROVE  gen'[c] = gen[c] /\ (c \in subscribers' <=> c \in subscribers)
  BY <1>2 DEF TypeOK, Connect, Generate, Greet, Resume, CheckConnection, Receive,
     KeepAlive, Disconnect, Cancel, Finish, Goto
<1>3. ASSUME Connect(c)
      PROVE  gen[c] = "none" /\ gen'[c] = "opened" /\ c \in subscribers'
  BY <1>3 DEF TypeOK, Connect, Goto
<1>4. ASSUME Generate(c)
      PROVE  \/ /\ gen[c] \in BeforeTry \cup InTry /\ gen'[c] \in InTry \cup {"greeting"}
                /\ c \in subscribers' <=> c \in subscribers
             \/ gen[c] \in InTry /\ gen'[c] = "closed" /\ c \notin subscribers'
  BY <1>4 DEF TypeOK, Generate, Greet, Resume, CheckConnection, Receive, KeepAlive,
     Finish, Goto, BeforeTry, InTry
<1>5. ASSUME Cancel(c)
      PROVE  \/ gen[c] \in InTry /\ gen'[c] = "closed" /\ c \notin subscribers'
             \/ gen[c] \in BeforeTry /\ gen'[c] = "closed"
  BY <1>5 DEF TypeOK, Cancel, Finish, Goto
<1>6. ASSUME Disconnect(c)
      PROVE  gen'[c] = gen[c] /\ (c \in subscribers' <=> c \in subscribers)
  BY <1>6 DEF Disconnect
<1>. QED
  BY <1>1, <1>2, <1>3, <1>4, <1>5, <1>6 DEF Next

\* A live stream misses no broadcast for want of a queue, and a queue survives
\* its stream only where StreamLeak finds it: between the subscription and the
\* first resumption of the generator.
THEOREM QueueOfStream == Spec => []Listening /\ LeftBeforeTry
<1>1. Init => Listening
  BY DEF Init, Listening, BeforeTry, InTry
<1>2. StreamInv /\ Listening /\ [Next]_vars => Listening'
  BY StreamStep DEF StreamInv, Listening, BeforeTry, InTry
<1>3. StreamInv /\ [Next]_vars
      => \A c \in Clients : c \in subscribers' /\ gen'[c] = "closed" =>
           \/ gen[c] \in BeforeTry
           \/ gen[c] = "closed" /\ c \in subscribers
  BY StreamStep DEF StreamInv, BeforeTry, InTry
<1>. QED
  BY <1>1, <1>2, <1>3, StreamInvariant, PTL DEF Spec, LeftBeforeTry
=============================================================================
