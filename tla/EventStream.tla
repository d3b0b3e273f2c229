----------------------------- MODULE EventStream ----------------------------
(***************************************************************************)
(* The live feed of the dashboard: broadcast() puts an event into the      *)
(* bounded queue of every subscriber, and one asynchronous generator per   *)
(* connection takes events from its queue and hands them to the server.    *)
(* Everything runs on one event loop; a generator can be interrupted, and  *)
(* is resumed, only where it awaits or yields.  A handler that runs the    *)
(* pipeline holds the loop, back-offs of the Gemini call included, until   *)
(* it has its result.                                                      *)
(***************************************************************************)
EXTENDS Naturals, Sequences

CONSTANTS
  Clients,    \* connections to GET /stream
  Capacity,   \* maxsize of a subscriber's queue (100)
  MaxEvents   \* bound on the number of events broadcast

ASSUME StreamAssumption ==
  /\ Capacity \in Nat \ {0}
  /\ MaxEvents \in Nat

VARIABLES
  busy,         \* a handler holds the event loop
  count,        \* events broadcast so far; an event is its number
  subscribers,  \* the clients whose queue is in _subscribers
  queue,        \* the queue of each client
  gen,          \* where the generator of each connection is
  gone,         \* clients that disconnected
  sent,         \* events each generator has yielded
  joined,       \* history: the value of count when the client subscribed
  reached       \* history: for each event a subscriber missed, how many it
                \* had been sent when that event was broadcast (else 0)

vars == <<busy, count, subscribers, queue, gen, gone, sent, joined, reached>>

-----------------------------------------------------------------------------
(* Where a generator is.                                                   *)

\* "opened": created but not begun; "greeting": suspended in the yield before
\* its try block.
BeforeTry == {"opened", "greeting"}

\* "check": about to poll for disconnection; "wait": in wait_for(queue.get());
\* "sending": suspended in a yield of its loop.
InTry == {"check", "wait", "sending"}

Goto(c, l) == gen' = [gen EXCEPT ![c] = l]

-----------------------------------------------------------------------------
(* The broadcaster.                                                        *)

\* Mutant: one event too many.
HasRoom_OffByOne(c) == Len(queue[c]) <= Capacity

HasRoom(c) == Len(queue[c]) < Capacity

\* Mutant: a full queue ends the loop over the subscribers.
Takers_AllOrNone ==
  IF \A c \in subscribers : HasRoom(c) THEN subscribers ELSE {}

\* The event is dropped for the subscribers whose queue is full.
Takers == {c \in subscribers : HasRoom(c)}

\* A handler is called and does not give the loop back before it ends.
Handle ==
  /\ ~ busy
  /\ busy' = TRUE
  /\ UNCHANGED <<count, subscribers, queue, gen, gone, sent, joined, reached>>

\* It ends without an event: POST /trigger-retry, or an error.
EndQuietly ==
  /\ busy
  /\ busy' = FALSE
  /\ UNCHANGED <<count, subscribers, queue, gen, gone, sent, joined, reached>>

\* POST /analyze-failure ends with an event for every subscriber.
Broadcast ==
  /\ busy
  /\ busy' = FALSE
  /\ count < MaxEvents
  /\ count' = count + 1
  /\ queue' = [c \in Clients |-> IF c \in Takers THEN Append(queue[c], count + 1)
                                                 ELSE queue[c]]
  /\ reached' = [c \in Clients |->
       Append(reached[c], IF c \in subscribers \ Takers THEN Len(sent[c]) ELSE 0)]
  /\ UNCHANGED <<subscribers, gen, gone, sent, joined>>

\* GET /stream subscribes, and only then builds the generator.
Connect(c) ==
  /\ ~ busy
  /\ gen[c] = "none"
  /\ subscribers' = subscribers \cup {c}
  /\ joined' = [joined EXCEPT ![c] = count]
  /\ Goto(c, "opened")
  /\ UNCHANGED <<busy, count, queue, gone, sent, reached>>

-----------------------------------------------------------------------------
(* The generator.                                                          *)

Greet(c) ==
  /\ ~ busy
  /\ gen[c] = "opened"
  /\ Goto(c, "greeting")
  /\ UNCHANGED <<busy, count, subscribers, queue, gone, sent, joined, reached>>

\* The server has passed on what was yielded.
Resume(c) ==
  /\ ~ busy
  /\ gen[c] \in {"greeting", "sending"}
  /\ Goto(c, "check")
  /\ UNCHANGED <<busy, count, subscribers, queue, gone, sent, joined, reached>>

\* The finally clause.
Finish(c) ==
  /\ subscribers' = subscribers \ {c}
  /\ Goto(c, "closed")

CheckConnection(c) ==
  /\ ~ busy
  /\ gen[c] = "check"
  /\ \/ c \in gone /\ Finish(c)
     \/ c \notin gone /\ Goto(c, "wait") /\ UNCHANGED subscribers
  /\ UNCHANGED <<busy, count, queue, gone, sent, joined, reached>>

\* Mutant: the newest event is taken first.
Receive_Newest(c) ==
  /\ ~ busy
  /\ gen[c] = "wait"
  /\ queue[c] # <<>>
  /\ sent' = [sent EXCEPT ![c] = Append(@, queue[c][Len(queue[c])])]
  /\ queue' = [queue EXCEPT ![c] = SubSeq(@, 1, Len(@) - 1)]
  /\ Goto(c, "sending")
  /\ UNCHANGED <<busy, count, subscribers, gone, joined, reached>>

Receive(c) ==
  /\ ~ busy
  /\ gen[c] = "wait"
  /\ queue[c] # <<>>
  /\ sent' = [sent EXCEPT ![c] = Append(@, Head(queue[c]))]
  /\ queue' = [queue EXCEPT ![c] = Tail(@)]
  /\ Goto(c, "sending")
  /\ UNCHANGED <<busy, count, subscribers, gone, joined, reached>>

\* Mutant: 25 seconds without an event end the stream.
KeepAlive_Ends(c) ==
  /\ ~ busy
  /\ gen[c] = "wait"
  /\ queue[c] = <<>>
  /\ Goto(c, "closed")
  /\ UNCHANGED <<busy, count, subscribers, queue, gone, sent, joined, reached>>

\* 25 seconds without an event: a comment is sent.
KeepAlive(c) ==
  /\ ~ busy
  /\ gen[c] = "wait"
  /\ queue[c] = <<>>
  /\ Goto(c, "sending")
  /\ UNCHANGED <<busy, count, subscribers, queue, gone, sent, joined, reached>>

-----------------------------------------------------------------------------
(* Client and server.                                                      *)

Disconnect(c) ==
  /\ gen[c] # "none"
  /\ c \notin gone
  /\ gone' = gone \cup {c}
  /\ UNCHANGED <<busy, count, subscribers, queue, gen, sent, joined, reached>>

\* Mutant: the clean-up is not in a finally clause.
Cancel_NoFinally(c) ==
  /\ ~ busy
  /\ c \in gone
  /\ gen[c] \in BeforeTry \cup InTry
  /\ Goto(c, "closed")
  /\ UNCHANGED <<busy, count, subscribers, queue, gone, sent, joined, reached>>

\* The server cancels the response of a client that is gone: the generator is
\* closed wherever it is.  Its finally clause runs only from inside the try.
Cancel(c) ==
  /\ ~ busy
  /\ c \in gone
  /\ \/ gen[c] \in BeforeTry /\ Goto(c, "closed") /\ UNCHANGED subscribers
     \/ gen[c] \in InTry /\ Finish(c)
  /\ UNCHANGED <<busy, count, queue, gone, sent, joined, reached>>

-----------------------------------------------------------------------------
Init ==
  /\ busy = FALSE
  /\ count = 0
  /\ subscribers = {}
  /\ queue = [c \in Clients |-> <<>>]
  /\ gen = [c \in Clients |-> "none"]
  /\ gone = {}
  /\ sent = [c \in Clients |-> <<>>]
  /\ joined = [c \in Clients |-> 0]
  /\ reached = [c \in Clients |-> <<>>]

Generate(c) ==
  Greet(c) \/ Resume(c) \/ CheckConnection(c) \/ Receive(c) \/ KeepAlive(c)

Next ==
  \/ Handle \/ EndQuietly \/ Broadcast
  \/ \E c \in Clients :
       Connect(c) \/ Generate(c) \/ Disconnect(c) \/ Cancel(c)

Spec == Init /\ [][Next]_vars

\* A handler ends (the Gemini call does, see DecisionEngine); asyncio runs what
\* is ready in turn, so handlers coming without end do not starve a generator;
\* clients read what they are sent, and the server notices who is gone.
FairSpec ==
  /\ Spec
  /\ WF_vars(EndQuietly \/ Broadcast)
  /\ \A c \in Clients : SF_vars(Generate(c)) /\ SF_vars(Cancel(c))

-----------------------------------------------------------------------------
(* Properties.                                                             *)

Places == {"none", "closed"} \cup BeforeTry \cup InTry

\* Every variable has its type; a queue never exceeds its capacity.
TypeOK ==
  /\ busy \in BOOLEAN
  /\ count \in 0 .. MaxEvents
  /\ subscribers \subseteq Clients
  /\ queue \in [Clients -> Seq(1 .. MaxEvents)]
  /\ \A c \in Clients : Len(queue[c]) <= Capacity
  /\ gen \in [Clients -> Places]
  /\ gone \subseteq Clients
  /\ sent \in [Clients -> Seq(1 .. MaxEvents)]
  /\ joined \in [Clients -> 0 .. MaxEvents]
  /\ reached \in [Clients -> Seq(Nat)]
  /\ \A c \in Clients : Len(reached[c]) = count

\* What a client was given so far, read or not.
Feed(c) == sent[c] \o queue[c]

\* A client sees the events in the order they were broadcast, each once, and
\* none from before it connected.
InOrder ==
  \A c \in Clients : \A i \in DOMAIN Feed(c) :
    /\ Feed(c)[i] \in joined[c] + 1 .. count
    /\ \A j \in DOMAIN Feed(c) : i < j => Feed(c)[i] < Feed(c)[j]

\* A subscriber misses an event only if, when it was broadcast, Capacity
\* earlier events were still waiting to be sent to it, however often it was
\* behind and caught up before: one that is behind costs the others nothing.
GapsNeedBacklog ==
  \A c \in subscribers : \A e \in joined[c] + 1 .. count :
    \/ \E i \in DOMAIN Feed(c) : Feed(c)[i] = e
    \/ LET last == reached[c][e] + Capacity IN
       last \in DOMAIN Feed(c) /\ Feed(c)[last] < e

\* An event that entered the queue of a client reaches the client, or the
\* client leaves, although every handler that runs the pipeline stops all
\* streams for as long as it takes.
QueuedIsSent ==
  \A c \in Clients, e \in 1 .. MaxEvents :
    (\E i \in DOMAIN queue[c] : queue[c][i] = e)
      ~> (c \in gone \/ \E i \in DOMAIN sent[c] : sent[c][i] = e)

\* Once its generator is in its loop, the queue of a client that leaves is
\* released, wherever the generator was interrupted.
ReleasedFromLoop ==
  \A c \in Clients :
    (c \in gone /\ gen[c] \in InTry) ~> c \notin subscribers

-----------------------------------------------------------------------------
(* What the code says of itself and does not do.                           *)

\* There is one queue per live connection: none is left when a stream is over.
OneQueuePerLiveStream ==
  \A c \in Clients : gen[c] = "closed" => c \notin subscribers
=============================================================================
