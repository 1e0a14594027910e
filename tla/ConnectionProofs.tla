-------------------------- MODULE ConnectionProofs --------------------------
(***************************************************************************)
(* Proofs about client connections, for any number of connections, any     *)
(* sizes of responses, buffers and sockets and any faults.                 *)
(*                                                                         *)
(* LifeInv is what makes the response thread safe: the handler in the      *)
(* table of callbacks exists and has shaken hands, the response thread     *)
(* works only on that handler and only while it holds the table's mutex,   *)
(* and a deleted handler has no events left.  The queue of packets matters *)
(* because destroyMe of a handler that has not shaken hands leaves the     *)
(* table alone: such a handler must not be the one in the table.           *)
(*                                                                         *)
(* StrandInv is what is known of the registration for writable events.     *)
(* While the threads meet, nothing: either may write an old mode.  But a   *)
(* thread that begins while the other is not at it starts from a state in  *)
(* which its own steps are enough, whatever the poll set holds: the        *)
(* response thread because it registers anew, the reactor because it has   *)
(* found the queue empty.                                                  *)
(*                                                                         *)
(* StreamInv is what makes the stream of bytes right: what is on the wire  *)
(* and what waits in the handler are together the responses issued and not *)
(* read.  That a step of sending keeps it rests on what Drained does to    *)
(* the bytes of a queue, for any queue and any number of bytes, and on a   *)
(* Close being the last response of its queue: "remove sent responses"     *)
(* stops at it.                                                            *)
(***************************************************************************)
EXTENDS Connection, IntervalInduction, SequenceTheorems, TLAPS

Events == {"read", "write", "error"}
Packets == {"connect", "heartbeat", "close"}

ReactorStates ==
    [pc : {"poll", "dispatch", "sent", "remove", "mode", "update"},
     events : SUBSET Events, mode : SUBSET Events]
WriterStates ==
    [pc : {"wait", "observe", "mode", "add"}, conn : Conns \cup {None},
     mode : SUBSET Events, kind : {"none", "heartbeat", "watch", "close"}]

LifeTypes ==
    /\ inbox \in [Conns -> Seq(Packets)]
    /\ alive \in [Conns -> BOOLEAN] /\ handshake_done \in [Conns -> BOOLEAN]
    /\ observers \in [Conns -> SUBSET Events]
    /\ polled \in [Conns -> SUBSET Events]
    /\ reactor \in [Conns -> ReactorStates]
    /\ callback \in Conns \cup {None}
    /\ responses_queue \in Seq({"heartbeat", "watch", "close"})
    /\ writer \in WriterStates

\* The handler in the table exists and knows its session.
CallbackKnown == callback # None => alive[callback] /\ handshake_done[callback]

\* The response thread works on the handler in the table.
WriterHoldsMutex ==
    IF writer.pc = "wait" THEN writer = NoResponse
    ELSE writer.conn = callback /\ callback # None

\* Nothing is dispatched to a deleted handler.
DeletedAreIdle ==
    \A c \in Conns : ~alive[c] =>
        reactor[c] = Idle /\ polled[c] = {} /\ ~handshake_done[c]

\* A handler shakes hands once: the connect packet is the first of a connection.
OneHandshake ==
    \A c \in Conns : \A k \in 1 .. Len(inbox[c]) :
        handshake_done[c] \/ k > 1 => inbox[c][k] # "connect"

LifeInv ==
    LifeTypes /\ CallbackKnown /\ WriterHoldsMutex /\ DeletedAreIdle /\ OneHandshake

-----------------------------------------------------------------------------
(* The reactor going on behind an event: only its own connection changes.  *)
LEMMA AfterType ==
  ASSUME reactor \in [Conns -> ReactorStates], NEW c \in Conns, NEW e
  PROVE  /\ After(c, e) \in [Conns -> ReactorStates]
         /\ \A d \in Conns \ {c} : After(c, e)[d] = reactor[d]
         /\ After(c, e)[c].pc \in {"poll", "dispatch"}
<1>1. reactor[c].events \in SUBSET Events
  BY DEF ReactorStates
<1>2. Idle \in ReactorStates
  BY DEF Idle, ReactorStates
<1>3. [Idle EXCEPT !.pc = "dispatch", !.events = reactor[c].events \ {e}] \in ReactorStates
  BY <1>1 DEF Idle, ReactorStates
<1>. QED BY <1>1, <1>2, <1>3 DEF After, Idle

(* What the reactor does to a handler it does to one that exists.          *)
LEMMA BusyAreAlive ==
  ASSUME LifeInv, NEW c \in Conns, reactor[c].pc # "poll" \/ polled[c] # {}
  PROVE  alive[c]
BY DEF LifeInv, LifeTypes, DeletedAreIdle, Idle

(* destroyMe keeps the table free of deleted handlers: the handler in the  *)
(* table knows its session, so it takes its callback with it, and the      *)
(* mutex keeps it waiting until the response thread is done with it.       *)
LEMMA DestroyLife ==
  ASSUME LifeInv, NEW c \in Conns, NEW known \in BOOLEAN,
         handshake_done[c] => known, Destroy(c, known),
         UNCHANGED <<responses_queue, writer>>
  PROVE  LifeInv'
<1>1. LifeTypes'
  BY DEF LifeInv, LifeTypes, Destroy, Delete, Idle, ReactorStates
<1>2. CallbackKnown'
  BY DEF LifeInv, LifeTypes, CallbackKnown, Destroy, Delete
<1>3. WriterHoldsMutex'
  BY DEF LifeInv, WriterHoldsMutex, Destroy
<1>4. DeletedAreIdle'
  BY DEF LifeInv, LifeTypes, DeletedAreIdle, Destroy, Delete
<1>5. OneHandshake'
  BY DEF LifeInv, LifeTypes, OneHandshake, Destroy, Delete
<1>. QED BY <1>1, <1>2, <1>3, <1>4, <1>5 DEF LifeInv

-----------------------------------------------------------------------------
LEMMA LifeInit == Init => LifeInv
<1> SUFFICES ASSUME Init PROVE LifeInv
  OBVIOUS
<1>1. LifeTypes
  <2>1. <<>> \in Seq(Packets) /\ <<>> \in Seq({"heartbeat", "watch", "close"})
    BY EmptySeq
  <2>. QED
    BY <2>1 DEF Init, LifeTypes, Idle, ReactorStates, NoResponse, WriterStates
<1>. QED
  BY <1>1 DEF Init, LifeInv, CallbackKnown, WriterHoldsMutex, DeletedAreIdle, OneHandshake,
     NoResponse

(* The client's steps.                                                     *)
LEMMA LifeClient ==
  ASSUME LifeInv, NEW c \in Conns,
         \/ Connect(c) \/ Receive(c) \/ Leave(c)
         \/ \E packet \in {"heartbeat", "close"} : Ask(c, packet)
  PROVE  LifeInv'
<1> USE DEF LifeInv, LifeTypes
<1>1. CASE Connect(c)
  <2>1. <<"connect">> \in Seq(Packets)
    BY DEF Packets
  <2>2. LifeTypes'
    BY <1>1, <2>1 DEF Connect, dispatcherVars, Events
  <2>3. CallbackKnown' /\ WriterHoldsMutex'
    BY <1>1 DEF Connect, dispatcherVars, CallbackKnown, WriterHoldsMutex
  <2>4. DeletedAreIdle'
    BY <1>1 DEF Connect, DeletedAreIdle
  <2>5. OneHandshake'
    BY <1>1 DEF Connect, DeletedAreIdle, OneHandshake
  <2>. QED BY <2>2, <2>3, <2>4, <2>5
<1>2. CASE Receive(c)
  BY <1>2 DEF Receive, handlerVars, pollVars, dispatcherVars, CallbackKnown,
     WriterHoldsMutex, DeletedAreIdle, OneHandshake
<1>3. CASE Leave(c)
  <2>1. <<>> \in Seq(Packets)
    BY EmptySeq
  <2>2. LifeTypes'
    BY <1>3, <2>1 DEF Leave, handlerVars, pollVars, dispatcherVars
  <2>3. CallbackKnown' /\ WriterHoldsMutex' /\ DeletedAreIdle'
    BY <1>3 DEF Leave, handlerVars, pollVars, dispatcherVars, CallbackKnown,
       WriterHoldsMutex, DeletedAreIdle
  <2>4. OneHandshake'
    BY <1>3 DEF Leave, handlerVars, OneHandshake
  <2>. QED BY <2>2, <2>3, <2>4
<1>4. ASSUME NEW packet \in {"heartbeat", "close"}, Ask(c, packet)
      PROVE  LifeInv'
  <2>1. /\ Append(inbox[c], packet) \in Seq(Packets)
        /\ Len(Append(inbox[c], packet)) = Len(inbox[c]) + 1
        /\ \A k \in 1 .. Len(inbox[c]) : Append(inbox[c], packet)[k] = inbox[c][k]
        /\ Append(inbox[c], packet)[Len(inbox[c]) + 1] = packet
    BY AppendProperties DEF Packets
  <2>2. LifeTypes'
    BY <1>4, <2>1 DEF Ask, handlerVars, pollVars, dispatcherVars
  <2>3. CallbackKnown' /\ WriterHoldsMutex' /\ DeletedAreIdle'
    BY <1>4 DEF Ask, handlerVars, pollVars, dispatcherVars, CallbackKnown,
       WriterHoldsMutex, DeletedAreIdle
  <2>4. OneHandshake'
    BY <1>4, <2>1 DEF Ask, handlerVars, OneHandshake
  <2>. QED BY <2>2, <2>3, <2>4
<1>. QED BY <1>1, <1>2, <1>3, <1>4

(* A reactor step that only moves the reactor of a handler that exists, or *)
(* changes its observers and its poll set, keeps LifeInv.                  *)
LEMMA LifeMoves ==
  ASSUME LifeInv, NEW c \in Conns, alive[c],
         reactor' \in [Conns -> ReactorStates],
         observers' \in [Conns -> SUBSET Events], polled' \in [Conns -> SUBSET Events],
         \A d \in Conns \ {c} : reactor'[d] = reactor[d] /\ polled'[d] = polled[d],
         UNCHANGED <<inbox, alive, handshake_done, callback, responses_queue, writer>>
  PROVE  LifeInv'
BY DEF LifeInv, LifeTypes, CallbackKnown, WriterHoldsMutex, DeletedAreIdle, OneHandshake

LEMMA LifePoll ==
  ASSUME LifeInv, NEW c \in Conns, Poll(c)
  PROVE  LifeInv'
<1>1. alive[c]
  BY BusyAreAlive DEF Poll
<1>2. reactor[c] \in ReactorStates /\ Ready(c) \cap polled[c] \in SUBSET Events
  BY DEF LifeInv, LifeTypes
<1>3. reactor' \in [Conns -> ReactorStates]
  BY <1>2 DEF LifeInv, LifeTypes, Poll, ReactorStates
<1>. QED
  BY <1>1, <1>3, LifeMoves DEF LifeInv, LifeTypes, Poll, pollVars, dispatcherVars,
     handlerVars, socketVars

(* Packets from the client: the handshake, and the other requests.         *)
LEMMA LifeRead ==
  ASSUME LifeInv, NEW c \in Conns,
         \/ \E e \in {"read", "error"} : OnClosed(c, e)
         \/ OnConnect(c) \/ OnRefused(c) \/ OnRequest(c)
  PROVE  LifeInv'
<1>1. CASE \E e \in {"read", "error"} : OnClosed(c, e)
  BY <1>1, DestroyLife DEF OnClosed, LifeInv, LifeTypes
<1>2. ASSUME OnConnect(c) \/ OnRefused(c) \/ OnRequest(c)
      PROVE  /\ alive[c] /\ inbox[c] \in Seq(Packets) /\ inbox[c] # <<>>
             /\ Head(inbox[c]) = inbox[c][1] /\ Head(inbox[c]) \in Packets
             /\ Tail(inbox[c]) \in Seq(Packets)
             /\ Len(Tail(inbox[c])) = Len(inbox[c]) - 1 /\ 1 \in 1 .. Len(inbox[c])
             /\ \A k \in 1 .. Len(Tail(inbox[c])) : Tail(inbox[c])[k] = inbox[c][k + 1]
             /\ \A k \in 1 .. Len(Tail(inbox[c])) : k + 1 \in 1 .. Len(inbox[c])
  <2>1. alive[c]
    BY <1>2, BusyAreAlive DEF OnConnect, OnRefused, OnRequest, Dispatches
  <2>2. inbox[c] \in Seq(Packets) /\ inbox[c] # <<>>
    BY <1>2 DEF OnConnect, OnRefused, OnRequest, LifeInv, LifeTypes
  <2>. QED BY <2>1, <2>2, HeadTailProperties, EmptySeq, LenProperties
<1>3. CASE OnConnect(c)
  <2>1. /\ callback' = IF callback = None THEN c ELSE callback
        /\ handshake_done' = [handshake_done EXCEPT ![c] = TRUE]
        /\ inbox' = [inbox EXCEPT ![c] = Tail(@)]
        /\ reactor' = After(c, "read") /\ Head(inbox[c]) = "connect"
        /\ UNCHANGED <<alive, observers, polled, responses_queue, writer>>
        /\ writer.pc = "wait"
    BY <1>3 DEF OnConnect, pollVars
  <2>2. LifeTypes'
    BY <2>1, <1>2, <1>3, AfterType DEF LifeInv, LifeTypes
  <2>3. CallbackKnown'
    BY <2>1, <1>2, <1>3 DEF LifeInv, LifeTypes, CallbackKnown
  <2>4. WriterHoldsMutex'
    BY <2>1 DEF LifeInv, WriterHoldsMutex
  <2>5. DeletedAreIdle'
    BY <2>1, <1>2, <1>3, AfterType DEF LifeInv, LifeTypes, DeletedAreIdle
  <2>6. OneHandshake'
    BY <2>1, <1>2, <1>3 DEF LifeInv, LifeTypes, OneHandshake
  <2>. QED BY <2>2, <2>3, <2>4, <2>5, <2>6 DEF LifeInv
<1>4. CASE OnRefused(c)
  <2>1. ~handshake_done[c]
    BY <1>2, <1>4 DEF OnRefused, LifeInv, OneHandshake
  <2>. QED BY <1>4, <2>1, DestroyLife DEF OnRefused
<1>5. CASE OnRequest(c)
  <2>1. CASE callback = None
    BY <1>5, <2>1, DestroyLife DEF OnRequest, LifeInv, LifeTypes
  <2>2. CASE callback # None
    <3>1. /\ responses_queue' = Append(responses_queue, Head(inbox[c]))
          /\ inbox' = [inbox EXCEPT ![c] = Tail(@)]
          /\ reactor' = After(c, "read") /\ Head(inbox[c]) # "connect"
          /\ UNCHANGED <<alive, handshake_done, observers, polled, callback, writer>>
      BY <1>5, <2>2 DEF OnRequest, handlerVars, pollVars
    <3>2. responses_queue' \in Seq({"heartbeat", "watch", "close"})
      BY <3>1, <1>2, <1>5, AppendProperties DEF LifeInv, LifeTypes, Packets
    <3>3. LifeTypes'
      BY <3>1, <3>2, <1>2, <1>5, AfterType DEF LifeInv, LifeTypes
    <3>4. CallbackKnown' /\ WriterHoldsMutex'
      BY <3>1 DEF LifeInv, CallbackKnown, WriterHoldsMutex
    <3>5. DeletedAreIdle'
      BY <3>1, <1>2, <1>5, AfterType DEF LifeInv, LifeTypes, DeletedAreIdle
    <3>6. OneHandshake'
      BY <3>1, <1>2, <1>5 DEF LifeInv, LifeTypes, OneHandshake
    <3>. QED BY <3>3, <3>4, <3>5, <3>6 DEF LifeInv
  <2>. QED BY <2>1, <2>2
<1>. QED BY <1>1, <1>3, <1>4, <1>5

(* Sending, and unregistering from writable events.                        *)
LEMMA LifeWrite ==
  ASSUME LifeInv, NEW c \in Conns,
         \/ OnWritable(c) \/ OnSendFailed(c) \/ OnAllClosed(c) \/ OnSent(c)
         \/ RemoveObserver(c) \/ RemoveMode(c) \/ UpdatePollSet(c)
  PROVE  LifeInv'
<1>1. CASE OnSendFailed(c) \/ OnAllClosed(c)
  BY <1>1, DestroyLife DEF OnSendFailed, OnAllClosed, LifeInv, LifeTypes
<1>2. CASE ~(OnSendFailed(c) \/ OnAllClosed(c))
  <2>1. alive[c]
    BY <1>2, BusyAreAlive DEF OnWritable, OnSent, RemoveObserver, RemoveMode, UpdatePollSet,
       Dispatches
  <2>2. UNCHANGED <<inbox, alive, handshake_done, callback, responses_queue, writer>>
    BY <1>2 DEF OnWritable, OnSent, RemoveObserver, RemoveMode, UpdatePollSet,
       socketVars, handlerVars, dispatcherVars
  <2>3. /\ reactor[c] \in ReactorStates /\ reactor \in [Conns -> ReactorStates]
        /\ observers \in [Conns -> SUBSET Events] /\ polled \in [Conns -> SUBSET Events]
        /\ reactor[c].mode \in SUBSET Events
    BY DEF LifeInv, LifeTypes, ReactorStates
  <2>4. /\ \A p \in {"sent", "remove", "mode"} :
             [reactor EXCEPT ![c].pc = p] \in [Conns -> ReactorStates]
        /\ [reactor EXCEPT ![c].pc = "update", ![c].mode = observers[c]]
             \in [Conns -> ReactorStates]
    BY <2>3 DEF ReactorStates
  <2>5. /\ reactor' \in [Conns -> ReactorStates]
        /\ \A d \in Conns \ {c} : reactor'[d] = reactor[d]
    <3>1. \/ reactor' = After(c, "write")
          \/ \E p \in {"sent", "remove", "mode"} : reactor' = [reactor EXCEPT ![c].pc = p]
          \/ reactor' = [reactor EXCEPT ![c].pc = "update", ![c].mode = observers[c]]
      BY <1>2 DEF OnWritable, OnSent, RemoveObserver, RemoveMode, UpdatePollSet
    <3>2. CASE reactor' = After(c, "write")
      BY <2>3, <3>2, AfterType
    <3>3. CASE \E p \in {"sent", "remove", "mode"} : reactor' = [reactor EXCEPT ![c].pc = p]
      BY <2>3, <2>4, <3>3
    <3>4. CASE reactor' = [reactor EXCEPT ![c].pc = "update", ![c].mode = observers[c]]
      BY <2>3, <2>4, <3>4
    <3>. QED BY <3>1, <3>2, <3>3, <3>4
  <2>6. /\ observers' \in [Conns -> SUBSET Events] /\ polled' \in [Conns -> SUBSET Events]
        /\ \A d \in Conns \ {c} : polled'[d] = polled[d]
    BY <1>2, <2>3 DEF OnWritable, OnSent, RemoveObserver, RemoveMode, UpdatePollSet, pollVars
  <2>. QED BY <2>1, <2>2, <2>5, <2>6, LifeMoves
<1>. QED BY <1>1, <1>2

(* The response thread and the other users of the queue of responses.      *)
LEMMA LifeResponses ==
  ASSUME LifeInv, Notify \/ ResponseThread \/ CleanerPush \/ CleanerFinish
  PROVE  LifeInv'
<1>1. CASE Notify \/ CleanerPush
  <2>1. responses_queue' \in Seq({"heartbeat", "watch", "close"})
    <3>1. \E kind \in {"watch", "close"} : responses_queue' = Append(responses_queue, kind)
      BY <1>1 DEF Notify, CleanerPush
    <3>. QED BY <3>1, AppendProperties DEF LifeInv, LifeTypes
  <2>. QED
    BY <1>1, <2>1 DEF Notify, CleanerPush, LifeInv, LifeTypes, CallbackKnown, WriterHoldsMutex,
       DeletedAreIdle, OneHandshake, socketVars, handlerVars, pollVars
<1>2. ASSUME responses_queue # <<>>
      PROVE  /\ Tail(responses_queue) \in Seq({"heartbeat", "watch", "close"})
             /\ Head(responses_queue) \in {"heartbeat", "watch", "close"}
  BY <1>2, HeadTailProperties DEF LifeInv, LifeTypes
<1>3. CASE DropResponse
  BY <1>2, <1>3 DEF DropResponse, LifeInv, LifeTypes, CallbackKnown, WriterHoldsMutex,
     DeletedAreIdle, OneHandshake, socketVars, handlerVars, pollVars
<1>4. CASE PushResponse
  <2>1. /\ callback \in Conns /\ responses_queue' = Tail(responses_queue)
        /\ writer' = [pc |-> "observe", conn |-> callback, mode |-> {},
                      kind |-> Head(responses_queue)]
        /\ responses_queue # <<>>
        /\ UNCHANGED <<inbox, alive, handshake_done, observers, polled, reactor, callback>>
    BY <1>4 DEF PushResponse, LifeInv, LifeTypes, Response, pollVars
  <2>2. writer' \in WriterStates
    BY <1>2, <2>1 DEF WriterStates
  <2>3. LifeTypes'
    BY <1>2, <2>1, <2>2 DEF LifeInv, LifeTypes
  <2>4. WriterHoldsMutex'
    BY <2>1, ConnectionAssumption DEF WriterHoldsMutex
  <2>. QED
    BY <2>1, <2>3, <2>4 DEF LifeInv, CallbackKnown, DeletedAreIdle, OneHandshake
<1>5. ASSUME AddObserver \/ AddMode \/ AddToPollSet
      PROVE  /\ writer.conn = callback /\ callback \in Conns /\ writer \in WriterStates
             /\ alive[callback] /\ observers[callback] \in SUBSET Events
             /\ writer.mode \in SUBSET Events
  BY <1>5, ConnectionAssumption
     DEF AddObserver, AddMode, AddToPollSet, LifeInv, LifeTypes, WriterHoldsMutex,
     CallbackKnown, WriterStates
<1>6. CASE AddObserver \/ AddMode
  <2>1. /\ writer' \in WriterStates /\ writer'.pc # "wait" /\ writer'.conn = writer.conn
    BY <1>5, <1>6 DEF AddObserver, AddMode, WriterStates
  <2>2. observers' \in [Conns -> SUBSET Events]
    <3>1. observers \in [Conns -> SUBSET Events]
      BY DEF LifeInv, LifeTypes
    <3>2. CASE AddObserver
      <4>1. observers' = [observers EXCEPT ![callback] = observers[callback] \cup {"write"}]
        BY <1>5, <3>2 DEF AddObserver
      <4>2. observers[callback] \cup {"write"} \in SUBSET Events
        BY <1>5, <1>6 DEF Events
      <4>. QED BY <3>1, <4>1, <4>2
    <3>3. CASE AddMode
      BY <3>1, <3>3 DEF AddMode, pollVars
    <3>. QED BY <1>6, <3>2, <3>3
  <2>3. UNCHANGED <<inbox, alive, handshake_done, polled, reactor, callback,
                    responses_queue>>
    BY <1>6 DEF AddObserver, AddMode, pollVars, socketVars, handlerVars, dispatcherVars
  <2>. QED
    BY <1>5, <1>6, <2>1, <2>2, <2>3, ConnectionAssumption
       DEF LifeInv, LifeTypes, CallbackKnown, WriterHoldsMutex, DeletedAreIdle, OneHandshake
<1>7. CASE AddToPollSet
  <2>1. /\ writer' = NoResponse /\ callback' \in {callback, None}
        /\ polled' = [polled EXCEPT ![callback] = writer.mode]
        /\ UNCHANGED <<inbox, alive, handshake_done, observers, reactor, responses_queue>>
    BY <1>5, <1>7 DEF AddToPollSet, socketVars, handlerVars
  <2>2. LifeTypes'
    BY <1>5, <1>7, <2>1 DEF LifeInv, LifeTypes, NoResponse, WriterStates
  <2>3. CallbackKnown' /\ WriterHoldsMutex'
    BY <1>5, <1>7, <2>1 DEF LifeInv, CallbackKnown, WriterHoldsMutex, NoResponse
  <2>4. DeletedAreIdle' /\ OneHandshake'
    BY <1>5, <1>7, <2>1 DEF LifeInv, LifeTypes, DeletedAreIdle, OneHandshake
  <2>. QED BY <2>2, <2>3, <2>4 DEF LifeInv
<1>8. CASE CleanerFinish
  BY <1>8 DEF CleanerFinish, LifeInv, LifeTypes, CallbackKnown, WriterHoldsMutex,
     DeletedAreIdle, OneHandshake, socketVars, handlerVars, pollVars
<1>. QED BY <1>1, <1>3, <1>4, <1>6, <1>7, <1>8 DEF ResponseThread

LEMMA LifeNext == LifeInv /\ [Next]_vars => LifeInv'
<1> SUFFICES ASSUME LifeInv, [Next]_vars PROVE LifeInv'
  OBVIOUS
<1>1. ASSUME NEW c \in Conns, Connect(c) \/ Receive(c) \/ Leave(c) \/ Reactor(c)
      PROVE  LifeInv'
  BY <1>1, LifeClient, LifePoll, LifeRead, LifeWrite DEF Reactor
<1>2. ASSUME NEW c \in Conns, NEW packet \in {"heartbeat", "close"}, Ask(c, packet)
      PROVE  LifeInv'
  BY <1>2, LifeClient
<1>3. CASE Notify \/ ResponseThread \/ CleanerPush \/ CleanerFinish
  BY <1>3, LifeResponses
<1>4. CASE UNCHANGED vars
  BY <1>4 DEF vars, LifeInv, LifeTypes, CallbackKnown, WriterHoldsMutex, DeletedAreIdle,
     OneHandshake, socketVars, handlerVars, pollVars, dispatcherVars
<1>. QED BY <1>1, <1>2, <1>3, <1>4 DEF Next

LEMMA LifeCorrect == Spec => []LifeInv
BY LifeInit, LifeNext, PTL DEF Spec

(* The response thread never queues a response in, nor registers for        *)
(* writable events, a handler that the reactor has deleted: finishSession   *)
(* before delete this, with the mutex of the table of callbacks, is enough, *)
(* whatever the clients do, also while a client takes over its session,     *)
(* when the two threads meet in the poll set and when the session cleaner   *)
(* finishes a session that is connected.                                    *)
THEOREM NoUseAfterFreeHolds == Spec => []NoUseAfterFree
<1>1. LifeInv => NoUseAfterFree
  BY DEF LifeInv, CallbackKnown, WriterHoldsMutex, NoUseAfterFree
<1>. QED BY <1>1, LifeCorrect, PTL

-----------------------------------------------------------------------------
(* Registering and unregistering.                                          *)

\* A handler that unregisters has nothing to send and the response thread is not
\* working on it; the modes both threads write are those of the observers as they
\* are; elsewhere the poll set agrees with the observers, among which is the one of
\* writable events as long as there is something to send.
Registered(c) ==
    /\ Removing(c) => responses[c] = <<>> /\ writer.conn # c
    /\ reactor[c].pc = "update" => reactor[c].mode = observers[c]
    /\ writer.conn # c /\ ~Removing(c) => polled[c] = observers[c]
    /\ writer.conn # c /\ responses[c] # <<>> => "write" \in observers[c]
    /\ writer.conn = c /\ writer.pc \in {"mode", "add"} => "write" \in observers[c]
    /\ writer.conn = c /\ writer.pc = "add" => writer.mode = observers[c]

\* Once the threads have met nothing is known of the registration, until one of them
\* begins to change it on its own.
Settled(c) == ~met[c] => Registered(c)

StrandInv ==
    /\ met \in [Conns -> BOOLEAN]
    /\ DOMAIN responses = Conns
    /\ \A c \in Conns : ~alive[c] => responses[c] = <<>>
    /\ \A c \in Conns : Settled(c)

(* A step that leaves a connection and the response thread alone keeps the *)
(* connection as settled as it was.                                        *)
LEMMA SettledElsewhere ==
  ASSUME NEW c \in Conns, Settled(c), writer' = writer,
         met'[c] = met[c], reactor'[c] = reactor[c], responses'[c] = responses[c],
         observers'[c] = observers[c], polled'[c] = polled[c]
  PROVE  Settled(c)'
BY DEF Settled, Registered, Removing

LEMMA StrandInit == Init => StrandInv
BY ConnectionAssumption
   DEF Init, StrandInv, Settled, Registered, Removing, Idle, NoResponse

(* Steps that change neither the handler's queue nor who is registered.    *)
LEMMA StrandQuiet ==
  ASSUME LifeInv, StrandInv,
         UNCHANGED <<met, responses, observers, polled, writer, alive>>,
         \A c \in Conns : \/ reactor'[c] = reactor[c]
                          \/ /\ ~Removing(c) /\ ~Removing(c)'
                             /\ reactor'[c].pc # "update"
  PROVE  StrandInv'
BY DEF StrandInv, Settled, Registered, Removing

LEMMA StrandDestroy ==
  ASSUME LifeInv, StrandInv, NEW c \in Conns, NEW known, Destroy(c, known),
         UNCHANGED writer
  PROVE  StrandInv'
<1>1. writer.conn = None /\ writer.conn # c
  BY ConnectionAssumption DEF Destroy, LifeInv, WriterHoldsMutex, NoResponse
<1>2. Settled(c)'
  BY <1>1 DEF StrandInv, LifeInv, LifeTypes, Settled, Registered, Removing, Destroy, Delete, Idle
<1>3. \A d \in Conns \ {c} : Settled(d)'
  BY SettledElsewhere DEF StrandInv, LifeInv, LifeTypes, Destroy, Delete
<1>. QED BY <1>2, <1>3 DEF StrandInv, LifeInv, LifeTypes, Destroy, Delete

LEMMA StrandClient ==
  ASSUME LifeInv, StrandInv, NEW c \in Conns,
         \/ Connect(c) \/ Receive(c) \/ Leave(c)
         \/ \E packet \in {"heartbeat", "close"} : Ask(c, packet)
  PROVE  StrandInv'
<1>1. CASE Connect(c)
  <2>1. writer.conn # c
    BY <1>1, ConnectionAssumption
       DEF Connect, LifeInv, WriterHoldsMutex, CallbackKnown, NoResponse
  <2>2. Settled(c)'
    BY <1>1, <2>1 DEF Connect, StrandInv, LifeInv, LifeTypes, DeletedAreIdle, Settled, Registered,
       Removing, Idle
  <2>3. \A d \in Conns \ {c} : Settled(d)'
    BY <1>1, SettledElsewhere DEF Connect, StrandInv, LifeInv, LifeTypes
  <2>. QED BY <1>1, <2>2, <2>3 DEF Connect, StrandInv, LifeInv, LifeTypes
<1>2. CASE \/ Receive(c) \/ Leave(c)
           \/ \E packet \in {"heartbeat", "close"} : Ask(c, packet)
  BY <1>2, StrandQuiet DEF Receive, Leave, Ask, handlerVars, pollVars
<1>. QED BY <1>1, <1>2

LEMMA StrandReactor ==
  ASSUME LifeInv, StrandInv, NEW c \in Conns, Reactor(c)
  PROVE  StrandInv'
<1>1. CASE \/ \E e \in {"read", "error"} : OnClosed(c, e)
           \/ OnRefused(c) \/ OnSendFailed(c) \/ OnAllClosed(c)
           \/ OnRequest(c) /\ callback = None
  BY <1>1, StrandDestroy DEF OnClosed, OnRefused, OnSendFailed, OnAllClosed, OnRequest
<1>2. reactor \in [Conns -> ReactorStates]
  BY DEF LifeInv, LifeTypes
<1>3. CASE Poll(c)
  <2>1. /\ \A d \in Conns \ {c} : reactor'[d] = reactor[d]
        /\ reactor[c].pc = "poll" /\ reactor'[c].pc = "dispatch"
    BY <1>2, <1>3 DEF Poll, ReactorStates
  <2>. QED BY <1>3, <2>1, StrandQuiet DEF Poll, handlerVars, pollVars, Removing
<1>4. CASE \/ OnConnect(c)
           \/ OnRequest(c) /\ callback # None
           \/ OnWritable(c) /\ ("write" \notin observers[c]
                                   \/ (responses[c] = <<>> /\ send_buf[c] = <<>>))
  <2>1. reactor' = After(c, "read") \/ reactor' = After(c, "write")
    BY <1>4 DEF OnConnect, OnRequest, OnWritable
  <2>2. reactor[c].pc = "dispatch"
    BY <1>4 DEF OnConnect, OnRequest, OnWritable, Dispatches
  <2>3. UNCHANGED <<met, responses, observers, polled, writer, alive>>
    BY <1>4 DEF OnConnect, OnRequest, OnWritable, handlerVars, pollVars
  <2>. QED BY <1>2, <2>1, <2>2, <2>3, AfterType, StrandQuiet DEF Removing
<1>5. CASE OnWritable(c) /\ ~("write" \notin observers[c]
                                 \/ (responses[c] = <<>> /\ send_buf[c] = <<>>))
  <2>1. /\ reactor[c].pc = "dispatch" /\ reactor' = [reactor EXCEPT ![c].pc = "sent"]
        /\ \E n : responses' = [responses EXCEPT ![c] = Drained(@, n)]
        /\ UNCHANGED <<observers, polled, met, writer, alive>>
        /\ "write" \in observers[c]
    BY <1>5 DEF OnWritable, Dispatches, pollVars
  <2>2. alive[c]
    BY <2>1, BusyAreAlive
  <2>3. reactor'[c].pc = "sent" /\ \A d \in Conns \ {c} : reactor'[d] = reactor[d]
    BY <1>2, <2>1 DEF ReactorStates
  <2>4. /\ DOMAIN responses' = Conns
        /\ \A d \in Conns \ {c} : responses'[d] = responses[d]
    BY <2>1 DEF StrandInv
  <2>5. Settled(c)'
    BY <2>1, <2>3 DEF StrandInv, Settled, Registered, Removing
  <2>6. \A d \in Conns \ {c} : Settled(d)'
    BY <2>1, <2>3, <2>4, SettledElsewhere DEF StrandInv
  <2>. QED BY <2>1, <2>2, <2>4, <2>5, <2>6 DEF StrandInv
<1>6. CASE OnSent(c)
  <2>1. UNCHANGED <<responses, observers, polled, writer, alive>>
    BY <1>6 DEF OnSent, handlerVars
  <2>2. CASE responses[c] = <<>> /\ send_buf[c] = <<>>
    <3>1. /\ reactor[c].pc = "sent"
          /\ reactor' = [reactor EXCEPT ![c].pc = "remove"]
          /\ met' = [met EXCEPT ![c] = writer.conn = c]
      BY <1>6, <2>2 DEF OnSent
    <3>2. reactor'[c].pc = "remove" /\ \A d \in Conns \ {c} : reactor'[d] = reactor[d]
      BY <1>2, <3>1 DEF ReactorStates
    <3>3. Settled(c)'
      BY <2>1, <2>2, <3>1, <3>2 DEF StrandInv, Settled, Registered, Removing
    <3>4. \A d \in Conns \ {c} : Settled(d)'
      BY <2>1, <3>1, <3>2, SettledElsewhere DEF StrandInv
    <3>. QED BY <2>1, <3>1, <3>3, <3>4 DEF StrandInv
  <2>3. CASE ~(responses[c] = <<>> /\ send_buf[c] = <<>>)
    <3>1. reactor' = After(c, "write") /\ reactor[c].pc = "sent" /\ met' = met
      BY <1>6, <2>3 DEF OnSent
    <3>. QED BY <1>2, <2>1, <3>1, AfterType, StrandQuiet DEF Removing
  <2>. QED BY <2>2, <2>3
<1>7. CASE RemoveObserver(c)
  <2>1. /\ reactor'[c].pc = "mode" /\ Removing(c)
        /\ observers'[c] = observers[c] \ {"write"}
        /\ \A d \in Conns \ {c} : reactor'[d] = reactor[d] /\ observers'[d] = observers[d]
        /\ UNCHANGED <<responses, polled, met, writer, alive>>
    BY <1>2, <1>7 DEF RemoveObserver, Removing, LifeInv, LifeTypes, handlerVars,
       ReactorStates
  <2>2. Settled(c)'
    BY <2>1 DEF StrandInv, Settled, Registered, Removing
  <2>3. \A d \in Conns \ {c} : Settled(d)'
    BY <2>1, SettledElsewhere DEF StrandInv
  <2>. QED BY <2>1, <2>2, <2>3 DEF StrandInv
<1>8. CASE RemoveMode(c)
  <2>1. /\ reactor'[c].pc = "update" /\ reactor'[c].mode = observers[c] /\ Removing(c)
        /\ \A d \in Conns \ {c} : reactor'[d] = reactor[d]
        /\ UNCHANGED <<responses, observers, polled, met, writer, alive>>
    BY <1>2, <1>8 DEF RemoveMode, Removing, handlerVars, pollVars, ReactorStates
  <2>2. Settled(c)'
    BY <2>1 DEF StrandInv, Settled, Registered, Removing
  <2>3. \A d \in Conns \ {c} : Settled(d)'
    BY <2>1, SettledElsewhere DEF StrandInv
  <2>. QED BY <2>1, <2>2, <2>3 DEF StrandInv
<1>9. CASE UpdatePollSet(c)
  <2>1. /\ reactor[c].pc = "update" /\ polled'[c] = reactor[c].mode
        /\ reactor' = After(c, "write")
        /\ \A d \in Conns \ {c} : polled'[d] = polled[d]
        /\ UNCHANGED <<responses, observers, met, writer, alive>>
    BY <1>9 DEF UpdatePollSet, LifeInv, LifeTypes, handlerVars
  <2>2. Settled(c)'
    BY <1>2, <2>1, AfterType DEF StrandInv, Settled, Registered, Removing
  <2>3. \A d \in Conns \ {c} : Settled(d)'
    BY <1>2, <2>1, AfterType, SettledElsewhere DEF StrandInv
  <2>. QED BY <2>1, <2>2, <2>3 DEF StrandInv
<1>. QED
  BY <1>1, <1>3, <1>4, <1>5, <1>6, <1>7, <1>8, <1>9 DEF Reactor

LEMMA StrandResponses ==
  ASSUME LifeInv, StrandInv, Notify \/ ResponseThread \/ CleanerPush \/ CleanerFinish
  PROVE  StrandInv'
<1>1. CASE Notify \/ DropResponse \/ CleanerPush \/ CleanerFinish
  BY <1>1, StrandQuiet
     DEF Notify, DropResponse, CleanerPush, CleanerFinish, handlerVars, pollVars
<1>2. CASE PushResponse
  <2>1. /\ callback \in Conns /\ alive[callback]
        /\ writer.conn = None /\ writer'.conn = callback /\ writer'.pc = "observe"
        /\ \A d \in Conns \ {callback} : responses'[d] = responses[d]
        /\ DOMAIN responses' = Conns
        /\ met' = [met EXCEPT ![callback] = Removing(callback)]
        /\ UNCHANGED <<observers, polled, reactor, alive, callback>>
    BY <1>2 DEF PushResponse, LifeInv, LifeTypes, CallbackKnown, WriterHoldsMutex,
       NoResponse, StrandInv
  <2>2. Settled(callback)'
    BY <2>1 DEF StrandInv, Settled, Registered, Removing
  <2>3. \A d \in Conns \ {callback} : Settled(d)'
    BY <2>1, ConnectionAssumption DEF StrandInv, Settled, Registered, Removing
  <2>4. met' \in [Conns -> BOOLEAN]
    BY <2>1 DEF StrandInv, Removing
  <2>. QED BY <2>1, <2>2, <2>3, <2>4 DEF StrandInv
<1>3. ASSUME AddObserver \/ AddMode \/ AddToPollSet
      PROVE  /\ writer.conn \in Conns
             /\ UNCHANGED <<responses, reactor, alive, met>>
             /\ writer \in WriterStates
  BY <1>3, ConnectionAssumption
     DEF AddObserver, AddMode, AddToPollSet, LifeInv, LifeTypes, WriterHoldsMutex,
     handlerVars, pollVars
<1>4. CASE AddObserver
  <2>1. /\ observers'[writer.conn] = observers[writer.conn] \cup {"write"}
        /\ \A d \in Conns \ {writer.conn} : observers'[d] = observers[d]
        /\ writer'.conn = writer.conn /\ writer'.pc = "mode" /\ polled' = polled
    BY <1>3, <1>4 DEF AddObserver, LifeInv, LifeTypes, WriterStates
  <2>2. \A d \in Conns : Settled(d)'
    BY <1>3, <1>4, <2>1 DEF StrandInv, Settled, Registered, Removing
  <2>. QED BY <1>3, <1>4, <2>2 DEF StrandInv
<1>5. CASE AddMode
  <2>1. /\ writer'.conn = writer.conn /\ writer'.pc = "add"
        /\ writer'.mode = observers[writer.conn] /\ writer.pc = "mode"
        /\ polled' = polled /\ observers' = observers
    BY <1>3, <1>5 DEF AddMode, WriterStates, pollVars
  <2>2. \A d \in Conns : Settled(d)'
    BY <1>3, <1>5, <2>1 DEF StrandInv, Settled, Registered, Removing
  <2>. QED BY <1>3, <1>5, <2>2 DEF StrandInv
<1>6. CASE AddToPollSet
  <2>1. /\ writer'.conn = None /\ writer'.pc = "wait" /\ writer.pc = "add"
        /\ polled'[writer.conn] = writer.mode /\ observers' = observers
        /\ \A d \in Conns \ {writer.conn} : polled'[d] = polled[d]
    BY <1>3, <1>6 DEF AddToPollSet, NoResponse, LifeInv, LifeTypes
  <2>2. \A d \in Conns : Settled(d)'
    BY <1>3, <1>6, <2>1, ConnectionAssumption DEF StrandInv, Settled, Registered, Removing
  <2>. QED BY <1>3, <1>6, <2>2 DEF StrandInv
<1>. QED BY <1>1, <1>2, <1>4, <1>5, <1>6 DEF ResponseThread

LEMMA StrandNext == LifeInv /\ StrandInv /\ [Next]_vars => StrandInv'
<1> SUFFICES ASSUME LifeInv, StrandInv, [Next]_vars PROVE StrandInv'
  OBVIOUS
<1>1. ASSUME NEW c \in Conns, Connect(c) \/ Receive(c) \/ Leave(c) \/ Reactor(c)
      PROVE  StrandInv'
  BY <1>1, StrandClient, StrandReactor
<1>2. ASSUME NEW c \in Conns, NEW packet \in {"heartbeat", "close"}, Ask(c, packet)
      PROVE  StrandInv'
  BY <1>2, StrandClient
<1>3. CASE Notify \/ ResponseThread \/ CleanerPush \/ CleanerFinish
  BY <1>3, StrandResponses
<1>4. CASE UNCHANGED vars
  BY <1>4, StrandQuiet DEF vars, handlerVars, pollVars
<1>. QED BY <1>1, <1>2, <1>3, <1>4 DEF Next

LEMMA StrandCorrect == Spec => [](LifeInv /\ StrandInv)
BY StrandInit, StrandNext, LifeCorrect, PTL DEF Spec

(* However the two threads interleave: a response waits in a handler that   *)
(* will not send it only when the last change of the registration began     *)
(* while the other thread was at one.  A connection on which they met is    *)
(* put right by the next one that runs alone.                               *)
THEOREM StrandedOnlyWhenMetHolds == Spec => []StrandedOnlyWhenMet
<1>1. StrandInv => StrandedOnlyWhenMet
  BY DEF StrandInv, Settled, Registered, Stranded, StrandedOnlyWhenMet
<1>. QED BY <1>1, StrandCorrect, PTL

(* The session cleaner's place.                                            *)
CleanerType == cleaner \in {"check", "finish"}

LEMMA CleanerCorrect == Spec => []CleanerType
<1>1. Init => CleanerType
  BY DEF Init, CleanerType
<1>2. CleanerType /\ [Next]_vars => CleanerType'
  <2> SUFFICES ASSUME [Next]_vars PROVE cleaner' \in {cleaner, "check", "finish"}
    BY DEF CleanerType
  <2>1. ASSUME NEW c \in Conns, Connect(c) \/ Receive(c) \/ Leave(c) \/ Reactor(c)
        PROVE  cleaner' = cleaner
    BY <2>1 DEF Connect, Receive, Leave, Reactor, Poll, OnClosed, OnConnect, OnRefused,
       OnRequest, OnWritable, OnSendFailed, OnAllClosed, OnSent, RemoveObserver, RemoveMode,
       UpdatePollSet
  <2>2. ASSUME NEW c \in Conns, NEW packet \in {"heartbeat", "close"}, Ask(c, packet)
        PROVE  cleaner' = cleaner
    BY <2>2 DEF Ask
  <2>3. CASE Notify \/ ResponseThread \/ UNCHANGED vars
    BY <2>3 DEF Notify, ResponseThread, DropResponse, PushResponse, AddObserver, AddMode,
       AddToPollSet, vars
  <2>4. CASE CleanerPush \/ CleanerFinish
    BY <2>4 DEF CleanerPush, CleanerFinish
  <2>. QED BY <2>1, <2>2, <2>3, <2>4 DEF Next
<1>. QED BY <1>1, <1>2, PTL DEF Spec

-----------------------------------------------------------------------------
(* The bytes of a queue of responses                                       *)

ByteSet == Kinds \X Int
Whole   == [kind : Kinds \ {"close"}, left : {ResponseBytes}]

(* FlattenSeq takes one more sequence at the end.                          *)
LEMMA FlattenAppend ==
  ASSUME NEW S, NEW s \in Seq(Seq(S)), NEW x \in Seq(S)
  PROVE  /\ FlattenSeq(<<>>) = <<>>
         /\ FlattenSeq(Append(s, x)) = FlattenSeq(s) \o x
<1> DEFINE cat(a, b) == a \o b
           Unrolls(g, t, m) == g = [i \in 1 .. m |-> IF i = 1 THEN t[i] ELSE cat(g[i - 1], t[i])]
<1>1. ASSUME NEW t, NEW m \in Nat, m >= 1
      PROVE  \E g : Unrolls(g, t, m)
  <2> DEFINE T == {k \in 1 .. m : \E g : Unrolls(g, t, k)}
  <2> HIDE DEF cat
  <2>1. 1 \in T
    <3> DEFINE g == [k \in 1 .. 1 |-> t[1]]
    <3>1. Unrolls(g, t, 1)
      OBVIOUS
    <3> HIDE DEF Unrolls, g
    <3>. QED BY <1>1, <3>1
  <2>2. ASSUME NEW k \in 1 .. m - 1, k \in T PROVE k + 1 \in T
    <3>1. PICK g : Unrolls(g, t, k)
      BY <2>2
    <3> DEFINE h == [j \in 1 .. k + 1 |-> IF j = k + 1 THEN cat(g[k], t[k + 1]) ELSE g[j]]
    <3>2. Unrolls(h, t, k + 1)
      <4>1. ASSUME NEW j \in 1 .. k + 1
            PROVE  h[j] = IF j = 1 THEN t[j] ELSE cat(h[j - 1], t[j])
        <5>1. CASE j = k + 1
          BY <5>1
        <5>2. CASE j # k + 1
          BY <3>1, <5>2
        <5>. QED BY <5>1, <5>2
      <4>. QED BY <4>1
    <3> HIDE DEF Unrolls, h
    <3>. QED BY <3>2
  <2> HIDE DEF T, Unrolls
  <2>3. 1 \in Int /\ m \in Int
    OBVIOUS
  <2>4. \A k \in 1 .. m : k \in T
    BY <2>1, <2>2, <2>3, FromTo, Zenon
  <2>5. m \in T
    BY <1>1, <2>4
  <2>. QED BY <2>5 DEF T
<1>2. ASSUME NEW t, Len(t) \in Nat, Len(t) >= 1
      PROVE  \E g : Unrolls(g, t, Len(t)) /\ FlattenSeq(t) = g[Len(t)]
  <2>1. PICK g : Unrolls(g, t, Len(t))
    BY <1>1, <1>2
  <2>2. Len(t) # 0
    BY <1>2
  <2>. QED BY <2>1, <2>2 DEF FlattenSeq
<1>3. FlattenSeq(<<>>) = <<>>
  BY DEF FlattenSeq
<1> DEFINE n == Len(s)
           t == Append(s, x)
<1>4. /\ n \in Nat /\ Len(t) = n + 1 /\ t[n + 1] = x
      /\ \A i \in 1 .. n : t[i] = s[i]
  BY AppendProperties
<1> HIDE DEF n, t
<1>5. CASE n = 0
  <2>1. s = <<>> /\ FlattenSeq(s) = <<>>
    BY <1>3, <1>5, EmptySeq DEF n
  <2>2. PICK g : Unrolls(g, t, 1) /\ FlattenSeq(t) = g[1]
    <3>1. Len(t) = 1
      BY <1>4, <1>5
    <3> HIDE DEF Unrolls
    <3>2. Len(t) \in Nat /\ Len(t) >= 1
      BY <3>1
    <3>3. PICK g : Unrolls(g, t, Len(t)) /\ FlattenSeq(t) = g[Len(t)]
      BY <1>2, <3>2
    <3>. QED BY <3>1, <3>3
  <2>3. FlattenSeq(t) = x
    BY <1>4, <1>5, <2>2
  <2>. QED BY <1>3, <2>1, <2>3 DEF t
<1>6. CASE n # 0
  <2>0. n \in Nat /\ n >= 1 /\ n + 1 \in Nat /\ n + 1 >= 1
    BY <1>4, <1>6
  <2>1. PICK g : Unrolls(g, s, n) /\ FlattenSeq(s) = g[n]
    BY <1>2, <2>0 DEF n
  <2>2. PICK h : Unrolls(h, t, n + 1) /\ FlattenSeq(t) = h[n + 1]
    BY <1>2, <1>4, <2>0
  <2> DEFINE T == {k \in 1 .. n : g[k] = h[k]}
  <2> HIDE DEF cat
  <2>3. 1 \in T
    BY <1>4, <2>0, <2>1, <2>2
  <2>4. ASSUME NEW k \in 1 .. n - 1, k \in T PROVE k + 1 \in T
    <3>1. g[k + 1] = cat(g[k], s[k + 1])
      BY <2>0, <2>1, <2>4
    <3>2. h[k + 1] = cat(h[k], t[k + 1])
      BY <2>0, <2>2, <2>4
    <3>3. t[k + 1] = s[k + 1] /\ k + 1 \in 1 .. n
      BY <1>4, <2>0, <2>4
    <3>. QED BY <2>4, <3>1, <3>2, <3>3
  <2>5. h[n + 1] = cat(h[n], t[n + 1])
    BY <2>0, <2>2
  <2> HIDE DEF T, Unrolls
  <2>6. \A k \in 1 .. n : k \in T
    <3>1. 1 \in Int /\ n \in Int
      BY <2>0
    <3>. QED BY <2>3, <2>4, <3>1, FromTo, Zenon
  <2>7. g[n] = h[n]
    BY <2>0, <2>6 DEF T
  <2>. QED BY <1>3, <1>4, <2>1, <2>2, <2>5, <2>7 DEF t, cat
<1>. QED BY <1>5, <1>6

(* Induction over sequences, with a set in place of the predicate.         *)
LEMMA OverSequences ==
  ASSUME NEW S, NEW T, <<>> \in T, \A s \in Seq(S), e \in S : s \in T => Append(s, e) \in T
  PROVE  \A s \in Seq(S) : s \in T
<1> SUFFICES ASSUME NEW s \in Seq(S) PROVE s \in T
  OBVIOUS
<1> DEFINE n == Len(s)
           U == {k \in 0 .. n : SubSeq(s, 1, k) \in T}
<1>1. n \in Nat
  OBVIOUS
<1>2. 0 \in U
  <2>1. SubSeq(s, 1, 0) = <<>>
    BY SubSeqEmpty
  <2>2. 0 \in 0 .. n
    BY <1>1
  <2>3. SubSeq(s, 1, 0) \in T
    BY <2>1, Zenon
  <2>. QED BY <2>2, <2>3, Zenon
<1>3. ASSUME NEW k \in 0 .. n - 1, k \in U PROVE k + 1 \in U
  <2>1. k + 1 \in 1 .. n /\ k \in 0 .. n
    BY <1>1
  <2>2. SubSeq(s, 1, k) \in Seq(S) /\ s[k + 1] \in S
    BY <2>1
  <2>3. SubSeq(s, 1, k + 1) = Append(SubSeq(s, 1, k), s[k + 1])
    BY <2>1
  <2>4. SubSeq(s, 1, k) \in T
    BY <1>3, Zenon
  <2>5. Append(SubSeq(s, 1, k), s[k + 1]) \in T
    BY <2>2, <2>4, Zenon
  <2>6. SubSeq(s, 1, k + 1) \in T
    BY <2>3, <2>5, Zenon
  <2>7. k + 1 \in 0 .. n
    BY <1>1, <2>1
  <2>. QED BY <2>6, <2>7, Zenon
<1> HIDE DEF U
<1>4. \A k \in 0 .. n : k \in U
  <2> HIDE DEF n
  <2>. QED BY <1>1, <1>2, <1>3, UpTo
<1>5. n \in U
  BY <1>1, <1>4
<1>6. SubSeq(s, 1, n) = s
  BY SubSeqFull
<1>. QED BY <1>5, <1>6 DEF U

Resp == [kind : Kinds, left : 0 .. ResponseBytes]

LEMMA BytesOfType ==
  ASSUME NEW r \in Resp
  PROVE  BytesOf(r) \in Seq(ByteSet) /\ Len(BytesOf(r)) = r.left /\ r.left \in Nat
<1>1. ResponseBytes \in Nat /\ r.left \in Nat /\ r.kind \in Kinds
  BY ConnectionAssumption DEF Resp
<1>2. \A k \in 1 .. r.left : <<r.kind, ResponseBytes - r.left + k>> \in ByteSet
  BY <1>1 DEF ByteSet
<1>3. BytesOf(r) \in [1 .. r.left -> ByteSet]
  BY <1>2 DEF BytesOf
<1>. QED BY <1>1, <1>3

LEMMA BytesEmpty == Bytes(<<>>) = <<>>
<1>1. [k \in DOMAIN <<>> |-> BytesOf(<<>>[k])] = <<>>
  OBVIOUS
<1>2. FlattenSeq(<<>>) = <<>>
  BY DEF FlattenSeq
<1>. QED BY <1>1, <1>2 DEF Bytes

LEMMA BytesAppend ==
  ASSUME NEW rs \in Seq(Resp), NEW r \in Resp
  PROVE  Bytes(Append(rs, r)) = Bytes(rs) \o BytesOf(r)
<1> DEFINE s == [k \in DOMAIN rs |-> BytesOf(rs[k])]
           t == [k \in DOMAIN Append(rs, r) |-> BytesOf(Append(rs, r)[k])]
<1>1. s \in Seq(Seq(ByteSet)) /\ Len(s) = Len(rs)
  <2>1. \A k \in 1 .. Len(rs) : rs[k] \in Resp
    OBVIOUS
  <2>2. s \in [1 .. Len(rs) -> Seq(ByteSet)]
    BY <2>1, BytesOfType
  <2>. QED BY <2>2
<1>2. BytesOf(r) \in Seq(ByteSet)
  BY BytesOfType
<1>3. t = Append(s, BytesOf(r))
  <2> DEFINE a == Append(rs, r)
             b == BytesOf(r)
  <2>1. /\ a \in Seq(Resp) /\ Len(a) = Len(rs) + 1 /\ DOMAIN a = 1 .. Len(rs) + 1
        /\ \A k \in 1 .. Len(rs) : a[k] = rs[k]
        /\ a[Len(rs) + 1] = r
    BY AppendProperties
  <2>2. /\ Append(s, b) \in Seq(Seq(ByteSet)) /\ Len(Append(s, b)) = Len(rs) + 1
        /\ \A k \in 1 .. Len(rs) : Append(s, b)[k] = s[k]
        /\ Append(s, b)[Len(rs) + 1] = b
    <3> HIDE DEF s, b
    <3>. QED BY <1>1, <1>2, AppendProperties DEF b
  <2>3. ASSUME NEW k \in 1 .. Len(rs) + 1
        PROVE  t[k] = Append(s, b)[k]
    <3>1. CASE k = Len(rs) + 1
      BY <2>1, <2>2, <3>1
    <3>2. CASE k \in 1 .. Len(rs)
      <4>1. t[k] = BytesOf(a[k]) /\ s[k] = BytesOf(rs[k])
        BY <2>1, <3>2
      <4>. QED BY <2>1, <2>2, <3>2, <4>1
    <3>. QED BY <3>1, <3>2
  <2>4. t = [k \in 1 .. Len(rs) + 1 |-> t[k]]
    BY <2>1
  <2>5. Append(s, b) = [k \in 1 .. Len(rs) + 1 |-> Append(s, b)[k]]
    <3> HIDE DEF s, b
    <3>. QED BY <2>2, LenProperties
  <2> HIDE DEF s, t, a, b
  <2>6. t = Append(s, b)
    BY <2>3, <2>4, <2>5
  <2>. QED BY <2>6 DEF b
<1>4. Bytes(rs) = FlattenSeq(s) /\ Bytes(Append(rs, r)) = FlattenSeq(t)
  BY DEF Bytes
<1> HIDE DEF s, t
<1>. QED BY <1>1, <1>2, <1>3, <1>4, FlattenAppend

LEMMA BytesType ==
  ASSUME NEW rs \in Seq(Resp)
  PROVE  Bytes(rs) \in Seq(ByteSet) /\ Len(Bytes(rs)) \in Nat
<1> DEFINE T == {s \in Seq(Resp) : Bytes(s) \in Seq(ByteSet)}
<1>1. <<>> \in T
  <2>1. <<>> \in Seq(Resp) /\ <<>> \in Seq(ByteSet)
    BY EmptySeq
  <2>. QED BY <2>1, BytesEmpty
<1>2. ASSUME NEW s \in Seq(Resp), NEW r \in Resp, s \in T PROVE Append(s, r) \in T
  <2>1. Bytes(Append(s, r)) = Bytes(s) \o BytesOf(r)
    BY BytesAppend
  <2>2. Bytes(s) \in Seq(ByteSet) /\ BytesOf(r) \in Seq(ByteSet) /\ Append(s, r) \in Seq(Resp)
    BY <1>2, BytesOfType
  <2>3. Bytes(s) \o BytesOf(r) \in Seq(ByteSet)
    BY <2>2, ConcatProperties
  <2>. QED BY <2>1, <2>2, <2>3
<1> HIDE DEF T
<1>3. rs \in T
  BY <1>1, <1>2, OverSequences
<1>. QED BY <1>3 DEF T

LEMMA BytesConcat ==
  ASSUME NEW rs \in Seq(Resp), NEW qs \in Seq(Resp)
  PROVE  Bytes(rs \o qs) = Bytes(rs) \o Bytes(qs)
<1> DEFINE T == {s \in Seq(Resp) : Bytes(rs \o s) = Bytes(rs) \o Bytes(s)}
<1>1. <<>> \in T
  <2>1. rs \o <<>> = rs /\ Bytes(rs) \o <<>> = Bytes(rs)
    BY BytesType, ConcatEmptySeq
  <2>2. Bytes(<<>>) = <<>> /\ <<>> \in Seq(Resp)
    BY BytesEmpty, EmptySeq
  <2>. QED BY <2>1, <2>2
<1>2. ASSUME NEW s \in Seq(Resp), NEW r \in Resp, s \in T PROVE Append(s, r) \in T
  <2>1. rs \o Append(s, r) = Append(rs \o s, r) /\ rs \o s \in Seq(Resp)
    OBVIOUS
  <2>2. Bytes(Append(rs \o s, r)) = Bytes(rs \o s) \o BytesOf(r)
    BY <2>1, BytesAppend
  <2>3. Bytes(Append(s, r)) = Bytes(s) \o BytesOf(r)
    BY BytesAppend
  <2> DEFINE a == Bytes(rs)
             b == Bytes(s)
             o == BytesOf(r)
  <2>4. (a \o b) \o o = a \o (b \o o)
    <3>1. a \in Seq(ByteSet) /\ b \in Seq(ByteSet) /\ o \in Seq(ByteSet)
      BY BytesType, BytesOfType
    <3> HIDE DEF a, b, o, T
    <3>. QED BY ONLY <3>1
  <2>5. Append(s, r) \in Seq(Resp) /\ Bytes(rs \o s) = Bytes(rs) \o Bytes(s)
    BY <1>2
  <2>. QED BY <2>1, <2>2, <2>3, <2>4, <2>5
<1> HIDE DEF T
<1>3. qs \in T
  BY <1>1, <1>2, OverSequences
<1>. QED BY <1>3 DEF T

(* The first elements of a concatenation are dropped.                      *)
LEMMA DropConcat ==
  ASSUME NEW S, NEW a \in Seq(S), NEW b \in Seq(S), NEW m \in 0 .. Len(a)
  PROVE  SubSeq(a \o b, m + 1, Len(a \o b)) = SubSeq(a, m + 1, Len(a)) \o b
<1>1. /\ a \o b \in Seq(S) /\ Len(a \o b) = Len(a) + Len(b)
      /\ \A i \in 1 .. Len(a) + Len(b) :
            (a \o b)[i] = IF i <= Len(a) THEN a[i] ELSE b[i - Len(a)]
  BY ConcatProperties
<1> DEFINE l == SubSeq(a \o b, m + 1, Len(a \o b))
           d == SubSeq(a, m + 1, Len(a))
<1>2. /\ l \in Seq(S) /\ Len(l) = Len(a) + Len(b) - m
      /\ \A i \in 1 .. Len(a) + Len(b) - m : l[i] = (a \o b)[m + i]
  <2> HIDE DEF l
  <2>. QED BY <1>1 DEF l
<1>3. d \in Seq(S) /\ Len(d) = Len(a) - m /\ \A i \in 1 .. Len(a) - m : d[i] = a[m + i]
  OBVIOUS
<1> HIDE DEF l, d
<1>4. /\ d \o b \in Seq(S) /\ Len(d \o b) = Len(d) + Len(b)
      /\ \A i \in 1 .. Len(d) + Len(b) :
            (d \o b)[i] = IF i <= Len(d) THEN d[i] ELSE b[i - Len(d)]
  BY <1>3, ConcatProperties
<1>5. ASSUME NEW i \in 1 .. Len(l) PROVE l[i] = (d \o b)[i]
  <2>1. Len(a) \in Nat /\ Len(b) \in Nat
    OBVIOUS
  <2>2. CASE i <= Len(a) - m
    BY <1>1, <1>2, <1>3, <1>4, <2>1, <2>2
  <2>3. CASE i > Len(a) - m
    <3>1. /\ (a \o b)[m + i] = b[m + i - Len(a)]
          /\ (d \o b)[i] = b[i - (Len(a) - m)] /\ l[i] = (a \o b)[m + i]
      BY <1>1, <1>2, <1>3, <1>4, <2>1, <2>3
    <3>2. m + i - Len(a) = i - (Len(a) - m)
      BY <1>2, <2>1
    <3>. QED BY <3>1, <3>2
  <2>4. i <= Len(a) - m \/ i > Len(a) - m
    BY <1>2, <2>1
  <2>. QED BY <2>2, <2>3, <2>4
<1>6. Len(l) = Len(d \o b)
  BY <1>2, <1>3, <1>4
<1>7. l = d \o b
  BY <1>2, <1>4, <1>5, <1>6, SeqEqual
<1>. QED BY <1>7 DEF l, d

LEMMA DropPrefix ==
  ASSUME NEW S, NEW a \in Seq(S), NEW b \in Seq(S), NEW m \in 0 .. Len(b)
  PROVE  SubSeq(a \o b, Len(a) + m + 1, Len(a \o b)) = SubSeq(b, m + 1, Len(b))
<1>1. /\ a \o b \in Seq(S) /\ Len(a \o b) = Len(a) + Len(b)
      /\ \A i \in 1 .. Len(a) + Len(b) :
            (a \o b)[i] = IF i <= Len(a) THEN a[i] ELSE b[i - Len(a)]
  BY ConcatProperties
<1>0. Len(a) \in Nat /\ Len(b) \in Nat
  OBVIOUS
<1> DEFINE l == SubSeq(a \o b, Len(a) + m + 1, Len(a \o b))
           d == SubSeq(b, m + 1, Len(b))
<1>2. /\ l \in Seq(S) /\ Len(l) = Len(b) - m
      /\ \A i \in 1 .. Len(b) - m : l[i] = (a \o b)[Len(a) + m + i]
  <2> HIDE DEF l
  <2>. QED BY <1>0, <1>1 DEF l
<1>3. d \in Seq(S) /\ Len(d) = Len(b) - m /\ \A i \in 1 .. Len(b) - m : d[i] = b[m + i]
  OBVIOUS
<1> HIDE DEF l, d
<1>4. ASSUME NEW i \in 1 .. Len(l) PROVE l[i] = d[i]
  <2>1. Len(a) + m + i \in 1 .. Len(a) + Len(b) /\ Len(a) + m + i > Len(a)
        /\ Len(a) + m + i - Len(a) = m + i /\ i \in 1 .. Len(b) - m
    BY <1>0, <1>2
  <2>2. (a \o b)[Len(a) + m + i] = b[Len(a) + m + i - Len(a)]
    BY <1>0, <1>1, <2>1
  <2>. QED BY <1>2, <1>3, <2>1, <2>2
<1>5. l = d
  BY <1>2, <1>3, <1>4, SeqEqual
<1>. QED BY <1>5 DEF l, d

(* A queue is what is in front of a place and what is behind it.           *)
LEMMA BytesSplit ==
  ASSUME NEW rs \in Seq(Resp), NEW k \in 0 .. Len(rs)
  PROVE  /\ SubSeq(rs, 1, k) \in Seq(Resp) /\ SubSeq(rs, k + 1, Len(rs)) \in Seq(Resp)
         /\ Bytes(rs) = Bytes(SubSeq(rs, 1, k)) \o Bytes(SubSeq(rs, k + 1, Len(rs)))
<1>1. SubSeq(rs, 1, k) \in Seq(Resp) /\ SubSeq(rs, k + 1, Len(rs)) \in Seq(Resp)
  OBVIOUS
<1>2. SubSeq(rs, 1, k) \o SubSeq(rs, k + 1, Len(rs)) = rs
  <2>1. 1 \in 1 .. Len(rs) + 1 /\ k \in 1 - 1 .. Len(rs) /\ Len(rs) \in k .. Len(rs)
    OBVIOUS
  <2>2. SubSeq(rs, 1, k) \o SubSeq(rs, k + 1, Len(rs)) = SubSeq(rs, 1, Len(rs))
    BY <2>1, ConcatAdjacentSubSeq
  <2>. QED BY <2>2, SubSeqFull
<1>3. Bytes(SubSeq(rs, 1, k) \o SubSeq(rs, k + 1, Len(rs)))
        = Bytes(SubSeq(rs, 1, k)) \o Bytes(SubSeq(rs, k + 1, Len(rs)))
  BY <1>1, BytesConcat
<1>. QED BY <1>1, <1>2, <1>3

LEMMA BytesHead ==
  ASSUME NEW h \in Resp, NEW t \in Seq(Resp)
  PROVE  Bytes(<<h>> \o t) = BytesOf(h) \o Bytes(t)
<1>1. <<h>> \in Seq(Resp) /\ <<h>> = Append(<<>>, h) /\ <<>> \in Seq(Resp)
  BY EmptySeq
<1>2. Bytes(<<h>>) = BytesOf(h)
  <2>1. Bytes(<<h>>) = <<>> \o BytesOf(h)
    BY <1>1, BytesAppend, BytesEmpty
  <2>. QED BY <2>1, BytesOfType, ConcatEmptySeq
<1>. QED BY <1>1, <1>2, BytesConcat

(* A response some of whose bytes are sent: its last bytes are left.       *)
LEMMA BytesOfRest ==
  ASSUME NEW r \in Resp, NEW m \in 0 .. r.left
  PROVE  /\ [r EXCEPT !.left = @ - m] \in Resp
         /\ BytesOf([r EXCEPT !.left = @ - m]) = SubSeq(BytesOf(r), m + 1, Len(BytesOf(r)))
<1> DEFINE q == [r EXCEPT !.left = @ - m]
           b == BytesOf(r)
           d == SubSeq(b, m + 1, Len(b))
<1>1. /\ ResponseBytes \in Nat /\ r.left \in Nat /\ r.left <= ResponseBytes
      /\ q.left = r.left - m /\ q.kind = r.kind /\ q \in Resp
  BY ConnectionAssumption DEF Resp
<1>2. /\ b \in Seq(ByteSet) /\ Len(b) = r.left
      /\ BytesOf(q) \in Seq(ByteSet) /\ Len(BytesOf(q)) = q.left
  BY <1>1, BytesOfType
<1>3. \A k \in 1 .. r.left : b[k] = <<r.kind, ResponseBytes - r.left + k>>
  BY DEF BytesOf
<1>4. \A k \in 1 .. q.left : BytesOf(q)[k] = <<q.kind, ResponseBytes - q.left + k>>
  BY DEF BytesOf
<1> HIDE DEF q, b
<1>5. d \in Seq(ByteSet) /\ Len(d) = r.left - m /\ \A k \in 1 .. r.left - m : d[k] = b[m + k]
  BY <1>1, <1>2
<1> HIDE DEF d
<1>6. ASSUME NEW k \in 1 .. Len(d) PROVE BytesOf(q)[k] = d[k]
  <2>1. /\ m + k \in 1 .. r.left /\ k \in 1 .. q.left /\ k \in 1 .. r.left - m
        /\ ResponseBytes - q.left + k = ResponseBytes - r.left + (m + k)
    BY <1>1, <1>5
  <2>. QED BY <1>1, <1>3, <1>4, <1>5, <2>1
<1>7. BytesOf(q) = d
  BY <1>1, <1>2, <1>5, <1>6, SeqEqual
<1>. QED BY <1>1, <1>7 DEF q, d, b

(* "remove sent responses" takes off the queue exactly the bytes that were *)
(* sent, wherever in the queue they end, as long as a Close is the last    *)
(* response of the queue.                                                  *)
LEMMA DrainedBytes ==
  ASSUME NEW rs \in Seq(Resp), NEW n \in 0 .. Len(Bytes(rs)),
         \A k \in 1 .. Len(rs) - 1 : ~IsClose(rs[k])
  PROVE  /\ Drained(rs, n) \in Seq(Resp)
         /\ Bytes(Drained(rs, n)) = SubSeq(Bytes(rs), n + 1, Len(Bytes(rs)))
         /\ Len(Drained(rs, n)) <= Len(rs)
         /\ \A k \in 1 .. Len(Drained(rs, n)) :
               IsClose(Drained(rs, n)[k]) <=> IsClose(rs[Len(rs) - Len(Drained(rs, n)) + k])
<1> DEFINE N == Len(rs)
           upto(k) == Len(Bytes(SubSeq(rs, 1, k)))
           Fits(k) == upto(k) <= n /\ \A j \in 1 .. k : ~IsClose(rs[j])
           Ends(k) == k < N => IsClose(rs[k + 1]) \/ n < upto(k + 1)
           whole == CHOOSE k \in 0 .. N :
                       /\ upto(k) <= n
                       /\ \A j \in 1 .. k : ~IsClose(rs[j])
                       /\ k < N => IsClose(rs[k + 1]) \/ n < upto(k + 1)
           rest == SubSeq(rs, whole + 1, N)
<1>1. N \in Nat /\ n \in Nat /\ Bytes(rs) \in Seq(ByteSet)
  BY BytesType
<1>2. \E k \in 0 .. N : Fits(k) /\ Ends(k)
  <2> DEFINE T == {k \in 0 .. N : Fits(k)}
  <2>1. 0 \in T
    <3>1. SubSeq(rs, 1, 0) = <<>>
      BY SubSeqEmpty
    <3>2. upto(0) = 0
      BY <3>1, BytesEmpty, EmptySeq
    <3>. QED BY <1>1, <3>2
  <2> HIDE DEF Fits, N
  <2>2. PICK m \in T : \A k \in T : k <= m
    <3>1. T \in SUBSET (0 .. N) /\ T # {}
      BY <2>1
    <3> HIDE DEF T
    <3>. QED BY <1>1, <3>1, GreatestNatural
  <2>3. m \in 0 .. N /\ Fits(m)
    BY <2>2
  <2>4. ASSUME m < N PROVE IsClose(rs[m + 1]) \/ n < upto(m + 1)
    <3>1. m + 1 \in 0 .. N /\ ~(m + 1 <= m)
      BY <1>1, <2>3, <2>4
    <3>2. ~Fits(m + 1)
      BY <2>2, <3>1
    <3>3. \A j \in 1 .. m + 1 : j \in 1 .. m \/ j = m + 1
      BY <2>3
    <3>4. upto(m + 1) \in Nat
      <4>1. m + 1 \in 0 .. Len(rs)
        BY <3>1 DEF N
      <4>2. SubSeq(rs, 1, m + 1) \in Seq(Resp)
        BY <4>1, BytesSplit
      <4>. QED BY <4>2, BytesType
    <3>. QED BY <1>1, <2>3, <3>2, <3>3, <3>4 DEF Fits
  <2>. QED BY <2>3, <2>4
<1>3. whole \in 0 .. N /\ Fits(whole) /\ Ends(whole)
  BY <1>2
<1>4. Drained(rs, n) = IF rest = <<>> THEN rest
                       ELSE [rest EXCEPT ![1].left = @ - (n - upto(whole))]
  BY DEF Drained
<1> HIDE DEF whole
<1> DEFINE P == Bytes(SubSeq(rs, 1, whole))
           R == Bytes(rest)
<1>5. /\ SubSeq(rs, 1, whole) \in Seq(Resp) /\ rest \in Seq(Resp)
      /\ Bytes(rs) = P \o R
  BY <1>3, BytesSplit
<1>6. /\ P \in Seq(ByteSet) /\ R \in Seq(ByteSet) /\ Len(P) \in Nat /\ Len(R) \in Nat
      /\ Len(Bytes(rs)) = Len(P) + Len(R)
  <2>1. P \in Seq(ByteSet) /\ R \in Seq(ByteSet) /\ Len(P) \in Nat /\ Len(R) \in Nat
    BY <1>5, BytesType
  <2> HIDE DEF P, R, rest
  <2>. QED BY <1>5, <2>1, ConcatProperties
<1> DEFINE m == n - Len(P)
<1>7. m \in 0 .. Len(R) /\ n = Len(P) + m
  BY <1>1, <1>3, <1>6
<1>8. SubSeq(Bytes(rs), n + 1, Len(Bytes(rs))) = SubSeq(R, m + 1, Len(R))
  <2> HIDE DEF P, R, m, rest
  <2>. QED BY <1>5, <1>6, <1>7, DropPrefix
<1>9. /\ Len(rest) = N - whole
      /\ \A k \in 1 .. N - whole : rest[k] = rs[whole + k]
  BY <1>3
<1>10. CASE rest = <<>>
  <2>1. Drained(rs, n) = <<>> /\ R = <<>> /\ Len(R) = 0
    BY <1>4, <1>10, BytesEmpty, EmptySeq
  <2>2. m = 0 /\ SubSeq(R, m + 1, Len(R)) = <<>>
    BY <1>7, <2>1, SubSeqEmpty
  <2>3. Len(Drained(rs, n)) = 0 /\ <<>> \in Seq(Resp)
    BY <2>1, EmptySeq
  <2>4. Bytes(Drained(rs, n)) = <<>>
    BY <2>1, BytesEmpty
  <2>5. Len(Drained(rs, n)) <= Len(rs) /\ 1 .. Len(Drained(rs, n)) = {}
    BY <1>1, <2>3
  <2>6. Bytes(Drained(rs, n)) = SubSeq(Bytes(rs), n + 1, Len(Bytes(rs)))
    BY <1>8, <2>2, <2>4, Zenon
  <2>7. Drained(rs, n) \in Seq(Resp)
    BY <2>1, <2>3, Zenon
  <2>. QED BY <2>5, <2>6, <2>7, Zenon
<1>11. CASE rest # <<>>
  <2> DEFINE h == rest[1]
             t == Tail(rest)
             q == [h EXCEPT !.left = @ - m]
  <2>1. Len(rest) >= 1 /\ whole < N /\ h = rs[whole + 1]
    BY <1>1, <1>3, <1>5, <1>9, <1>11, EmptySeq
  <2>2. h \in Resp /\ t \in Seq(Resp) /\ rest = <<h>> \o t /\ Len(t) = Len(rest) - 1
    <3> HIDE DEF rest
    <3>. QED BY <1>5, <1>11, <2>1
  <2>3. h.left \in Nat /\ BytesOf(h) \in Seq(ByteSet) /\ Len(BytesOf(h)) = h.left
    BY <2>2, BytesOfType
  <2>4. R = BytesOf(h) \o Bytes(t) /\ Bytes(t) \in Seq(ByteSet)
    BY <2>2, BytesHead, BytesType
  <2>5. m \in 0 .. h.left
    <3>1. CASE IsClose(rs[whole + 1])
      <4>1. whole + 1 = N
        BY <1>1, <1>3, <2>1, <3>1
      <4>2. Len(t) = 0
        BY <1>1, <1>3, <1>9, <2>2, <4>1
      <4>3. t = <<>>
        BY <2>2, <4>2, EmptySeq
      <4>4. R = BytesOf(h)
        <5>1. Bytes(t) = <<>>
          BY <4>3, BytesEmpty, Zenon
        <5> HIDE DEF R, h, t
        <5>. QED BY <2>3, <2>4, <5>1, ConcatEmptySeq
      <4>. QED BY <1>7, <2>3, <4>4
    <3>2. CASE n < upto(whole + 1)
      <4>1. SubSeq(rs, 1, whole + 1) = Append(SubSeq(rs, 1, whole), rs[whole + 1])
        BY <1>1, <1>3, <2>1
      <4>2. Bytes(SubSeq(rs, 1, whole + 1)) = P \o BytesOf(h)
        BY <1>5, <2>1, <2>2, <4>1, BytesAppend
      <4>3. upto(whole + 1) = Len(P) + h.left
        <5> HIDE DEF P, h
        <5>. QED BY <1>6, <2>3, <4>2, ConcatProperties
      <4> HIDE DEF P, h
      <4>4. n < Len(P) + h.left
        BY <3>2, <4>3
      <4>. QED BY <1>1, <1>6, <1>7, <2>3, <4>4
    <3>. QED BY <1>3, <2>1, <3>1, <3>2
  <2>6. q \in Resp /\ BytesOf(q) = SubSeq(BytesOf(h), m + 1, Len(BytesOf(h)))
    <3> HIDE DEF m, h
    <3>. QED BY <2>2, <2>5, BytesOfRest
  <2>7. Drained(rs, n) = <<q>> \o t
    <3>1. Drained(rs, n) = [rest EXCEPT ![1] = q]
      BY <1>4, <1>11
    <3> HIDE DEF q, rest
    <3>2. /\ [rest EXCEPT ![1] = q] \in Seq(Resp) /\ Len([rest EXCEPT ![1] = q]) = Len(rest)
          /\ \A j \in 1 .. Len(rest) : [rest EXCEPT ![1] = q][j] = IF j = 1 THEN q ELSE rest[j]
      BY <1>5, <2>1, <2>6, ExceptSeq
    <3>3. <<q>> \o t \in Seq(Resp) /\ Len(<<q>> \o t) = Len(rest)
      BY <2>1, <2>2, <2>6
    <3>4. ASSUME NEW j \in 1 .. Len(rest) PROVE [rest EXCEPT ![1] = q][j] = (<<q>> \o t)[j]
      BY <1>5, <1>11, <2>1, <2>2, <2>6, <3>2
    <3>. QED BY <3>1, <3>2, <3>3, <3>4, SeqEqual
  <2>8. Bytes(Drained(rs, n)) = SubSeq(R, m + 1, Len(R))
    <3>1. Bytes(<<q>> \o t) = BytesOf(q) \o Bytes(t)
      BY <2>2, <2>6, BytesHead
    <3> HIDE DEF m, h, t, q, R
    <3>2. SubSeq(BytesOf(h) \o Bytes(t), m + 1, Len(BytesOf(h) \o Bytes(t)))
            = SubSeq(BytesOf(h), m + 1, Len(BytesOf(h))) \o Bytes(t)
      BY <2>3, <2>4, <2>5, DropConcat
    <3>. QED BY <2>4, <2>6, <2>7, <3>1, <3>2
  <2>9. Drained(rs, n) \in Seq(Resp) /\ Len(Drained(rs, n)) = N - whole
    <3> HIDE DEF q, rest
    <3>. QED BY <1>1, <1>3, <1>9, <2>2, <2>6, <2>7
  <2>10. ASSUME NEW k \in 1 .. N - whole
         PROVE  IsClose(Drained(rs, n)[k]) <=> IsClose(rs[whole + k])
    <3>1. CASE k = 1
      <4>1. Drained(rs, n)[k] = q
        <5> HIDE DEF q
        <5>. QED BY <2>2, <2>6, <2>7, <3>1
      <4>2. q.kind = h.kind
        BY <2>2 DEF Resp
      <4>. QED BY <2>1, <3>1, <4>1, <4>2 DEF IsClose
    <3>2. CASE k # 1
      <4>1. Drained(rs, n)[k] = rest[k]
        <5> HIDE DEF q
        <5>1. Len(rest) = N - whole /\ rest \in Seq(Resp)
          BY <1>5, <1>9
        <5> HIDE DEF rest
        <5>. QED BY <1>1, <1>3, <1>11, <2>2, <2>6, <2>7, <3>2, <5>1
      <4>. QED BY <1>9, <4>1
    <3>. QED BY <3>1, <3>2
  <2>. QED
    <3>1. N - (N - whole) = whole /\ N - whole <= N
      BY <1>1, <1>3
    <3> HIDE DEF m, R, P, rest
    <3>. QED BY <1>1, <1>8, <2>8, <2>9, <2>10, <3>1
<1>. QED BY <1>10, <1>11

-----------------------------------------------------------------------------
(* When a socket that is writable takes the whole send buffer.             *)

\* No behaviour is drawn in which a send is cut short: what is left in the send
\* buffer after one is sent again out of the queue it was copied from.
NoPartial == \A f \in FaultSets : "partial" \notin f

StreamTypes ==
    /\ client \in [Conns -> {"none", "up", "gone"}] /\ asked \in [Conns -> BOOLEAN]
    /\ session \in BOOLEAN
    /\ wire \in [Conns -> Seq(ByteSet)]
    /\ issued \in [Conns -> Seq(Whole)]
    /\ responses \in [Conns -> Seq(Resp)]
    /\ send_buf \in [Conns -> {<<>>}]
    /\ "partial" \notin faults

\* What is on its way to the client and what waits in the handler are together the
\* responses issued and not yet read.
Complete(c) ==
    /\ wire[c] \o Bytes(responses[c]) = Bytes(issued[c])
    /\ Len(wire[c]) <= SocketSize + ResponseBytes
    /\ ~handshake_done[c] => wire[c] = <<>> /\ issued[c] = <<>> /\ responses[c] = <<>>

\* Nothing is queued behind the response to a Close: from the moment it is queued
\* the mutex is held until the callback is out of the table.
CloseLast(c) ==
    \A k \in 1 .. Len(responses[c]) : IsClose(responses[c][k]) =>
        /\ k = Len(responses[c])
        /\ callback = c => writer.pc # "wait" /\ writer.kind = "close"

StreamInv == StreamTypes /\ \A c \in Conns : Complete(c) /\ CloseLast(c)

LEMMA StreamInit == Init /\ NoPartial => StreamInv
<1> SUFFICES ASSUME Init, NoPartial PROVE StreamInv
  OBVIOUS
<1>1. /\ <<>> \in Seq(ByteSet) /\ <<>> \in Seq(Whole) /\ <<>> \in Seq(Resp)
      /\ Len(<<>>) = 0 /\ <<>> \o <<>> = <<>>
  BY EmptySeq
<1>2. StreamTypes
  BY <1>1 DEF Init, NoPartial, StreamTypes
<1>3. ASSUME NEW c \in Conns PROVE Complete(c) /\ CloseLast(c)
  <2>1. Complete(c)
    BY <1>1, BytesEmpty, ConnectionAssumption DEF Init, Complete
  <2>2. CloseLast(c)
    BY <1>1 DEF Init, CloseLast
  <2>. QED BY <2>1, <2>2
<1>. QED BY <1>2, <1>3 DEF StreamInv

(* A connection that a step leaves alone.                                  *)
LEMMA StreamElsewhere ==
  ASSUME NEW d \in Conns, Complete(d), CloseLast(d),
         wire'[d] = wire[d], issued'[d] = issued[d], responses'[d] = responses[d],
         handshake_done'[d] = handshake_done[d],
         callback' = d => /\ callback = d
                          /\ writer.pc # "wait" /\ writer.kind = "close"
                               => writer'.pc # "wait" /\ writer'.kind = "close"
  PROVE  Complete(d)' /\ CloseLast(d)'
<1>1. Complete(d)'
  BY DEF Complete
<1>2. CloseLast(d)'
  BY DEF CloseLast
<1>. QED BY <1>1, <1>2

(* Steps that send, queue and read nothing.                                *)
LEMMA StreamQuiet ==
  ASSUME StreamInv, StreamTypes',
         UNCHANGED <<wire, issued, responses, handshake_done>>,
         callback' # None =>
            /\ callback' = callback
            /\ writer.pc # "wait" /\ writer.kind = "close"
                 => writer'.pc # "wait" /\ writer'.kind = "close"
  PROVE  StreamInv'
<1>1. ASSUME NEW d \in Conns PROVE Complete(d)' /\ CloseLast(d)'
  <2>1. d # None /\ Complete(d) /\ CloseLast(d)
    BY ConnectionAssumption DEF StreamInv
  <2>. QED BY <2>1, StreamElsewhere
<1>. QED BY <1>1 DEF StreamInv

LEMMA StreamDestroy ==
  ASSUME LifeInv, StreamInv, NEW c \in Conns, NEW known, Destroy(c, known),
         session' \in BOOLEAN, UNCHANGED <<writer, faults>>
  PROVE  StreamInv'
<1>1. /\ <<>> \in Seq(ByteSet) /\ <<>> \in Seq(Whole) /\ <<>> \in Seq(Resp)
      /\ Len(<<>>) = 0 /\ <<>> \o <<>> = <<>>
  BY EmptySeq
<1>2. StreamTypes'
  BY <1>1 DEF StreamInv, StreamTypes, Destroy, Delete
<1>3. /\ wire'[c] = <<>> /\ issued'[c] = <<>> /\ responses'[c] = <<>>
      /\ \A d \in Conns \ {c} : /\ wire'[d] = wire[d] /\ issued'[d] = issued[d]
                                /\ responses'[d] = responses[d]
                                /\ handshake_done'[d] = handshake_done[d]
  BY DEF StreamInv, StreamTypes, LifeInv, LifeTypes, Destroy, Delete
<1>4. callback' # None => callback' = callback
  BY DEF Destroy
<1>5. Complete(c)' /\ CloseLast(c)'
  <2>1. Complete(c)'
    BY <1>1, <1>3, BytesEmpty, ConnectionAssumption DEF Complete
  <2>2. CloseLast(c)'
    BY <1>1, <1>3 DEF CloseLast
  <2>. QED BY <2>1, <2>2
<1>6. ASSUME NEW d \in Conns \ {c} PROVE Complete(d)' /\ CloseLast(d)'
  <2>1. d # None /\ Complete(d) /\ CloseLast(d)
    BY ConnectionAssumption DEF StreamInv
  <2>. QED BY <1>3, <1>4, <2>1, StreamElsewhere
<1>. QED BY <1>2, <1>5, <1>6 DEF StreamInv

(* The client reads a response: the first of the issued ones, in the first *)
(* bytes of the wire.                                                      *)
LEMMA StreamReceive ==
  ASSUME LifeInv, StreamInv, NEW c \in Conns, Receive(c)
  PROVE  StreamInv'
<1>1. /\ wire[c] \in Seq(ByteSet) /\ issued[c] \in Seq(Whole) /\ responses[c] \in Seq(Resp)
      /\ Complete(c) /\ CloseLast(c) /\ Len(wire[c]) \in Nat
  BY DEF StreamInv, StreamTypes
<1>2. ResponseBytes \in Nat \ {0} /\ Len(wire[c]) >= ResponseBytes
  BY ConnectionAssumption DEF Receive
<1>3. Whole \subseteq Resp /\ issued[c] \in Seq(Resp)
  <2>1. Whole \subseteq Resp
    BY <1>2 DEF Whole, Resp
  <2>. QED BY <1>1, <2>1, SeqMonotonic
<1> DEFINE b == Bytes(responses[c])
           h == Head(issued[c])
           t == Tail(issued[c])
<1>4. b \in Seq(ByteSet)
  BY <1>1, BytesType
<1>5. issued[c] # <<>>
  <2>1. Len(wire[c] \o b) >= ResponseBytes
    <3> HIDE DEF b
    <3>. QED BY <1>1, <1>2, <1>4, ConcatProperties
  <2>2. wire[c] \o b = Bytes(issued[c])
    BY <1>1 DEF Complete
  <2>3. Len(Bytes(<<>>)) = 0
    BY BytesEmpty, EmptySeq
  <2> HIDE DEF b
  <2>. QED BY <1>2, <2>1, <2>2, <2>3
<1>6. h \in Whole /\ t \in Seq(Whole) /\ issued[c] = <<h>> \o t
  BY <1>1, <1>5
<1>7. h \in Resp /\ t \in Seq(Resp) /\ h.left = ResponseBytes
  <2>1. t \in Seq(Resp)
    <3> HIDE DEF t
    <3>. QED BY <1>3, <1>6, SeqMonotonic
  <2>. QED BY <1>3, <1>6, <2>1 DEF Whole
<1>8. /\ Bytes(issued[c]) = BytesOf(h) \o Bytes(t)
      /\ BytesOf(h) \in Seq(ByteSet) /\ Len(BytesOf(h)) = ResponseBytes
      /\ Bytes(t) \in Seq(ByteSet)
  <2> HIDE DEF h, t
  <2>. QED BY <1>6, <1>7, BytesHead, BytesOfType, BytesType
<1>9. SubSeq(wire[c], ResponseBytes + 1, Len(wire[c])) \o b = Bytes(t)
  <2> DEFINE x == wire[c]
             y == BytesOf(h)
             z == Bytes(t)
  <2>1. x \o b = y \o z
    BY <1>1, <1>8 DEF Complete
  <2>2. x \in Seq(ByteSet) /\ y \in Seq(ByteSet) /\ z \in Seq(ByteSet) /\ Len(y) = ResponseBytes
        /\ ResponseBytes \in 0 .. Len(x)
    BY <1>1, <1>2, <1>8
  <2> HIDE DEF x, y, z, b, h, t
  <2>3. SubSeq(x \o b, ResponseBytes + 1, Len(x \o b))
          = SubSeq(x, ResponseBytes + 1, Len(x)) \o b
    BY <1>4, <2>2, DropConcat
  <2>4. 0 \in 0 .. Len(z) /\ ResponseBytes + 0 + 1 = ResponseBytes + 1
    BY <1>2, <2>2
  <2>5. SubSeq(y \o z, ResponseBytes + 1, Len(y \o z)) = SubSeq(z, 1, Len(z))
    <3>1. SubSeq(y \o z, Len(y) + 0 + 1, Len(y \o z)) = SubSeq(z, 0 + 1, Len(z))
      BY <2>2, <2>4, DropPrefix
    <3>. QED BY <2>2, <2>4, <3>1
  <2>6. SubSeq(z, 1, Len(z)) = z
    BY <2>2, SubSeqFull
  <2>7. SubSeq(x, ResponseBytes + 1, Len(x)) \o b = z
    BY <2>1, <2>3, <2>5, <2>6
  <2>. QED BY <2>7 DEF x, z
<1> DEFINE w == SubSeq(wire[c], ResponseBytes + 1, Len(wire[c]))
<1>10. w \in Seq(ByteSet) /\ Len(w) = Len(wire[c]) - ResponseBytes
  BY <1>1, <1>2
<1>11. /\ wire' = [wire EXCEPT ![c] = w] /\ issued' = [issued EXCEPT ![c] = t]
       /\ \E a \in BOOLEAN : asked' = [asked EXCEPT ![c] = a]
       /\ UNCHANGED <<client, session, responses, send_buf, faults, handshake_done,
                      callback, writer>>
  BY DEF Receive, handlerVars, dispatcherVars, StreamInv, StreamTypes
<1> HIDE DEF w, t, h
<1>12. StreamTypes'
  BY <1>6, <1>10, <1>11 DEF StreamInv, StreamTypes
<1>13. wire'[c] = w /\ issued'[c] = t
  BY <1>11 DEF StreamInv, StreamTypes
<1>14. Complete(c)'
  <2>1. w \o b = Bytes(t)
    BY <1>9 DEF w
  <2>2. Len(w) <= SocketSize + ResponseBytes
    BY <1>1, <1>2, <1>10, ConnectionAssumption DEF Complete
  <2>3. handshake_done[c]
    BY <1>1, <1>5 DEF Complete
  <2>. QED BY <1>11, <1>13, <2>1, <2>2, <2>3 DEF Complete
<1>15. CloseLast(c)'
  BY <1>1, <1>11 DEF CloseLast
<1>16. ASSUME NEW d \in Conns \ {c} PROVE Complete(d)' /\ CloseLast(d)'
  <2>1. /\ Complete(d) /\ CloseLast(d)
        /\ wire'[d] = wire[d] /\ issued'[d] = issued[d]
    BY <1>11 DEF StreamInv, StreamTypes
  <2>. QED BY <1>11, <2>1, StreamElsewhere
<1>. QED BY <1>12, <1>14, <1>15, <1>16 DEF StreamInv

(* The handshake: nothing has been sent on the connection before.          *)
LEMMA StreamConnect ==
  ASSUME LifeInv, StreamInv, NEW c \in Conns, OnConnect(c)
  PROVE  StreamInv'
<1> DEFINE r == Response("handshake")
<1>1. ResponseBytes \in Nat \ {0} /\ r \in Whole /\ r \in Resp /\ r.left = ResponseBytes
      /\ SocketSize \in Nat
  BY ConnectionAssumption DEF Response, Whole, Resp, Kinds
<1> HIDE DEF r
<1>2. ~handshake_done[c]
  <2>1. inbox[c] \in Seq(Packets) /\ inbox[c] # <<>> /\ Head(inbox[c]) = "connect"
    BY DEF OnConnect, LifeInv, LifeTypes
  <2>2. 1 \in 1 .. Len(inbox[c]) /\ inbox[c][1] = "connect"
    BY <2>1
  <2>. QED BY <2>2 DEF LifeInv, OneHandshake
<1>3. /\ wire[c] = <<>> /\ issued[c] = <<>> /\ responses[c] = <<>>
  BY <1>2 DEF StreamInv, Complete
<1>4. BytesOf(r) \in Seq(ByteSet) /\ Len(BytesOf(r)) = ResponseBytes
  BY <1>1, BytesOfType
<1>5. <<>> \o BytesOf(r) = BytesOf(r) /\ BytesOf(r) \o <<>> = BytesOf(r)
  BY <1>4, ConcatEmptySeq
<1>6. /\ wire' = [wire EXCEPT ![c] = wire[c] \o BytesOf(r)]
      /\ issued' = [issued EXCEPT ![c] = Append(issued[c], r)]
      /\ handshake_done' = [handshake_done EXCEPT ![c] = TRUE]
      /\ callback' = IF callback = None THEN c ELSE callback
      /\ session' = TRUE
      /\ UNCHANGED <<client, asked, responses, send_buf, faults, writer>>
  BY DEF OnConnect, clientVars, r
<1>7. /\ wire' = [wire EXCEPT ![c] = BytesOf(r)]
      /\ issued' = [issued EXCEPT ![c] = <<r>>]
  BY <1>3, <1>5, <1>6
<1>8. StreamTypes'
  <2>1. <<r>> \in Seq(Whole)
    BY <1>1
  <2>. QED BY <1>4, <1>6, <1>7, <2>1 DEF StreamInv, StreamTypes
<1>9. wire'[c] = BytesOf(r) /\ issued'[c] = <<r>> /\ responses'[c] = <<>> /\ handshake_done'[c]
  BY <1>3, <1>6, <1>7 DEF StreamInv, StreamTypes, LifeInv, LifeTypes
<1>10. Complete(c)'
  <2>1. Bytes(<<r>>) = BytesOf(r)
    <3>1. <<r>> = Append(<<>>, r) /\ <<>> \in Seq(Resp)
      BY EmptySeq
    <3>2. Bytes(<<r>>) = <<>> \o BytesOf(r)
      BY <1>1, <3>1, BytesAppend, BytesEmpty
    <3>. QED BY <1>5, <3>2
  <2>. QED BY <1>1, <1>4, <1>5, <1>9, <2>1, BytesEmpty DEF Complete
<1>11. CloseLast(c)'
  BY <1>9, EmptySeq DEF CloseLast
<1>12. ASSUME NEW d \in Conns \ {c} PROVE Complete(d)' /\ CloseLast(d)'
  <2>1. /\ Complete(d) /\ CloseLast(d)
        /\ wire'[d] = wire[d] /\ issued'[d] = issued[d]
        /\ handshake_done'[d] = handshake_done[d]
        /\ callback' = d => callback = d
    BY <1>6, <1>7 DEF StreamInv, StreamTypes, LifeInv, LifeTypes
  <2>. QED BY <1>6, <2>1, StreamElsewhere
<1>. QED BY <1>8, <1>10, <1>11, <1>12 DEF StreamInv

(* Sending: the bytes that leave the queue are the ones put on the wire.   *)
LEMMA StreamWritable ==
  ASSUME LifeInv, StreamInv, NEW c \in Conns, OnWritable(c)
  PROVE  StreamInv'
<1>1. CASE "write" \notin observers[c] \/ (responses[c] = <<>> /\ send_buf[c] = <<>>)
  <2>1. UNCHANGED <<client, asked, session, wire, issued, responses, send_buf, faults,
                    handshake_done, callback, writer>>
    BY <1>1 DEF OnWritable, socketVars, handlerVars, clientVars, dispatcherVars
  <2>2. StreamTypes'
    BY <2>1 DEF StreamInv, StreamTypes
  <2>. QED BY <2>1, <2>2, StreamQuiet
<1>2. CASE ~("write" \notin observers[c] \/ (responses[c] = <<>> /\ send_buf[c] = <<>>))
  <2> DEFINE x == wire[c]
             b == Bytes(responses[c])
             k == IF SentBufferSize < Len(b) THEN SentBufferSize ELSE Len(b)
             f == SubSeq(b, 1, k)
             l == SubSeq(b, k + 1, Len(b))
             D == Drained(responses[c], k)
  <2>1. /\ x \in Seq(ByteSet) /\ responses[c] \in Seq(Resp) /\ send_buf[c] = <<>>
        /\ Complete(c) /\ CloseLast(c) /\ Len(x) \in Nat /\ "partial" \notin faults
    BY DEF StreamInv, StreamTypes
  <2>2. b \in Seq(ByteSet) /\ Len(b) \in Nat
    BY <2>1, BytesType
  <2>3. SentBufferSize \in Nat /\ SocketSize \in Nat /\ ResponseBytes \in Nat
    BY ConnectionAssumption
  <2>4. k \in 0 .. Len(b)
    BY <2>2, <2>3
  <2>5. f \in Seq(ByteSet) /\ Len(f) = k /\ l \in Seq(ByteSet) /\ f \o l = b
    <3> HIDE DEF b, k
    <3>1. f \in Seq(ByteSet) /\ Len(f) = k /\ l \in Seq(ByteSet)
      BY <2>2, <2>4
    <3>2. 1 \in 1 .. Len(b) + 1 /\ k \in 1 - 1 .. Len(b) /\ Len(b) \in k .. Len(b)
      BY <2>2, <2>4
    <3>3. f \o l = SubSeq(b, 1, Len(b))
      BY <2>2, <3>2, ConcatAdjacentSubSeq
    <3>. QED BY <2>2, <3>1, <3>3, SubSeqFull
  <2>6. Filled(c) = f
    <3>1. SentBufferSize - Len(<<>>) = SentBufferSize
      BY <2>3
    <3>2. Filled(c) = <<>> \o f
      BY <2>1, <3>1 DEF Filled, Sendable
    <3>. QED BY <2>5, <3>2, ConcatEmptySeq
  <2> HIDE DEF b, k, f, l, D, x
  <2>7. PICK n \in 0 .. Len(Filled(c)) :
              /\ n = Len(Filled(c)) \/ ("partial" \in faults /\ n = Space(c))
              /\ n <= Space(c)
              /\ wire' = [wire EXCEPT ![c] = @ \o SubSeq(Filled(c), 1, n)]
              /\ send_buf' = [send_buf EXCEPT ![c] = SubSeq(Filled(c), n + 1, Len(Filled(c)))]
              /\ responses' = [responses EXCEPT ![c] = Drained(@, n)]
    BY <1>2 DEF OnWritable
  <2>8. n = k /\ SubSeq(f, 1, n) = f /\ SubSeq(f, n + 1, Len(f)) = <<>>
    BY <2>1, <2>4, <2>5, <2>6, <2>7, SubSeqFull, SubSeqEmpty
  <2>9. /\ wire' = [wire EXCEPT ![c] = x \o f]
        /\ send_buf' = [send_buf EXCEPT ![c] = <<>>]
        /\ responses' = [responses EXCEPT ![c] = D]
    BY <2>6, <2>7, <2>8 DEF x, D
  <2>10. UNCHANGED <<client, asked, session, issued, faults, handshake_done, callback, writer>>
    BY <1>2 DEF OnWritable, clientVars, dispatcherVars
  <2>11. \A j \in 1 .. Len(responses[c]) - 1 : ~IsClose(responses[c][j])
    BY <2>1 DEF CloseLast
  <2>12. /\ D \in Seq(Resp) /\ Bytes(D) = l /\ Len(D) <= Len(responses[c])
         /\ \A j \in 1 .. Len(D) :
               IsClose(D[j]) <=> IsClose(responses[c][Len(responses[c]) - Len(D) + j])
    BY <2>1, <2>4, <2>11, DrainedBytes DEF D, b, l
  <2>13. x \o f \in Seq(ByteSet) /\ Len(x \o f) = Len(x) + k /\ (x \o f) \o l = x \o b
    <3>0. x \in Seq(ByteSet) /\ f \in Seq(ByteSet) /\ l \in Seq(ByteSet)
      BY <2>1, <2>5
    <3>1. (x \o f) \o l = x \o (f \o l)
      BY <3>0
    <3>. QED BY <2>5, <3>0, <3>1, ConcatProperties
  <2>14. StreamTypes'
    BY <2>9, <2>10, <2>12, <2>13 DEF StreamInv, StreamTypes
  <2>15. wire'[c] = x \o f /\ responses'[c] = D
    BY <2>9 DEF StreamInv, StreamTypes
  <2>16. Complete(c)'
    <3>1. handshake_done[c]
      BY <1>2, <2>1 DEF Complete
    <3>2. Len(x) + k <= SocketSize + ResponseBytes
      BY <2>1, <2>3, <2>4, <2>2, <2>7, <2>8 DEF Space, x
    <3>3. x \o b = Bytes(issued[c])
      BY <2>1 DEF Complete, x, b
    <3>. QED BY <2>10, <2>12, <2>13, <2>15, <3>1, <3>2, <3>3 DEF Complete
  <2>17. CloseLast(c)'
    <3> SUFFICES ASSUME NEW j \in 1 .. Len(D), IsClose(D[j])
                 PROVE  /\ j = Len(D)
                        /\ (callback = c => writer.pc # "wait" /\ writer.kind = "close")
      BY <2>10, <2>15 DEF CloseLast
    <3> DEFINE i == Len(responses[c]) - Len(D) + j
    <3>0. Len(responses[c]) \in Nat /\ Len(D) \in Nat
      BY <2>1, <2>12
    <3>1. i \in 1 .. Len(responses[c]) /\ IsClose(responses[c][i])
      BY <2>12, <3>0
    <3>2. i = Len(responses[c]) /\ (callback = c => writer.pc # "wait" /\ writer.kind = "close")
      BY <2>1, <3>1 DEF CloseLast
    <3>. QED BY <3>0, <3>2
  <2>18. ASSUME NEW d \in Conns \ {c} PROVE Complete(d)' /\ CloseLast(d)'
    <3>1. /\ Complete(d) /\ CloseLast(d)
          /\ wire'[d] = wire[d] /\ responses'[d] = responses[d]
      BY <2>9 DEF StreamInv, StreamTypes
    <3>. QED BY <2>10, <3>1, StreamElsewhere
  <2>. QED BY <2>14, <2>16, <2>17, <2>18 DEF StreamInv
<1>. QED BY <1>1, <1>2

(* A response is queued: behind everything that was issued, and not behind *)
(* a Close, whose callback would be gone.                                  *)
LEMMA StreamPush ==
  ASSUME LifeInv, StreamInv, NEW c \in Conns, callback = c, PushResponse
  PROVE  StreamInv'
<1> DEFINE r == Response(Head(responses_queue))
<1>1. /\ handshake_done[c] /\ writer.pc = "wait"
      /\ Head(responses_queue) \in {"heartbeat", "watch", "close"}
  BY DEF PushResponse, LifeInv, LifeTypes, CallbackKnown
<1>2. r \in Resp /\ r.kind = Head(responses_queue) /\ (~IsClose(r) => r \in Whole)
      /\ (IsClose(r) => r.left = 0)
  BY <1>1, ConnectionAssumption DEF Response, Whole, Resp, Kinds, IsClose
<1>3. /\ responses' = [responses EXCEPT ![c] = Append(@, r)]
      /\ issued' = [issued EXCEPT ![c] = IF IsClose(r) THEN @ ELSE Append(@, r)]
      /\ writer' = [pc |-> "observe", conn |-> c, mode |-> {}, kind |-> r.kind]
      /\ UNCHANGED <<client, asked, session, wire, send_buf, faults, handshake_done, callback>>
  BY DEF PushResponse, clientVars
<1>4. /\ wire[c] \in Seq(ByteSet) /\ issued[c] \in Seq(Whole) /\ responses[c] \in Seq(Resp)
      /\ Complete(c) /\ CloseLast(c)
  BY <1>1 DEF StreamInv, StreamTypes
<1> DEFINE rs == Append(responses[c], r)
           is == IF IsClose(r) THEN issued[c] ELSE Append(issued[c], r)
<1>5. rs \in Seq(Resp) /\ Len(rs) = Len(responses[c]) + 1 /\ rs[Len(responses[c]) + 1] = r
      /\ \A k \in 1 .. Len(responses[c]) : rs[k] = responses[c][k]
  <2> HIDE DEF r
  <2>. QED BY <1>2, <1>4, AppendProperties
<1>6. is \in Seq(Whole)
  <2> HIDE DEF r
  <2>. QED BY <1>2, <1>4, AppendProperties
<1>7. responses' = [responses EXCEPT ![c] = rs] /\ issued' = [issued EXCEPT ![c] = is]
  BY <1>3
<1>8. wire[c] \o Bytes(rs) = Bytes(is)
  <2> DEFINE b == Bytes(responses[c])
             o == BytesOf(r)
             x == wire[c]
  <2>1. b \in Seq(ByteSet) /\ o \in Seq(ByteSet) /\ x \in Seq(ByteSet) /\ Len(o) = r.left
    BY <1>2, <1>4, BytesType, BytesOfType
  <2>2. Bytes(rs) = b \o o
    <3> HIDE DEF r
    <3>. QED BY <1>2, <1>4, BytesAppend
  <2>3. x \o b = Bytes(issued[c])
    BY <1>4 DEF Complete
  <2>4. Bytes(is) = Bytes(issued[c]) \o o
    <3>1. issued[c] \in Seq(Resp)
      <4>1. Whole \subseteq Resp
        BY ConnectionAssumption DEF Whole, Resp
      <4>. QED BY <1>4, <4>1, SeqMonotonic
    <3>2. Bytes(issued[c]) \in Seq(ByteSet)
      BY <3>1, BytesType
    <3> HIDE DEF r
    <3>3. CASE IsClose(r)
      <4>1. o = <<>>
        BY <1>2, <2>1, <3>3, EmptySeq
      <4>. QED BY <3>2, <3>3, <4>1, ConcatEmptySeq
    <3>4. CASE ~IsClose(r)
      BY <1>2, <3>1, <3>4, BytesAppend
    <3>. QED BY <3>3, <3>4
  <2> HIDE DEF b, o, x, rs, is
  <2>5. (x \o b) \o o = x \o (b \o o)
    BY <2>1
  <2>6. x \o Bytes(rs) = Bytes(is)
    BY <2>2, <2>3, <2>4, <2>5
  <2>. QED BY <2>6 DEF x
<1> HIDE DEF rs, is, r
<1>9. StreamTypes'
  BY <1>1, <1>3, <1>5, <1>6, <1>7 DEF StreamInv, StreamTypes
<1>10. responses'[c] = rs /\ issued'[c] = is /\ wire'[c] = wire[c] /\ handshake_done'[c]
       /\ callback' = c /\ writer'.kind = r.kind /\ writer'.pc = "observe"
  BY <1>1, <1>3, <1>7 DEF StreamInv, StreamTypes
<1>11. Complete(c)'
  <2>1. /\ Len(wire'[c]) <= SocketSize + ResponseBytes
        /\ wire'[c] \o Bytes(responses'[c]) = Bytes(issued'[c])
    BY <1>4, <1>8, <1>10 DEF Complete
  <2>. QED BY <1>10, <2>1 DEF Complete
<1>12. CloseLast(c)'
  <2>1. \A k \in 1 .. Len(responses[c]) : ~IsClose(responses[c][k])
    BY <1>1, <1>4 DEF CloseLast
  <2> SUFFICES ASSUME NEW k \in 1 .. Len(rs), IsClose(rs[k])
               PROVE  k = Len(rs) /\ r.kind = "close"
    BY <1>10 DEF CloseLast
  <2>3. k = Len(responses[c]) + 1
    <3>1. Len(responses[c]) \in Nat
      BY <1>4
    <3>2. k \in 1 .. Len(responses[c]) \/ k = Len(responses[c]) + 1
      BY <1>5, <3>1
    <3>. QED BY <1>5, <2>1, <3>2
  <2>. QED BY <1>5, <2>3 DEF IsClose
<1>13. ASSUME NEW d \in Conns \ {c} PROVE Complete(d)' /\ CloseLast(d)'
  <2>1. /\ Complete(d) /\ CloseLast(d)
        /\ issued'[d] = issued[d] /\ responses'[d] = responses[d]
        /\ wire'[d] = wire[d] /\ handshake_done'[d] = handshake_done[d] /\ callback' # d
    BY <1>3, <1>7, <1>10 DEF StreamInv, StreamTypes
  <2>. QED BY <2>1, StreamElsewhere
<1>. QED BY <1>1, <1>9, <1>11, <1>12, <1>13 DEF StreamInv

LEMMA StreamNext == LifeInv /\ StreamInv /\ [Next]_vars => StreamInv'
<1> SUFFICES ASSUME LifeInv, StreamInv, [Next]_vars PROVE StreamInv'
  OBVIOUS
<1> USE DEF clientVars, socketVars, handlerVars, pollVars, dispatcherVars
<1>1. ASSUME NEW c \in Conns, Connect(c) \/ Leave(c) \/ (\E packet : Ask(c, packet)) \/ Poll(c)
      PROVE  StreamInv'
  <2>1. UNCHANGED <<session, wire, issued, responses, send_buf, faults, handshake_done,
                    callback, writer>>
    BY <1>1 DEF Connect, Leave, Ask, Poll
  <2>2. /\ client' \in [Conns -> {"none", "up", "gone"}]
        /\ asked' \in [Conns -> BOOLEAN]
    BY <1>1 DEF Connect, Leave, Ask, Poll, StreamInv, StreamTypes
  <2>3. StreamTypes'
    BY <2>1, <2>2 DEF StreamInv, StreamTypes
  <2>. QED BY <2>1, <2>3, StreamQuiet
<1>2. ASSUME NEW c \in Conns,
             \/ \E e \in {"read", "error"} : OnClosed(c, e)
             \/ OnRefused(c) \/ OnSendFailed(c) \/ OnAllClosed(c)
             \/ OnRequest(c) /\ callback = None
      PROVE  StreamInv'
  <2>1. /\ \E known : Destroy(c, known)
        /\ UNCHANGED <<session, writer, faults>>
    BY <1>2 DEF OnClosed, OnRefused, OnSendFailed, OnAllClosed, OnRequest
  <2>2. session' \in BOOLEAN
    BY <2>1 DEF StreamInv, StreamTypes
  <2>. QED BY <2>1, <2>2, StreamDestroy
<1>3. ASSUME NEW c \in Conns, OnRequest(c), callback # None
      PROVE  StreamInv'
  <2>1. /\ UNCHANGED <<client, asked, wire, issued, responses, send_buf, faults,
                       handshake_done, callback, writer>>
        /\ session' \in BOOLEAN
    BY <1>3 DEF OnRequest
  <2>2. StreamTypes'
    BY <2>1 DEF StreamInv, StreamTypes
  <2>. QED BY <2>1, <2>2, StreamQuiet
<1>4. ASSUME NEW c \in Conns,
             OnSent(c) \/ RemoveObserver(c) \/ RemoveMode(c) \/ UpdatePollSet(c)
      PROVE  StreamInv'
  <2>1. UNCHANGED <<client, asked, session, wire, issued, responses, send_buf, faults,
                    handshake_done, callback, writer>>
    BY <1>4 DEF OnSent, RemoveObserver, RemoveMode, UpdatePollSet
  <2>2. StreamTypes'
    BY <2>1 DEF StreamInv, StreamTypes
  <2>. QED BY <2>1, <2>2, StreamQuiet
<1>5. ASSUME NEW c \in Conns, Connect(c) \/ Receive(c) \/ Leave(c) \/ Reactor(c)
      PROVE  StreamInv'
  BY <1>1, <1>2, <1>3, <1>4, <1>5, StreamReceive, StreamConnect, StreamWritable DEF Reactor
<1>6. ASSUME NEW c \in Conns, NEW packet \in {"heartbeat", "close"}, Ask(c, packet)
      PROVE  StreamInv'
  BY <1>1, <1>6
<1>7. CASE Notify \/ DropResponse \/ CleanerPush \/ CleanerFinish \/ UNCHANGED vars
  <2>1. /\ UNCHANGED <<client, asked, wire, issued, responses, send_buf, faults,
                       handshake_done, writer>>
        /\ session' \in {session, FALSE} /\ callback' \in {callback, None}
    BY <1>7 DEF Notify, DropResponse, CleanerPush, CleanerFinish, vars
  <2>2. StreamTypes'
    BY <2>1 DEF StreamInv, StreamTypes
  <2>. QED BY <2>1, <2>2, StreamQuiet
<1>8. CASE PushResponse
  <2>1. callback \in Conns
    BY <1>8 DEF PushResponse, LifeInv, LifeTypes
  <2>. QED BY <1>8, <2>1, StreamPush
<1>9. CASE AddObserver \/ AddMode \/ AddToPollSet
  <2>1. UNCHANGED <<client, asked, session, wire, issued, responses, send_buf, faults,
                    handshake_done>>
    BY <1>9 DEF AddObserver, AddMode, AddToPollSet
  <2>2. StreamTypes'
    BY <2>1 DEF StreamInv, StreamTypes
  <2>3. writer \in WriterStates
    BY DEF LifeInv, LifeTypes
  <2>4. callback' # None =>
            /\ callback' = callback
            /\ writer.pc # "wait" /\ writer.kind = "close"
                 => writer'.pc # "wait" /\ writer'.kind = "close"
    BY <1>9, <2>3 DEF AddObserver, AddMode, AddToPollSet, WriterStates
  <2>. QED BY <2>1, <2>2, <2>4, StreamQuiet
<1>. QED BY <1>5, <1>6, <1>7, <1>8, <1>9 DEF Next, ResponseThread

LEMMA StreamCorrect == NoPartial => (Spec => [](LifeInv /\ StreamInv))
<1>1. Init /\ NoPartial => LifeInv /\ StreamInv
  BY LifeInit, StreamInit
<1>2. LifeInv /\ StreamInv /\ [Next]_vars => (LifeInv /\ StreamInv)'
  BY LifeNext, StreamNext
<1>. QED BY <1>1, <1>2, PTL DEF Spec

(* The state of connections keeps its types: the send buffer is not        *)
(* overfilled and the socket holds no more than it has room for, whatever  *)
(* the clients do, as long as no send is cut short.                        *)
THEOREM ConnectionTypeCorrect == NoPartial => (Spec => []TypeOK)
<1>1. LifeInv /\ StreamInv /\ StrandInv /\ CleanerType => TypeOK
  <2> SUFFICES ASSUME LifeInv, StreamInv, StrandInv, CleanerType PROVE TypeOK
    OBVIOUS
  <2>1. Whole \subseteq Resp /\ SentBufferSize \in Nat
    BY ConnectionAssumption DEF Whole, Resp
  <2>2. ASSUME NEW c \in Conns
        PROVE  /\ Len(wire[c]) <= SocketSize + ResponseBytes
               /\ issued[c] \in Seq(Resp) /\ responses[c] \in Seq(Resp)
               /\ Len(send_buf[c]) <= SentBufferSize
    <3>1. issued[c] \in Seq(Whole) /\ responses[c] \in Seq(Resp) /\ send_buf[c] = <<>>
      BY DEF StreamInv, StreamTypes
    <3>2. issued[c] \in Seq(Resp)
      BY <2>1, <3>1, SeqMonotonic
    <3>3. Len(send_buf[c]) <= SentBufferSize
      BY <2>1, <3>1, EmptySeq
    <3>. QED BY <3>1, <3>2, <3>3 DEF StreamInv, Complete
  <2>3. ASSUME NEW c \in Conns
        PROVE  /\ inbox[c] \in Seq({"connect", "heartbeat", "close"})
               /\ reactor[c].pc \in {"poll", "dispatch", "sent", "remove", "mode", "update"}
    BY DEF LifeInv, LifeTypes, ReactorStates, Packets
  <2>4. writer.pc \in {"wait", "observe", "mode", "add"} /\ writer.conn \in Conns \cup {None}
    BY DEF LifeInv, LifeTypes, WriterStates
  <2>. QED BY <2>2, <2>3, <2>4 DEF TypeOK, LifeInv, LifeTypes, StreamInv, StreamTypes,
     StrandInv, CleanerType, Resp, Events
<1>. QED BY <1>1, StreamCorrect, StrandCorrect, CleanerCorrect, PTL

(* What the client reads are the responses issued to its connection, in    *)
(* their order, byte after byte, wherever the send buffer cuts them: as    *)
(* long as a writable socket takes what the send buffer holds, nothing is  *)
(* lost, repeated or swapped by the accumulation of data and the removal   *)
(* of what was sent, and the reply to the handshake comes first.           *)
THEOREM StreamInOrderHolds == NoPartial => (Spec => []StreamInOrder)
<1>1. LifeInv /\ StreamInv => StreamInOrder
  <2> SUFFICES ASSUME StreamInv, NEW c \in Conns PROVE IsPrefix(wire[c], Bytes(issued[c]))
    BY DEF StreamInOrder
  <2> DEFINE x == wire[c]
             b == Bytes(responses[c])
             l == Bytes(issued[c])
  <2>1. x \in Seq(ByteSet) /\ b \in Seq(ByteSet) /\ l = x \o b
    BY BytesType DEF StreamInv, StreamTypes, Complete
  <2> HIDE DEF x, b, l
  <2>2. l \in Seq(ByteSet) /\ Len(l) = Len(x) + Len(b) /\ Len(x) \in Nat /\ Len(b) \in Nat
        /\ \A i \in 1 .. Len(x) : l[i] = x[i]
    BY <2>1, ConcatProperties
  <2>3. SubSeq(x, 1, Len(x)) = SubSeq(l, 1, Len(x))
    <3>1. /\ SubSeq(l, 1, Len(x)) \in Seq(ByteSet) /\ Len(SubSeq(l, 1, Len(x))) = Len(x)
          /\ \A i \in 1 .. Len(x) : SubSeq(l, 1, Len(x))[i] = l[i]
      BY <2>2
    <3>2. x = SubSeq(l, 1, Len(x))
      BY <2>1, <2>2, <3>1, SeqEqual
    <3>. QED BY <2>1, <3>2, SubSeqFull
  <2>4. IsPrefix(x, l)
    BY <2>2, <2>3 DEF IsPrefix
  <2>. QED BY <2>4 DEF x, l
<1>. QED BY <1>1, StreamCorrect, PTL
=============================================================================
