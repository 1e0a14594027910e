----------------------------- MODULE Connection -----------------------------
(***************************************************************************)
(* Client connections of one session: ConnectionHandler on its SocketReactor *)
(* with the reactor's poll set, the dispatcher's table of response callbacks *)
(* and the dispatcher's response thread and session cleaner.                 *)
(*                                                                          *)
(* Two threads work on a connection.  The reactor polls the socket and runs  *)
(* the handler's callbacks; the response thread, holding the table's mutex,  *)
(* queues responses in the handler and registers it for writable events,     *)
(* which the reactor unregisters when all has been sent.  Registering and    *)
(* unregistering take several steps each: the observer, the mode computed    *)
(* from the observers, the mode of the poll set.  No lock spans the steps,   *)
(* so the two threads may meet in them.  An observer is added or removed in  *)
(* one step: the notifier's list of observers is guarded by its mutex, and   *)
(* the multiset of their events has one writer for a kind at a time.         *)
(*                                                                          *)
(* The processing of requests is external here, see RequestPipeline: a       *)
(* request that is put has its response put into responses_queue.  A packet  *)
(* is read in one step (the handler keeps its pieces until it is complete);  *)
(* responses are sequences of bytes, as they are cut up by the send buffer.  *)
(*                                                                          *)
(* What may happen in a behaviour is drawn at the start from FaultSets:      *)
(*   "leave"     the client goes, and comes back when the server knows       *)
(*   "takeover"  the client comes back before the server knows               *)
(*   "partial"   a socket that is writable takes less than the send buffer   *)
(*   "expire"    the session times out, with or without a connection         *)
(* The session cleaner's Close is answered like a client's.  The session a   *)
(* client opens after one that ended is not told apart from it.              *)
(***************************************************************************)
EXTENDS Integers, Sequences, SequencesExt

CONSTANTS Conns,            \* connections: sockets with their handlers
          None,
          ResponseBytes,    \* bytes of a response
          SentBufferSize,   \* SENT_BUFFER_SIZE
          SocketSize,       \* bytes the socket holds for the client
          FaultSets,
          MaxPending        \* bound, for each of FaultSets: responses waiting when a watch
                            \* fires, a client comes or a session times out

ASSUME ConnectionAssumption ==
    /\ None \notin Conns
    /\ ResponseBytes \in Nat \ {0} /\ SentBufferSize \in Nat \ {0}
    /\ SocketSize \in Nat /\ SocketSize >= SentBufferSize
    /\ MaxPending \in [FaultSets -> Nat \ {0}]

VARIABLES client,           \* the client's end: "none", "up" or "gone"
          asked,            \* the client waits for the answer to a heartbeat
          inbox,            \* packets on their way to the server
          wire,             \* bytes on their way to the client
          issued,           \* responses sent or queued and not yet read by the client
          alive,            \* the handler exists
          handshake_done,
          responses,        \* the handler's queue: [kind, left]
          send_buf,
          observers,        \* of the socket's notifier
          polled,           \* the poll set's mode of the socket
          met,              \* history: the last change of the registration began
                            \* while the other thread was at one
          reactor,          \* [pc, events, mode] of the reactor's thread
          session,          \* the session exists
          callback,         \* session_to_response_callback
          responses_queue,
          writer,           \* [pc, conn, mode, kind] of the response thread
          cleaner,          \* pc of the session cleaner
          faults

clientVars == <<client, asked>>
socketVars == <<inbox, wire, issued>>
handlerVars == <<alive, handshake_done, responses, send_buf>>
pollVars == <<observers, polled, met>>
dispatcherVars == <<session, callback, responses_queue>>
vars == <<clientVars, socketVars, handlerVars, pollVars, reactor, dispatcherVars, writer,
          cleaner, faults>>

Idle == [pc |-> "poll", events |-> {}, mode |-> {}]
NoResponse == [pc |-> "wait", conn |-> None, mode |-> {}, kind |-> "none"]

\* A queued response: kind and how many of its bytes are left; the null pointer
\* is_close stands for the response to a Close.
Response(kind) == [kind |-> kind, left |-> IF kind = "close" THEN 0 ELSE ResponseBytes]
IsClose(r) == r.kind = "close"

BytesOf(r) == [k \in 1 .. r.left |-> <<r.kind, ResponseBytes - r.left + k>>]
Bytes(rs) == FlattenSeq([k \in DOMAIN rs |-> BytesOf(rs[k])])

Init ==
    /\ client = [c \in Conns |-> "none"]
    /\ asked = [c \in Conns |-> FALSE]
    /\ inbox = [c \in Conns |-> <<>>]
    /\ wire = [c \in Conns |-> <<>>]
    /\ issued = [c \in Conns |-> <<>>]
    /\ alive = [c \in Conns |-> FALSE]
    /\ handshake_done = [c \in Conns |-> FALSE]
    /\ responses = [c \in Conns |-> <<>>]
    /\ send_buf = [c \in Conns |-> <<>>]
    /\ observers = [c \in Conns |-> {}]
    /\ polled = [c \in Conns |-> {}]
    /\ met = [c \in Conns |-> FALSE]
    /\ reactor = [c \in Conns |-> Idle]
    /\ session = FALSE /\ callback = None /\ responses_queue = <<>>
    /\ writer = NoResponse
    /\ cleaner = "check"
    /\ faults \in FaultSets

-----------------------------------------------------------------------------
(* The client, external                                                     *)

\* A socket is accepted and its handler created.  Where a handler is deleted before
\* the next one is made, all of them may have the same name.
Connect(c) ==
    /\ ~alive[c] /\ client[c] = "none" /\ Len(responses_queue) < MaxPending[faults]
    /\ \A d \in Conns : client[d] # "up"
    /\ "takeover" \in faults \/ c = CHOOSE d \in Conns : TRUE
    /\ client' = [client EXCEPT ![c] = "up"]
    /\ inbox' = [inbox EXCEPT ![c] = <<"connect">>]
    /\ alive' = [alive EXCEPT ![c] = TRUE]
    /\ observers' = [observers EXCEPT ![c] = {"read", "error"}]
    /\ polled' = [polled EXCEPT ![c] = {"read", "error"}]
    /\ UNCHANGED <<asked, wire, issued, handshake_done, responses, send_buf, met, reactor,
                   dispatcherVars, writer, cleaner, faults>>

\* The client sends a heartbeat, one at a time, or closes its session.
Ask(c, packet) ==
    /\ client[c] = "up" /\ handshake_done[c] /\ ~asked[c]
    /\ asked' = [asked EXCEPT ![c] = TRUE]
    /\ inbox' = [inbox EXCEPT ![c] = Append(@, packet)]
    /\ UNCHANGED <<client, wire, issued, handlerVars, pollVars, reactor, dispatcherVars,
                   writer, cleaner, faults>>

\* The client reads a response.
Receive(c) ==
    /\ client[c] = "up" /\ Len(wire[c]) >= ResponseBytes
    /\ wire' = [wire EXCEPT ![c] = SubSeq(@, ResponseBytes + 1, Len(@))]
    /\ issued' = [issued EXCEPT ![c] = Tail(@)]
    /\ asked' = [asked EXCEPT ![c] = @ /\ Head(issued[c]).kind # "heartbeat"]
    /\ UNCHANGED <<client, inbox, handlerVars, pollVars, reactor, dispatcherVars, writer,
                   cleaner, faults>>

\* The client closes the socket, or the network breaks.
Leave(c) ==
    /\ "leave" \in faults \/ "takeover" \in faults
    /\ client[c] = "up"
    /\ client' = [client EXCEPT ![c] = "gone"]
    /\ asked' = [asked EXCEPT ![c] = FALSE]
    /\ inbox' = [inbox EXCEPT ![c] = <<>>]
    /\ UNCHANGED <<wire, issued, handlerVars, pollVars, reactor, dispatcherVars, writer,
                   cleaner, faults>>

\* A watch of the session fires.
Notify ==
    /\ session
    /\ \A c \in Conns : Len(responses_queue) + Len(issued[c]) < MaxPending[faults]
    /\ responses_queue' = Append(responses_queue, "watch")
    /\ UNCHANGED <<clientVars, socketVars, handlerVars, pollVars, reactor, session,
                   callback, writer, cleaner, faults>>

-----------------------------------------------------------------------------
(* SocketReactor                                                            *)

Space(c) == SocketSize - Len(wire[c])

Ready(c) ==
    {e \in {"read", "write", "error"} :
        CASE e = "read" -> inbox[c] # <<>> \/ client[c] = "gone"
          [] e = "write" -> \/ client[c] = "gone" \/ Space(c) >= SentBufferSize
                            \/ "partial" \in faults /\ Space(c) > 0
          [] e = "error" -> client[c] = "gone"}

\* run: poll
Poll(c) ==
    /\ reactor[c].pc = "poll"
    /\ Ready(c) \cap polled[c] # {}
    /\ reactor' = [reactor EXCEPT ![c].pc = "dispatch", ![c].events = Ready(c) \cap polled[c]]
    /\ UNCHANGED <<clientVars, socketVars, handlerVars, pollVars, dispatcherVars, writer,
                   cleaner, faults>>

\* The reactor goes on behind event e: readable is dispatched first, then
\* writable, then error.
After(c, e) ==
    LET left == reactor[c].events \ {e}
    IN  [reactor EXCEPT ![c] = IF left = {} THEN Idle
                               ELSE [Idle EXCEPT !.pc = "dispatch", !.events = left]]

Dispatches(c, e) ==
    /\ reactor[c].pc = "dispatch" /\ e \in reactor[c].events
    /\ e = "write" => "read" \notin reactor[c].events
    /\ e = "error" => reactor[c].events = {"error"}

\* delete: the destructor takes the socket off the reactor and closes it.  Without
\* a notifier the reactor drops the events that are left.
Delete(c) ==
    /\ alive' = [alive EXCEPT ![c] = FALSE]
    /\ handshake_done' = [handshake_done EXCEPT ![c] = FALSE]
    /\ responses' = [responses EXCEPT ![c] = <<>>]
    /\ send_buf' = [send_buf EXCEPT ![c] = <<>>]
    /\ observers' = [observers EXCEPT ![c] = {}]
    /\ polled' = [polled EXCEPT ![c] = {}]
    /\ met' = [met EXCEPT ![c] = FALSE]
    /\ reactor' = [reactor EXCEPT ![c] = Idle]
    /\ client' = [client EXCEPT ![c] = "none"]
    /\ asked' = [asked EXCEPT ![c] = FALSE]
    /\ inbox' = [inbox EXCEPT ![c] = <<>>]
    /\ wire' = [wire EXCEPT ![c] = <<>>]
    /\ issued' = [issued EXCEPT ![c] = <<>>]

(* Mutant of Destroy: the session is not finished before the handler goes. *)
MutantDestroyKeeps(c, known) == Delete(c) /\ UNCHANGED callback

\* destroyMe: finishSession of the handler's session, when the handler knows one,
\* for which the table's mutex is needed, and delete.
Destroy(c, known) ==
    /\ writer.pc = "wait"
    /\ callback' = IF known THEN None ELSE callback
    /\ Delete(c)

-----------------------------------------------------------------------------
(* ConnectionHandler: reading                                               *)

(* Mutant of OnClosed: a connection without a session is not destroyed. *)
MutantKeepUnknown(c, e) ==
    /\ e \in {"read", "error"} /\ Dispatches(c, e)
    /\ client[c] = "gone"
    /\ IF handshake_done[c] THEN Destroy(c, handshake_done[c])
       ELSE /\ reactor' = After(c, e)
            /\ UNCHANGED <<clientVars, socketVars, handlerVars, pollVars, callback>>
    /\ UNCHANGED <<session, responses_queue, writer, cleaner, faults>>

\* onSocketReadable: the client has closed the connection; onSocketError.
OnClosed(c, e) ==
    /\ e \in {"read", "error"} /\ Dispatches(c, e)
    /\ client[c] = "gone"
    /\ Destroy(c, handshake_done[c])
    /\ UNCHANGED <<session, responses_queue, writer, cleaner, faults>>

\* onSocketReadable: handshake.  A session is created or renewed, the reply sent
\* in blocking mode, then the callback registered with try_emplace.
OnConnect(c) ==
    /\ Dispatches(c, "read") /\ inbox[c] # <<>> /\ Head(inbox[c]) = "connect"
    /\ writer.pc = "wait"
    /\ session' = TRUE
    /\ callback' = IF callback = None THEN c ELSE callback
    /\ handshake_done' = [handshake_done EXCEPT ![c] = TRUE]
    /\ inbox' = [inbox EXCEPT ![c] = Tail(@)]
    /\ wire' = [wire EXCEPT ![c] = @ \o BytesOf(Response("handshake"))]
    /\ issued' = [issued EXCEPT ![c] = Append(@, Response("handshake"))]
    /\ reactor' = After(c, "read")
    /\ UNCHANGED <<clientVars, alive, responses, send_buf, pollVars, responses_queue,
                   writer, cleaner, faults>>

\* The handshake fails: no leader, or the session could not be created or renewed;
\* in the latter case the handler knows it.
OnRefused(c) ==
    /\ Dispatches(c, "read") /\ inbox[c] # <<>> /\ Head(inbox[c]) = "connect"
    /\ \E reconnects \in BOOLEAN : Destroy(c, reconnects)
    /\ UNCHANGED <<session, responses_queue, writer, cleaner, faults>>

\* receiveRequest, putRequest: a session whose callback is gone is disconnected.
OnRequest(c) ==
    /\ Dispatches(c, "read") /\ inbox[c] # <<>> /\ Head(inbox[c]) # "connect"
    /\ IF callback = None
       THEN /\ Destroy(c, handshake_done[c])
            /\ UNCHANGED <<session, responses_queue>>
       ELSE /\ writer.pc = "wait"
            /\ responses_queue' = Append(responses_queue, Head(inbox[c]))
            /\ session' = (session /\ Head(inbox[c]) # "close")
            /\ inbox' = [inbox EXCEPT ![c] = Tail(@)]
            /\ reactor' = After(c, "read")
            /\ UNCHANGED <<clientVars, wire, issued, handlerVars, pollVars, callback>>
    /\ UNCHANGED <<writer, cleaner, faults>>

-----------------------------------------------------------------------------
(* ConnectionHandler: writing                                               *)

\* What the handler may send: the bytes in front of is_close.
Sendable(c) == Bytes(responses[c])

\* "accumulate data": the buffer takes what it has room for.
Filled(c) ==
    LET room == SentBufferSize - Len(send_buf[c])
        bytes == Sendable(c)
    IN  send_buf[c] \o SubSeq(bytes, 1, IF room < Len(bytes) THEN room ELSE Len(bytes))

(* Mutant of Drained: the first response is drained of all that was sent. *)
MutantDrainHead(rs, n) ==
    IF rs = <<>> THEN rs ELSE <<[rs[1] EXCEPT !.left = @ - n]>> \o Tail(rs)

(* Mutant of Drained: what a removed response used up of `sent' is not deducted. *)
MutantDrainTwice(rs, n) ==
    SelectSeq([k \in DOMAIN rs |-> [rs[k] EXCEPT !.left = IF n < @ THEN @ - n ELSE 0]],
              LAMBDA r : IsClose(r) \/ r.left > 0)

\* "remove sent responses": those sent whole go, the next one is drained of the rest.
Drained(rs, n) ==
    LET upto(k) == Len(Bytes(SubSeq(rs, 1, k)))
        whole == CHOOSE k \in 0 .. Len(rs) :
                    /\ upto(k) <= n
                    /\ \A j \in 1 .. k : ~IsClose(rs[j])
                    /\ k < Len(rs) => IsClose(rs[k + 1]) \/ n < upto(k + 1)
        rest == SubSeq(rs, whole + 1, Len(rs))
    IN  IF rest = <<>> THEN rest ELSE [rest EXCEPT ![1].left = @ - (n - upto(whole))]

\* onSocketWritable up to the removal of what was sent.
OnWritable(c) ==
    /\ Dispatches(c, "write")
    /\ IF "write" \notin observers[c] \/ (responses[c] = <<>> /\ send_buf[c] = <<>>)
       THEN /\ reactor' = After(c, "write")
            /\ UNCHANGED <<socketVars, handlerVars>>
       ELSE \E n \in 0 .. Len(Filled(c)) :
              /\ client[c] = "up"
              /\ n = Len(Filled(c)) \/ ("partial" \in faults /\ n = Space(c))
              /\ n <= Space(c)
              /\ wire' = [wire EXCEPT ![c] = @ \o SubSeq(Filled(c), 1, n)]
              /\ send_buf' = [send_buf EXCEPT ![c] = SubSeq(Filled(c), n + 1, Len(Filled(c)))]
              /\ responses' = [responses EXCEPT ![c] = Drained(@, n)]
              /\ reactor' = [reactor EXCEPT ![c].pc = "sent"]
              /\ UNCHANGED <<inbox, issued, alive, handshake_done>>
    /\ UNCHANGED <<clientVars, pollVars, dispatcherVars, writer, cleaner, faults>>

\* Sending fails, and the handler closes the connection.
OnSendFailed(c) ==
    /\ Dispatches(c, "write")
    /\ client[c] = "gone" /\ "write" \in observers[c]
    /\ responses[c] # <<>> \/ send_buf[c] # <<>>
    /\ Destroy(c, handshake_done[c])
    /\ UNCHANGED <<session, responses_queue, writer, cleaner, faults>>

\* The response to a Close is at the front: everything before it has been sent.
OnAllClosed(c) ==
    /\ reactor[c].pc = "sent"
    /\ responses[c] # <<>> /\ IsClose(Head(responses[c]))
    /\ Destroy(c, handshake_done[c])
    /\ UNCHANGED <<session, responses_queue, writer, cleaner, faults>>

\* "If all sent unregister writable event."
OnSent(c) ==
    /\ reactor[c].pc = "sent"
    /\ responses[c] # <<>> => ~IsClose(Head(responses[c]))
    /\ IF responses[c] = <<>> /\ send_buf[c] = <<>>
       THEN /\ reactor' = [reactor EXCEPT ![c].pc = "remove"]
            /\ met' = [met EXCEPT ![c] = writer.conn = c]
       ELSE reactor' = After(c, "write") /\ met' = met
    /\ UNCHANGED <<clientVars, socketVars, handlerVars, observers, polled, dispatcherVars,
                   writer, cleaner, faults>>

(* Mutant of RemoveObserver: the observer of readable events is removed. *)
MutantRemoveReadable(c) ==
    /\ reactor[c].pc = "remove"
    /\ observers' = [observers EXCEPT ![c] = @ \ {"read"}]
    /\ reactor' = [reactor EXCEPT ![c].pc = "mode"]
    /\ UNCHANGED <<clientVars, socketVars, handlerVars, polled, met, dispatcherVars, writer,
                   cleaner, faults>>

\* removeEventHandler: removeObserver, the mode, and the poll set.
RemoveObserver(c) ==
    /\ reactor[c].pc = "remove"
    /\ observers' = [observers EXCEPT ![c] = @ \ {"write"}]
    /\ reactor' = [reactor EXCEPT ![c].pc = "mode"]
    /\ UNCHANGED <<clientVars, socketVars, handlerVars, polled, met, dispatcherVars, writer,
                   cleaner, faults>>

RemoveMode(c) ==
    /\ reactor[c].pc = "mode"
    /\ reactor' = [reactor EXCEPT ![c].pc = "update", ![c].mode = observers[c]]
    /\ UNCHANGED <<clientVars, socketVars, handlerVars, pollVars, dispatcherVars, writer,
                   cleaner, faults>>

UpdatePollSet(c) ==
    /\ reactor[c].pc = "update"
    /\ polled' = [polled EXCEPT ![c] = reactor[c].mode]
    /\ reactor' = After(c, "write")
    /\ UNCHANGED <<clientVars, socketVars, handlerVars, observers, met, dispatcherVars,
                   writer, cleaner, faults>>

-----------------------------------------------------------------------------
(* The dispatcher's response thread: setResponse and sendResponse           *)

Removing(c) == reactor[c].pc \in {"remove", "mode", "update"}

\* A response of a session without callback is dropped.
DropResponse ==
    /\ writer.pc = "wait" /\ responses_queue # <<>> /\ callback = None
    /\ responses_queue' = Tail(responses_queue)
    /\ UNCHANGED <<clientVars, socketVars, handlerVars, pollVars, reactor, session,
                   callback, writer, cleaner, faults>>

\* The mutex is taken, the response is queued in the handler.
PushResponse ==
    LET c == callback
        r == Response(Head(responses_queue))
    IN  /\ writer.pc = "wait" /\ responses_queue # <<>> /\ c # None
        /\ responses_queue' = Tail(responses_queue)
        /\ responses' = [responses EXCEPT ![c] = Append(@, r)]
        /\ issued' = [issued EXCEPT ![c] = IF IsClose(r) THEN @ ELSE Append(@, r)]
        /\ writer' = [pc |-> "observe", conn |-> c, mode |-> {}, kind |-> r.kind]
        /\ met' = [met EXCEPT ![c] = Removing(c)]
        /\ UNCHANGED <<clientVars, inbox, wire, alive, handshake_done, send_buf, observers,
                       polled, reactor, session, callback, cleaner, faults>>

\* addEventHandler: addObserver, the mode, and the poll set; then a Close takes the
\* callback out of the table, and the mutex is released.
AddObserver ==
    /\ writer.pc = "observe"
    /\ observers' = [observers EXCEPT ![writer.conn] = @ \cup {"write"}]
    /\ writer' = [writer EXCEPT !.pc = "mode"]
    /\ UNCHANGED <<clientVars, socketVars, handlerVars, polled, met, reactor,
                   dispatcherVars, cleaner, faults>>

AddMode ==
    /\ writer.pc = "mode"
    /\ writer' = [writer EXCEPT !.pc = "add", !.mode = observers[writer.conn]]
    /\ UNCHANGED <<clientVars, socketVars, handlerVars, pollVars, reactor, dispatcherVars,
                   cleaner, faults>>

(* Mutant of AddToPollSet: the poll set is not told of a known socket. *)
MutantAddKnown ==
    /\ writer.pc = "add"
    /\ callback' = IF writer.kind = "close" THEN None ELSE callback
    /\ writer' = NoResponse
    /\ UNCHANGED <<clientVars, socketVars, handlerVars, pollVars, reactor, session,
                   responses_queue, cleaner, faults>>

AddToPollSet ==
    /\ writer.pc = "add"
    /\ polled' = [polled EXCEPT ![writer.conn] = writer.mode]
    /\ callback' = IF writer.kind = "close" THEN None ELSE callback
    /\ writer' = NoResponse
    /\ UNCHANGED <<clientVars, socketVars, handlerVars, observers, met, reactor, session,
                   responses_queue, cleaner, faults>>

-----------------------------------------------------------------------------
(* The dispatcher's session cleaner                                         *)

\* sessionCleanerTask: a Close is pushed for a session that timed out.
CleanerPush ==
    /\ "expire" \in faults
    /\ cleaner = "check" /\ session /\ Len(responses_queue) < MaxPending[faults]
    /\ responses_queue' = Append(responses_queue, "close")
    /\ session' = FALSE
    /\ cleaner' = "finish"
    /\ UNCHANGED <<clientVars, socketVars, handlerVars, pollVars, reactor, callback, writer,
                   faults>>

\* finishSession: the callback goes, also that of a connection that is open.
CleanerFinish ==
    /\ cleaner = "finish" /\ writer.pc = "wait"
    /\ callback' = None
    /\ cleaner' = "check"
    /\ UNCHANGED <<clientVars, socketVars, handlerVars, pollVars, reactor, session,
                   responses_queue, writer, faults>>

-----------------------------------------------------------------------------
Reactor(c) ==
    \/ Poll(c)
    \/ \E e \in {"read", "error"} : OnClosed(c, e)
    \/ OnConnect(c) \/ OnRefused(c) \/ OnRequest(c)
    \/ OnWritable(c) \/ OnSendFailed(c) \/ OnAllClosed(c) \/ OnSent(c)
    \/ RemoveObserver(c) \/ RemoveMode(c) \/ UpdatePollSet(c)

ResponseThread == DropResponse \/ PushResponse \/ AddObserver \/ AddMode \/ AddToPollSet

Next ==
    \/ \E c \in Conns : Connect(c) \/ Receive(c) \/ Leave(c) \/ Reactor(c)
    \/ \E c \in Conns, packet \in {"heartbeat", "close"} : Ask(c, packet)
    \/ Notify
    \/ ResponseThread
    \/ CleanerPush \/ CleanerFinish

Spec == Init /\ [][Next]_vars

\* Reactors and the response thread loop, the cleaner goes on with what it began;
\* a client reads what it is sent.
FairSpec ==
    /\ Spec
    /\ \A c \in Conns : WF_vars(Reactor(c)) /\ WF_vars(Receive(c))
    /\ WF_vars(ResponseThread) /\ WF_vars(CleanerFinish)

-----------------------------------------------------------------------------
(* Properties *)

Kinds == {"handshake", "heartbeat", "watch", "close"}

\* The state keeps its types; the send buffer is never overfilled.
TypeOK ==
    /\ client \in [Conns -> {"none", "up", "gone"}]
    /\ asked \in [Conns -> BOOLEAN]
    /\ \A c \in Conns : inbox[c] \in Seq({"connect", "heartbeat", "close"})
    /\ \A c \in Conns : Len(wire[c]) <= SocketSize + ResponseBytes
    /\ \A c \in Conns : issued[c] \in Seq([kind : Kinds, left : 0 .. ResponseBytes])
    /\ alive \in [Conns -> BOOLEAN] /\ handshake_done \in [Conns -> BOOLEAN]
    /\ \A c \in Conns : responses[c] \in Seq([kind : Kinds, left : 0 .. ResponseBytes])
    /\ \A c \in Conns : Len(send_buf[c]) <= SentBufferSize
    /\ observers \in [Conns -> SUBSET {"read", "write", "error"}]
    /\ polled \in [Conns -> SUBSET {"read", "write", "error"}]
    /\ met \in [Conns -> BOOLEAN]
    /\ \A c \in Conns :
          reactor[c].pc \in {"poll", "dispatch", "sent", "remove", "mode", "update"}
    /\ session \in BOOLEAN /\ callback \in Conns \cup {None}
    /\ responses_queue \in Seq({"heartbeat", "watch", "close"})
    /\ writer.pc \in {"wait", "observe", "mode", "add"} /\ writer.conn \in Conns \cup {None}
    /\ cleaner \in {"check", "finish"}

\* What the client reads is what was sent to it, response after response and byte
\* after byte, however the send buffer cuts them up; the handshake comes first.
StreamInOrder ==
    \A c \in Conns : IsPrefix(wire[c], Bytes(issued[c]))

\* The response thread never works on a handler that has been deleted.
NoUseAfterFree ==
    /\ callback # None => alive[callback]
    /\ writer.pc # "wait" => alive[writer.conn]

\* Neither thread is changing the registration, a response is waiting in the handler,
\* and the socket is not polled for being writable, or is (at every turn of the
\* reactor's loop) with no observer to be told: the response is sent only when
\* another one comes.
Stranded(c) ==
    /\ ~Removing(c) /\ writer.conn # c
    /\ responses[c] # <<>> /\ "write" \notin polled[c] \cap observers[c]

\* A response that waits in a handler is sent when the socket becomes writable.
NothingStranded == \A c \in Conns : ~Stranded(c)

\* A response is stranded only when registering and unregistering overlapped, and
\* only until the next time one of them runs alone: a thread that begins to change
\* the registration while the other is not at it puts right what a race left behind,
\* wherever the poll set was left.
StrandedOnlyWhenMet == \A c \in Conns : Stranded(c) => met[c]

\* The session cleaner has taken the callback of a connection that is open: what is
\* answered now is dropped, and only a further request makes the handler close it.
Orphaned(c) == handshake_done[c] /\ callback = None /\ inbox[c] = <<>>

\* A heartbeat, or a Close, is answered or the connection closed, unless the answer
\* is stranded in the handler or the callback was taken by the session cleaner after
\* the request had been put: there is no third way to leave a client waiting.
HeartbeatsAnswered ==
    \A c \in Conns : <>[]asked[c] => <>[](Stranded(c) \/ Orphaned(c))

\* A client that has gone is noticed and its handler deleted, unless the response
\* thread takes the table's mutex again and again: destroyMe waits for it.
GoneAreDeleted ==
    \A c \in Conns : <>[](client[c] = "gone") => []<>(writer.pc # "wait")
=============================================================================
