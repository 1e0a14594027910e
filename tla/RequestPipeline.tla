-------------------------- MODULE RequestPipeline ---------------------------
(***************************************************************************)
(* The path of a request through one RaftKeeper server: the dispatcher     *)
(* threads (KeeperDispatcher.cpp) route it, the accumulator                *)
(* (RequestAccumulator.cpp) appends batches of writes to raft on the       *)
(* leader, the forwarder (RequestForwarder.cpp) sends them to the leader   *)
(* otherwise, raft commits them, and the request processor applies them.   *)
(* Raft itself (NuRaft) and the other servers are external: they are       *)
(* modelled by what this server sees of them.                              *)
(***************************************************************************)
EXTENDS RequestProcessor

CONSTANTS
  Home,          (* the sessions whose clients connect to this server      *)
  ClientKinds,   (* the kinds of request those clients send                *)
  MaxBatch,      (* max_batch_size of the accumulator                      *)
  Budgets        (* how often each thing outside the program may happen:   *)
                 (* one of these is drawn at the start                     *)

ASSUME PipelineAssumption ==
  /\ Home \subseteq Sessions
  /\ ClientKinds \subseteq Kinds
  /\ MaxBatch \in Nat \ {0}

VARIABLES
  next_xid,        (* next xid of each client                              *)
  dispatch_queue,  (* KeeperDispatcher::requests_queue, per session        *)
  routing,         (* the request a dispatcher thread is routing           *)
  acc_queue,       (* RequestAccumulator::requests_queue                   *)
  acc_batch,       (* to_append_batch                                      *)
  acc_state,       (* what the accumulator thread does with the batch      *)
  fwd_queue,       (* RequestForwarder::requests_queue, per session        *)
  fwd_net,         (* requests on the connection to the leader             *)
  fwd_refused,     (* "not accepted" answers on their way back             *)
  is_leader,       (* KeeperServer::isLeader                               *)
  raft_log,        (* appended to the raft log and not committed           *)
  sent,            (* responses of each session handled by responseThread  *)
  cleaning,        (* sessions whose Close is pushed and not yet finished  *)
  handshaking,     (* sessions whose handshake passed and is not registered *)
  budget

dispatchVars == <<next_xid, dispatch_queue, routing, sent, cleaning, handshaking>>
accVars      == <<acc_queue, acc_batch, acc_state>>
fwdVars      == <<fwd_queue, fwd_net, fwd_refused>>
raftVars     == <<is_leader, raft_log>>
pipeVars     == <<dispatchVars, accVars, fwdVars, raftVars, budget>>
vars         == <<procVars, pipeVars>>

-----------------------------------------------------------------------------
Idle == [at |-> "idle"]

Spend(what) == budget[what] > 0 /\ budget' = [budget EXCEPT ![what] = @ - 1]

(* Requests of the sessions of other servers come with the server and the  *)
(* client they are answered to; the Close of the session cleaner does not. *)
IsForwardRequest(r) == r.session \notin Home /\ r.xid # CloseXid

ErrorOf(r, code) ==
  [session |-> r.session, xid |-> r.xid, kind |-> r.kind, code |-> code]

(* Changes of the two things the processor reads, everything else of the   *)
(* processor left alone.                                                   *)
SetLocal(sessions) ==
  /\ local' = sessions
  /\ UNCHANGED <<requests_queue, pending_requests, committed_queue, errors,
                 loopVars, leader_alive, responses, log, applied>>

SetLeaderAlive(alive) ==
  /\ leader_alive' = alive
  /\ UNCHANGED <<requests_queue, pending_requests, committed_queue, errors,
                 loopVars, local, responses, log, applied>>

Init ==
  /\ ProcInit
  /\ local = Home
  /\ leader_alive = TRUE
  /\ next_xid       = [s \in Sessions |-> 1]
  /\ dispatch_queue = [s \in Sessions |-> <<>>]
  /\ routing        = [s \in Sessions |-> Idle]
  /\ acc_queue      = <<>>
  /\ acc_batch      = <<>>
  /\ acc_state      = "filling"
  /\ fwd_queue      = [s \in Sessions |-> <<>>]
  /\ fwd_net        = [s \in Sessions |-> <<>>]
  /\ fwd_refused    = [s \in Sessions |-> <<>>]
  /\ is_leader \in BOOLEAN
  /\ raft_log       = <<>>
  /\ sent           = [s \in Sessions |-> 0]
  /\ cleaning       = {}
  /\ handshaking    = {}
  /\ budget \in Budgets

-----------------------------------------------------------------------------
(***************************************************************************)
(* Requests enter the dispatcher.                                          *)
(***************************************************************************)
Enter(r) ==
  dispatch_queue' = [dispatch_queue EXCEPT ![r.session] = Append(@, r)]

Closing(s) ==
  \/ \E i \in 1 .. Len(dispatch_queue[s]) : dispatch_queue[s][i].kind = "close"
  \/ next_xid[s] > MaxXid

(* KeeperDispatcher::putRequest: refused when the session has no callback. *)
(* A client numbers its requests and sends nothing after its Close; Auth   *)
(* has an xid of its own.                                                  *)
PutRequest(s, kind) ==
  /\ s \in Home \cap local
  /\ ~Closing(s)
  /\ LET r == [session |-> s, xid |-> IF kind = "auth" THEN AuthXid ELSE next_xid[s],
               kind |-> kind]
     IN  Enter(r)
  /\ IF kind = "auth"
       THEN Spend("auth") /\ UNCHANGED next_xid
       ELSE /\ next_xid' = [next_xid EXCEPT ![s] =
                              IF kind = "close" THEN MaxXid + 1 ELSE @ + 1]
            /\ UNCHANGED budget
  /\ UNCHANGED <<procVars, routing, sent, cleaning, handshaking, accVars, fwdVars,
                 raftVars>>

(* KeeperDispatcher::putForwardingRequest: a write of a session of another *)
(* server arrives here because that server takes this one for the leader.  *)
PutForwardingRequest(s) ==
  /\ s \in Sessions \ Home
  /\ next_xid[s] <= MaxXid
  /\ Spend("remote")
  /\ Enter([session |-> s, xid |-> next_xid[s], kind |-> "write"])
  /\ next_xid' = [next_xid EXCEPT ![s] = @ + 1]
  /\ UNCHANGED <<procVars, routing, sent, cleaning, handshaking, accVars, fwdVars,
                 raftVars>>

(* sessionCleanerTask: on the leader, a dead session gets a Close and then *)
(* loses its callback.                                                     *)
CleanSession(s) ==
  /\ is_leader
  /\ cleaning = {}
  /\ Spend("clean")
  /\ Enter([session |-> s, xid |-> CloseXid, kind |-> "close"])
  /\ cleaning' = {s}
  /\ UNCHANGED <<procVars, next_xid, routing, sent, handshaking, accVars, fwdVars,
                 raftVars>>

FinishSession(s) ==
  /\ s \in cleaning
  /\ cleaning' = {}
  /\ SetLocal(local \ {s})
  /\ UNCHANGED <<next_xid, dispatch_queue, routing, sent, handshaking, accVars,
                 fwdVars, raftVars, budget>>

(***************************************************************************)
(* KeeperDispatcher::requestThreadFakeZk: a request of a local session     *)
(* goes to the processor first; a write then goes to the accumulator or to *)
(* the forwarder, after one or two looks at the leader.                    *)
(***************************************************************************)
TakeRequest(s) ==
  /\ routing[s] = Idle
  /\ dispatch_queue[s] # <<>>
  /\ LET r == Head(dispatch_queue[s]) IN
       /\ dispatch_queue' = [dispatch_queue EXCEPT ![s] = Tail(@)]
       /\ IF s \in local THEN Push(r) ELSE UNCHANGED procVars
       /\ routing' = [routing EXCEPT ![s] =
                        IF IsRead(r) THEN Idle ELSE [at |-> "alive?", req |-> r]]
  /\ UNCHANGED <<next_xid, sent, cleaning, handshaking, accVars, fwdVars, raftVars,
                 budget>>

LookAtLeaderAlive(s) ==
  /\ routing[s].at = "alive?"
  /\ routing' = [routing EXCEPT ![s].at = IF leader_alive THEN "leader?" ELSE "dead?"]
  /\ UNCHANGED <<procVars, next_xid, dispatch_queue, sent, cleaning, handshaking,
                 accVars, fwdVars, raftVars, budget>>

(* The request ends in exactly one of the queues, or in none when the      *)
(* leader was dead at the first look and is alive at the second.           *)
Enqueue(s, to_accumulator, to_forwarder) ==
  /\ routing' = [routing EXCEPT ![s] = Idle]
  /\ acc_queue' = IF to_accumulator THEN Append(acc_queue, routing[s].req) ELSE acc_queue
  /\ fwd_queue' = [fwd_queue EXCEPT ![s] =
                     IF to_forwarder THEN Append(@, routing[s].req) ELSE @]
  /\ UNCHANGED <<procVars, next_xid, dispatch_queue, sent, cleaning, handshaking,
                 acc_batch, acc_state, fwd_net, fwd_refused, raftVars, budget>>

RouteByLeader(s) ==
  routing[s].at = "leader?" /\ Enqueue(s, is_leader, ~is_leader)

LookAgain(s) ==
  routing[s].at = "dead?" /\ Enqueue(s, ~leader_alive, FALSE)

(***************************************************************************)
(* RequestAccumulator::run, with one runner.                               *)
(***************************************************************************)
Accumulate ==
  /\ acc_state = "filling"
  /\ acc_queue # <<>>
  /\ Len(acc_batch) < MaxBatch
  /\ acc_batch' = Append(acc_batch, Head(acc_queue))
  /\ acc_queue' = Tail(acc_queue)
  /\ UNCHANGED <<procVars, dispatchVars, acc_state, fwdVars, raftVars, budget>>

(* KeeperServer::putRequestBatch: raft refuses when it is not the leader.  *)
PutRequestBatch ==
  /\ acc_state = "filling"
  /\ acc_batch # <<>>
  /\ acc_queue = <<>> \/ Len(acc_batch) = MaxBatch
  /\ IF is_leader
       THEN raft_log' = raft_log \o acc_batch /\ acc_state' = "waiting"
       ELSE raft_log' = raft_log /\ acc_state' = "failed"
  /\ UNCHANGED <<procVars, dispatchVars, acc_queue, acc_batch, fwdVars,
                 is_leader, budget>>

InLog(r) == \E i \in 1 .. Len(log) : log[i] = r

(* waitResultAndHandleError: the batch is committed to its last entry.     *)
BatchCommitted ==
  /\ acc_state = "waiting"
  /\ InLog(acc_batch[Len(acc_batch)])
  /\ acc_state' = "filling"
  /\ acc_batch' = <<>>
  /\ UNCHANGED <<procVars, dispatchVars, acc_queue, fwdVars, raftVars, budget>>

(* The client request timeout of raft, or the loss of the leadership, ends *)
(* the wait; the entries may still be committed afterwards.                *)
BatchTimeout ==
  /\ acc_state = "waiting"
  /\ Spend("timeout")
  /\ acc_state' = "timeout"
  /\ UNCHANGED <<procVars, dispatchVars, acc_queue, acc_batch, fwdVars, raftVars>>

BatchCancelled ==
  /\ acc_state = "waiting"
  /\ ~is_leader
  /\ acc_state' = "failed"
  /\ UNCHANGED <<procVars, dispatchVars, acc_queue, acc_batch, fwdVars, raftVars,
                 budget>>

(* One request of a failed batch after the other is reported, to the       *)
(* processor or to the server that forwarded it.                           *)
ReportFailure ==
  /\ acc_state \in {"timeout", "failed"}
  /\ LET r == Head(acc_batch) IN
       IF IsForwardRequest(r) THEN UNCHANGED procVars
       ELSE OnError(ErrorOf(r, acc_state))
  /\ acc_batch' = Tail(acc_batch)
  /\ acc_state' = IF Len(acc_batch) = 1 THEN "filling" ELSE acc_state
  /\ UNCHANGED <<dispatchVars, acc_queue, fwdVars, raftVars, budget>>

(***************************************************************************)
(* RequestForwarder::run and runReceive.                                   *)
(***************************************************************************)
ForwardSend(s) ==
  /\ fwd_queue[s] # <<>>
  /\ ~is_leader /\ leader_alive
  /\ fwd_net' = [fwd_net EXCEPT ![s] = Append(@, Head(fwd_queue[s]))]
  /\ fwd_queue' = [fwd_queue EXCEPT ![s] = Tail(@)]
  /\ UNCHANGED <<procVars, dispatchVars, accVars, fwd_refused, raftVars, budget>>

(* No leader to send to, or no connection to it.                           *)
ForwardFail(s) ==
  /\ fwd_queue[s] # <<>>
  /\ IF is_leader \/ ~leader_alive THEN UNCHANGED budget ELSE Spend("lost")
  /\ OnError(ErrorOf(Head(fwd_queue[s]), "failed"))
  /\ fwd_queue' = [fwd_queue EXCEPT ![s] = Tail(@)]
  /\ UNCHANGED <<dispatchVars, accVars, fwd_net, fwd_refused, raftVars>>

(* runReceive reports only answers that say "not accepted".                *)
ForwardRefused(s) ==
  /\ fwd_refused[s] # <<>>
  /\ OnError(ErrorOf(Head(fwd_refused[s]), "failed"))
  /\ fwd_refused' = [fwd_refused EXCEPT ![s] = Tail(@)]
  /\ UNCHANGED <<dispatchVars, accVars, fwd_queue, fwd_net, raftVars, budget>>

(***************************************************************************)
(* External: the leader on another server, the connection to it, raft.     *)
(***************************************************************************)
LeaderAppends(s) ==
  /\ fwd_net[s] # <<>>
  /\ ~is_leader
  /\ raft_log' = Append(raft_log, Head(fwd_net[s]))
  /\ fwd_net' = [fwd_net EXCEPT ![s] = Tail(@)]
  /\ UNCHANGED <<procVars, dispatchVars, accVars, fwd_queue, fwd_refused,
                 is_leader, budget>>

LeaderRefuses(s) ==
  /\ fwd_net[s] # <<>>
  /\ Spend("refuse")
  /\ fwd_refused' = [fwd_refused EXCEPT ![s] = Append(@, Head(fwd_net[s]))]
  /\ fwd_net' = [fwd_net EXCEPT ![s] = Tail(@)]
  /\ UNCHANGED <<procVars, dispatchVars, accVars, fwd_queue, raftVars>>

(* The connection breaks: nobody hears of the requests that were on it.    *)
ConnectionLost(s) ==
  /\ fwd_net[s] # <<>>
  /\ Spend("lost")
  /\ fwd_net' = [fwd_net EXCEPT ![s] = <<>>]
  /\ UNCHANGED <<procVars, dispatchVars, accVars, fwd_queue, fwd_refused, raftVars>>

(* A write of a session of another server, appended by another leader.     *)
RemoteAppend(s) ==
  /\ s \in Sessions \ Home
  /\ ~is_leader
  /\ next_xid[s] <= MaxXid
  /\ Spend("remote")
  /\ raft_log' = Append(raft_log, [session |-> s, xid |-> next_xid[s], kind |-> "write"])
  /\ next_xid' = [next_xid EXCEPT ![s] = @ + 1]
  /\ UNCHANGED <<procVars, dispatch_queue, routing, sent, cleaning, handshaking,
                 accVars, fwdVars, is_leader>>

(* Mutant of RaftCommit: the commit thread does not wait for room in       *)
(* committed_queue.                                                        *)
MutantRaftCommitNoWait ==
  /\ raft_log # <<>>
  /\ committed_queue' = Append(committed_queue, Head(raft_log))
  /\ log' = Append(log, Head(raft_log))
  /\ raft_log' = Tail(raft_log)
  /\ UNCHANGED <<requests_queue, pending_requests, errors, loopVars, envVars,
                 responses, applied, dispatchVars, accVars, fwdVars, is_leader,
                 budget>>

(* NuRaftStateMachine::commit for a request of a session: the commit       *)
(* thread hands it to the processor.                                       *)
RaftCommit ==
  /\ raft_log # <<>>
  /\ Commit(Head(raft_log))
  /\ raft_log' = Tail(raft_log)
  /\ UNCHANGED <<dispatchVars, accVars, fwdVars, is_leader, budget>>

(* The leadership changes.  Entries that were not committed survive in the *)
(* new leader's log up to some point.                                      *)
LeaderChange ==
  /\ Spend("leader")
  /\ \E alive \in BOOLEAN : SetLeaderAlive(alive)
  /\ is_leader' \in BOOLEAN
  /\ <<is_leader', leader_alive'>> # <<is_leader, leader_alive>>
  /\ \E n \in 0 .. Len(raft_log) : raft_log' = SubSeq(raft_log, 1, n)
  /\ UNCHANGED <<dispatchVars, accVars, fwdVars>>

(***************************************************************************)
(* Connections of clients and the response thread.                         *)
(***************************************************************************)
(* ConnectionHandler::destroyMe calls finishSession.                       *)
Disconnect(s) ==
  /\ s \in Home \cap local
  /\ Spend("disconnect")
  /\ SetLocal(local \ {s})
  /\ UNCHANGED <<dispatchVars, accVars, fwdVars, raftVars>>

(* handleHandshake with the id of a former session: refused when there is  *)
(* no leader or the session has expired.  It is registered afterwards.     *)
Handshake(s) ==
  /\ s \in Home
  /\ leader_alive
  /\ ~Expired(s)
  /\ Spend("reconnect")
  /\ handshaking' = handshaking \cup {s}
  /\ UNCHANGED <<procVars, next_xid, dispatch_queue, routing, sent, cleaning,
                 accVars, fwdVars, raftVars>>

Reconnect(s) ==
  /\ s \in handshaking
  /\ handshaking' = handshaking \ {s}
  /\ SetLocal(local \cup {s})
  /\ UNCHANGED <<next_xid, dispatch_queue, routing, sent, cleaning, accVars,
                 fwdVars, raftVars, budget>>

(* responseThread and setResponse: the response to Close is the last one   *)
(* and removes the callback.                                               *)
SetResponse(s) ==
  /\ sent[s] < Len(responses[s])
  /\ sent' = [sent EXCEPT ![s] = @ + 1]
  /\ IF s \in local /\ responses[s][sent[s] + 1].kind = "close"
       THEN SetLocal(local \ {s})
       ELSE UNCHANGED procVars
  /\ UNCHANGED <<next_xid, dispatch_queue, routing, cleaning, handshaking, accVars,
                 fwdVars, raftVars, budget>>

-----------------------------------------------------------------------------
Processor == Run /\ UNCHANGED pipeVars

Dispatcher ==
  \E s \in Sessions :
    \/ FinishSession(s) \/ TakeRequest(s) \/ LookAtLeaderAlive(s)
    \/ RouteByLeader(s) \/ LookAgain(s) \/ SetResponse(s)

Accumulator ==
  \/ Accumulate \/ PutRequestBatch \/ BatchCommitted \/ BatchCancelled
  \/ ReportFailure

Forwarder == \E s \in Sessions : ForwardSend(s) \/ ForwardRefused(s)

Clients ==
  \E s \in Sessions :
    \/ \E kind \in ClientKinds : PutRequest(s, kind)
    \/ PutForwardingRequest(s) \/ CleanSession(s)
    \/ Disconnect(s) \/ Handshake(s) \/ Reconnect(s)

Raft == RaftCommit \/ \E s \in Sessions : LeaderAppends(s)

Failures ==
  \/ LeaderChange \/ BatchTimeout
  \/ \E s \in Sessions :
       ForwardFail(s) \/ LeaderRefuses(s) \/ ConnectionLost(s) \/ RemoteAppend(s)

Next ==
  \/ Processor \/ Dispatcher \/ Accumulator \/ Forwarder
  \/ Clients \/ Raft \/ Failures

Spec == Init /\ [][Next]_vars

(* The threads of the server keep running and raft keeps committing; what  *)
(* clients and failures do is up to them.                                  *)
FairSpec ==
  /\ Spec
  /\ WF_vars(Processor)
  /\ WF_vars(Accumulator)
  /\ \A s \in Sessions :
       /\ WF_vars(TakeRequest(s) \/ LookAtLeaderAlive(s) \/ RouteByLeader(s)
                  \/ LookAgain(s))
       /\ WF_vars(SetResponse(s))
       /\ WF_vars(FinishSession(s))
       /\ WF_vars(ForwardSend(s) \/ ForwardFail(s))
       /\ WF_vars(ForwardRefused(s))
       /\ WF_vars(LeaderAppends(s))
  /\ WF_vars(RaftCommit)

-----------------------------------------------------------------------------
(* Every variable of the pipeline holds what the code's types allow; in    *)
(* particular count never falls below zero, so the committed loop stops.   *)
TypeOK ==
  /\ ProcTypeOK
  /\ next_xid       \in [Sessions -> 1 .. MaxXid + 1]
  /\ dispatch_queue \in [Sessions -> Seq(Request)]
  /\ routing \in [Sessions -> {Idle} \cup
                    [at : {"alive?", "leader?", "dead?"}, req : Request]]
  /\ acc_queue      \in Seq(Request)
  /\ acc_batch      \in Seq(Request)
  /\ acc_state      \in {"filling", "waiting", "timeout", "failed"}
  /\ fwd_queue      \in [Sessions -> Seq(Request)]
  /\ fwd_net        \in [Sessions -> Seq(Request)]
  /\ fwd_refused    \in [Sessions -> Seq(Request)]
  /\ is_leader      \in BOOLEAN
  /\ raft_log       \in Seq(Request)
  /\ sent           \in [Sessions -> Nat]
  /\ cleaning       \in SUBSET Sessions
  /\ handshaking    \in SUBSET Sessions

(* README, guarantee 1: responses are returned in the order of the         *)
(* requests of a session, one for each.  Auth has no place in the order.   *)
ResponsesInOrder ==
  \A s \in Sessions : \A j \in 1 .. Len(responses[s]) : \A i \in 1 .. (j - 1) :
    \/ "auth" \in {responses[s][i].kind, responses[s][j].kind}
    \/ responses[s][i].xid < responses[s][j].xid

(* A write that has been applied is nowhere in the processor's queues any  *)
(* more, whatever fails or reconnects: the dispatcher pushes it to the     *)
(* processor before it can reach raft, and the size of committed_queue is  *)
(* read before requests_queue is drained.                                  *)
NoAppliedStillQueued ==
  \A s \in Sessions : \A q \in {requests_queue[s], pending_requests[s]} :
    \A i \in 1 .. Len(q) : \A j \in 1 .. Len(applied) :
      q[i].kind = "write" => q[i] # applied[j]

(* A request answered with success is never answered with an error         *)
(* afterwards: a timeout that raft reports after the commit is not shown   *)
(* to the client.  Auth and Close are left out: Auth requests share one    *)
(* xid, and a Close of the session cleaner and one of the client match     *)
(* each other, so that one of them can be answered twice.                  *)
NoErrorAfterSuccess ==
  \A s \in Sessions : \A j \in 1 .. Len(responses[s]) : \A i \in 1 .. (j - 1) :
    (/\ responses[s][i].xid = responses[s][j].xid
     /\ responses[s][i].kind \notin {"auth", "close"}
     /\ responses[s][i].error = "ok") => responses[s][j].error = "ok"

(* A read is answered only when no earlier request of its session is still *)
(* waiting in the processor: a client reads its own writes.                *)
ReadsWaitForWrites ==
  [][\A s \in Sessions : Len(responses'[s]) > Len(responses[s]) =>
       LET r == responses'[s][Len(responses'[s])]
           q == pending_requests'[s] \o requests_queue'[s]
       IN  r.kind = "read" =>
             \A i \in 1 .. Len(q) : q[i].kind = "auth" \/ q[i].xid > r.xid]_vars

(* Every request a client has sent is eventually answered.                 *)
AllAnswered ==
  \A s \in Home : \A x \in 1 .. MaxXid :
    (\E i \in 1 .. Len(dispatch_queue[s]) : dispatch_queue[s][i].xid = x)
      ~> (\E i \in 1 .. sent[s] : responses[s][i].xid = x)

(* Everything raft has committed is eventually applied.                    *)
CommittedApplied ==
  \A n \in 1 .. MaxXid : (Len(log) >= n) ~> (Len(applied) >= n)

(* The server drives its request processor only through push, commit,      *)
(* onError and the shared session and leader state: the pipeline           *)
(* implements the processor in the general environment, so what is proved  *)
(* of ProcSpec holds here.                                                 *)
ImplementsProcessor == ProcSpec
=============================================================================
