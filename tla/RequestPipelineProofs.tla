----------------------- MODULE RequestPipelineProofs ------------------------
(***************************************************************************)
(* Proofs about the request processor in its general environment, and      *)
(* about the server of RequestPipeline, for any sets of sessions, batch    *)
(* sizes, capacities and budgets of failures.                              *)
(*                                                                         *)
(* First, the processor.  Its inductive invariant is ProcInv.  The types   *)
(* are not inductive alone: that the head of committed_queue is a request  *)
(* needs SizeStillThere (the loop never runs past the queue), and that the *)
(* queue continues the applied requests needs the same.                    *)
(*                                                                         *)
(* Second, the pipeline implements the processor in that environment.      *)
(* The steps of the other components are inputs of the processor only if   *)
(* what they hand over is a request, so the proof needs the type invariant *)
(* of the pipeline, strengthened by: a batch that is being waited for or   *)
(* reported is not empty (FullInv).                                        *)
(*                                                                         *)
(* Third, what a client may rely on.  The xids of a session ascend         *)
(* through pending_requests, requests_queue and dispatch_queue             *)
(* (QueuesInOrder); what is on its way to raft has left dispatch_queue and *)
(* is no read (WayToRaft); what the committed loop counts has been moved   *)
(* when the loop starts (SizesCover); so a request that is applied or      *)
(* answered with success waits in no queue (AppliedSettled,                *)
(* AnsweredSettled) and the errors, which are matched against the queues,  *)
(* cannot find it.                                                         *)
(*                                                                         *)
(* Fourth, when nothing fails, the responses of a session come in the      *)
(* order of its requests: its writes stand in one line from the router to  *)
(* raft and back, so the one that comes back is the first that waits.      *)
(***************************************************************************)
EXTENDS RequestPipeline, SequenceTheorems, TLAPS

ProcInv == ProcTypeOK /\ SizeStillThere /\ CommittedInOrder

-----------------------------------------------------------------------------
(* Removing the element at a position leaves a sequence over the same set  *)
(* (vector::erase on pending_requests).                                    *)
LEMMA WithoutType ==
  ASSUME NEW S, NEW q \in Seq(S), NEW i \in 1 .. Len(q)
  PROVE  Without(q, i) \in Seq(S)
<1>1. SubSeq(q, 1, i - 1) \in Seq(S)
  <2>1. \A j \in 1 .. (i - 1) : q[j] \in S
    BY ElementOfSeq, LenProperties
  <2>. QED BY <2>1, SubSeqProperties, LenProperties
<1>2. SubSeq(q, i + 1, Len(q)) \in Seq(S)
  <2>1. \A j \in (i + 1) .. Len(q) : q[j] \in S
    BY ElementOfSeq, LenProperties
  <2>. QED BY <2>1, SubSeqProperties, LenProperties
<1>. QED BY <1>1, <1>2, ConcatProperties DEF Without

(* Inserting an element at a position leaves a sequence over the same set  *)
(* (emplace into errors).                                                  *)
LEMMA InsertedAtType ==
  ASSUME NEW S, NEW q \in Seq(S), NEW i \in 1 .. Len(q) + 1, NEW e \in S
  PROVE  InsertedAt(q, i, e) \in Seq(S)
<1>1. SubSeq(q, 1, i - 1) \in Seq(S)
  <2>1. \A j \in 1 .. (i - 1) : q[j] \in S
    BY ElementOfSeq, LenProperties
  <2>. QED BY <2>1, SubSeqProperties, LenProperties
<1>2. SubSeq(q, i, Len(q)) \in Seq(S)
  <2>1. \A j \in i .. Len(q) : q[j] \in S
    BY ElementOfSeq, LenProperties
  <2>. QED BY <2>1, SubSeqProperties, LenProperties
<1>3. <<e>> \in Seq(S)
  OBVIOUS
<1>4. SubSeq(q, 1, i - 1) \o <<e>> \in Seq(S)
  BY <1>1, <1>3, ConcatProperties
<1>. QED BY <1>2, <1>4, ConcatProperties DEF InsertedAt

(* What stays pending after a committed request is a sequence of requests. *)
LEMMA AfterMatchType ==
  ASSUME NEW q \in Seq(Request), NEW r
  PROVE  AfterMatch(q, r) \in Seq(Request)
<1> DEFINE Match(p) == p.xid = r.xid \/ BothClose(p, r)
           first    == FirstAt(q, Match)
<1>1. CASE first = {}
  BY <1>1, EmptySeq DEF AfterMatch
<1>2. CASE first # {}
  <2>1. PICK k : k = (CHOOSE i \in first : TRUE)
    OBVIOUS
  <2>2. k \in first
    BY <1>2, <2>1
  <2>3. k \in 1 .. Len(q)
    BY <2>2 DEF FirstAt
  <2>4. \A j \in (k + 1) .. Len(q) : q[j] \in Request
    BY <2>3, ElementOfSeq, LenProperties
  <2>5. SubSeq(q, k + 1, Len(q)) \in Seq(Request)
    BY <2>3, <2>4, SubSeqProperties, LenProperties
  <2>. QED BY <1>2, <2>1, <2>5 DEF AfterMatch
<1>. QED BY <1>1, <1>2

(* Popping the head of committed_queue and appending it to what has been   *)
(* applied leaves the concatenation as it was.                             *)
LEMMA MoveHead ==
  ASSUME NEW S, NEW a \in Seq(S), NEW c \in Seq(S), c # <<>>
  PROVE  Append(a, Head(c)) \o Tail(c) = a \o c
<1>1. /\ Head(c) \in S /\ Tail(c) \in Seq(S) /\ Len(Tail(c)) = Len(c) - 1
      /\ \A i \in 1 .. Len(Tail(c)) : Tail(c)[i] = c[i + 1]
  BY HeadTailProperties
<1>. QED BY <1>1

(* Appending to committed_queue appends to the concatenation.              *)
LEMMA AppendLast ==
  ASSUME NEW S, NEW a \in Seq(S), NEW c \in Seq(S), NEW r \in S
  PROVE  a \o Append(c, r) = Append(a \o c, r)
OBVIOUS

-----------------------------------------------------------------------------
(* Responses are well typed.                                               *)
LEMMA ApplyResponseType ==
  ASSUME NEW r \in Request
  PROVE  ApplyResponse(r) \in Response
BY DEF Request, Response, ApplyResponse

LEMMA ErrorResponseType ==
  ASSUME NEW e \in ErrorRequest, NEW xid \in Xids, NEW kind \in Kinds
  PROVE  ErrorResponse(e, xid, kind) \in Response
BY DEF Response, ErrorResponse

LEMMA RespondType ==
  ASSUME responses \in [Sessions -> Seq(Response)],
         NEW s \in Sessions, NEW r \in Response
  PROVE  [responses EXCEPT ![s] = Append(@, r)] \in [Sessions -> Seq(Response)]
BY AppendProperties

LEMMA ApplyRequestType ==
  ASSUME responses \in [Sessions -> Seq(Response)], NEW r \in Request,
         ApplyRequest(r)
  PROVE  responses' \in [Sessions -> Seq(Response)]
<1>1. CASE Ignored(r)
  BY <1>1 DEF ApplyRequest
<1>2. CASE ~Ignored(r)
  <2>1. r.session \in Sessions
    BY DEF Request
  <2>2. responses' = [responses EXCEPT ![r.session] = Append(@, ApplyResponse(r))]
    BY <1>2 DEF ApplyRequest
  <2>. QED BY <2>1, <2>2, ApplyResponseType, RespondType
<1>. QED BY <1>1, <1>2

-----------------------------------------------------------------------------
(* The invariant holds initially.                                          *)
LEMMA InitInv == ProcInit => ProcInv
<1> SUFFICES ASSUME ProcInit PROVE ProcInv
  OBVIOUS
<1>1. ProcTypeOK
  BY EmptySeq DEF ProcInit, ProcTypeOK
<1>2. SizeStillThere
  BY DEF ProcInit, SizeStillThere
<1>3. CommittedInOrder
  BY DEF ProcInit, CommittedInOrder
<1>. QED BY <1>1, <1>2, <1>3 DEF ProcInv

(* Every step of the processor's thread keeps it.                          *)
LEMMA RunInv == ProcInv /\ Run => ProcInv'
<1> SUFFICES ASSUME ProcInv, Run PROVE ProcInv'
  OBVIOUS
<1> USE DEF ProcInv, ProcTypeOK, SizeStillThere, CommittedInOrder, loopVars, envVars
<1>1. CASE WakeUp \/ WaitTimeout
  BY <1>1 DEF WakeUp, WaitTimeout, StartIteration
<1>2. CASE ProcessErrorRequest
  <2>1. PICK e : e = Head(errors)
    OBVIOUS
  <2>2. /\ errors # <<>> /\ phase = "errors"
        /\ \/ ErrorOfRemoteSession(e) \/ ErrorOfAuth(e)
           \/ ErrorMatched(e) \/ ErrorNotFound(e)
        /\ UNCHANGED <<requests_queue, committed_queue, to_move, count, envVars,
                       log, applied>>
    BY <1>2, <2>1 DEF ProcessErrorRequest
  <2>3. /\ e \in ErrorRequest /\ Tail(errors) \in Seq(ErrorRequest)
        /\ e.session \in Sessions /\ e.xid \in Xids /\ e.kind \in Kinds
    <3>1. e \in ErrorRequest /\ Tail(errors) \in Seq(ErrorRequest)
      BY <2>1, <2>2, HeadTailProperties
    <3>. QED BY <3>1 DEF ErrorRequest
  <2>4. phase' \in {"errors", "snapshot"}
    BY <2>2 DEF ErrorOfRemoteSession, ErrorOfAuth, ErrorMatched, ErrorNotFound
  <2>5. CASE ErrorOfRemoteSession(e)
    BY <2>2, <2>3, <2>5, EmptySeq DEF ErrorOfRemoteSession
  <2>6. CASE ErrorOfAuth(e)
    <3>1. ErrorResponse(e, AuthXid, "auth") \in Response
      BY <2>3, ErrorResponseType DEF Xids, Kinds
    <3>. QED BY <2>2, <2>3, <2>6, <3>1, RespondType DEF ErrorOfAuth
  <2>7. CASE ErrorMatched(e)
    <3>1. PICK i \in ErrorMatch(e) :
            /\ responses' = [responses EXCEPT ![e.session] =
                 Append(@, ErrorResponse(e, pending_requests[e.session][i].xid,
                                            pending_requests[e.session][i].kind))]
            /\ pending_requests' = [pending_requests EXCEPT
                 ![e.session] = Without(pending_requests[e.session], i)]
      BY <2>7 DEF ErrorMatched
    <3>2. i \in 1 .. Len(pending_requests[e.session])
      BY <3>1 DEF ErrorMatch, FirstAt
    <3>3. pending_requests[e.session][i] \in Request
      BY <2>3, <3>2, ElementOfSeq
    <3>4. ErrorResponse(e, pending_requests[e.session][i].xid,
                           pending_requests[e.session][i].kind) \in Response
      BY <2>3, <3>3, ErrorResponseType DEF Request
    <3>5. responses' \in [Sessions -> Seq(Response)]
      BY <2>3, <3>1, <3>4, RespondType
    <3>6. Without(pending_requests[e.session], i) \in Seq(Request)
      BY <2>3, <3>2, WithoutType
    <3>7. pending_requests' \in [Sessions -> Seq(Request)]
      BY <2>3, <3>1, <3>6
    <3>. QED BY <2>2, <2>3, <2>7, <3>5, <3>7 DEF ErrorMatched
  <2>8. CASE ErrorNotFound(e)
    BY <2>2, <2>8 DEF ErrorNotFound
  <2>. QED BY <2>2, <2>5, <2>6, <2>7, <2>8
<1>3. CASE ErrorsDone
  BY <1>3 DEF ErrorsDone
<1>4. CASE TakeSizes
  BY <1>4, LenProperties DEF TakeSizes
<1>5. ASSUME NEW s \in Sessions, MoveRequest(s) PROVE ProcInv'
  <2>1. /\ Head(requests_queue[s]) \in Request
        /\ Tail(requests_queue[s]) \in Seq(Request)
    BY <1>5, HeadTailProperties DEF MoveRequest
  <2>2. Append(pending_requests[s], Head(requests_queue[s])) \in Seq(Request)
    BY <2>1, AppendProperties
  <2>3. requests_queue' \in [Sessions -> Seq(Request)]
    BY <1>5, <2>1 DEF MoveRequest
  <2>4. pending_requests' \in [Sessions -> Seq(Request)]
    BY <1>5, <2>2 DEF MoveRequest
  <2>5. to_move' \in [Sessions -> Nat]
    BY <1>5 DEF MoveRequest
  <2>. QED BY <1>5, <2>3, <2>4, <2>5 DEF MoveRequest
<1>6. ASSUME NEW s \in Sessions, ReadRequest(s) PROVE ProcInv'
  <2>1. /\ Head(pending_requests[s]) \in Request
        /\ Tail(pending_requests[s]) \in Seq(Request)
    BY <1>6, HeadTailProperties DEF ReadRequest, HeadIsRead
  <2>2. responses' \in [Sessions -> Seq(Response)]
    BY <1>6, <2>1, ApplyRequestType DEF ReadRequest
  <2>3. pending_requests' \in [Sessions -> Seq(Request)]
    BY <1>6, <2>1 DEF ReadRequest
  <2>. QED BY <1>6, <2>2, <2>3 DEF ReadRequest
<1>7. CASE RunnersDone
  BY <1>7 DEF RunnersDone
<1>8. CASE ProcessCommittedRequest
  <2>1. PICK r : r = Head(committed_queue)
    OBVIOUS
  <2>2. /\ phase = "committed" /\ count > 0
        /\ CommittedRemote(r) \/ CommittedLocal(r) \/ CommittedWaits(r)
        /\ UNCHANGED <<requests_queue, errors, to_move, envVars, log>>
    BY <1>8, <2>1 DEF ProcessCommittedRequest
  <2>3. committed_queue # <<>>
    BY <2>2, EmptySeq
  <2>4. /\ r \in Request /\ r.session \in Sessions
        /\ Tail(committed_queue) \in Seq(Request)
        /\ Len(Tail(committed_queue)) = Len(committed_queue) - 1
    <3>1. r \in Request
      BY <2>1, <2>3, HeadTailProperties
    <3>2. r.session \in Sessions
      BY <3>1 DEF Request
    <3>. QED BY <2>3, <3>1, <3>2, HeadTailProperties
  <2>5. ASSUME ApplyCommitted(r)
        PROVE  /\ responses' \in [Sessions -> Seq(Response)]
               /\ applied' \in Seq(Request)
               /\ committed_queue' \in Seq(Request)
               /\ count' \in Nat
               /\ count' <= Len(committed_queue')
               /\ phase' = "committed"
               /\ applied' \o committed_queue' = log
    <3>1. responses' \in [Sessions -> Seq(Response)]
      BY <2>4, <2>5, ApplyRequestType DEF ApplyCommitted
    <3>2. applied' \in Seq(Request)
      BY <2>4, <2>5, AppendProperties DEF ApplyCommitted
    <3>3. applied' \o committed_queue' = log
      BY <2>1, <2>3, <2>5, MoveHead DEF ApplyCommitted
    <3>4. count' \in Nat /\ count' <= Len(committed_queue')
      BY <2>2, <2>4, <2>5, LenProperties DEF ApplyCommitted
    <3>. QED BY <2>2, <2>4, <2>5, <3>1, <3>2, <3>3, <3>4 DEF ApplyCommitted
  <2>6. CASE CommittedRemote(r)
    <3>1. pending_requests' \in [Sessions -> Seq(Request)]
      BY <2>4, <2>6, EmptySeq DEF CommittedRemote
    <3>. QED BY <2>2, <2>5, <2>6, <3>1 DEF CommittedRemote
  <2>7. CASE CommittedLocal(r)
    <3>1. AfterMatch(pending_requests[r.session], r) \in Seq(Request)
      BY <2>4, AfterMatchType
    <3>2. pending_requests' \in [Sessions -> Seq(Request)]
      BY <2>4, <2>7, <3>1 DEF CommittedLocal
    <3>. QED BY <2>2, <2>5, <2>7, <3>2 DEF CommittedLocal
  <2>8. CASE CommittedWaits(r)
    BY <2>2, <2>8 DEF CommittedWaits
  <2>. QED BY <2>2, <2>6, <2>7, <2>8
<1>9. CASE CommittedDone
  BY <1>9 DEF CommittedDone
<1>. QED BY <1>1, <1>2, <1>3, <1>4, <1>5, <1>6, <1>7, <1>8, <1>9 DEF Run

(* Every input of the processor keeps it.                                  *)
LEMMA InputInv ==
  ProcInv /\ ( \/ \E r \in Request : Push(r) \/ Commit(r)
               \/ \E e \in ErrorRequest : OnError(e)
               \/ Environment ) => ProcInv'
<1> SUFFICES ASSUME ProcInv,
                    \/ \E r \in Request : Push(r) \/ Commit(r)
                    \/ \E e \in ErrorRequest : OnError(e)
                    \/ Environment
             PROVE  ProcInv'
  OBVIOUS
<1> USE DEF ProcInv, ProcTypeOK, SizeStillThere, CommittedInOrder, loopVars, envVars
<1>1. ASSUME NEW r \in Request, Push(r) PROVE ProcInv'
  <2>1. r.session \in Sessions
    BY DEF Request
  <2>2. requests_queue' \in [Sessions -> Seq(Request)]
    BY <1>1, <2>1, AppendProperties DEF Push
  <2>. QED BY <1>1, <2>2 DEF Push
<1>2. ASSUME NEW r \in Request, Commit(r) PROVE ProcInv'
  <2>1. /\ committed_queue' \in Seq(Request)
        /\ Len(committed_queue') = Len(committed_queue) + 1
        /\ log' \in Seq(Request)
    BY <1>2, AppendProperties DEF Commit
  <2>2. applied \o committed_queue' = log'
    BY <1>2, AppendLast DEF Commit
  <2>3. Len(committed_queue) \in Nat
    BY LenProperties
  <2>. QED BY <1>2, <2>1, <2>2, <2>3 DEF Commit
<1>3. ASSUME NEW e \in ErrorRequest, OnError(e) PROVE ProcInv'
  <2>1. errors' \in Seq(ErrorRequest)
    <3>1. CASE InErrors(e.session, e.xid)
      BY <1>3, <3>1 DEF OnError
    <3>2. CASE ~InErrors(e.session, e.xid)
      BY <1>3, <3>2, InsertedAtType DEF OnError
    <3>. QED BY <3>1, <3>2
  <2>. QED BY <1>3, <2>1 DEF OnError
<1>4. CASE Environment
  BY <1>4 DEF Environment
<1>. QED BY <1>1, <1>2, <1>3, <1>4

(* The inductive invariant of the processor.                               *)
THEOREM ProcessorInvariant == ProcSpec => []ProcInv
<1>1. ProcInv /\ UNCHANGED procVars => ProcInv'
  BY DEF ProcInv, ProcTypeOK, SizeStillThere, CommittedInOrder, procVars,
         loopVars, envVars
<1>2. ProcInv /\ [ProcNext]_procVars => ProcInv'
  BY <1>1, RunInv, InputInv DEF ProcNext
<1>. QED BY <1>2, InitInv, PTL DEF ProcSpec

(* README, guarantee 2, for any number of sessions, any capacities and any *)
(* environment: the processor applies exactly the committed requests, in   *)
(* the order raft committed them, without gap or repetition.               *)
THEOREM CommittedInOrderHolds == ProcSpec => []CommittedInOrder
BY ProcessorInvariant, PTL DEF ProcInv

(* Type correctness of the processor, whatever is pushed, committed or     *)
(* reported to it.                                                         *)
THEOREM ProcTypeCorrect == ProcSpec => []ProcTypeOK
BY ProcessorInvariant, PTL DEF ProcInv

-----------------------------------------------------------------------------
(* The pipeline                                                            *)

PipeInv == TypeOK /\ (acc_state # "filling" => acc_batch # <<>>)

-----------------------------------------------------------------------------
(* Appending to and popping from one session's queue.                      *)
LEMMA QueueAppend ==
  ASSUME NEW q \in [Sessions -> Seq(Request)], NEW s \in Sessions, NEW r \in Request
  PROVE  [q EXCEPT ![s] = Append(@, r)] \in [Sessions -> Seq(Request)]
BY AppendProperties

(* Popping from one session's queue.                                       *)
LEMMA QueuePop ==
  ASSUME NEW q \in [Sessions -> Seq(Request)], NEW s \in Sessions, q[s] # <<>>
  PROVE  /\ Head(q[s]) \in Request
         /\ [q EXCEPT ![s] = Tail(@)] \in [Sessions -> Seq(Request)]
BY HeadTailProperties

(* A prefix of a sequence is a sequence over the same set.                 *)
LEMMA PrefixType ==
  ASSUME NEW S, NEW q \in Seq(S), NEW n \in 0 .. Len(q)
  PROVE  SubSeq(q, 1, n) \in Seq(S)
<1>1. \A j \in 1 .. n : q[j] \in S
  BY ElementOfSeq, LenProperties
<1>. QED BY <1>1, SubSeqProperties, LenProperties

(* The error reported for a request.                                       *)
LEMMA ErrorOfType ==
  ASSUME NEW r \in Request, NEW code \in {"timeout", "failed"}
  PROVE  ErrorOf(r, code) \in ErrorRequest
BY DEF Request, ErrorRequest, ErrorOf

-----------------------------------------------------------------------------
(* How the steps that touch the processor touch it: as one of its inputs.  *)
LEMMA PushIsInput == ASSUME NEW r \in Request, Push(r) PROVE ProcNext
BY DEF ProcNext

(* Handing a request over by commit.                                       *)
LEMMA CommitIsInput == ASSUME NEW r \in Request, Commit(r) PROVE ProcNext
BY DEF ProcNext

(* Reporting an error.                                                     *)
LEMMA OnErrorIsInput == ASSUME NEW e \in ErrorRequest, OnError(e) PROVE ProcNext
BY DEF ProcNext

(* Registering and removing sessions.                                      *)
LEMMA SetLocalIsInput ==
  ASSUME ProcTypeOK, NEW S \in SUBSET Sessions, SetLocal(S)
  PROVE  ProcNext
<1>1. Environment
  BY DEF ProcTypeOK, SetLocal, Environment
<1>. QED BY <1>1 DEF ProcNext

(* The leader comes and goes.                                              *)
LEMMA SetLeaderAliveIsInput ==
  ASSUME ProcTypeOK, NEW b \in BOOLEAN, SetLeaderAlive(b)
  PROVE  ProcNext
<1>1. Environment
  BY DEF ProcTypeOK, SetLeaderAlive, Environment
<1>. QED BY <1>1 DEF ProcNext

-----------------------------------------------------------------------------
(* Every step of the server is a step of the processor or leaves it alone. *)
LEMMA StepSimulation == PipeInv /\ Next => [ProcNext]_procVars
<1> SUFFICES ASSUME PipeInv, Next PROVE [ProcNext]_procVars
  OBVIOUS
<1> USE DEF PipeInv, TypeOK
<1>1. CASE Processor
  BY <1>1 DEF Processor, ProcNext
<1>2. ASSUME NEW s \in Sessions,
             \/ FinishSession(s) \/ TakeRequest(s) \/ LookAtLeaderAlive(s)
             \/ RouteByLeader(s) \/ LookAgain(s) \/ SetResponse(s)
      PROVE  [ProcNext]_procVars
  <2>0. local \ {s} \in SUBSET Sessions
    BY DEF ProcTypeOK
  <2>1. CASE FinishSession(s)
    BY <2>0, <2>1, SetLocalIsInput DEF FinishSession
  <2>2. CASE TakeRequest(s)
    BY <2>2, QueuePop, PushIsInput DEF TakeRequest
  <2>3. CASE LookAtLeaderAlive(s)
    BY <2>3 DEF LookAtLeaderAlive
  <2>4. CASE RouteByLeader(s)
    BY <2>4 DEF RouteByLeader, Enqueue
  <2>5. CASE LookAgain(s)
    BY <2>5 DEF LookAgain, Enqueue
  <2>6. CASE SetResponse(s)
    BY <2>0, <2>6, SetLocalIsInput DEF SetResponse
  <2>. QED BY <1>2, <2>1, <2>2, <2>3, <2>4, <2>5, <2>6
<1>3. CASE Accumulator
  <2>1. CASE ReportFailure
    <3>1. Head(acc_batch) \in Request
      BY <2>1, HeadTailProperties DEF ReportFailure
    <3>2. acc_state \in {"timeout", "failed"}
      BY <2>1 DEF ReportFailure
    <3>. QED BY <2>1, <3>1, <3>2, ErrorOfType, OnErrorIsInput DEF ReportFailure
  <2>2. CASE Accumulate \/ PutRequestBatch \/ BatchCommitted \/ BatchCancelled
    BY <2>2 DEF Accumulate, PutRequestBatch, BatchCommitted, BatchCancelled
  <2>. QED BY <1>3, <2>1, <2>2 DEF Accumulator
<1>4. ASSUME NEW s \in Sessions, ForwardSend(s) \/ ForwardRefused(s)
      PROVE  [ProcNext]_procVars
  <2>1. CASE ForwardSend(s)
    BY <2>1 DEF ForwardSend
  <2>2. CASE ForwardRefused(s)
    BY <2>2, QueuePop, ErrorOfType, OnErrorIsInput DEF ForwardRefused
  <2>. QED BY <1>4, <2>1, <2>2
<1>5. ASSUME NEW s \in Sessions,
             \/ \E kind \in ClientKinds : PutRequest(s, kind)
             \/ PutForwardingRequest(s) \/ CleanSession(s)
             \/ Disconnect(s) \/ Handshake(s) \/ Reconnect(s)
      PROVE  [ProcNext]_procVars
  <2>0. local \ {s} \in SUBSET Sessions /\ local \cup {s} \in SUBSET Sessions
    BY DEF ProcTypeOK
  <2>1. CASE (\E kind \in ClientKinds : PutRequest(s, kind))
    BY <2>1 DEF PutRequest
  <2>2. CASE PutForwardingRequest(s) \/ CleanSession(s)
    BY <2>2 DEF PutForwardingRequest, CleanSession
  <2>3. CASE Disconnect(s)
    BY <2>0, <2>3, SetLocalIsInput DEF Disconnect
  <2>4. CASE Reconnect(s)
    BY <2>0, <2>4, SetLocalIsInput DEF Reconnect
  <2>5. CASE Handshake(s)
    BY <2>5 DEF Handshake
  <2>. QED BY <1>5, <2>1, <2>2, <2>3, <2>4, <2>5
<1>6. CASE RaftCommit
  BY <1>6, HeadTailProperties, CommitIsInput DEF RaftCommit
<1>7. ASSUME NEW s \in Sessions, LeaderAppends(s) PROVE [ProcNext]_procVars
  BY <1>7 DEF LeaderAppends
<1>8. CASE LeaderChange
  BY <1>8, SetLeaderAliveIsInput DEF LeaderChange
<1>9. CASE BatchTimeout
  BY <1>9 DEF BatchTimeout
<1>10. ASSUME NEW s \in Sessions,
              ForwardFail(s) \/ LeaderRefuses(s) \/ ConnectionLost(s) \/ RemoteAppend(s)
       PROVE  [ProcNext]_procVars
  <2>1. CASE ForwardFail(s)
    BY <2>1, QueuePop, ErrorOfType, OnErrorIsInput DEF ForwardFail
  <2>2. CASE LeaderRefuses(s) \/ ConnectionLost(s) \/ RemoteAppend(s)
    BY <2>2 DEF LeaderRefuses, ConnectionLost, RemoteAppend
  <2>. QED BY <1>10, <2>1, <2>2
<1>. QED BY <1>1, <1>2, <1>3, <1>4, <1>5, <1>6, <1>7, <1>8, <1>9, <1>10
         DEF Next, Dispatcher, Forwarder, Clients, Raft, Failures

-----------------------------------------------------------------------------
(* What the components around the processor keep, apart from its own       *)
(* variables.                                                              *)
PipeTypes ==
  /\ next_xid       \in [Sessions -> 1 .. MaxXid + 1]
  /\ dispatch_queue \in [Sessions -> Seq(Request)]
  /\ routing \in [Sessions -> {Idle} \cup
                    [at : {"alive?", "leader?", "dead?"}, req : Request]]
  /\ acc_queue      \in Seq(Request)
  /\ acc_batch      \in Seq(Request)
  /\ acc_state      \in {"filling", "waiting", "timeout", "failed"}
  /\ fwd_queue      \in [Sessions -> Seq(Request)]
  /\ fwd_net        \in [Sessions -> Seq(Request)]
  /\ fwd_refused    \in [Sessions -> Seq(Request)]
  /\ is_leader      \in BOOLEAN
  /\ raft_log       \in Seq(Request)
  /\ sent           \in [Sessions -> Nat]
  /\ cleaning       \in SUBSET Sessions
  /\ handshaking    \in SUBSET Sessions
  /\ acc_state # "filling" => acc_batch # <<>>

(* PipeInv in its two parts.                                               *)
LEMMA PipeInvParts == PipeInv <=> ProcTypeOK /\ PipeTypes
BY DEF PipeInv, TypeOK, PipeTypes

(* Dispatcher threads.                                                     *)
LEMMA DispatcherTypes ==
  ASSUME PipeTypes, ProcTypeOK, NEW s \in Sessions,
         \/ FinishSession(s) \/ TakeRequest(s) \/ LookAtLeaderAlive(s)
         \/ RouteByLeader(s) \/ LookAgain(s) \/ SetResponse(s)
  PROVE  PipeTypes'
<1> USE DEF PipeTypes, accVars, fwdVars, raftVars
<1>1. CASE FinishSession(s)
  BY <1>1 DEF FinishSession
<1>2. CASE TakeRequest(s)
  <2>1. Head(dispatch_queue[s]) \in Request
    BY <1>2, QueuePop DEF TakeRequest
  <2>2. dispatch_queue' \in [Sessions -> Seq(Request)]
    BY <1>2, QueuePop DEF TakeRequest
  <2>3. routing' \in [Sessions -> {Idle} \cup
                        [at : {"alive?", "leader?", "dead?"}, req : Request]]
    BY <1>2, <2>1 DEF TakeRequest
  <2>. QED BY <1>2, <2>2, <2>3 DEF TakeRequest
<1>3. CASE LookAtLeaderAlive(s)
  <2>1. routing[s] \in [at : {"alive?", "leader?", "dead?"}, req : Request]
    BY <1>3 DEF LookAtLeaderAlive, Idle
  <2>2. routing' \in [Sessions -> {Idle} \cup
                        [at : {"alive?", "leader?", "dead?"}, req : Request]]
    BY <1>3, <2>1 DEF LookAtLeaderAlive
  <2>. QED BY <1>3, <2>2 DEF LookAtLeaderAlive
<1>4. ASSUME routing[s] # Idle,
             \/ Enqueue(s, is_leader, ~is_leader) \/ Enqueue(s, ~leader_alive, FALSE)
      PROVE  PipeTypes'
  <2>1. PICK r \in Request : r = routing[s].req
    BY <1>4
  <2>2. acc_queue' \in Seq(Request)
    <3>1. acc_queue' = acc_queue \/ acc_queue' = Append(acc_queue, r)
      BY <1>4, <2>1 DEF Enqueue
    <3>2. Append(acc_queue, r) \in Seq(Request)
      BY AppendProperties
    <3>. QED BY <3>1, <3>2
  <2>3. fwd_queue' \in [Sessions -> Seq(Request)]
    <3>1. \/ fwd_queue' = fwd_queue
          \/ fwd_queue' = [fwd_queue EXCEPT ![s] = Append(@, r)]
      BY <1>4, <2>1 DEF Enqueue
    <3>2. [fwd_queue EXCEPT ![s] = Append(@, r)] \in [Sessions -> Seq(Request)]
      BY QueueAppend
    <3>. QED BY <3>1, <3>2
  <2>4. routing' \in [Sessions -> {Idle} \cup
                        [at : {"alive?", "leader?", "dead?"}, req : Request]]
    BY <1>4 DEF Enqueue
  <2>. QED BY <1>4, <2>2, <2>3, <2>4 DEF Enqueue
<1>5. CASE RouteByLeader(s)
  <2>1. routing[s] # Idle
    BY <1>5 DEF RouteByLeader, Idle
  <2>2. Enqueue(s, is_leader, ~is_leader)
    BY <1>5 DEF RouteByLeader
  <2>. QED BY <1>4, <2>1, <2>2
<1>6. CASE LookAgain(s)
  <2>1. routing[s] # Idle
    BY <1>6 DEF LookAgain, Idle
  <2>2. Enqueue(s, ~leader_alive, FALSE)
    BY <1>6 DEF LookAgain
  <2>. QED BY <1>4, <2>1, <2>2
<1>7. CASE SetResponse(s)
  BY <1>7 DEF SetResponse
<1>. QED BY <1>1, <1>2, <1>3, <1>5, <1>6, <1>7

(* The accumulator thread.                                                 *)
LEMMA AccumulatorTypes ==
  ASSUME PipeTypes, Accumulator \/ BatchTimeout
  PROVE  PipeTypes'
<1> USE DEF PipeTypes, dispatchVars, fwdVars, raftVars
<1>1. CASE Accumulate
  <2>1. Head(acc_queue) \in Request /\ Tail(acc_queue) \in Seq(Request)
    BY <1>1, HeadTailProperties DEF Accumulate
  <2>. QED BY <1>1, <2>1, AppendProperties DEF Accumulate
<1>2. CASE PutRequestBatch
  <2>1. raft_log \o acc_batch \in Seq(Request)
    BY ConcatProperties
  <2>2. raft_log' \in {raft_log, raft_log \o acc_batch}
    BY <1>2 DEF PutRequestBatch
  <2>3. acc_state' \in {"waiting", "failed"} /\ acc_batch' # <<>>
    BY <1>2 DEF PutRequestBatch
  <2>. QED BY <1>2, <2>1, <2>2, <2>3 DEF PutRequestBatch
<1>3. CASE BatchCommitted
  BY <1>3, EmptySeq DEF BatchCommitted
<1>4. CASE BatchCancelled \/ BatchTimeout
  BY <1>4 DEF BatchCancelled, BatchTimeout
<1>5. CASE ReportFailure
  <2>1. /\ acc_batch # <<>> /\ Len(acc_batch) \in Nat
        /\ Tail(acc_batch) \in Seq(Request) /\ Len(Tail(acc_batch)) = Len(acc_batch) - 1
    BY <1>5, HeadTailProperties, LenProperties DEF ReportFailure
  <2>2. acc_state' # "filling" => acc_batch' # <<>>
    <3>1. CASE Len(acc_batch) = 1
      BY <1>5, <3>1 DEF ReportFailure
    <3>2. CASE Len(acc_batch) # 1
      <4>1. Len(acc_batch) # 0
        BY <2>1, EmptySeq
      <4>2. Len(Tail(acc_batch)) # Len(<<>>)
        BY <2>1, <3>2, <4>1
      <4>3. acc_batch' = Tail(acc_batch)
        BY <1>5 DEF ReportFailure
      <4>. QED BY <4>2, <4>3
    <3>. QED BY <3>1, <3>2
  <2>. QED BY <1>5, <2>1, <2>2 DEF ReportFailure
<1>. QED BY <1>1, <1>2, <1>3, <1>4, <1>5 DEF Accumulator

(* Forwarding, in both directions.                                         *)
LEMMA ForwarderTypes ==
  ASSUME PipeTypes, NEW s \in Sessions,
         \/ ForwardSend(s) \/ ForwardRefused(s) \/ ForwardFail(s)
         \/ LeaderAppends(s) \/ LeaderRefuses(s) \/ ConnectionLost(s)
  PROVE  PipeTypes'
<1> USE DEF PipeTypes, dispatchVars, accVars, raftVars
<1>1. CASE ForwardSend(s)
  <2>1. Head(fwd_queue[s]) \in Request /\ fwd_queue' \in [Sessions -> Seq(Request)]
    BY <1>1, QueuePop DEF ForwardSend
  <2>2. fwd_net' \in [Sessions -> Seq(Request)]
    BY <1>1, <2>1, QueueAppend DEF ForwardSend
  <2>. QED BY <1>1, <2>1, <2>2 DEF ForwardSend
<1>2. CASE ForwardRefused(s)
  BY <1>2, QueuePop DEF ForwardRefused
<1>3. CASE ForwardFail(s)
  BY <1>3, QueuePop DEF ForwardFail
<1>4. CASE LeaderAppends(s)
  <2>1. Head(fwd_net[s]) \in Request /\ fwd_net' \in [Sessions -> Seq(Request)]
    BY <1>4, QueuePop DEF LeaderAppends
  <2>2. raft_log' \in Seq(Request)
    BY <1>4, <2>1, AppendProperties DEF LeaderAppends
  <2>. QED BY <1>4, <2>1, <2>2 DEF LeaderAppends
<1>5. CASE LeaderRefuses(s)
  <2>1. Head(fwd_net[s]) \in Request /\ fwd_net' \in [Sessions -> Seq(Request)]
    BY <1>5, QueuePop DEF LeaderRefuses
  <2>2. fwd_refused' \in [Sessions -> Seq(Request)]
    BY <1>5, <2>1, QueueAppend DEF LeaderRefuses
  <2>. QED BY <1>5, <2>1, <2>2 DEF LeaderRefuses
<1>6. CASE ConnectionLost(s)
  BY <1>6, EmptySeq DEF ConnectionLost
<1>. QED BY <1>1, <1>2, <1>3, <1>4, <1>5, <1>6

(* Clients, and requests of other servers.                                 *)
LEMMA ClientTypes ==
  ASSUME PipeTypes, NEW s \in Sessions,
         \/ \E kind \in ClientKinds : PutRequest(s, kind)
         \/ PutForwardingRequest(s) \/ CleanSession(s)
         \/ Disconnect(s) \/ Handshake(s) \/ Reconnect(s) \/ RemoteAppend(s)
  PROVE  PipeTypes'
<1> USE ProcessorAssumption, PipelineAssumption
    DEF PipeTypes, dispatchVars, accVars, fwdVars, raftVars
<1>1. ASSUME NEW kind \in ClientKinds, PutRequest(s, kind) PROVE PipeTypes'
  <2>1. next_xid[s] \in 1 .. MaxXid
    BY <1>1 DEF PutRequest, Closing
  <2>2. [session |-> s, xid |-> IF kind = "auth" THEN AuthXid ELSE next_xid[s],
         kind |-> kind] \in Request
    BY <2>1 DEF Request, Xids, CloseXid, Kinds
  <2>3. dispatch_queue' \in [Sessions -> Seq(Request)]
    BY <1>1, <2>2, QueueAppend DEF PutRequest, Enter
  <2>4. next_xid' \in [Sessions -> 1 .. MaxXid + 1]
    <3>1. CASE kind = "auth"
      BY <1>1, <3>1 DEF PutRequest
    <3>2. CASE kind = "close"
      <4>1. next_xid' = [next_xid EXCEPT ![s] = MaxXid + 1]
        BY <1>1, <3>2 DEF PutRequest
      <4>. QED BY <4>1
    <3>3. CASE kind \notin {"auth", "close"}
      <4>1. next_xid' = [next_xid EXCEPT ![s] = @ + 1]
        BY <1>1, <3>3 DEF PutRequest
      <4>. QED BY <4>1, <2>1
    <3>. QED BY <3>1, <3>2, <3>3
  <2>. QED BY <1>1, <2>3, <2>4 DEF PutRequest
<1>2. ASSUME next_xid[s] <= MaxXid
      PROVE  [session |-> s, xid |-> next_xid[s], kind |-> "write"] \in Request
  BY <1>2 DEF Request, Xids, CloseXid, Kinds
<1>3. CASE PutForwardingRequest(s)
  <2>1. dispatch_queue' \in [Sessions -> Seq(Request)]
    BY <1>2, <1>3, QueueAppend DEF PutForwardingRequest, Enter
  <2>2. next_xid' \in [Sessions -> 1 .. MaxXid + 1]
    BY <1>3 DEF PutForwardingRequest
  <2>. QED BY <1>3, <2>1, <2>2 DEF PutForwardingRequest
<1>4. CASE CleanSession(s)
  <2>1. [session |-> s, xid |-> CloseXid, kind |-> "close"] \in Request
    BY DEF Request, Xids, CloseXid, Kinds
  <2>2. dispatch_queue' \in [Sessions -> Seq(Request)]
    BY <1>4, <2>1, QueueAppend DEF CleanSession, Enter
  <2>. QED BY <1>4, <2>2 DEF CleanSession
<1>5. CASE Disconnect(s) \/ Handshake(s) \/ Reconnect(s)
  BY <1>5 DEF Disconnect, Handshake, Reconnect
<1>6. CASE RemoteAppend(s)
  <2>1. raft_log' \in Seq(Request)
    BY <1>2, <1>6, AppendProperties DEF RemoteAppend
  <2>2. next_xid' \in [Sessions -> 1 .. MaxXid + 1]
    BY <1>6 DEF RemoteAppend
  <2>. QED BY <1>6, <2>1, <2>2 DEF RemoteAppend
<1>. QED BY <1>1, <1>3, <1>4, <1>5, <1>6

(* Raft.                                                                   *)
LEMMA RaftTypes ==
  ASSUME PipeTypes, RaftCommit \/ LeaderChange
  PROVE  PipeTypes'
<1> USE DEF PipeTypes, dispatchVars, accVars, fwdVars
<1>1. CASE RaftCommit
  BY <1>1, HeadTailProperties DEF RaftCommit
<1>2. CASE LeaderChange
  <2>1. raft_log' \in Seq(Request)
    BY <1>2, PrefixType DEF LeaderChange
  <2>. QED BY <1>2, <2>1 DEF LeaderChange
<1>. QED BY <1>1, <1>2

-----------------------------------------------------------------------------
(* The inductive invariant of the pipeline.                                *)
FullInv == ProcInv /\ PipeTypes

(* It holds at the start.                                                  *)
LEMMA FullInvInit == Init => FullInv
<1> SUFFICES ASSUME Init PROVE FullInv
  OBVIOUS
<1>1. ProcInv
  BY InitInv DEF Init
<1>2. PipeTypes
  BY ProcessorAssumption, EmptySeq DEF Init, PipeTypes
<1>. QED BY <1>1, <1>2 DEF FullInv

(* Every step preserves it.                                                *)
LEMMA FullInvStep == FullInv /\ [Next]_vars => FullInv'
<1> SUFFICES ASSUME FullInv, [Next]_vars PROVE FullInv'
  OBVIOUS
<1>0. ProcTypeOK /\ PipeTypes /\ PipeInv
  BY PipeInvParts DEF FullInv, ProcInv
<1>1. [ProcNext]_procVars
  BY <1>0, StepSimulation DEF vars
<1>2. ProcInv'
  <2>1. CASE ProcNext
    BY <2>1, RunInv, InputInv DEF FullInv, ProcNext
  <2>2. CASE UNCHANGED procVars
    BY <2>2 DEF FullInv, ProcInv, ProcTypeOK, SizeStillThere, CommittedInOrder,
                procVars, loopVars, envVars
  <2>. QED BY <1>1, <2>1, <2>2
<1>3. PipeTypes'
  <2>1. CASE UNCHANGED pipeVars
    BY <1>0, <2>1 DEF PipeTypes, pipeVars, dispatchVars, accVars, fwdVars, raftVars
  <2>2. CASE Next
    BY <1>0, <2>1, <2>2, DispatcherTypes, AccumulatorTypes, ForwarderTypes,
       ClientTypes, RaftTypes
       DEF Next, Processor, Dispatcher, Forwarder, Clients, Raft, Failures
  <2>. QED BY <2>1, <2>2 DEF vars
<1>. QED BY <1>2, <1>3 DEF FullInv

(* Type correctness of the whole pipeline.                                 *)
THEOREM PipelineTypeCorrect == Spec => []TypeOK
<1>1. FullInv => TypeOK
  BY PipeInvParts DEF FullInv, ProcInv, PipeInv
<1>. QED BY <1>1, FullInvInit, FullInvStep, PTL DEF Spec

(* The pipeline implements the processor in its general environment: no    *)
(* component of the server touches the processor's queues except through   *)
(* push, commit and onError.                                               *)
THEOREM PipelineImplementsProcessor == Spec => ImplementsProcessor
<1>1. Init => ProcInit
  BY DEF Init
<1>2. FullInv /\ [Next]_vars => [ProcNext]_procVars
  BY StepSimulation, PipeInvParts DEF FullInv, ProcInv, vars
<1>. QED BY <1>1, <1>2, FullInvInit, FullInvStep, PTL
         DEF Spec, ProcSpec, ImplementsProcessor

(* README, guarantee 2, for the server with its dispatcher, accumulator,   *)
(* forwarder, failing leaders, reconnecting and expiring sessions.         *)
THEOREM PipelineCommittedInOrder == Spec => []CommittedInOrder
BY PipelineImplementsProcessor, CommittedInOrderHolds, PTL DEF ImplementsProcessor
-----------------------------------------------------------------------------
(***************************************************************************)
(* The order of a session's requests.  A session's requests pass from      *)
(* dispatch_queue to requests_queue to pending_requests; all but Auth and  *)
(* the Close of the session cleaner are numbered by the client.            *)
(***************************************************************************)
Numbered == 1 .. MaxXid

WellFormed(r) ==
  /\ r.xid = AuthXid <=> r.kind = "auth"
  /\ r.xid = CloseXid => r.kind = "close"

Precedes(p, r) == p.xid \in Numbered => r.xid = AuthXid \/ r.xid > p.xid

Elements(q) == {q[i] : i \in 1 .. Len(q)}

Ordered(q)    == \A j \in 1 .. Len(q) : \A i \in 1 .. (j - 1) : Precedes(q[i], q[j])
Before(a, b)  == \A p \in Elements(a), r \in Elements(b) : Precedes(p, r)
Below(q, n)   == \A r \in Elements(q) : r.xid \in Numbered => r.xid < n
Lacks(q, x)   == \A r \in Elements(q) : r.xid # x
OfSession(q, s) == \A r \in Elements(q) : r.session = s /\ WellFormed(r)

(* The queues P, R, D of session s whose next xid is n.                    *)
InOrder(s, P, R, D, n) ==
  /\ OfSession(P, s) /\ OfSession(R, s) /\ OfSession(D, s)
  /\ Ordered(P) /\ Ordered(R) /\ Ordered(D)
  /\ Before(P, R) /\ Before(P, D) /\ Before(R, D)
  /\ Below(P, n) /\ Below(R, n) /\ Below(D, n)

(* a is q without some of its elements.                                    *)
PartOf(a, q) ==
  \E f \in [1 .. Len(a) -> 1 .. Len(q)] :
    \A j \in 1 .. Len(a) : a[j] = q[f[j]] /\ \A i \in 1 .. (j - 1) : f[i] < f[j]

-----------------------------------------------------------------------------
(* Appending adds one element.                                             *)
LEMMA AppendElements ==
  ASSUME NEW S, NEW q \in Seq(S), NEW r
  PROVE  Elements(Append(q, r)) = Elements(q) \cup {r}
<1>1. /\ Len(q) \in Nat /\ Len(Append(q, r)) = Len(q) + 1
      /\ \A i \in 1 .. Len(q) : Append(q, r)[i] = q[i]
      /\ Append(q, r)[Len(q) + 1] = r
  <2>1. q \in Seq(S \cup {r})
    BY SeqMonotonic
  <2>. QED BY <2>1, AppendProperties, LenProperties
<1>2. 1 .. Len(q) + 1 = (1 .. Len(q)) \cup {Len(q) + 1}
  BY <1>1
<1>. QED BY <1>1, <1>2 DEF Elements

(* The head of a queue is its first element.                               *)
LEMMA HeadElement ==
  ASSUME NEW S, NEW q \in Seq(S), q # <<>>
  PROVE  Head(q) \in Elements(q) /\ Head(q) = q[1] /\ 1 \in 1 .. Len(q)
<1>1. Len(q) \in Nat /\ Len(q) >= 1
  BY EmptySeq, LenProperties
<1>. QED BY <1>1 DEF Elements

(* A part has no other elements than the whole.                            *)
LEMMA PartElements ==
  ASSUME NEW a, NEW q, PartOf(a, q)
  PROVE  Elements(a) \subseteq Elements(q)
BY DEF PartOf, Elements

(* A part of an ordered queue is ordered.                                  *)
LEMMA PartOrdered ==
  ASSUME NEW S, NEW q \in Seq(S), NEW a \in Seq(S), PartOf(a, q), Ordered(q)
  PROVE  Ordered(a)
<1>1. PICK f \in [1 .. Len(a) -> 1 .. Len(q)] :
        \A j \in 1 .. Len(a) : a[j] = q[f[j]] /\ \A i \in 1 .. (j - 1) : f[i] < f[j]
  BY DEF PartOf
<1>2. SUFFICES ASSUME NEW j \in 1 .. Len(a), NEW i \in 1 .. (j - 1)
               PROVE  Precedes(a[i], a[j])
  BY DEF Ordered
<1>3. i \in 1 .. Len(a) /\ Len(a) \in Nat /\ Len(q) \in Nat
  BY LenProperties
<1>4. f[j] \in 1 .. Len(q) /\ f[i] \in 1 .. Len(q) /\ f[i] < f[j]
  BY <1>1, <1>3
<1>5. f[i] \in 1 .. (f[j] - 1)
  BY ONLY <1>3, <1>4
<1>. QED BY <1>1, <1>3, <1>4, <1>5 DEF Ordered

(* Popping leaves a part.                                                  *)
LEMMA TailPart ==
  ASSUME NEW S, NEW q \in Seq(S), q # <<>>
  PROVE  PartOf(Tail(q), q)
<1>1. /\ Len(q) \in Nat /\ Len(q) >= 1 /\ Len(Tail(q)) = Len(q) - 1
      /\ \A i \in 1 .. Len(Tail(q)) : Tail(q)[i] = q[i + 1]
  BY EmptySeq, LenProperties, HeadTailProperties
<1> DEFINE f == [i \in 1 .. Len(Tail(q)) |-> i + 1]
<1>2. f \in [1 .. Len(Tail(q)) -> 1 .. Len(q)]
  BY <1>1
<1>3. \A j \in 1 .. Len(Tail(q)) :
        Tail(q)[j] = q[f[j]] /\ \A i \in 1 .. (j - 1) : f[i] < f[j]
  BY <1>1
<1> HIDE DEF f
<1>. QED BY <1>2, <1>3 DEF PartOf

(* Clearing leaves a part.                                                 *)
LEMMA EmptyPart == ASSUME NEW S, NEW q \in Seq(S) PROVE PartOf(<<>>, q)
<1>1. Len(<<>>) = 0 /\ Len(q) \in Nat
  BY LenProperties
<1> DEFINE f == [i \in 1 .. 0 |-> 1]
<1>2. f \in [1 .. 0 -> 1 .. Len(q)]
  OBVIOUS
<1>3. \A j \in 1 .. 0 : <<>>[j] = q[f[j]] /\ \A i \in 1 .. (j - 1) : f[i] < f[j]
  <2>1. 1 .. 0 = {}
    OBVIOUS
  <2>. QED BY ONLY <2>1
<1> HIDE DEF f
<1>. QED BY <1>1, <1>2, <1>3 DEF PartOf

(* The elements behind a position.                                         *)
LEMMA SuffixIs ==
  ASSUME NEW S, NEW q \in Seq(S), NEW k \in 1 .. Len(q)
  PROVE  /\ Len(SubSeq(q, k + 1, Len(q))) = Len(q) - k
         /\ \A i \in 1 .. Len(q) - k : SubSeq(q, k + 1, Len(q))[i] = q[k + i]
<1>1. Len(q) \in Nat /\ k \in Nat /\ k <= Len(q) /\ k >= 1
  BY LenProperties
<1>2. \A j \in (k + 1) .. Len(q) : q[j] \in S
  BY <1>1, ElementOfSeq
<1>3. /\ Len(SubSeq(q, k + 1, Len(q))) = IF k + 1 <= Len(q) THEN Len(q) - (k + 1) + 1 ELSE 0
      /\ \A i \in 1 .. Len(q) - (k + 1) + 1 : SubSeq(q, k + 1, Len(q))[i] = q[(k + 1) + i - 1]
  BY <1>1, <1>2, SubSeqProperties
<1>. QED BY <1>1, <1>3

(* They are a part.                                                        *)
LEMMA SuffixPart ==
  ASSUME NEW S, NEW q \in Seq(S), NEW k \in 1 .. Len(q)
  PROVE  PartOf(SubSeq(q, k + 1, Len(q)), q)
<1> DEFINE a == SubSeq(q, k + 1, Len(q))
           f == [i \in 1 .. Len(a) |-> k + i]
<1>1. /\ Len(q) \in Nat /\ k \in Nat /\ Len(a) = Len(q) - k
      /\ \A i \in 1 .. Len(q) - k : a[i] = q[k + i]
  BY SuffixIs, LenProperties
<1> HIDE DEF a
<1>2. /\ f \in [1 .. Len(a) -> 1 .. Len(q)]
      /\ \A j \in 1 .. Len(a) : a[j] = q[f[j]] /\ \A i \in 1 .. (j - 1) : f[i] < f[j]
  BY <1>1
<1> HIDE DEF f
<1>3. PartOf(a, q)
  BY <1>2 DEF PartOf
<1>. QED BY <1>3 DEF a

(* The elements after erasing one (vector::erase).                         *)
LEMMA WithoutIs ==
  ASSUME NEW S, NEW q \in Seq(S), NEW k \in 1 .. Len(q)
  PROVE  /\ Len(Without(q, k)) = Len(q) - 1
         /\ \A i \in 1 .. Len(q) - 1 : Without(q, k)[i] = q[IF i < k THEN i ELSE i + 1]
<1> DEFINE a == SubSeq(q, 1, k - 1)
           b == SubSeq(q, k + 1, Len(q))
<1>1. Len(q) \in Nat /\ k \in Nat /\ k <= Len(q) /\ k >= 1
  BY LenProperties
<1>2. a \in Seq(S) /\ Len(a) = k - 1 /\ \A i \in 1 .. k - 1 : a[i] = q[i]
  <2>1. \A j \in 1 .. k - 1 : q[j] \in S
    BY <1>1, ElementOfSeq
  <2>2. /\ a \in Seq(S) /\ Len(a) = IF 1 <= k - 1 THEN (k - 1) - 1 + 1 ELSE 0
        /\ \A i \in 1 .. (k - 1) - 1 + 1 : a[i] = q[1 + i - 1]
    BY <1>1, <2>1, SubSeqProperties
  <2>. QED BY <1>1, <2>2
<1>3. b \in Seq(S) /\ Len(b) = Len(q) - k /\ \A i \in 1 .. Len(q) - k : b[i] = q[k + i]
  <2>1. \A j \in (k + 1) .. Len(q) : q[j] \in S
    BY <1>1, ElementOfSeq
  <2>. QED BY <1>1, <2>1, SuffixIs, SubSeqProperties
<1> HIDE DEF a, b
<1>4. /\ Len(a \o b) = Len(a) + Len(b)
      /\ \A i \in 1 .. Len(a) + Len(b) : (a \o b)[i] = IF i <= Len(a) THEN a[i] ELSE b[i - Len(a)]
  BY <1>2, <1>3, ConcatProperties
<1>5. /\ Len(a \o b) = Len(q) - 1
      /\ \A i \in 1 .. Len(q) - 1 : (a \o b)[i] = q[IF i < k THEN i ELSE i + 1]
  BY <1>1, <1>2, <1>3, <1>4
<1>. QED BY <1>5 DEF Without, a, b

(* They are a part.                                                        *)
LEMMA WithoutPart ==
  ASSUME NEW S, NEW q \in Seq(S), NEW k \in 1 .. Len(q)
  PROVE  PartOf(Without(q, k), q)
<1> DEFINE a == Without(q, k)
           f == [i \in 1 .. Len(a) |-> IF i < k THEN i ELSE i + 1]
<1>1. /\ Len(q) \in Nat /\ k \in Nat /\ Len(a) = Len(q) - 1
      /\ \A i \in 1 .. Len(q) - 1 : a[i] = q[IF i < k THEN i ELSE i + 1]
  BY WithoutIs, LenProperties
<1> HIDE DEF a
<1>2. /\ f \in [1 .. Len(a) -> 1 .. Len(q)]
      /\ \A j \in 1 .. Len(a) : a[j] = q[f[j]] /\ \A i \in 1 .. (j - 1) : f[i] < f[j]
  BY <1>1
<1> HIDE DEF f
<1>3. PartOf(a, q)
  BY <1>2 DEF PartOf
<1>. QED BY <1>3 DEF a

(* An element that all others precede may be appended.                     *)
LEMMA AppendOrdered ==
  ASSUME NEW S, NEW q \in Seq(S), NEW r \in S, Ordered(q),
         \A p \in Elements(q) : Precedes(p, r)
  PROVE  Ordered(Append(q, r))
<1>1. /\ Len(q) \in Nat /\ Len(Append(q, r)) = Len(q) + 1
      /\ \A i \in 1 .. Len(q) : Append(q, r)[i] = q[i]
      /\ Append(q, r)[Len(q) + 1] = r
  BY AppendProperties, LenProperties
<1>2. SUFFICES ASSUME NEW j \in 1 .. Len(q) + 1, NEW i \in 1 .. (j - 1)
               PROVE  Precedes(Append(q, r)[i], Append(q, r)[j])
  BY <1>1 DEF Ordered
<1>3. i \in 1 .. Len(q) /\ Append(q, r)[i] = q[i]
  BY <1>1
<1>4. CASE j = Len(q) + 1
  BY <1>1, <1>3, <1>4 DEF Elements
<1>5. CASE j \in 1 .. Len(q)
  BY <1>1, <1>3, <1>5 DEF Ordered
<1>. QED BY <1>1, <1>4, <1>5

(* The first of an ordered queue precedes the rest.                        *)
LEMMA HeadPrecedes ==
  ASSUME NEW S, NEW q \in Seq(S), q # <<>>, Ordered(q)
  PROVE  \A r \in Elements(Tail(q)) : Precedes(Head(q), r)
<1>1. /\ Len(q) \in Nat /\ Len(q) >= 1 /\ Len(Tail(q)) = Len(q) - 1
      /\ \A i \in 1 .. Len(Tail(q)) : Tail(q)[i] = q[i + 1]
      /\ Head(q) = q[1]
  BY EmptySeq, LenProperties, HeadTailProperties
<1>2. SUFFICES ASSUME NEW i \in 1 .. Len(Tail(q)) PROVE Precedes(Head(q), Tail(q)[i])
  BY DEF Elements
<1>3. i + 1 \in 1 .. Len(q) /\ 1 \in 1 .. ((i + 1) - 1)
  BY <1>1
<1>. QED BY <1>1, <1>3 DEF Ordered
-----------------------------------------------------------------------------
(* What the steps do to the queues of one session.                         *)
LEMMA DropInOrder ==
  ASSUME NEW s, NEW P \in Seq(Request), NEW R, NEW D, NEW n, NEW a \in Seq(Request),
         InOrder(s, P, R, D, n), PartOf(a, P)
  PROVE  InOrder(s, a, R, D, n)
<1>1. Elements(a) \subseteq Elements(P)
  BY PartElements
<1>2. Ordered(a)
  BY PartOrdered DEF InOrder
<1>. QED BY <1>1, <1>2 DEF InOrder, OfSession, Before, Below

(* moveRequestToPendingQueue: the head of requests_queue becomes pending,  *)
(* or is dropped.                                                          *)
LEMMA MoveInOrder ==
  ASSUME NEW s, NEW P \in Seq(Request), NEW R \in Seq(Request), NEW D, NEW n,
         InOrder(s, P, R, D, n), R # <<>>
  PROVE  /\ InOrder(s, P, Tail(R), D, n)
         /\ InOrder(s, Append(P, Head(R)), Tail(R), D, n)
<1>1. /\ Head(R) \in Elements(R) /\ Elements(Tail(R)) \subseteq Elements(R)
      /\ Tail(R) \in Seq(Request) /\ Head(R) \in Request
  BY HeadElement, TailPart, PartElements, HeadTailProperties
<1>2. Ordered(Tail(R))
  BY <1>1, TailPart, PartOrdered DEF InOrder
<1>3. Ordered(Append(P, Head(R)))
  BY <1>1, AppendOrdered DEF InOrder, Before
<1>4. Elements(Append(P, Head(R))) = Elements(P) \cup {Head(R)}
  BY AppendElements
<1>5. \A r \in Elements(Tail(R)) : Precedes(Head(R), r)
  BY HeadPrecedes DEF InOrder
<1>6. InOrder(s, P, Tail(R), D, n)
  BY <1>1, <1>2 DEF InOrder, OfSession, Before, Below
<1>. QED BY <1>1, <1>2, <1>3, <1>4, <1>5, <1>6 DEF InOrder, OfSession, Before, Below

(* The dispatcher takes the head of its queue and may push it.             *)
LEMMA TakeInOrder ==
  ASSUME NEW s, NEW P, NEW R \in Seq(Request), NEW D \in Seq(Request), NEW n,
         InOrder(s, P, R, D, n), D # <<>>
  PROVE  /\ InOrder(s, P, R, Tail(D), n)
         /\ InOrder(s, P, Append(R, Head(D)), Tail(D), n)
<1>1. /\ Head(D) \in Elements(D) /\ Elements(Tail(D)) \subseteq Elements(D)
      /\ Tail(D) \in Seq(Request) /\ Head(D) \in Request
  BY HeadElement, TailPart, PartElements, HeadTailProperties
<1>2. Ordered(Tail(D))
  BY <1>1, TailPart, PartOrdered DEF InOrder
<1>3. Ordered(Append(R, Head(D)))
  BY <1>1, AppendOrdered DEF InOrder, Before
<1>4. Elements(Append(R, Head(D))) = Elements(R) \cup {Head(D)}
  BY AppendElements
<1>5. \A r \in Elements(Tail(D)) : Precedes(Head(D), r)
  BY HeadPrecedes DEF InOrder
<1>6. InOrder(s, P, R, Tail(D), n)
  BY <1>1, <1>2 DEF InOrder, OfSession, Before, Below
<1>. QED BY <1>1, <1>2, <1>3, <1>4, <1>5, <1>6 DEF InOrder, OfSession, Before, Below

(* A client may skip xids.                                                 *)
LEMMA NumberInOrder ==
  ASSUME NEW s, NEW P, NEW R, NEW D, NEW n \in Nat, NEW m \in Nat, n <= m,
         InOrder(s, P, R, D, n)
  PROVE  InOrder(s, P, R, D, m)
<1>1. ASSUME NEW q, Below(q, n) PROVE Below(q, m)
  BY <1>1 DEF Below, Numbered
<1>. QED BY <1>1 DEF InOrder

(* A new request has a new xid, or none of the client's.                   *)
LEMMA EnterInOrder ==
  ASSUME NEW s, NEW P, NEW R, NEW D \in Seq(Request), NEW n \in 1 .. MaxXid + 1,
         NEW m \in Nat, n <= m,
         InOrder(s, P, R, D, n), NEW r \in Request, r.session = s, WellFormed(r),
         r.xid \in Numbered => n <= r.xid /\ r.xid < m
  PROVE  InOrder(s, P, R, Append(D, r), m)
<1>0. MaxXid \in Nat /\ r.xid \in Xids
  BY ProcessorAssumption DEF Request
<1>1. ASSUME NEW q, Below(q, n) PROVE \A p \in Elements(q) : Precedes(p, r)
  <2>1. SUFFICES ASSUME NEW p \in Elements(q), p.xid \in Numbered, r.xid # AuthXid
                 PROVE  r.xid > p.xid
    BY DEF Precedes
  <2>2. p.xid < n
    BY <1>1, <2>1 DEF Below
  <2>3. r.xid \in Numbered \/ r.xid = MaxXid + 1
    BY <1>0, <2>1 DEF Xids, CloseXid, Numbered
  <2>. QED BY <1>0, <2>1, <2>2, <2>3 DEF Numbered
<1>2. InOrder(s, P, R, D, m)
  BY NumberInOrder, <1>0
<1>3. Elements(Append(D, r)) = Elements(D) \cup {r}
  BY AppendElements
<1>4. Ordered(Append(D, r))
  BY <1>1, AppendOrdered DEF InOrder
<1>5. Before(P, Append(D, r)) /\ Before(R, Append(D, r))
  BY <1>1, <1>3 DEF InOrder, Before
<1>6. OfSession(Append(D, r), s) /\ Below(Append(D, r), m)
  BY <1>2, <1>3 DEF InOrder, OfSession, Below
<1>. QED BY <1>2, <1>4, <1>5, <1>6 DEF InOrder
-----------------------------------------------------------------------------
(***************************************************************************)
(* The queues of all sessions, and what a request that has left            *)
(* dispatch_queue leaves behind.                                           *)
(***************************************************************************)
QueuesInOrder ==
  \A s \in Sessions :
    InOrder(s, pending_requests[s], requests_queue[s], dispatch_queue[s], next_xid[s])

(* No request of session s with this xid waits anywhere in front of raft's *)
(* answer.                                                                 *)
Gone(s, x) ==
  /\ Lacks(pending_requests[s], x)
  /\ Lacks(requests_queue[s], x)
  /\ Lacks(dispatch_queue[s], x)

Settled(s, x) == x \in Numbered /\ x < next_xid[s] /\ Gone(s, x)

(* A request that the dispatcher has taken from its queue.                 *)
Passed(r) ==
  /\ WellFormed(r)
  /\ r.kind # "read"
  /\ r.xid \in Numbered =>
       r.xid < next_xid[r.session] /\ Lacks(dispatch_queue[r.session], r.xid)

(* What a step of the server may do to the queues.                         *)
Dropped(s) ==
  /\ \E a \in Seq(Request) :
       PartOf(a, pending_requests[s])
       /\ pending_requests' = [pending_requests EXCEPT ![s] = a]
  /\ UNCHANGED <<requests_queue, dispatch_queue, next_xid>>

Moved(s) ==
  /\ requests_queue[s] # <<>>
  /\ requests_queue' = [requests_queue EXCEPT ![s] = Tail(@)]
  /\ \/ pending_requests' = pending_requests
     \/ pending_requests' =
          [pending_requests EXCEPT ![s] = Append(@, Head(requests_queue[s]))]
  /\ UNCHANGED <<dispatch_queue, next_xid>>

Taken(s) ==
  /\ dispatch_queue[s] # <<>>
  /\ dispatch_queue' = [dispatch_queue EXCEPT ![s] = Tail(@)]
  /\ \/ requests_queue' = requests_queue
     \/ requests_queue' =
          [requests_queue EXCEPT ![s] = Append(@, Head(dispatch_queue[s]))]
  /\ UNCHANGED <<pending_requests, next_xid>>

Raised ==
  /\ next_xid' \in [Sessions -> 1 .. MaxXid + 1]
  /\ \A s \in Sessions : next_xid[s] <= next_xid'[s]

Entered(s, r) ==
  /\ r.session = s
  /\ WellFormed(r)
  /\ dispatch_queue' = [dispatch_queue EXCEPT ![s] = Append(@, r)]
  /\ Raised
  /\ r.xid \in Numbered => next_xid[s] <= r.xid /\ r.xid < next_xid'[s]
  /\ UNCHANGED <<pending_requests, requests_queue>>

Renumbered == Raised /\ UNCHANGED <<pending_requests, requests_queue, dispatch_queue>>

QueueStep ==
  \/ Renumbered
  \/ \E s \in Sessions :
       Dropped(s) \/ Moved(s) \/ Taken(s) \/ \E r \in Request : Entered(s, r)

QueueTypes ==
  /\ pending_requests \in [Sessions -> Seq(Request)]
  /\ requests_queue   \in [Sessions -> Seq(Request)]
  /\ dispatch_queue   \in [Sessions -> Seq(Request)]
  /\ next_xid         \in [Sessions -> 1 .. MaxXid + 1]

(* The types the queue lemmas need.                                        *)
LEMMA QueueTypesHold == FullInv => QueueTypes
BY DEF FullInv, ProcInv, ProcTypeOK, PipeTypes, QueueTypes

(* The queues of one session stay in order.                                *)
LEMMA QueueStepInOrder ==
  ASSUME QueueTypes, QueuesInOrder, QueueStep
  PROVE  QueuesInOrder'
<1>1. SUFFICES ASSUME NEW t \in Sessions
               PROVE  InOrder(t, pending_requests'[t], requests_queue'[t],
                              dispatch_queue'[t], next_xid'[t])
  BY DEF QueuesInOrder
<1>2. /\ InOrder(t, pending_requests[t], requests_queue[t], dispatch_queue[t], next_xid[t])
      /\ pending_requests[t] \in Seq(Request) /\ requests_queue[t] \in Seq(Request)
      /\ dispatch_queue[t] \in Seq(Request) /\ next_xid[t] \in 1 .. MaxXid + 1
      /\ next_xid[t] \in Nat
  BY ProcessorAssumption DEF QueuesInOrder, QueueTypes
<1>3. CASE Renumbered
  <2>1. next_xid'[t] \in Nat /\ next_xid[t] <= next_xid'[t]
    BY <1>3, ProcessorAssumption DEF Renumbered, Raised
  <2>. QED BY <1>2, <1>3, <2>1, NumberInOrder DEF Renumbered
<1>4. ASSUME NEW s \in Sessions, Dropped(s)
      PROVE  InOrder(t, pending_requests'[t], requests_queue'[t], dispatch_queue'[t],
                     next_xid'[t])
  BY <1>2, <1>4, DropInOrder DEF Dropped, QueueTypes
<1>5. ASSUME NEW s \in Sessions, Moved(s)
      PROVE  InOrder(t, pending_requests'[t], requests_queue'[t], dispatch_queue'[t],
                     next_xid'[t])
  <2>1. CASE t = s
    <3>1. requests_queue[t] # <<>>
      BY <1>5, <2>1 DEF Moved
    <3>2. /\ InOrder(t, pending_requests[t], Tail(requests_queue[t]), dispatch_queue[t], next_xid[t])
          /\ InOrder(t, Append(pending_requests[t], Head(requests_queue[t])), Tail(requests_queue[t]),
                     dispatch_queue[t], next_xid[t])
      BY ONLY <1>2, <3>1, MoveInOrder
    <3>. QED BY <1>2, <1>5, <2>1, <3>2 DEF Moved, QueueTypes
  <2>2. CASE t # s
    BY <1>2, <1>5, <2>2 DEF Moved, QueueTypes
  <2>. QED BY <2>1, <2>2
<1>6. ASSUME NEW s \in Sessions, Taken(s)
      PROVE  InOrder(t, pending_requests'[t], requests_queue'[t], dispatch_queue'[t],
                     next_xid'[t])
  <2>1. CASE t = s
    <3>1. dispatch_queue[t] # <<>>
      BY <1>6, <2>1 DEF Taken
    <3>2. /\ InOrder(t, pending_requests[t], requests_queue[t], Tail(dispatch_queue[t]), next_xid[t])
          /\ InOrder(t, pending_requests[t], Append(requests_queue[t], Head(dispatch_queue[t])),
                     Tail(dispatch_queue[t]), next_xid[t])
      BY ONLY <1>2, <3>1, TakeInOrder
    <3>. QED BY <1>2, <1>6, <2>1, <3>2 DEF Taken, QueueTypes
  <2>2. CASE t # s
    BY <1>2, <1>6, <2>2 DEF Taken, QueueTypes
  <2>. QED BY <2>1, <2>2
<1>7. ASSUME NEW s \in Sessions, NEW r \in Request, Entered(s, r)
      PROVE  InOrder(t, pending_requests'[t], requests_queue'[t], dispatch_queue'[t],
                     next_xid'[t])
  <2>1. next_xid'[t] \in Nat /\ next_xid[t] <= next_xid'[t]
    BY <1>7, ProcessorAssumption DEF Entered, Raised
  <2>2. CASE t = s
    BY <1>2, <1>7, <2>1, <2>2, EnterInOrder DEF Entered, QueueTypes
  <2>3. CASE t # s
    BY <1>2, <1>7, <2>1, <2>3, NumberInOrder DEF Entered, QueueTypes
  <2>. QED BY <2>2, <2>3
<1>. QED BY <1>3, <1>4, <1>5, <1>6, <1>7 DEF QueueStep

(* Where the elements of the queues come from.                             *)
LEMMA QueueStepElements ==
  ASSUME QueueTypes, QueueStep, NEW t \in Sessions
  PROVE  /\ next_xid[t] <= next_xid'[t] /\ next_xid'[t] \in 1 .. MaxXid + 1
         /\ \A p \in Elements(dispatch_queue'[t]) :
              p \in Elements(dispatch_queue[t])
              \/ (p.xid \in Numbered => next_xid[t] <= p.xid)
         /\ Elements(requests_queue'[t])
              \subseteq Elements(requests_queue[t]) \cup Elements(dispatch_queue[t])
         /\ Elements(pending_requests'[t])
              \subseteq Elements(pending_requests[t]) \cup Elements(requests_queue[t])
<1>2. /\ pending_requests[t] \in Seq(Request) /\ requests_queue[t] \in Seq(Request)
      /\ dispatch_queue[t] \in Seq(Request) /\ next_xid[t] \in 1 .. MaxXid + 1
      /\ next_xid[t] \in Nat
  BY ProcessorAssumption DEF QueueTypes
<1>3. CASE Renumbered
  BY <1>3 DEF Renumbered, Raised
<1>4. ASSUME NEW s \in Sessions, Dropped(s)
      PROVE  /\ next_xid' = next_xid /\ dispatch_queue' = dispatch_queue
             /\ requests_queue' = requests_queue
             /\ Elements(pending_requests'[t]) \subseteq Elements(pending_requests[t])
  BY <1>2, <1>4, PartElements DEF Dropped, QueueTypes
<1>5. ASSUME NEW s \in Sessions, Moved(s)
      PROVE  /\ next_xid' = next_xid /\ dispatch_queue' = dispatch_queue
             /\ Elements(requests_queue'[t]) \subseteq Elements(requests_queue[t])
             /\ Elements(pending_requests'[t])
                  \subseteq Elements(pending_requests[t]) \cup Elements(requests_queue[t])
  <2>1. CASE t = s
    <3>1. /\ Head(requests_queue[s]) \in Elements(requests_queue[s])
          /\ Elements(Tail(requests_queue[s])) \subseteq Elements(requests_queue[s])
      BY <1>2, <1>5, <2>1, HeadElement, TailPart, PartElements DEF Moved
    <3>2. Elements(Append(pending_requests[s], Head(requests_queue[s])))
            = Elements(pending_requests[s]) \cup {Head(requests_queue[s])}
      BY <1>2, <2>1, AppendElements
    <3>. QED BY <1>5, <2>1, <3>1, <3>2 DEF Moved, QueueTypes
  <2>2. CASE t # s
    BY <1>5, <2>2 DEF Moved, QueueTypes
  <2>. QED BY <2>1, <2>2
<1>6. ASSUME NEW s \in Sessions, Taken(s)
      PROVE  /\ next_xid' = next_xid /\ pending_requests' = pending_requests
             /\ Elements(dispatch_queue'[t]) \subseteq Elements(dispatch_queue[t])
             /\ Elements(requests_queue'[t])
                  \subseteq Elements(requests_queue[t]) \cup Elements(dispatch_queue[t])
  <2>1. CASE t = s
    <3>1. /\ Head(dispatch_queue[s]) \in Elements(dispatch_queue[s])
          /\ Elements(Tail(dispatch_queue[s])) \subseteq Elements(dispatch_queue[s])
      BY <1>2, <1>6, <2>1, HeadElement, TailPart, PartElements DEF Taken
    <3>2. Elements(Append(requests_queue[s], Head(dispatch_queue[s])))
            = Elements(requests_queue[s]) \cup {Head(dispatch_queue[s])}
      BY <1>2, <2>1, AppendElements
    <3>. QED BY <1>6, <2>1, <3>1, <3>2 DEF Taken, QueueTypes
  <2>2. CASE t # s
    BY <1>6, <2>2 DEF Taken, QueueTypes
  <2>. QED BY <2>1, <2>2
<1>7. ASSUME NEW s \in Sessions, NEW r \in Request, Entered(s, r)
      PROVE  /\ next_xid[t] <= next_xid'[t] /\ next_xid'[t] \in 1 .. MaxXid + 1
             /\ \A p \in Elements(dispatch_queue'[t]) :
                  p \in Elements(dispatch_queue[t])
                  \/ (p.xid \in Numbered => next_xid[t] <= p.xid)
             /\ UNCHANGED <<pending_requests, requests_queue>>
  <2>1. Elements(Append(dispatch_queue[t], r)) = Elements(dispatch_queue[t]) \cup {r}
    BY <1>2, AppendElements
  <2>. QED BY <1>2, <1>7, <2>1 DEF Entered, Raised, QueueTypes
<1>. QED BY <1>2, <1>3, <1>4, <1>5, <1>6, <1>7 DEF QueueStep

(* What is settled stays settled, what has passed stays passed: new        *)
(* requests have new xids.                                                 *)
LEMMA QueueStepKeeps ==
  ASSUME QueueTypes, QueueStep
  PROVE  /\ \A s \in Sessions : \A x : Settled(s, x) => Settled(s, x)'
         /\ \A r \in Request : Passed(r) => Passed(r)'
<1>1. ASSUME NEW s \in Sessions, NEW x \in Numbered, x < next_xid[s],
             Lacks(dispatch_queue[s], x)
      PROVE  x < next_xid'[s] /\ Lacks(dispatch_queue'[s], x)
  <2>1. next_xid[s] \in 1 .. MaxXid + 1 /\ MaxXid \in Nat
    BY ProcessorAssumption DEF QueueTypes
  <2>. QED BY <1>1, <2>1, QueueStepElements DEF Lacks, Numbered
<1>2. ASSUME NEW s \in Sessions, NEW x, Settled(s, x) PROVE Settled(s, x)'
  BY <1>1, <1>2, QueueStepElements DEF Settled, Gone, Lacks
<1>3. ASSUME NEW r \in Request, Passed(r) PROVE Passed(r)'
  BY <1>1, <1>3 DEF Passed, Request
<1>. QED BY <1>2, <1>3
-----------------------------------------------------------------------------
(* Every step of the server is one of these.                               *)
LEMMA QueuesUntouched ==
  ASSUME QueueTypes, UNCHANGED <<pending_requests, requests_queue, dispatch_queue, next_xid>>
  PROVE  QueueStep
<1>1. \A s \in Sessions : next_xid[s] \in Nat
  BY ProcessorAssumption DEF QueueTypes
<1>. QED BY <1>1 DEF QueueTypes, QueueStep, Renumbered, Raised

(* What stays pending after a committed request is a part of what was      *)
(* pending.                                                                *)
LEMMA AfterMatchPart ==
  ASSUME NEW q \in Seq(Request), NEW r
  PROVE  PartOf(AfterMatch(q, r), q)
<1> DEFINE Match(p) == p.xid = r.xid \/ BothClose(p, r)
           first    == FirstAt(q, Match)
<1>1. CASE first = {}
  BY <1>1, EmptyPart DEF AfterMatch
<1>2. CASE first # {}
  <2>1. PICK k : k = (CHOOSE i \in first : TRUE)
    OBVIOUS
  <2>2. k \in first
    BY <1>2, <2>1
  <2>3. k \in 1 .. Len(q)
    BY <2>2 DEF FirstAt
  <2>4. AfterMatch(q, r) = SubSeq(q, k + 1, Len(q))
    BY <1>2, <2>1 DEF AfterMatch
  <2>. QED BY <2>3, <2>4, SuffixPart
<1>. QED BY <1>1, <1>2

(* Erasing pending requests is a queue step.                               *)
LEMMA DropIsStep ==
  ASSUME NEW s \in Sessions, NEW a \in Seq(Request), PartOf(a, pending_requests[s]),
         pending_requests' = [pending_requests EXCEPT ![s] = a],
         UNCHANGED <<requests_queue, dispatch_queue, next_xid>>
  PROVE  QueueStep
BY DEF QueueStep, Dropped

(* The steps of the processor.                                             *)
LEMMA RunQueueStep ==
  ASSUME FullInv, Run, UNCHANGED <<dispatch_queue, next_xid>>
  PROVE  QueueStep
<1>0. QueueTypes /\ ProcTypeOK /\ SizeStillThere
  BY QueueTypesHold DEF FullInv, ProcInv
<1>1. CASE WakeUp \/ WaitTimeout \/ ErrorsDone \/ TakeSizes \/ RunnersDone \/ CommittedDone
  BY <1>0, <1>1, QueuesUntouched
     DEF WakeUp, WaitTimeout, StartIteration, ErrorsDone, TakeSizes, RunnersDone, CommittedDone
<1>2. CASE ProcessErrorRequest
  <2>1. PICK e : e = Head(errors)
    OBVIOUS
  <2>2. e \in ErrorRequest /\ e.session \in Sessions
        /\ pending_requests[e.session] \in Seq(Request)
        /\ UNCHANGED requests_queue
    <3>1. errors \in Seq(ErrorRequest) /\ errors # <<>> /\ UNCHANGED requests_queue
      BY <1>0, <1>2 DEF ProcTypeOK, ProcessErrorRequest
    <3>2. e \in ErrorRequest
      BY ONLY <2>1, <3>1, HeadTailProperties
    <3>. QED BY <1>0, <3>1, <3>2 DEF ProcTypeOK, ErrorRequest
  <2>3. CASE ErrorOfRemoteSession(e)
    BY <2>2, <2>3, EmptyPart, EmptySeq, DropIsStep DEF ErrorOfRemoteSession
  <2>4. CASE ErrorOfAuth(e) \/ ErrorNotFound(e)
    BY <1>0, <2>2, <2>4, QueuesUntouched DEF ErrorOfAuth, ErrorNotFound
  <2>5. CASE ErrorMatched(e)
    <3>1. PICK i \in ErrorMatch(e) :
            pending_requests' = [pending_requests EXCEPT ![e.session] =
                                   Without(pending_requests[e.session], i)]
      BY <2>5 DEF ErrorMatched
    <3>2. i \in 1 .. Len(pending_requests[e.session])
      BY <3>1 DEF ErrorMatch, FirstAt
    <3>. QED BY <2>2, <3>1, <3>2, WithoutPart, WithoutType, DropIsStep
  <2>. QED BY <1>2, <2>1, <2>3, <2>4, <2>5 DEF ProcessErrorRequest
<1>3. ASSUME NEW s \in Sessions, MoveRequest(s) PROVE QueueStep
  BY <1>0, <1>3 DEF MoveRequest, QueueStep, Moved, QueueTypes
<1>4. ASSUME NEW s \in Sessions, ReadRequest(s) PROVE QueueStep
  <2>1. pending_requests[s] \in Seq(Request) /\ pending_requests[s] # <<>>
    BY <1>0, <1>4 DEF ReadRequest, HeadIsRead, QueueTypes
  <2>. QED BY <1>4, <2>1, TailPart, HeadTailProperties, DropIsStep DEF ReadRequest
<1>5. CASE ProcessCommittedRequest
  <2>1. PICK r : r = Head(committed_queue)
    OBVIOUS
  <2>2. r \in Request /\ r.session \in Sessions
        /\ pending_requests[r.session] \in Seq(Request)
        /\ UNCHANGED requests_queue
    <3>1. committed_queue \in Seq(Request) /\ Len(committed_queue) > 0
      BY <1>0, <1>5, LenProperties DEF ProcTypeOK, ProcessCommittedRequest, SizeStillThere
    <3>2. r \in Request
      BY <2>1, <3>1, HeadTailProperties
    <3>. QED BY <1>0, <1>5, <3>2 DEF ProcTypeOK, ProcessCommittedRequest, Request
  <2>3. CASE CommittedRemote(r)
    BY <2>2, <2>3, EmptyPart, EmptySeq, DropIsStep DEF CommittedRemote
  <2>4. CASE CommittedLocal(r)
    BY <2>2, <2>4, AfterMatchPart, AfterMatchType, DropIsStep DEF CommittedLocal
  <2>5. CASE CommittedWaits(r)
    BY <1>0, <2>2, <2>5, QueuesUntouched DEF CommittedWaits
  <2>. QED BY <1>5, <2>1, <2>3, <2>4, <2>5 DEF ProcessCommittedRequest
<1>. QED BY <1>1, <1>2, <1>3, <1>4, <1>5 DEF Run

(* A new request is a queue step.                                          *)
LEMMA EnterIsStep ==
  ASSUME QueueTypes, NEW r \in Request, WellFormed(r), Enter(r), Raised,
         r.xid \in Numbered => next_xid[r.session] <= r.xid
                               /\ r.xid < next_xid'[r.session],
         UNCHANGED <<pending_requests, requests_queue>>
  PROVE  QueueStep
BY DEF QueueStep, Entered, Enter, Request

(* The steps of the clients and of the session cleaner.                    *)
LEMMA ClientQueueStep ==
  ASSUME FullInv, NEW s \in Sessions,
         \/ \E kind \in ClientKinds : PutRequest(s, kind)
         \/ PutForwardingRequest(s) \/ CleanSession(s)
         \/ Disconnect(s) \/ Handshake(s) \/ Reconnect(s)
  PROVE  QueueStep
<1>0. QueueTypes /\ next_xid[s] \in 1 .. MaxXid + 1 /\ MaxXid \in Nat \ {0}
  BY QueueTypesHold, ProcessorAssumption DEF QueueTypes
<1>1. ASSUME NEW kind \in ClientKinds, PutRequest(s, kind) PROVE QueueStep
  <2> DEFINE r == [session |-> s, xid |-> IF kind = "auth" THEN AuthXid ELSE next_xid[s],
                   kind |-> kind]
  <2>1. next_xid[s] \in 1 .. MaxXid
    BY <1>0, <1>1 DEF PutRequest, Closing
  <2>2. r \in Request
    BY <1>0, <2>1, PipelineAssumption DEF Request, Xids, CloseXid
  <2>3. WellFormed(r)
    BY <1>0, <2>1 DEF WellFormed, AuthXid, CloseXid
  <2>4. Raised /\ (kind # "auth" => next_xid[s] < next_xid'[s])
    <3>1. \A t \in Sessions : next_xid[t] \in 1 .. MaxXid + 1 /\ next_xid[t] \in Nat
      BY <1>0 DEF QueueTypes
    <3>2. CASE kind = "auth"
      BY <1>0, <1>1, <3>1, <3>2 DEF PutRequest, Raised, QueueTypes
    <3>3. CASE kind # "auth"
      <4>1. PICK n \in 1 .. MaxXid + 1 : n > next_xid[s] /\ next_xid' = [next_xid EXCEPT ![s] = n]
        BY <1>0, <1>1, <2>1, <3>3 DEF PutRequest
      <4>. QED BY <1>0, <3>1, <4>1 DEF Raised, QueueTypes
    <3>. QED BY <3>2, <3>3
  <2>5. r.xid \in Numbered => next_xid[s] <= r.xid /\ r.xid < next_xid'[s]
    BY <2>1, <2>4 DEF Numbered, AuthXid
  <2>6. Enter(r) /\ UNCHANGED <<pending_requests, requests_queue>> /\ r.session = s
    BY <1>1 DEF PutRequest, procVars
  <2> HIDE DEF r
  <2>. QED BY <1>0, <2>2, <2>3, <2>4, <2>5, <2>6, EnterIsStep
<1>2. CASE PutForwardingRequest(s)
  <2> DEFINE r == [session |-> s, xid |-> next_xid[s], kind |-> "write"]
  <2>1. next_xid[s] \in 1 .. MaxXid
    BY <1>0, <1>2 DEF PutForwardingRequest
  <2>2. r \in Request
    BY <1>0, <2>1 DEF Request, Xids, CloseXid, Kinds
  <2>3. WellFormed(r)
    BY <1>0, <2>1 DEF WellFormed, AuthXid, CloseXid
  <2>4. Raised /\ next_xid[s] < next_xid'[s]
    BY <1>0, <1>2, <2>1 DEF PutForwardingRequest, Raised, QueueTypes
  <2>5. r.xid \in Numbered => next_xid[s] <= r.xid /\ r.xid < next_xid'[s]
    BY <2>1, <2>4 DEF Numbered
  <2>6. Enter(r) /\ UNCHANGED <<pending_requests, requests_queue>> /\ r.session = s
    BY <1>2 DEF PutForwardingRequest, procVars
  <2> HIDE DEF r
  <2>. QED BY <1>0, <2>2, <2>3, <2>4, <2>5, <2>6, EnterIsStep
<1>3. CASE CleanSession(s)
  <2> DEFINE r == [session |-> s, xid |-> CloseXid, kind |-> "close"]
  <2>2. r \in Request
    BY <1>0 DEF Request, Xids, CloseXid, Kinds
  <2>3. WellFormed(r) /\ r.xid \notin Numbered
    BY <1>0 DEF WellFormed, AuthXid, CloseXid, Numbered
  <2>4. Raised
    <3>1. \A t \in Sessions : next_xid[t] \in Nat
      BY <1>0 DEF QueueTypes
    <3>. QED BY <1>0, <1>3, <3>1 DEF CleanSession, Raised, QueueTypes
  <2>6. Enter(r) /\ UNCHANGED <<pending_requests, requests_queue>> /\ r.session = s
    BY <1>3 DEF CleanSession, procVars
  <2> HIDE DEF r
  <2>. QED BY <1>0, <2>2, <2>3, <2>4, <2>6, EnterIsStep
<1>4. CASE Disconnect(s) \/ Handshake(s) \/ Reconnect(s)
  BY <1>0, <1>4, QueuesUntouched
     DEF Disconnect, Handshake, Reconnect, SetLocal, procVars, dispatchVars
<1>. QED BY <1>1, <1>2, <1>3, <1>4

(* The steps of the server.                                                *)
LEMMA NextQueueStep ==
  ASSUME FullInv, QueuesInOrder, [Next]_vars
  PROVE  QueueStep
<1>0. QueueTypes
  BY QueueTypesHold
<1> DEFINE Untouched == UNCHANGED <<pending_requests, requests_queue, dispatch_queue, next_xid>>
<1>1. CASE Processor
  BY <1>1, RunQueueStep DEF Processor, pipeVars, dispatchVars
<1>2. ASSUME NEW s \in Sessions, TakeRequest(s) PROVE QueueStep
  <2>1. /\ dispatch_queue[s] \in Seq(Request) /\ dispatch_queue[s] # <<>>
        /\ OfSession(dispatch_queue[s], s)
    BY <1>0, <1>2 DEF TakeRequest, QueueTypes, QueuesInOrder, InOrder
  <2>2. Head(dispatch_queue[s]).session = s
    BY <2>1, HeadElement DEF OfSession
  <2>. QED BY <1>2, <2>2 DEF TakeRequest, Push, procVars, QueueStep, Taken
<1>3. ASSUME NEW s \in Sessions,
             FinishSession(s) \/ LookAtLeaderAlive(s) \/ RouteByLeader(s) \/ LookAgain(s)
             \/ SetResponse(s)
      PROVE  Untouched
  BY <1>3 DEF FinishSession, LookAtLeaderAlive, RouteByLeader, LookAgain, Enqueue,
              SetResponse, SetLocal, procVars
<1>4. CASE Accumulator \/ BatchTimeout
  <2>1. Untouched
    BY <1>4 DEF Accumulator, Accumulate, PutRequestBatch, BatchCommitted, BatchCancelled,
                ReportFailure, BatchTimeout, OnError, procVars, dispatchVars
  <2>. QED BY <1>0, <2>1, QueuesUntouched
<1>5. ASSUME NEW s \in Sessions,
             ForwardSend(s) \/ ForwardRefused(s) \/ LeaderAppends(s)
             \/ ForwardFail(s) \/ LeaderRefuses(s) \/ ConnectionLost(s)
      PROVE  Untouched
  BY <1>5 DEF ForwardSend, ForwardRefused, LeaderAppends, ForwardFail, LeaderRefuses,
              ConnectionLost, OnError, procVars, dispatchVars
<1>6. CASE RaftCommit \/ LeaderChange
  <2>1. Untouched
    BY <1>6 DEF RaftCommit, Commit, LeaderChange, SetLeaderAlive, dispatchVars
  <2>. QED BY <1>0, <2>1, QueuesUntouched
<1>7. ASSUME NEW s \in Sessions, RemoteAppend(s) PROVE QueueStep
  <2>1. \A t \in Sessions : next_xid[t] \in 1 .. MaxXid + 1 /\ next_xid[t] \in Nat
    BY <1>0, ProcessorAssumption DEF QueueTypes
  <2>2. next_xid[s] \in 1 .. MaxXid /\ next_xid' = [next_xid EXCEPT ![s] = @ + 1]
    BY <1>7, <2>1 DEF RemoteAppend
  <2>3. Raised
    BY <1>0, <2>1, <2>2, ProcessorAssumption DEF Raised, QueueTypes
  <2>. QED BY <1>7, <2>3 DEF RemoteAppend, procVars, QueueStep, Renumbered
<1>8. CASE UNCHANGED vars
  <2>1. Untouched
    BY <1>8 DEF vars, procVars, pipeVars, dispatchVars
  <2>. QED BY <1>0, <2>1, QueuesUntouched
<1>. QED BY <1>0, <1>1, <1>2, <1>3, <1>4, <1>5, <1>6, <1>7, <1>8, ClientQueueStep, QueuesUntouched
         DEF Next, Dispatcher, Forwarder, Clients, Raft, Failures
-----------------------------------------------------------------------------
(***************************************************************************)
(* The requests on their way from the dispatcher to raft's log.  None is a *)
(* read, none is in dispatch_queue any more.                               *)
(***************************************************************************)
OnTheWay(r) ==
  \/ \E s \in Sessions :
       \/ routing[s] # Idle /\ r = routing[s].req
       \/ r \in Elements(fwd_queue[s])
       \/ r \in Elements(fwd_net[s])
  \/ r \in Elements(acc_queue) \/ r \in Elements(acc_batch)
  \/ r \in Elements(raft_log) \/ r \in Elements(log)

WayToRaft == \A r \in Request : OnTheWay(r) => Passed(r)

(* The elements of a concatenation.                                        *)
LEMMA ConcatElements ==
  ASSUME NEW S, NEW a \in Seq(S), NEW b \in Seq(S)
  PROVE  Elements(a \o b) = Elements(a) \cup Elements(b)
<1>1. /\ Len(a) \in Nat /\ Len(b) \in Nat /\ Len(a \o b) = Len(a) + Len(b)
      /\ \A i \in 1 .. Len(a) + Len(b) :
           (a \o b)[i] = IF i <= Len(a) THEN a[i] ELSE b[i - Len(a)]
  BY ConcatProperties, LenProperties
<1>2. ASSUME NEW i \in 1 .. Len(a \o b) PROVE (a \o b)[i] \in Elements(a) \cup Elements(b)
  <2>1. CASE i <= Len(a)
    BY <1>1, <2>1 DEF Elements
  <2>2. CASE ~(i <= Len(a))
    <3>1. i - Len(a) \in 1 .. Len(b) /\ (a \o b)[i] = b[i - Len(a)]
      BY <1>1, <2>2
    <3>. QED BY <3>1 DEF Elements
  <2>. QED BY <2>1, <2>2
<1>3. ASSUME NEW i \in 1 .. Len(a) PROVE a[i] \in Elements(a \o b)
  <2>1. i \in 1 .. Len(a \o b) /\ (a \o b)[i] = a[i]
    BY <1>1
  <2>. QED BY <2>1 DEF Elements
<1>4. ASSUME NEW i \in 1 .. Len(b) PROVE b[i] \in Elements(a \o b)
  <2>1. Len(a) + i \in 1 .. Len(a \o b) /\ (a \o b)[Len(a) + i] = b[i]
    BY <1>1
  <2>. QED BY <2>1 DEF Elements
<1>. QED BY <1>2, <1>3, <1>4 DEF Elements

(* A prefix has no other elements.                                         *)
LEMMA PrefixElements ==
  ASSUME NEW S, NEW q \in Seq(S), NEW n \in 0 .. Len(q)
  PROVE  Elements(SubSeq(q, 1, n)) \subseteq Elements(q)
<1>1. Len(q) \in Nat /\ \A j \in 1 .. n : q[j] \in S
  BY ElementOfSeq, LenProperties
<1>2. /\ Len(SubSeq(q, 1, n)) = IF 1 <= n THEN n - 1 + 1 ELSE 0
      /\ \A i \in 1 .. n - 1 + 1 : SubSeq(q, 1, n)[i] = q[1 + i - 1]
  BY <1>1, SubSeqProperties
<1>3. Len(SubSeq(q, 1, n)) = n /\ \A i \in 1 .. n : SubSeq(q, 1, n)[i] = q[i] /\ i \in 1 .. Len(q)
  BY <1>1, <1>2
<1>. QED BY <1>3 DEF Elements

(* Head and tail are made of the queue's elements.                         *)
LEMMA PopElements ==
  ASSUME NEW S, NEW q \in Seq(S), q # <<>>
  PROVE  Head(q) \in Elements(q) /\ Elements(Tail(q)) \subseteq Elements(q)
BY HeadElement, TailPart, PartElements

(* The empty queue has no elements.                                        *)
LEMMA NoElements == Elements(<<>>) = {}
<1>1. Len(<<>>) = 0 /\ 1 .. 0 = {}
  OBVIOUS
<1>. QED BY <1>1 DEF Elements

(* Requests get on the way only from the head of dispatch_queue and, for   *)
(* sessions of other servers, through other leaders.                       *)
GotOn(r) ==
  \E s \in Sessions :
    \/ TakeRequest(s) /\ r = Head(dispatch_queue[s]) /\ ~IsRead(r)
    \/ RemoteAppend(s) /\ r = [session |-> s, xid |-> next_xid[s], kind |-> "write"]

(* Routing hands a request on, to the accumulator or to the forwarder.     *)
LEMMA WayDispatcher ==
  ASSUME PipeTypes, NEW s \in Sessions,
         TakeRequest(s) \/ LookAtLeaderAlive(s) \/ RouteByLeader(s) \/ LookAgain(s),
         log' = log, NEW r \in Request, OnTheWay(r)'
  PROVE  OnTheWay(r) \/ GotOn(r)
<1>0. /\ routing \in [Sessions -> {Idle} \cup [at : {"alive?", "leader?", "dead?"}, req : Request]]
      /\ acc_queue \in Seq(Request) /\ fwd_queue \in [Sessions -> Seq(Request)]
  BY DEF PipeTypes
<1>1. CASE TakeRequest(s)
  BY <1>0, <1>1 DEF TakeRequest, accVars, fwdVars, raftVars, OnTheWay, GotOn
<1>2. CASE LookAtLeaderAlive(s)
  BY <1>0, <1>2 DEF LookAtLeaderAlive, accVars, fwdVars, raftVars, OnTheWay, Idle
<1>3. ASSUME NEW b, NEW c, Enqueue(s, b, c), routing[s] # Idle
      PROVE  OnTheWay(r)
  <2>1. PICK req \in Request : req = routing[s].req
    BY <1>0, <1>3
  <2>2. /\ Elements(Append(acc_queue, req)) = Elements(acc_queue) \cup {req}
        /\ Elements(Append(fwd_queue[s], req)) = Elements(fwd_queue[s]) \cup {req}
    BY <1>0, AppendElements
  <2>. QED BY <1>0, <1>3, <2>1, <2>2 DEF Enqueue, raftVars, OnTheWay
<1>4. CASE RouteByLeader(s) \/ LookAgain(s)
  <2>1. routing[s] # Idle
    <3>1. Idle.at = "idle"
      BY DEF Idle
    <3>2. routing[s].at \in {"leader?", "dead?"}
      BY <1>4 DEF RouteByLeader, LookAgain
    <3>. QED BY <3>1, <3>2
  <2>2. CASE RouteByLeader(s)
    BY <1>3, <2>1, <2>2 DEF RouteByLeader
  <2>3. CASE LookAgain(s)
    BY <1>3, <2>1, <2>3 DEF LookAgain
  <2>. QED BY <1>4, <2>2, <2>3
<1>. QED BY <1>1, <1>2, <1>4

(* The accumulator hands requests on to raft, or drops them.               *)
LEMMA WayAccumulator ==
  ASSUME PipeTypes,
         Accumulate \/ PutRequestBatch \/ BatchCommitted \/ BatchCancelled
         \/ ReportFailure \/ BatchTimeout,
         log' = log, NEW r \in Request, OnTheWay(r)'
  PROVE  OnTheWay(r)
<1>0. /\ acc_queue \in Seq(Request) /\ acc_batch \in Seq(Request) /\ raft_log \in Seq(Request)
      /\ acc_state # "filling" => acc_batch # <<>>
  BY DEF PipeTypes
<1>1. CASE Accumulate
  <2>1. /\ Head(acc_queue) \in Elements(acc_queue)
        /\ Elements(Tail(acc_queue)) \subseteq Elements(acc_queue)
        /\ Elements(Append(acc_batch, Head(acc_queue)))
             = Elements(acc_batch) \cup {Head(acc_queue)}
    BY <1>0, <1>1, PopElements, AppendElements DEF Accumulate
  <2>. QED BY <1>1, <2>1 DEF Accumulate, dispatchVars, fwdVars, raftVars, OnTheWay
<1>2. CASE PutRequestBatch
  <2>1. Elements(raft_log \o acc_batch) = Elements(raft_log) \cup Elements(acc_batch)
    BY <1>0, ConcatElements
  <2>. QED BY <1>2, <2>1 DEF PutRequestBatch, dispatchVars, fwdVars, OnTheWay
<1>3. CASE BatchCommitted
  BY <1>3, NoElements DEF BatchCommitted, dispatchVars, fwdVars, raftVars, OnTheWay
<1>4. CASE BatchCancelled \/ BatchTimeout
  BY <1>4 DEF BatchCancelled, BatchTimeout, dispatchVars, fwdVars, raftVars, OnTheWay
<1>5. CASE ReportFailure
  <2>1. Elements(Tail(acc_batch)) \subseteq Elements(acc_batch)
    BY <1>0, <1>5, PopElements DEF ReportFailure
  <2>. QED BY <1>5, <2>1 DEF ReportFailure, dispatchVars, fwdVars, raftVars, OnTheWay
<1>. QED BY <1>1, <1>2, <1>3, <1>4, <1>5

(* The forwarder hands requests on to the leader, or drops them.           *)
LEMMA WayForwarder ==
  ASSUME PipeTypes, NEW s \in Sessions,
         \/ ForwardSend(s) \/ ForwardRefused(s) \/ LeaderAppends(s)
         \/ ForwardFail(s) \/ LeaderRefuses(s) \/ ConnectionLost(s),
         log' = log, NEW r \in Request, OnTheWay(r)'
  PROVE  OnTheWay(r)
<1>0. /\ fwd_queue \in [Sessions -> Seq(Request)] /\ fwd_net \in [Sessions -> Seq(Request)]
      /\ raft_log \in Seq(Request)
  BY DEF PipeTypes
<1>1. CASE ForwardSend(s)
  <2>1. /\ Head(fwd_queue[s]) \in Elements(fwd_queue[s])
        /\ Elements(Tail(fwd_queue[s])) \subseteq Elements(fwd_queue[s])
        /\ Elements(Append(fwd_net[s], Head(fwd_queue[s])))
             = Elements(fwd_net[s]) \cup {Head(fwd_queue[s])}
    BY <1>0, <1>1, PopElements, AppendElements DEF ForwardSend
  <2>. QED BY <1>0, <1>1, <2>1 DEF ForwardSend, dispatchVars, accVars, raftVars, OnTheWay
<1>2. CASE ForwardRefused(s)
  BY <1>2 DEF ForwardRefused, dispatchVars, accVars, raftVars, OnTheWay
<1>3. CASE ForwardFail(s)
  <2>1. Elements(Tail(fwd_queue[s])) \subseteq Elements(fwd_queue[s])
    BY <1>0, <1>3, PopElements DEF ForwardFail
  <2>. QED BY <1>0, <1>3, <2>1 DEF ForwardFail, dispatchVars, accVars, raftVars, OnTheWay
<1>4. CASE LeaderAppends(s)
  <2>1. /\ Head(fwd_net[s]) \in Elements(fwd_net[s])
        /\ Elements(Tail(fwd_net[s])) \subseteq Elements(fwd_net[s])
        /\ Elements(Append(raft_log, Head(fwd_net[s])))
             = Elements(raft_log) \cup {Head(fwd_net[s])}
    BY <1>0, <1>4, PopElements, AppendElements DEF LeaderAppends
  <2>. QED BY <1>0, <1>4, <2>1 DEF LeaderAppends, dispatchVars, accVars, OnTheWay
<1>5. CASE LeaderRefuses(s)
  <2>1. Elements(Tail(fwd_net[s])) \subseteq Elements(fwd_net[s])
    BY <1>0, <1>5, PopElements DEF LeaderRefuses
  <2>. QED BY <1>0, <1>5, <2>1 DEF LeaderRefuses, dispatchVars, accVars, raftVars, OnTheWay
<1>6. CASE ConnectionLost(s)
  BY <1>0, <1>6, NoElements DEF ConnectionLost, dispatchVars, accVars, raftVars, OnTheWay
<1>. QED BY <1>1, <1>2, <1>3, <1>4, <1>5, <1>6

(* No other step puts a request on the way.                                *)
LEMMA WayNext ==
  ASSUME FullInv, [Next]_vars, NEW r \in Request, OnTheWay(r)'
  PROVE  OnTheWay(r) \/ GotOn(r)
<1>0. /\ PipeTypes /\ raft_log \in Seq(Request) /\ log \in Seq(Request)
  BY DEF FullInv, ProcInv, ProcTypeOK, PipeTypes
<1> DEFINE Still == UNCHANGED <<routing, fwd_queue, fwd_net, acc_queue, acc_batch, raft_log, log>>
<1>1. ASSUME Still PROVE OnTheWay(r)
  BY <1>1 DEF OnTheWay
<1>2. CASE Processor
  <2>1. Still
    BY <1>2 DEF Processor, pipeVars, dispatchVars, accVars, fwdVars, raftVars, Run, WakeUp,
                WaitTimeout, StartIteration, ProcessErrorRequest, ErrorsDone, TakeSizes,
                MoveRequest, ReadRequest, RunnersDone, ProcessCommittedRequest, CommittedDone
  <2>. QED BY <1>1, <2>1
<1>3. ASSUME NEW s \in Sessions,
             TakeRequest(s) \/ LookAtLeaderAlive(s) \/ RouteByLeader(s) \/ LookAgain(s)
      PROVE  OnTheWay(r) \/ GotOn(r)
  <2>1. log' = log
    BY <1>3 DEF TakeRequest, Push, LookAtLeaderAlive, RouteByLeader, LookAgain, Enqueue, procVars
  <2>. QED BY <1>0, <1>3, <2>1, WayDispatcher
<1>4. ASSUME NEW s \in Sessions, FinishSession(s) \/ SetResponse(s) PROVE OnTheWay(r)
  BY <1>1, <1>4 DEF FinishSession, SetResponse, SetLocal, procVars, accVars, fwdVars, raftVars
<1>5. CASE Accumulator \/ BatchTimeout
  <2>1. log' = log
    BY <1>5 DEF Accumulator, Accumulate, PutRequestBatch, BatchCommitted, BatchCancelled,
                ReportFailure, BatchTimeout, OnError, procVars
  <2>. QED BY <1>0, <1>5, <2>1, WayAccumulator DEF Accumulator
<1>6. ASSUME NEW s \in Sessions,
             \/ ForwardSend(s) \/ ForwardRefused(s) \/ LeaderAppends(s)
             \/ ForwardFail(s) \/ LeaderRefuses(s) \/ ConnectionLost(s)
      PROVE  OnTheWay(r)
  <2>1. log' = log
    BY <1>6 DEF ForwardSend, ForwardRefused, LeaderAppends, ForwardFail, LeaderRefuses,
                ConnectionLost, OnError, procVars
  <2>. QED BY <1>0, <1>6, <2>1, WayForwarder
<1>7. ASSUME NEW s \in Sessions,
             \/ \E kind \in ClientKinds : PutRequest(s, kind)
             \/ PutForwardingRequest(s) \/ CleanSession(s)
             \/ Disconnect(s) \/ Handshake(s) \/ Reconnect(s)
      PROVE  OnTheWay(r)
  BY <1>1, <1>7 DEF PutRequest, PutForwardingRequest, CleanSession, Disconnect, Handshake,
                    Reconnect, SetLocal, procVars, dispatchVars, accVars, fwdVars, raftVars
<1>8. CASE RaftCommit
  <2>1. /\ Head(raft_log) \in Elements(raft_log)
        /\ Elements(Tail(raft_log)) \subseteq Elements(raft_log)
        /\ Elements(Append(log, Head(raft_log))) = Elements(log) \cup {Head(raft_log)}
    BY <1>0, <1>8, PopElements, AppendElements DEF RaftCommit
  <2>. QED BY <1>8, <2>1 DEF RaftCommit, Commit, dispatchVars, accVars, fwdVars, OnTheWay
<1>9. CASE LeaderChange
  <2>1. Elements(raft_log') \subseteq Elements(raft_log)
    BY <1>0, <1>9, PrefixElements DEF LeaderChange
  <2>. QED BY <1>9, <2>1 DEF LeaderChange, SetLeaderAlive, dispatchVars, accVars, fwdVars, OnTheWay
<1>10. ASSUME NEW s \in Sessions, RemoteAppend(s) PROVE OnTheWay(r) \/ GotOn(r)
  <2>1. PICK w : w = [session |-> s, xid |-> next_xid[s], kind |-> "write"]
    OBVIOUS
  <2>2. Elements(Append(raft_log, w)) = Elements(raft_log) \cup {w}
    BY <1>0, AppendElements
  <2>3. OnTheWay(r) \/ r = w
    BY <1>10, <2>1, <2>2 DEF RemoteAppend, procVars, accVars, fwdVars, OnTheWay
  <2>. QED BY <1>10, <2>1, <2>3 DEF GotOn
<1>11. CASE UNCHANGED vars
  BY <1>1, <1>11 DEF vars, procVars, pipeVars, dispatchVars, accVars, fwdVars, raftVars
<1>. QED BY <1>2, <1>3, <1>4, <1>5, <1>6, <1>7, <1>8, <1>9, <1>10, <1>11
         DEF Next, Dispatcher, Forwarder, Clients, Raft, Failures

(* WayToRaft is preserved.                                                 *)
LEMMA WayStep ==
  ASSUME FullInv, QueuesInOrder, WayToRaft, [Next]_vars
  PROVE  WayToRaft'
<1>0. QueueTypes /\ QueueStep
  BY QueueTypesHold, NextQueueStep
<1>1. SUFFICES ASSUME NEW r \in Request, OnTheWay(r)' PROVE Passed(r)'
  BY DEF WayToRaft
<1>2. CASE OnTheWay(r)
  BY <1>0, <1>2, QueueStepKeeps DEF WayToRaft
<1>3. ASSUME NEW s \in Sessions, TakeRequest(s), r = Head(dispatch_queue[s]), ~IsRead(r)
      PROVE  Passed(r)'
  <2>1. /\ dispatch_queue[s] \in Seq(Request) /\ dispatch_queue[s] # <<>>
        /\ OfSession(dispatch_queue[s], s) /\ Ordered(dispatch_queue[s])
        /\ Below(dispatch_queue[s], next_xid[s])
    BY <1>0, <1>3 DEF TakeRequest, QueueTypes, QueuesInOrder, InOrder
  <2>2. r \in Elements(dispatch_queue[s])
    BY <1>3, <2>1, HeadElement
  <2>3. r.session = s /\ WellFormed(r) /\ (r.xid \in Numbered => r.xid < next_xid[s])
    BY <2>1, <2>2 DEF OfSession, Below
  <2>4. dispatch_queue'[s] = Tail(dispatch_queue[s]) /\ next_xid' = next_xid
    BY <1>0, <1>3 DEF TakeRequest, QueueTypes
  <2>5. r.xid \in Numbered => Lacks(Tail(dispatch_queue[s]), r.xid)
    <3>1. \A p \in Elements(Tail(dispatch_queue[s])) : Precedes(r, p)
      BY <1>3, <2>1, HeadPrecedes
    <3>. QED BY <3>1 DEF Precedes, Lacks, Numbered, AuthXid
  <2>. QED BY <1>3, <2>3, <2>4, <2>5 DEF Passed, IsRead
<1>4. ASSUME NEW s \in Sessions, RemoteAppend(s),
             r = [session |-> s, xid |-> next_xid[s], kind |-> "write"]
      PROVE  Passed(r)'
  <2>1. next_xid[s] \in 1 .. MaxXid /\ MaxXid \in Nat
        /\ dispatch_queue' = dispatch_queue /\ next_xid'[s] = next_xid[s] + 1
    BY <1>0, <1>4, ProcessorAssumption DEF RemoteAppend, QueueTypes
  <2>2. WellFormed(r) /\ r.kind # "read" /\ r.session = s /\ r.xid = next_xid[s]
    BY <1>4, <2>1 DEF WellFormed, AuthXid, CloseXid
  <2>3. Lacks(dispatch_queue[s], next_xid[s])
    BY <2>1 DEF QueuesInOrder, InOrder, Below, Lacks, Numbered
  <2>. QED BY <2>1, <2>2, <2>3 DEF Passed
<1>. QED BY <1>1, <1>2, <1>3, <1>4, WayNext DEF GotOn
-----------------------------------------------------------------------------
(***************************************************************************)
(* The size of committed_queue is read before requests_queue is drained:   *)
(* the requests it counts that are still in requests_queue are among those *)
(* the runners have to move, and in none when the runners are done.        *)
(***************************************************************************)
Within(q, x, m) == \A i \in 1 .. Len(q) : q[i].xid = x => i <= m

SizesCover ==
  \A k \in 1 .. count : \A r \in Request :
    r = committed_queue[k] /\ r.xid \in Numbered =>
      /\ phase = "runners" => Within(requests_queue[r.session], r.xid, to_move[r.session])
      /\ phase = "committed" => Lacks(requests_queue[r.session], r.xid)

(* Moving one request brings the others one place forward.                 *)
LEMMA WithinTail ==
  ASSUME NEW S, NEW q \in Seq(S), q # <<>>, NEW x, NEW m \in Nat, Within(q, x, m)
  PROVE  Within(Tail(q), x, IF m > 0 THEN m - 1 ELSE 0)
<1>1. /\ Len(q) \in Nat /\ Len(q) >= 1 /\ Len(Tail(q)) = Len(q) - 1
      /\ \A i \in 1 .. Len(Tail(q)) : Tail(q)[i] = q[i + 1]
  BY EmptySeq, LenProperties, HeadTailProperties
<1>2. SUFFICES ASSUME NEW i \in 1 .. Len(Tail(q)), Tail(q)[i].xid = x
               PROVE  i <= IF m > 0 THEN m - 1 ELSE 0
  BY DEF Within
<1>3. i + 1 \in 1 .. Len(q) /\ q[i + 1].xid = x
  BY <1>1, <1>2
<1>4. i + 1 <= m
  BY <1>3 DEF Within
<1>. QED BY <1>1, <1>4

(* No place left: the request is not there.                                *)
LEMMA WithinNone ==
  ASSUME NEW S, NEW q \in Seq(S), NEW x, Within(q, x, 0)
  PROVE  Lacks(q, x)
<1>1. Len(q) \in Nat
  BY LenProperties
<1>. QED BY <1>1 DEF Within, Lacks, Elements

(* Another request pushed behind changes nothing.                          *)
LEMMA WithinAppend ==
  ASSUME NEW S, NEW q \in Seq(S), NEW p \in S, NEW x, NEW m, p.xid # x
  PROVE  /\ Within(q, x, m) => Within(Append(q, p), x, m)
         /\ Lacks(q, x) => Lacks(Append(q, p), x)
<1>1. /\ Len(q) \in Nat /\ Len(Append(q, p)) = Len(q) + 1
      /\ \A i \in 1 .. Len(q) : Append(q, p)[i] = q[i]
      /\ Append(q, p)[Len(q) + 1] = p
  BY AppendProperties, LenProperties
<1>2. Within(q, x, m) => Within(Append(q, p), x, m)
  BY <1>1 DEF Within
<1>3. Elements(Append(q, p)) = Elements(q) \cup {p}
  BY AppendElements
<1>. QED BY <1>2, <1>3 DEF Lacks

(* What is in committed_queue is in the log.                               *)
LEMMA CommittedOnTheWay ==
  ASSUME FullInv, NEW k \in 1 .. Len(committed_queue)
  PROVE  committed_queue[k] \in Request /\ OnTheWay(committed_queue[k])
<1>1. /\ applied \in Seq(Request) /\ committed_queue \in Seq(Request)
      /\ applied \o committed_queue = log
  BY DEF FullInv, ProcInv, ProcTypeOK, CommittedInOrder
<1>2. committed_queue[k] \in Elements(log)
  <2>1. Elements(log) = Elements(applied) \cup Elements(committed_queue)
    <3>1. applied \in Seq(Request) /\ committed_queue \in Seq(Request)
      BY <1>1
    <3>2. Elements(applied \o committed_queue) = Elements(applied) \cup Elements(committed_queue)
      BY ONLY <3>1, ConcatElements
    <3>. QED BY ONLY <1>1, <3>2
  <2>2. committed_queue[k] \in Elements(committed_queue)
    BY DEF Elements
  <2>. QED BY <2>1, <2>2
<1>3. committed_queue[k] \in Request
  BY <1>1, ElementOfSeq
<1>. QED BY <1>2, <1>3 DEF OnTheWay

(* The steps of the processor preserve SizesCover.                         *)
LEMMA SizesRun ==
  ASSUME FullInv, SizesCover, Run
  PROVE  SizesCover'
<1>0. /\ requests_queue \in [Sessions -> Seq(Request)] /\ to_move \in [Sessions -> Nat]
      /\ committed_queue \in Seq(Request) /\ count \in Nat
      /\ phase \in {"runners", "committed"} => count <= Len(committed_queue)
      /\ \A s \in Sessions : Len(requests_queue[s]) \in Nat
      /\ Len(committed_queue) \in Nat
  BY LenProperties DEF FullInv, ProcInv, ProcTypeOK, SizeStillThere
<1>1. ASSUME phase' \notin {"runners", "committed"} PROVE SizesCover'
  BY <1>1 DEF SizesCover
<1>2. CASE WakeUp \/ WaitTimeout \/ ErrorsDone \/ CommittedDone
  BY <1>1, <1>2 DEF WakeUp, WaitTimeout, StartIteration, ErrorsDone, CommittedDone
<1>3. CASE ProcessErrorRequest
  BY <1>1, <1>3 DEF ProcessErrorRequest, ErrorOfRemoteSession, ErrorOfAuth, ErrorMatched,
                    ErrorNotFound
<1>4. CASE TakeSizes
  <2>1. phase' = "runners" /\ requests_queue' = requests_queue
        /\ to_move' = [s \in Sessions |-> Len(requests_queue[s])]
    BY <1>4 DEF TakeSizes
  <2>2. \A r \in Request : Within(requests_queue[r.session], r.xid, Len(requests_queue[r.session]))
    BY <1>0 DEF Within, Request
  <2>. QED BY <2>1, <2>2 DEF SizesCover, Request
<1>5. ASSUME NEW s \in Sessions, MoveRequest(s) PROVE SizesCover'
  <2>1. /\ phase = "runners" /\ phase' = phase /\ requests_queue[s] # <<>>
        /\ requests_queue' = [requests_queue EXCEPT ![s] = Tail(@)]
        /\ to_move' = [to_move EXCEPT ![s] = IF @ > 0 THEN @ - 1 ELSE 0]
        /\ UNCHANGED <<committed_queue, count>>
    BY <1>5 DEF MoveRequest
  <2>2. SUFFICES ASSUME NEW k \in 1 .. count, NEW r \in Request, r = committed_queue[k],
                        r.xid \in Numbered
                 PROVE  Within(requests_queue'[r.session], r.xid, to_move'[r.session])
    BY <2>1 DEF SizesCover
  <2>3. Within(requests_queue[r.session], r.xid, to_move[r.session]) /\ r.session \in Sessions
    BY <2>1, <2>2 DEF SizesCover, Request
  <2>4. CASE r.session = s
    <3>1. Within(Tail(requests_queue[s]), r.xid, IF to_move[s] > 0 THEN to_move[s] - 1 ELSE 0)
      BY <1>0, <2>1, <2>3, <2>4, WithinTail
    <3>. QED BY <1>0, <2>1, <2>4, <3>1
  <2>5. CASE r.session # s
    BY <1>0, <2>1, <2>3, <2>5
  <2>. QED BY <2>4, <2>5
<1>6. ASSUME NEW s \in Sessions, ReadRequest(s) PROVE SizesCover'
  BY <1>6 DEF ReadRequest, loopVars, SizesCover
<1>7. CASE RunnersDone
  <2>1. /\ phase = "runners" /\ phase' = "committed" /\ \A s \in Sessions : to_move[s] = 0
        /\ UNCHANGED <<committed_queue, count, requests_queue>>
    BY <1>7 DEF RunnersDone
  <2>2. SUFFICES ASSUME NEW k \in 1 .. count, NEW r \in Request, r = committed_queue[k],
                        r.xid \in Numbered
                 PROVE  Lacks(requests_queue[r.session], r.xid)
    BY <2>1 DEF SizesCover
  <2>3. Within(requests_queue[r.session], r.xid, 0) /\ r.session \in Sessions
    BY <2>1, <2>2 DEF SizesCover, Request
  <2>. QED BY <1>0, <2>3, WithinNone
<1>8. CASE ProcessCommittedRequest
  <2>1. PICK w : w = Head(committed_queue)
    OBVIOUS
  <2>2. phase = "committed" /\ count > 0 /\ UNCHANGED requests_queue
    BY <1>8 DEF ProcessCommittedRequest
  <2>3. CASE CommittedWaits(w)
    BY <1>1, <2>3 DEF CommittedWaits
  <2>4. CASE ApplyCommitted(w)
    <3>1. /\ phase' = phase /\ count' = count - 1 /\ committed_queue' = Tail(committed_queue)
          /\ committed_queue # <<>>
      BY <1>0, <2>2, <2>4 DEF ApplyCommitted
    <3>2. Len(Tail(committed_queue)) = Len(committed_queue) - 1
          /\ \A i \in 1 .. Len(Tail(committed_queue)) :
               Tail(committed_queue)[i] = committed_queue[i + 1]
      BY <1>0, <3>1, HeadTailProperties
    <3>3. \A k \in 1 .. count' : k + 1 \in 1 .. count /\ committed_queue'[k] = committed_queue[k + 1]
      BY <1>0, <2>2, <3>1, <3>2
    <3>. QED BY <2>2, <3>1, <3>3 DEF SizesCover
  <2>. QED BY <1>8, <2>1, <2>3, <2>4 DEF ProcessCommittedRequest, CommittedRemote, CommittedLocal
<1>. QED BY <1>2, <1>3, <1>4, <1>5, <1>6, <1>7, <1>8 DEF Run

(* So do the others: what is pushed is not in the log yet.                 *)
LEMMA SizesStep ==
  ASSUME FullInv, QueuesInOrder, WayToRaft, SizesCover, [Next]_vars
  PROVE  SizesCover'
<1>0. /\ requests_queue \in [Sessions -> Seq(Request)] /\ to_move \in [Sessions -> Nat]
      /\ committed_queue \in Seq(Request) /\ count \in Nat
      /\ phase \in {"runners", "committed"} => count <= Len(committed_queue)
      /\ dispatch_queue \in [Sessions -> Seq(Request)]
      /\ Len(committed_queue) \in Nat
  BY LenProperties DEF FullInv, ProcInv, ProcTypeOK, SizeStillThere, PipeTypes
<1> DEFINE Still == UNCHANGED <<requests_queue, committed_queue, loopVars>>
<1>1. ASSUME Still PROVE SizesCover'
  BY <1>1 DEF SizesCover, loopVars
<1>2. CASE Processor
  BY <1>2, SizesRun DEF Processor
<1>3. ASSUME NEW s \in Sessions, TakeRequest(s) PROVE SizesCover'
  <2>1. PICK p : p = Head(dispatch_queue[s])
    OBVIOUS
  <2>2. /\ dispatch_queue[s] \in Seq(Request) /\ dispatch_queue[s] # <<>>
        /\ OfSession(dispatch_queue[s], s)
    BY <1>0, <1>3 DEF TakeRequest, QueuesInOrder, InOrder
  <2>3. p \in Elements(dispatch_queue[s]) /\ p.session = s /\ p \in Request
    BY <2>1, <2>2, HeadElement, HeadTailProperties DEF OfSession
  <2>4. CASE UNCHANGED procVars
    BY <1>1, <2>4 DEF procVars
  <2>5. CASE Push(p)
    <3>1. /\ requests_queue' = [requests_queue EXCEPT ![s] = Append(@, p)]
          /\ UNCHANGED <<committed_queue, count, phase, to_move>>
      BY <2>3, <2>5 DEF Push, loopVars
    <3>2. SUFFICES ASSUME NEW k \in 1 .. count, NEW r \in Request, r = committed_queue[k],
                          r.xid \in Numbered
                   PROVE  /\ phase = "runners" =>
                               Within(requests_queue'[r.session], r.xid, to_move[r.session])
                          /\ phase = "committed" => Lacks(requests_queue'[r.session], r.xid)
      BY <3>1 DEF SizesCover
    <3>3. CASE phase \notin {"runners", "committed"}
      BY <3>3
    <3>4. CASE phase \in {"runners", "committed"}
      <4>1. OnTheWay(r) /\ r.session \in Sessions
        <5>1. k \in 1 .. Len(committed_queue)
          BY <1>0, <3>4
        <5>. QED BY <3>2, <5>1, CommittedOnTheWay DEF Request
      <4>2. Lacks(dispatch_queue[r.session], r.xid)
        BY <3>2, <4>1 DEF WayToRaft, Passed
      <4>3. CASE r.session = s
        <5>1. p.xid # r.xid
          BY <2>3, <4>2, <4>3 DEF Lacks
        <5>. QED BY <1>0, <2>3, <3>1, <3>2, <4>1, <4>3, <5>1, WithinAppend DEF SizesCover
      <4>4. CASE r.session # s
        BY <1>0, <3>1, <3>2, <4>1, <4>4 DEF SizesCover
      <4>. QED BY <4>3, <4>4
    <3>. QED BY <3>3, <3>4
  <2>. QED BY <1>3, <2>1, <2>4, <2>5 DEF TakeRequest
<1>4. ASSUME NEW s \in Sessions,
             FinishSession(s) \/ LookAtLeaderAlive(s) \/ RouteByLeader(s) \/ LookAgain(s)
             \/ SetResponse(s)
      PROVE  Still
  BY <1>4 DEF FinishSession, LookAtLeaderAlive, RouteByLeader, LookAgain, Enqueue,
              SetResponse, SetLocal, procVars
<1>5. CASE Accumulator \/ BatchTimeout \/ LeaderChange
  <2>1. Still
    BY <1>5 DEF Accumulator, Accumulate, PutRequestBatch, BatchCommitted, BatchCancelled,
                ReportFailure, BatchTimeout, OnError, LeaderChange, SetLeaderAlive, procVars
  <2>. QED BY <1>1, <2>1
<1>6. ASSUME NEW s \in Sessions,
             ForwardSend(s) \/ ForwardRefused(s) \/ LeaderAppends(s)
             \/ ForwardFail(s) \/ LeaderRefuses(s) \/ ConnectionLost(s) \/ RemoteAppend(s)
      PROVE  Still
  BY <1>6 DEF ForwardSend, ForwardRefused, LeaderAppends, ForwardFail, LeaderRefuses,
              ConnectionLost, RemoteAppend, OnError, procVars
<1>7. ASSUME NEW s \in Sessions,
             \/ \E kind \in ClientKinds : PutRequest(s, kind)
             \/ PutForwardingRequest(s) \/ CleanSession(s)
             \/ Disconnect(s) \/ Handshake(s) \/ Reconnect(s)
      PROVE  Still
  BY <1>7 DEF PutRequest, PutForwardingRequest, CleanSession, Disconnect, Handshake,
              Reconnect, SetLocal, procVars
<1>8. CASE RaftCommit
  <2>1. /\ raft_log \in Seq(Request) /\ Head(raft_log) \in Request
    BY <1>8, HeadTailProperties DEF FullInv, PipeTypes, RaftCommit
  <2>2. /\ committed_queue' = Append(committed_queue, Head(raft_log))
        /\ UNCHANGED <<requests_queue, count, phase, to_move>>
    BY <1>8 DEF RaftCommit, Commit, loopVars
  <2>3. \A k \in 1 .. Len(committed_queue) : committed_queue'[k] = committed_queue[k]
    BY <1>0, <2>1, <2>2, AppendProperties
  <2>. QED BY <1>0, <2>2, <2>3 DEF SizesCover
<1>9. CASE UNCHANGED vars
  BY <1>1, <1>9 DEF vars, procVars
<1>. QED BY <1>1, <1>2, <1>3, <1>4, <1>5, <1>6, <1>7, <1>8, <1>9
         DEF Next, Dispatcher, Forwarder, Clients, Raft, Failures
-----------------------------------------------------------------------------
(***************************************************************************)
(* The answers.                                                            *)
(***************************************************************************)
AppliedSettled ==
  \A r \in Request : r \in Elements(applied) /\ r.kind = "write" => Settled(r.session, r.xid)

AnsweredSettled ==
  \A s \in Sessions : \A a \in Elements(responses[s]) :
    /\ WellFormed(a)
    /\ a.kind \in {"read", "write"} /\ a.error = "ok" => Settled(s, a.xid)

(* What a step answers to session s.  An error goes only to a request that *)
(* is still queued.                                                        *)
Answer(s, a) ==
  /\ WellFormed(a)
  /\ a.error = "ok" \/ a.xid = AuthXid \/ ~Gone(s, a.xid)
  /\ a.kind \in {"read", "write"} /\ a.error = "ok" => Settled(s, a.xid)'
  /\ a.kind = "read" =>
       \A p \in Elements(pending_requests'[s]) \cup Elements(requests_queue'[s]) :
         p.kind = "auth" \/ p.xid > a.xid

Answers(s) ==
  \/ responses'[s] = responses[s]
  \/ \E a \in Response : responses'[s] = Append(responses[s], a) /\ Answer(s, a)

(* A well-formed read or write is numbered by its client.                  *)
LEMMA ClientNumbered ==
  ASSUME NEW r, r.xid \in Xids, WellFormed(r), r.kind \in {"read", "write"}
  PROVE  r.xid \in Numbered
BY ProcessorAssumption DEF WellFormed, Xids, CloseXid, Numbered

(* Nothing behind the matching request has its xid.                        *)
LEMMA AfterMatchLacks ==
  ASSUME NEW q \in Seq(Request), Ordered(q), NEW r, r.xid \in Numbered, r.kind # "close"
  PROVE  Lacks(AfterMatch(q, r), r.xid)
<1> DEFINE Match(p) == p.xid = r.xid \/ BothClose(p, r)
           first    == FirstAt(q, Match)
<1>1. CASE first = {}
  BY <1>1, NoElements DEF AfterMatch, Lacks
<1>2. CASE first # {}
  <2>1. PICK k : k = (CHOOSE i \in first : TRUE)
    OBVIOUS
  <2>2. k \in first
    BY <1>2, <2>1
  <2>3. k \in 1 .. Len(q) /\ q[k].xid = r.xid
    BY <2>2 DEF FirstAt, BothClose
  <2>4. AfterMatch(q, r) = SubSeq(q, k + 1, Len(q))
    BY <1>2, <2>1 DEF AfterMatch
  <2> HIDE DEF first, Match
  <2>5. /\ Len(SubSeq(q, k + 1, Len(q))) = Len(q) - k
        /\ \A i \in 1 .. Len(q) - k : SubSeq(q, k + 1, Len(q))[i] = q[k + i]
        /\ Len(q) \in Nat
    BY <2>3, SuffixIs, LenProperties
  <2>6. ASSUME NEW i \in 1 .. Len(q) - k PROVE q[k + i].xid # r.xid
    <3>1. k + i \in 1 .. Len(q) /\ k \in 1 .. ((k + i) - 1)
      BY <2>3, <2>5
    <3>2. Precedes(q[k], q[k + i])
      BY <3>1 DEF Ordered
    <3>. QED BY <2>3, <3>2 DEF Precedes, Numbered, AuthXid
  <2>. QED BY <2>4, <2>5, <2>6 DEF Lacks, Elements
<1>. QED BY <1>1, <1>2

(* A committed write leaves nothing behind.                                *)
LEMMA CommittedSettles ==
  ASSUME FullInv, QueuesInOrder, WayToRaft, SizesCover, UNCHANGED <<dispatch_queue, next_xid>>,
         ProcessCommittedRequest, NEW r, r = Head(committed_queue), r.kind = "write",
         CommittedRemote(r) \/ CommittedLocal(r)
  PROVE  Settled(r.session, r.xid)'
<1>1. /\ committed_queue \in Seq(Request) /\ Len(committed_queue) > 0
      /\ phase = "committed" /\ count \in Nat /\ count > 0 /\ requests_queue' = requests_queue
      /\ pending_requests \in [Sessions -> Seq(Request)]
  BY LenProperties DEF FullInv, ProcInv, ProcTypeOK, ProcessCommittedRequest, SizeStillThere
<1>2. committed_queue # <<>>
  BY <1>1
<1>3. r = committed_queue[1] /\ 1 \in 1 .. Len(committed_queue) /\ 1 \in 1 .. count
  BY <1>1, <1>2, HeadElement
<1>4. r \in Request /\ OnTheWay(r) /\ r.session \in Sessions /\ r.xid \in Xids
  BY <1>3, CommittedOnTheWay DEF Request
<1>5. Passed(r)
  BY <1>4 DEF WayToRaft
<1>6. r.xid \in Numbered
  BY <1>4, <1>5, ClientNumbered DEF Passed
<1>7. r.xid < next_xid[r.session] /\ Lacks(dispatch_queue[r.session], r.xid)
  BY <1>5, <1>6 DEF Passed
<1>8. Lacks(requests_queue[r.session], r.xid)
  BY <1>1, <1>3, <1>4, <1>6 DEF SizesCover
<1>9. Lacks(pending_requests'[r.session], r.xid)
  <2>1. CASE CommittedRemote(r)
    BY <1>1, <1>4, <2>1, NoElements DEF CommittedRemote, Lacks
  <2>2. CASE CommittedLocal(r)
    <3>1. Lacks(AfterMatch(pending_requests[r.session], r), r.xid)
      BY <1>1, <1>4, <1>6, AfterMatchLacks DEF QueuesInOrder, InOrder
    <3>. QED BY <1>1, <1>4, <2>2, <3>1 DEF CommittedLocal
  <2>. QED BY <2>1, <2>2
<1>. QED BY <1>1, <1>6, <1>7, <1>8, <1>9 DEF Settled, Gone

(* processCommittedRequest answers writes, Auth and Close.                 *)
LEMMA CommittedAnswers ==
  ASSUME FullInv, QueuesInOrder, WayToRaft, SizesCover, UNCHANGED <<dispatch_queue, next_xid>>,
         ProcessCommittedRequest, NEW s \in Sessions
  PROVE  Answers(s)
<1>0. PICK r : r = Head(committed_queue)
  OBVIOUS
<1>1. /\ committed_queue \in Seq(Request) /\ Len(committed_queue) > 0
      /\ responses \in [Sessions -> Seq(Response)]
  BY LenProperties DEF FullInv, ProcInv, ProcTypeOK, ProcessCommittedRequest, SizeStillThere
<1>2. committed_queue # <<>>
  BY <1>1
<1>3. r = committed_queue[1] /\ 1 \in 1 .. Len(committed_queue)
  BY <1>0, <1>1, <1>2, HeadElement
<1>4. r \in Request /\ OnTheWay(r) /\ r.session \in Sessions
  BY <1>3, CommittedOnTheWay DEF Request
<1>5. WellFormed(r) /\ r.kind # "read"
  BY <1>4 DEF WayToRaft, Passed
<1>6. CASE CommittedWaits(r)
  BY <1>6 DEF CommittedWaits, Answers
<1>7. CASE CommittedRemote(r) \/ CommittedLocal(r)
  <2>1. PICK a : a = ApplyResponse(r)
    OBVIOUS
  <2>2. a \in Response /\ a.xid = r.xid /\ a.kind = r.kind /\ a.error = "ok"
    BY <1>4, <1>5, <2>1, ApplyResponseType DEF ApplyResponse, IsRead
  <2>3. r.kind = "write" => Settled(r.session, r.xid)'
    BY <1>0, <1>7, CommittedSettles
  <2>4. responses' = responses \/ responses' = [responses EXCEPT ![r.session] = Append(@, a)]
    BY <1>7, <2>1 DEF CommittedRemote, CommittedLocal, ApplyCommitted, ApplyRequest
  <2>5. r.session = s => Answer(s, a)
    BY <1>5, <2>2, <2>3 DEF Answer, WellFormed
  <2>. QED BY <1>1, <2>2, <2>4, <2>5 DEF Answers
<1>. QED BY <1>0, <1>6, <1>7 DEF ProcessCommittedRequest

(* processReadRequests answers the read in front.                          *)
LEMMA ReadAnswers ==
  ASSUME FullInv, QueuesInOrder, UNCHANGED <<dispatch_queue, next_xid>>,
         NEW t \in Sessions, ReadRequest(t), NEW s \in Sessions
  PROVE  Answers(s)
<1>0. PICK P, r : P = pending_requests[t] /\ r = Head(P)
  OBVIOUS
<1>1. /\ responses \in [Sessions -> Seq(Response)] /\ requests_queue' = requests_queue
      /\ pending_requests \in [Sessions -> Seq(Request)] /\ P \in Seq(Request)
      /\ P # <<>> /\ r.kind = "read"
      /\ pending_requests'[t] = Tail(P)
  BY <1>0 DEF FullInv, ProcInv, ProcTypeOK, ReadRequest, HeadIsRead, IsRead
<1>2. /\ InOrder(t, P, requests_queue[t], dispatch_queue[t], next_xid[t])
  BY <1>0 DEF QueuesInOrder
<1>3. r \in Elements(P) /\ r \in Request
  BY <1>0, <1>1, HeadElement, HeadTailProperties
<1>4. r.session = t /\ WellFormed(r) /\ r.xid \in Xids
  BY <1>2, <1>3 DEF InOrder, OfSession, Request
<1>5. r.xid \in Numbered
  BY <1>1, <1>4, ClientNumbered
<1>6. r.xid < next_xid[t]
  BY <1>2, <1>3, <1>5 DEF InOrder, Below
<1>7. /\ \A p \in Elements(Tail(P)) : Precedes(r, p) /\ WellFormed(p)
      /\ \A p \in Elements(requests_queue[t]) : Precedes(r, p) /\ WellFormed(p)
      /\ \A p \in Elements(dispatch_queue[t]) : Precedes(r, p)
  <2>1. \A p \in Elements(Tail(P)) : Precedes(r, p) /\ p \in Elements(P)
    BY <1>0, <1>1, <1>2, HeadPrecedes, PopElements DEF InOrder
  <2>. QED BY <1>2, <1>3, <2>1 DEF InOrder, Before, OfSession
<1>8. Settled(t, r.xid)'
  <2>1. /\ Lacks(Tail(P), r.xid) /\ Lacks(requests_queue[t], r.xid)
        /\ Lacks(dispatch_queue[t], r.xid)
    BY <1>5, <1>7 DEF Lacks, Precedes, Numbered, AuthXid
  <2>. QED BY <1>1, <1>5, <1>6, <2>1 DEF Settled, Gone
<1>9. PICK a : a = ApplyResponse(r)
  OBVIOUS
<1>10. a \in Response /\ a.xid = r.xid /\ a.kind = "read"
  BY <1>1, <1>3, <1>9, ApplyResponseType DEF ApplyResponse
<1>11. Answer(t, a)
  <2>1. WellFormed(a)
    BY <1>1, <1>4, <1>10 DEF WellFormed
  <2>2. ~Gone(t, a.xid)
    BY <1>0, <1>3, <1>10 DEF Gone, Lacks
  <2>3. \A p \in Elements(pending_requests'[t]) \cup Elements(requests_queue'[t]) :
          p.kind = "auth" \/ p.xid > a.xid
    BY <1>1, <1>5, <1>7, <1>10 DEF Precedes, WellFormed
  <2>. QED BY <1>8, <1>10, <2>1, <2>2, <2>3 DEF Answer
<1>12. responses' = responses \/ responses' = [responses EXCEPT ![t] = Append(@, a)]
  BY <1>0, <1>4, <1>9 DEF ReadRequest, ApplyRequest
<1>. QED BY <1>1, <1>10, <1>11, <1>12 DEF Answers

(* processErrorRequest answers a request it finds pending, or an Auth.     *)
LEMMA ErrorAnswers ==
  ASSUME FullInv, QueuesInOrder, ProcessErrorRequest, NEW s \in Sessions
  PROVE  Answers(s)
<1>0. PICK e : e = Head(errors)
  OBVIOUS
<1>1. /\ responses \in [Sessions -> Seq(Response)] /\ requests_queue' = requests_queue
      /\ pending_requests \in [Sessions -> Seq(Request)]
      /\ errors \in Seq(ErrorRequest) /\ errors # <<>>
  BY DEF FullInv, ProcInv, ProcTypeOK, ProcessErrorRequest
<1>2. e \in ErrorRequest
  BY ONLY <1>0, <1>1, HeadTailProperties
<1>3. e.session \in Sessions /\ e.xid \in Xids
  BY <1>2 DEF ErrorRequest
<1>4. CASE ErrorOfRemoteSession(e) \/ ErrorNotFound(e)
  BY <1>4 DEF ErrorOfRemoteSession, ErrorNotFound, Answers
<1>5. CASE ErrorOfAuth(e)
  <2>1. PICK a : a = ErrorResponse(e, AuthXid, "auth")
    OBVIOUS
  <2>2. a \in Response /\ a.xid = AuthXid /\ a.kind = "auth" /\ a.error # "ok"
    BY <1>2, <2>1, ErrorResponseType DEF ErrorResponse, Xids, Kinds
  <2>3. Answer(e.session, a)
    BY <2>2, ProcessorAssumption DEF Answer, WellFormed, AuthXid, CloseXid
  <2>. QED BY <1>1, <1>3, <1>5, <2>1, <2>2, <2>3 DEF ErrorOfAuth, Answers
<1>6. CASE ErrorMatched(e)
  <2>0. PICK t, q : t = e.session /\ q = pending_requests[t]
    OBVIOUS
  <2>1. PICK i \in ErrorMatch(e) :
          /\ responses' = [responses EXCEPT ![t] = Append(@, ErrorResponse(e, q[i].xid, q[i].kind))]
          /\ pending_requests' = [pending_requests EXCEPT ![t] = Without(q, i)]
    BY <1>6, <2>0 DEF ErrorMatched
  <2>2. /\ q \in Seq(Request) /\ i \in 1 .. Len(q) /\ q[i].xid >= e.xid /\ t \in Sessions
        /\ q[i].xid <= e.xid \/ q[i].kind = "close"
        /\ \A j \in 1 .. (i - 1) : ~(q[j].xid <= e.xid)
    BY <1>1, <1>3, <2>0, <2>1 DEF ErrorMatch, FirstAt, BothClose
  <2>3. InOrder(t, q, requests_queue[t], dispatch_queue[t], next_xid[t])
    BY <2>0, <2>2 DEF QueuesInOrder
  <2>4. q[i] \in Elements(q) /\ q[i] \in Request
    BY <2>2, ElementOfSeq DEF Elements
  <2>5. WellFormed(q[i]) /\ q[i].xid \in Xids /\ q[i].kind \in Kinds
    BY <2>3, <2>4 DEF InOrder, OfSession, Request
  <2>6. PICK a : a = ErrorResponse(e, q[i].xid, q[i].kind)
    OBVIOUS
  <2>7. a \in Response /\ a.xid = q[i].xid /\ a.kind = q[i].kind /\ a.error # "ok"
    BY <1>2, <2>5, <2>6, ErrorResponseType DEF ErrorResponse
  <2>8. WellFormed(a) /\ ~Gone(t, a.xid)
    BY <2>0, <2>4, <2>5, <2>7 DEF WellFormed, Gone, Lacks
  <2>9. ASSUME a.kind = "read"
        PROVE  \A p \in Elements(pending_requests'[t]) \cup Elements(requests_queue'[t]) :
                 p.kind = "auth" \/ p.xid > a.xid
    <3>1. q[i].xid \in Numbered
      BY <2>5, <2>7, <2>9, ClientNumbered
    <3>2. q[i].xid = e.xid /\ e.xid \in Int
      BY <2>2, <2>7, <2>9, <3>1, <1>3 DEF Numbered, Xids, AuthXid, CloseXid
    <3>3. \A p \in Elements(requests_queue[t]) : p.kind = "auth" \/ p.xid > a.xid
      BY <2>3, <2>4, <2>7, <3>1 DEF InOrder, Before, OfSession, Precedes, WellFormed
    <3>4. ASSUME NEW j \in 1 .. Len(q), j # i PROVE q[j].kind = "auth" \/ q[j].xid > q[i].xid
      <4>1. CASE j < i
        <5>1. j \in 1 .. (i - 1) /\ q[j] \in Request
          BY <2>2, <4>1, ElementOfSeq
        <5>2. q[j].xid \in Int /\ ~(q[j].xid <= e.xid)
          BY <2>2, <5>1, ProcessorAssumption DEF Request, Xids, AuthXid, CloseXid
        <5>. QED BY <3>2, <5>2
      <4>2. CASE i < j
        <5>1. i \in 1 .. (j - 1) /\ q[j] \in Elements(q)
          BY <2>2, <4>2 DEF Elements
        <5>2. Precedes(q[i], q[j]) /\ WellFormed(q[j])
          BY <2>3, <5>1 DEF InOrder, Ordered, OfSession
        <5>. QED BY <3>1, <5>2 DEF Precedes, WellFormed
      <4>. QED BY <2>2, <3>4, <4>1, <4>2
    <3>5. \A p \in Elements(Without(q, i)) : p.kind = "auth" \/ p.xid > a.xid
      <4>1. /\ Len(Without(q, i)) = Len(q) - 1 /\ Len(q) \in Nat
            /\ \A k \in 1 .. Len(q) - 1 : Without(q, i)[k] = q[IF k < i THEN k ELSE k + 1]
        BY <2>2, WithoutIs, LenProperties
      <4>2. ASSUME NEW k \in 1 .. Len(q) - 1
            PROVE  Without(q, i)[k].kind = "auth" \/ Without(q, i)[k].xid > a.xid
        <5>1. PICK j \in 1 .. Len(q) : j = (IF k < i THEN k ELSE k + 1) /\ j # i
          BY <2>2, <4>1
        <5>. QED BY <2>7, <3>4, <4>1, <5>1
      <4>. QED BY <4>1, <4>2 DEF Elements
    <3>6. pending_requests'[t] = Without(q, i)
      BY <1>1, <2>1, <2>2
    <3>. QED BY <1>1, <3>3, <3>5, <3>6
  <2>10. Answer(t, a)
    BY <2>7, <2>8, <2>9 DEF Answer
  <2>. QED BY <1>1, <2>1, <2>2, <2>6, <2>7, <2>10 DEF Answers
<1>. QED BY <1>0, <1>4, <1>5, <1>6 DEF ProcessErrorRequest

(* No other step answers.                                                  *)
LEMMA NextAnswers ==
  ASSUME FullInv, QueuesInOrder, WayToRaft, SizesCover, [Next]_vars, NEW s \in Sessions
  PROVE  Answers(s)
<1>1. ASSUME UNCHANGED responses PROVE Answers(s)
  BY <1>1 DEF Answers
<1>2. CASE Processor
  <2>1. UNCHANGED <<dispatch_queue, next_xid>> /\ Run
    BY <1>2 DEF Processor, pipeVars, dispatchVars
  <2>2. CASE WakeUp \/ WaitTimeout \/ ErrorsDone \/ TakeSizes \/ RunnersDone \/ CommittedDone
             \/ \E t \in Sessions : MoveRequest(t)
    BY <1>1, <2>2 DEF WakeUp, WaitTimeout, StartIteration, ErrorsDone, TakeSizes,
                      RunnersDone, CommittedDone, MoveRequest
  <2>. QED BY <2>1, <2>2, ErrorAnswers, ReadAnswers, CommittedAnswers DEF Run
<1>3. ASSUME NEW t \in Sessions,
             FinishSession(t) \/ TakeRequest(t) \/ LookAtLeaderAlive(t) \/ RouteByLeader(t)
             \/ LookAgain(t) \/ SetResponse(t)
      PROVE  UNCHANGED responses
  BY <1>3 DEF FinishSession, TakeRequest, Push, LookAtLeaderAlive, RouteByLeader, LookAgain,
              Enqueue, SetResponse, SetLocal, procVars
<1>4. CASE Accumulator \/ BatchTimeout \/ LeaderChange \/ RaftCommit
  <2>1. UNCHANGED responses
    BY <1>4 DEF Accumulator, Accumulate, PutRequestBatch, BatchCommitted, BatchCancelled,
                ReportFailure, BatchTimeout, OnError, LeaderChange, SetLeaderAlive, RaftCommit,
                Commit, procVars
  <2>. QED BY <1>1, <2>1
<1>5. ASSUME NEW t \in Sessions,
             ForwardSend(t) \/ ForwardRefused(t) \/ LeaderAppends(t)
             \/ ForwardFail(t) \/ LeaderRefuses(t) \/ ConnectionLost(t) \/ RemoteAppend(t)
      PROVE  UNCHANGED responses
  BY <1>5 DEF ForwardSend, ForwardRefused, LeaderAppends, ForwardFail, LeaderRefuses,
              ConnectionLost, RemoteAppend, OnError, procVars
<1>6. ASSUME NEW t \in Sessions,
             \/ \E kind \in ClientKinds : PutRequest(t, kind)
             \/ PutForwardingRequest(t) \/ CleanSession(t)
             \/ Disconnect(t) \/ Handshake(t) \/ Reconnect(t)
      PROVE  UNCHANGED responses
  BY <1>6 DEF PutRequest, PutForwardingRequest, CleanSession, Disconnect, Handshake,
              Reconnect, SetLocal, procVars
<1>7. CASE UNCHANGED vars
  BY <1>1, <1>7 DEF vars, procVars
<1>. QED BY <1>1, <1>2, <1>3, <1>4, <1>5, <1>6, <1>7
         DEF Next, Dispatcher, Forwarder, Clients, Raft, Failures

(* Only a committed request that is handled becomes applied.               *)
LEMMA NextApplied ==
  ASSUME FullInv, [Next]_vars
  PROVE  \/ applied' = applied
         \/ \E r \in Request : /\ ProcessCommittedRequest /\ r = Head(committed_queue)
                               /\ CommittedRemote(r) \/ CommittedLocal(r)
                               /\ applied' = Append(applied, r)
                               /\ UNCHANGED <<dispatch_queue, next_xid>>
<1>1. CASE Processor /\ ProcessCommittedRequest
  <2>0. PICK r : r = Head(committed_queue)
    OBVIOUS
  <2>1. committed_queue \in Seq(Request) /\ Len(committed_queue) > 0
    BY <1>1, LenProperties DEF FullInv, ProcInv, ProcTypeOK, ProcessCommittedRequest, SizeStillThere
  <2>2. committed_queue # <<>>
    BY <2>1
  <2>3. r \in Request
    BY <2>0, <2>1, <2>2, HeadTailProperties
  <2>. QED BY <1>1, <2>0, <2>3 DEF Processor, pipeVars, dispatchVars, ProcessCommittedRequest,
              CommittedRemote, CommittedLocal, CommittedWaits, ApplyCommitted
<1>2. CASE Processor /\ ~ProcessCommittedRequest
  BY <1>2 DEF Processor, Run, WakeUp, WaitTimeout, StartIteration, ProcessErrorRequest, ErrorsDone,
              TakeSizes, MoveRequest, ReadRequest, RunnersDone, CommittedDone
<1>3. ASSUME NEW t \in Sessions,
             FinishSession(t) \/ TakeRequest(t) \/ LookAtLeaderAlive(t) \/ RouteByLeader(t)
             \/ LookAgain(t) \/ SetResponse(t)
      PROVE  applied' = applied
  BY <1>3 DEF FinishSession, TakeRequest, Push, LookAtLeaderAlive, RouteByLeader, LookAgain,
              Enqueue, SetResponse, SetLocal, procVars
<1>4. CASE Accumulator \/ BatchTimeout \/ LeaderChange \/ RaftCommit
  BY <1>4 DEF Accumulator, Accumulate, PutRequestBatch, BatchCommitted, BatchCancelled,
              ReportFailure, BatchTimeout, OnError, LeaderChange, SetLeaderAlive, RaftCommit,
              Commit, procVars
<1>5. ASSUME NEW t \in Sessions,
             ForwardSend(t) \/ ForwardRefused(t) \/ LeaderAppends(t)
             \/ ForwardFail(t) \/ LeaderRefuses(t) \/ ConnectionLost(t) \/ RemoteAppend(t)
      PROVE  applied' = applied
  BY <1>5 DEF ForwardSend, ForwardRefused, LeaderAppends, ForwardFail, LeaderRefuses,
              ConnectionLost, RemoteAppend, OnError, procVars
<1>6. ASSUME NEW t \in Sessions,
             \/ \E kind \in ClientKinds : PutRequest(t, kind)
             \/ PutForwardingRequest(t) \/ CleanSession(t)
             \/ Disconnect(t) \/ Handshake(t) \/ Reconnect(t)
      PROVE  applied' = applied
  BY <1>6 DEF PutRequest, PutForwardingRequest, CleanSession, Disconnect, Handshake,
              Reconnect, SetLocal, procVars
<1>7. CASE UNCHANGED vars
  BY <1>7 DEF vars, procVars
<1>. QED BY <1>1, <1>2, <1>3, <1>4, <1>5, <1>6, <1>7
         DEF Next, Dispatcher, Forwarder, Clients, Raft, Failures

-----------------------------------------------------------------------------
(* The inductive invariant.                                                *)
OrderInv ==
  /\ FullInv
  /\ QueuesInOrder
  /\ WayToRaft
  /\ SizesCover
  /\ AppliedSettled
  /\ AnsweredSettled
  /\ NoErrorAfterSuccess

(* It holds at the start.                                                  *)
LEMMA OrderInvInit == Init => OrderInv
<1> SUFFICES ASSUME Init PROVE OrderInv
  OBVIOUS
<1>1. FullInv
  BY FullInvInit
<1>2. Len(<<>>) = 0 /\ 1 .. 0 = {}
  OBVIOUS
<1>3. \A s \in Sessions : /\ pending_requests[s] = <<>> /\ requests_queue[s] = <<>>
                          /\ dispatch_queue[s] = <<>> /\ responses[s] = <<>>
                          /\ fwd_queue[s] = <<>> /\ fwd_net[s] = <<>> /\ routing[s] = Idle
  BY DEF Init, ProcInit
<1>4. QueuesInOrder
  <2>1. \A s : OfSession(<<>>, s) /\ Before(<<>>, <<>>) /\ \A n : Below(<<>>, n)
    BY NoElements DEF OfSession, Before, Below
  <2>2. Ordered(<<>>)
    BY <1>2 DEF Ordered
  <2>. QED BY <1>3, <2>1, <2>2 DEF QueuesInOrder, InOrder
<1>5. WayToRaft
  BY <1>3, NoElements DEF Init, ProcInit, WayToRaft, OnTheWay
<1>6. SizesCover
  BY DEF Init, ProcInit, SizesCover
<1>7. AppliedSettled /\ AnsweredSettled
  BY <1>3, NoElements DEF Init, ProcInit, AppliedSettled, AnsweredSettled
<1>8. NoErrorAfterSuccess
  BY <1>2, <1>3 DEF NoErrorAfterSuccess
<1>. QED BY <1>1, <1>4, <1>5, <1>6, <1>7, <1>8 DEF OrderInv

(* Every step preserves it.                                                *)
LEMMA OrderInvStep == OrderInv /\ [Next]_vars => OrderInv'
<1> SUFFICES ASSUME OrderInv, [Next]_vars PROVE OrderInv'
  OBVIOUS
<1> USE DEF OrderInv
<1>1. FullInv'
  BY FullInvStep
<1>2. QueueTypes /\ QueueStep
  BY QueueTypesHold, NextQueueStep
<1>3. QueuesInOrder' /\ WayToRaft' /\ SizesCover'
  BY <1>2, QueueStepInOrder, WayStep, SizesStep
<1>4. AppliedSettled'
  <2>1. applied \in Seq(Request)
    BY DEF FullInv, ProcInv, ProcTypeOK
  <2>2. ASSUME NEW r \in Request, r \in Elements(applied), r.kind = "write"
        PROVE  Settled(r.session, r.xid)'
    BY <1>2, <2>2, QueueStepKeeps DEF AppliedSettled, Request
  <2>3. CASE applied' = applied
    BY <2>2, <2>3 DEF AppliedSettled
  <2>4. ASSUME NEW r \in Request, ProcessCommittedRequest, r = Head(committed_queue),
               CommittedRemote(r) \/ CommittedLocal(r), applied' = Append(applied, r),
               UNCHANGED <<dispatch_queue, next_xid>>
        PROVE  AppliedSettled'
    <3>1. Elements(applied') = Elements(applied) \cup {r}
      BY <2>1, <2>4, AppendElements
    <3>2. r.kind = "write" => Settled(r.session, r.xid)'
      BY <2>4, CommittedSettles
    <3>. QED BY <2>2, <3>1, <3>2 DEF AppliedSettled
  <2>. QED BY <2>3, <2>4, NextApplied
<1>5. ASSUME NEW s \in Sessions, NEW a \in Elements(responses[s])
      PROVE  WellFormed(a) /\ (a.kind \in {"read", "write"} /\ a.error = "ok" => Settled(s, a.xid)')
  BY <1>2, QueueStepKeeps DEF AnsweredSettled
<1>6. responses \in [Sessions -> Seq(Response)]
  BY DEF FullInv, ProcInv, ProcTypeOK
<1>7. AnsweredSettled'
  <2>1. SUFFICES ASSUME NEW s \in Sessions, NEW b \in Elements(responses'[s])
                 PROVE  /\ WellFormed(b)
                        /\ b.kind \in {"read", "write"} /\ b.error = "ok" => Settled(s, b.xid)'
    BY DEF AnsweredSettled
  <2>2. CASE responses'[s] = responses[s]
    BY <1>5, <2>1, <2>2
  <2>3. ASSUME NEW a \in Response, responses'[s] = Append(responses[s], a), Answer(s, a)
        PROVE  /\ WellFormed(b)
               /\ b.kind \in {"read", "write"} /\ b.error = "ok" => Settled(s, b.xid)'
    <3>1. Elements(responses'[s]) = Elements(responses[s]) \cup {a}
      BY <1>6, <2>3, AppendElements
    <3>. QED BY <1>5, <2>1, <2>3, <3>1 DEF Answer
  <2>. QED BY <2>2, <2>3, NextAnswers DEF Answers
<1>8. NoErrorAfterSuccess'
  <2>1. SUFFICES ASSUME NEW s \in Sessions, NEW j \in 1 .. Len(responses'[s]), NEW i \in 1 .. (j - 1),
                        responses'[s][i].xid = responses'[s][j].xid,
                        responses'[s][i].kind \notin {"auth", "close"},
                        responses'[s][i].error = "ok"
                 PROVE  responses'[s][j].error = "ok"
    BY DEF NoErrorAfterSuccess
  <2>2. CASE responses'[s] = responses[s]
    BY <2>1, <2>2 DEF NoErrorAfterSuccess
  <2>3. ASSUME NEW a \in Response, responses'[s] = Append(responses[s], a), Answer(s, a)
        PROVE  responses'[s][j].error = "ok"
    <3>1. PICK old \in Seq(Response) : old = responses[s]
      BY <1>6
    <3>2. /\ Len(old) \in Nat /\ Len(responses'[s]) = Len(old) + 1
          /\ \A k \in 1 .. Len(old) : responses'[s][k] = old[k]
          /\ responses'[s][Len(old) + 1] = a
      BY <2>3, <3>1, AppendProperties, LenProperties
    <3>3. i \in 1 .. Len(old) /\ responses'[s][i] = old[i] /\ old[i] \in Elements(old)
      BY <2>1, <3>2 DEF Elements
    <3>4. CASE j \in 1 .. Len(old)
      BY <2>1, <3>1, <3>2, <3>3, <3>4 DEF NoErrorAfterSuccess
    <3>5. CASE j = Len(old) + 1
      <4>1. old[i].xid = a.xid /\ old[i].kind \in {"read", "write"} /\ old[i].error = "ok"
        <5>1. old[i] \in Response
          BY <3>3, ElementOfSeq
        <5>. QED BY <2>1, <3>2, <3>3, <3>5, <5>1 DEF Response, Kinds
      <4>2. Settled(s, a.xid)
        BY <3>1, <3>3, <4>1 DEF AnsweredSettled
      <4>3. a.xid # AuthXid
        BY <4>2 DEF Settled, Numbered, AuthXid
      <4>. QED BY <2>3, <3>2, <3>5, <4>2, <4>3 DEF Answer, Settled
    <3>. QED BY <2>1, <3>2, <3>4, <3>5
  <2>. QED BY <2>2, <2>3, NextAnswers DEF Answers
<1>. QED BY <1>1, <1>3, <1>4, <1>7, <1>8

(* A request answered with success is not answered with an error later,    *)
(* whatever the order in which raft's timeout, the loss of the leadership  *)
(* and the commit reach the processor.                                     *)
THEOREM NoErrorAfterSuccessHolds == Spec => []NoErrorAfterSuccess
<1>1. OrderInv => NoErrorAfterSuccess
  BY DEF OrderInv
<1>. QED BY <1>1, OrderInvInit, OrderInvStep, PTL DEF Spec

(* A write that has been applied waits in no queue of the processor.       *)
THEOREM NoAppliedStillQueuedHolds == Spec => []NoAppliedStillQueued
<1>1. OrderInv => NoAppliedStillQueued
  <2>1. SUFFICES ASSUME OrderInv, NEW s \in Sessions,
                        NEW q \in {requests_queue[s], pending_requests[s]},
                        NEW i \in 1 .. Len(q), NEW j \in 1 .. Len(applied),
                        q[i].kind = "write", q[i] = applied[j]
                 PROVE  FALSE
    BY DEF NoAppliedStillQueued
  <2>2. q \in Seq(Request) /\ applied \in Seq(Request)
    BY <2>1 DEF OrderInv, FullInv, ProcInv, ProcTypeOK
  <2>3. q[i] \in Elements(q) /\ q[i] \in Elements(applied) /\ q[i] \in Request
    BY <2>1, <2>2, ElementOfSeq DEF Elements
  <2>4. Settled(q[i].session, q[i].xid)
    BY <2>1, <2>3 DEF OrderInv, AppliedSettled
  <2>5. q[i].session = s
    BY <2>1, <2>3 DEF OrderInv, QueuesInOrder, InOrder, OfSession
  <2>. QED BY <2>1, <2>3, <2>4, <2>5 DEF Settled, Gone, Lacks
<1>. QED BY <1>1, OrderInvInit, OrderInvStep, PTL DEF Spec

(* A read is answered, with its result or with an error, only when every   *)
(* earlier request of its session has left the processor.                  *)
THEOREM ReadsWaitForWritesHolds == Spec => ReadsWaitForWrites
<1> DEFINE Waits ==
      \A s \in Sessions : Len(responses'[s]) > Len(responses[s]) =>
        LET r == responses'[s][Len(responses'[s])]
            q == pending_requests'[s] \o requests_queue'[s]
        IN  r.kind = "read" =>
              \A i \in 1 .. Len(q) : q[i].kind = "auth" \/ q[i].xid > r.xid
<1>1. OrderInv /\ [Next]_vars => Waits
  <2>1. SUFFICES ASSUME OrderInv, [Next]_vars, NEW s \in Sessions,
                        Len(responses'[s]) > Len(responses[s]),
                        responses'[s][Len(responses'[s])].kind = "read",
                        NEW i \in 1 .. Len(pending_requests'[s] \o requests_queue'[s])
                 PROVE  LET p == (pending_requests'[s] \o requests_queue'[s])[i]
                        IN  p.kind = "auth" \/ p.xid > responses'[s][Len(responses'[s])].xid
    OBVIOUS
  <2>2. /\ pending_requests'[s] \in Seq(Request) /\ requests_queue'[s] \in Seq(Request)
        /\ responses[s] \in Seq(Response)
    BY <2>1, OrderInvStep DEF OrderInv, FullInv, ProcInv, ProcTypeOK
  <2>3. Answers(s)
    BY <2>1, NextAnswers DEF OrderInv
  <2>4. PICK a \in Response : responses'[s] = Append(responses[s], a) /\ Answer(s, a)
    <3>1. Len(responses[s]) \in Nat
      BY <2>2, LenProperties
    <3>2. responses'[s] # responses[s]
      BY <2>1, <3>1
    <3>. QED BY <2>3, <3>2 DEF Answers
  <2>5. responses'[s][Len(responses'[s])] = a
    BY <2>2, <2>4, AppendProperties
  <2>6. (pending_requests'[s] \o requests_queue'[s])[i]
          \in Elements(pending_requests'[s]) \cup Elements(requests_queue'[s])
    <3>1. (pending_requests'[s] \o requests_queue'[s])[i]
            \in Elements(pending_requests'[s] \o requests_queue'[s])
      BY DEF Elements
    <3>. QED BY <2>2, <3>1, ConcatElements
  <2>. QED BY <2>1, <2>4, <2>5, <2>6 DEF Answer
<1> HIDE DEF Waits
<1>2. Spec => [][Waits]_vars
  BY <1>1, OrderInvInit, OrderInvStep, PTL DEF Spec
<1>. QED BY <1>2 DEF ReadsWaitForWrites, Waits
-----------------------------------------------------------------------------
(***************************************************************************)
(* When nothing fails: the server stays what it is, leader or follower,    *)
(* raft appends and commits every batch, the connections hold, and clients *)
(* send no Auth.  The README's first guarantee, responses in the order of  *)
(* the requests of a session, holds then; section 4 of the README shows    *)
(* what breaks it otherwise.                                               *)
(***************************************************************************)
Faults == {"leader", "timeout", "lost", "refuse", "remote", "disconnect", "reconnect",
           "clean", "auth"}

Undisturbed == \A b \in Budgets : \A what \in Faults : b[what] = 0

(* Nothing is reported as failed, and writes take one of the two ways.     *)
Calm ==
  /\ \A what \in Faults : budget[what] = 0
  /\ leader_alive = TRUE /\ errors = <<>> /\ cleaning = {} /\ handshaking = {}
  /\ acc_state \in {"filling", "waiting"}
  /\ \A s \in Sessions : /\ fwd_refused[s] = <<>>
                         /\ routing[s] # Idle => routing[s].at # "dead?"
  /\ is_leader => \A s \in Sessions : fwd_queue[s] = <<>> /\ fwd_net[s] = <<>>
  /\ ~is_leader => acc_queue = <<>> /\ acc_batch = <<>>

Ahead(A, B, s) ==
  \A a \in A, b \in B : a.session = s /\ b.session = s => a.xid < b.xid

Rising(q, s) ==
  \A j \in 1 .. Len(q) : \A i \in 1 .. (j - 1) :
    q[i].session = s /\ q[j].session = s => q[i].xid < q[j].xid

(* The writes of session s in a line, first to last: committed, in raft's  *)
(* log, in the batch, in the accumulator's queue or, instead of these two, *)
(* on the connection to the leader and in the forwarder's queue, and at    *)
(* the end the one that is being routed.                                   *)
Line(s, C, L, B, Q, N, F, T) ==
  /\ Rising(C, s) /\ Rising(L, s) /\ Rising(B, s)
  /\ Rising(Q, s) /\ Rising(N, s) /\ Rising(F, s)
  /\ Ahead(Elements(C), Elements(L), s)
  /\ Ahead(Elements(C) \cup Elements(L),
           Elements(B) \cup Elements(Q) \cup Elements(N) \cup Elements(F) \cup T, s)
  /\ Ahead(Elements(B), Elements(Q), s) /\ Ahead(Elements(B) \cup Elements(Q), T, s)
  /\ Ahead(Elements(N), Elements(F), s) /\ Ahead(Elements(N) \cup Elements(F), T, s)

(* A batch that raft has accepted is in its log.                           *)
Batch     == IF acc_state = "filling" THEN acc_batch ELSE <<>>
Routed(s) == IF routing[s] = Idle THEN {} ELSE {routing[s].req}
Sent(s)   == Elements(fwd_net[s]) \cup Elements(fwd_queue[s]) \cup Routed(s)

OnWay(s) ==
  {r \in Elements(committed_queue) \cup Elements(raft_log) \cup Elements(Batch)
         \cup Elements(acc_queue) \cup Sent(s) : r.session = s}

Queued(s)  == Elements(pending_requests[s]) \cup Elements(requests_queue[s])
Waiting(s) == Queued(s) \cup Elements(dispatch_queue[s])

(* The writes that the processor waits for are those on the way, and they  *)
(* come in the order of their xids.                                        *)
WritesInLine(s) ==
  /\ Line(s, committed_queue, raft_log, Batch, acc_queue, fwd_net[s], fwd_queue[s], Routed(s))
  /\ \A r \in Sent(s) : r.session = s
  /\ OnWay(s) = {r \in Queued(s) : ~IsRead(r)}

(* A Close is the last request, and its answer the last answer.            *)
CloseLast(s) ==
  /\ \A r \in Waiting(s) : r.kind = "close" =>
       next_xid[s] = MaxXid + 1 /\ \A p \in Waiting(s) : p.xid <= r.xid
  /\ \A a \in Elements(responses[s]) : a.kind = "close" =>
       next_xid[s] = MaxXid + 1 /\ Waiting(s) = {}
  /\ s \notin local => Waiting(s) = {}

(* What waits is numbered, and later than what is answered.                *)
AnsweredBefore(s) ==
  /\ \A r \in Waiting(s) : r.xid \in Numbered
  /\ \A a \in Elements(responses[s]) :
       a.xid < next_xid[s] /\ \A r \in Waiting(s) : a.xid < r.xid
  /\ \A j \in 1 .. Len(responses[s]) : \A i \in 1 .. (j - 1) :
       responses[s][i].xid < responses[s][j].xid

SteadyInv ==
  /\ OrderInv
  /\ Calm
  /\ \A s \in Sessions : WritesInLine(s) /\ CloseLast(s) /\ AnsweredBefore(s)

-----------------------------------------------------------------------------
(* Lines                                                                   *)

LEMMA RisingAppend ==
  ASSUME NEW q \in Seq(Request), NEW r \in Request, NEW s, Rising(q, s),
         Ahead(Elements(q), {r}, s)
  PROVE  Rising(Append(q, r), s)
<1>1. /\ Len(q) \in Nat /\ Len(Append(q, r)) = Len(q) + 1
      /\ \A i \in 1 .. Len(q) : Append(q, r)[i] = q[i] /\ q[i] \in Elements(q)
      /\ Append(q, r)[Len(q) + 1] = r
  BY AppendProperties, LenProperties DEF Elements
<1>2. SUFFICES ASSUME NEW j \in 1 .. Len(q) + 1, NEW i \in 1 .. (j - 1),
                      Append(q, r)[i].session = s, Append(q, r)[j].session = s
               PROVE  Append(q, r)[i].xid < Append(q, r)[j].xid
  BY <1>1 DEF Rising
<1>3. i \in 1 .. Len(q) /\ Append(q, r)[i] = q[i]
  BY <1>1
<1>4. CASE j = Len(q) + 1
  BY <1>1, <1>2, <1>3, <1>4 DEF Ahead
<1>5. CASE j \in 1 .. Len(q)
  BY <1>1, <1>2, <1>3, <1>5 DEF Rising
<1>. QED BY <1>1, <1>4, <1>5

LEMMA HeadAndTail ==
  ASSUME NEW q \in Seq(Request), q # <<>>
  PROVE  /\ Elements(q) = {Head(q)} \cup Elements(Tail(q))
         /\ Head(q) \in Request /\ Tail(q) \in Seq(Request)
<1>0. /\ Len(q) \in Nat /\ Len(q) >= 1 /\ Len(Tail(q)) = Len(q) - 1
      /\ \A i \in 1 .. Len(Tail(q)) : Tail(q)[i] = q[i + 1]
      /\ Head(q) = q[1] /\ Head(q) \in Request /\ Tail(q) \in Seq(Request)
  BY EmptySeq, LenProperties, HeadTailProperties
<1>1. ASSUME NEW i \in 1 .. Len(q) PROVE q[i] \in {Head(q)} \cup Elements(Tail(q))
  <2>1. CASE i = 1
    BY <1>0, <2>1
  <2>2. CASE i # 1
    <3>1. i - 1 \in 1 .. Len(Tail(q)) /\ Tail(q)[i - 1] = q[i]
      BY <1>0, <2>2
    <3>. QED BY <3>1 DEF Elements
  <2>. QED BY <2>1, <2>2
<1>2. Elements(q) \subseteq {Head(q)} \cup Elements(Tail(q))
  BY <1>1 DEF Elements
<1>. QED BY <1>0, <1>2, PopElements

LEMMA RisingTail ==
  ASSUME NEW q \in Seq(Request), q # <<>>, NEW s, Rising(q, s)
  PROVE  /\ Rising(Tail(q), s) /\ Ahead({Head(q)}, Elements(Tail(q)), s)
         /\ Elements(q) = {Head(q)} \cup Elements(Tail(q))
         /\ Head(q) \in Request /\ Tail(q) \in Seq(Request)
<1>1. /\ Len(q) \in Nat /\ Len(q) >= 1 /\ Len(Tail(q)) = Len(q) - 1
      /\ \A i \in 1 .. Len(Tail(q)) : Tail(q)[i] = q[i + 1]
      /\ Head(q) = q[1] /\ Head(q) \in Request /\ Tail(q) \in Seq(Request)
  BY EmptySeq, LenProperties, HeadTailProperties
<1>2. Rising(Tail(q), s)
  <2>1. SUFFICES ASSUME NEW j \in 1 .. Len(q) - 1, NEW i \in 1 .. (j - 1),
                        q[i + 1].session = s, q[j + 1].session = s
                 PROVE  q[i + 1].xid < q[j + 1].xid
    BY <1>1 DEF Rising
  <2>2. j + 1 \in 1 .. Len(q) /\ i + 1 \in 1 .. ((j + 1) - 1)
    BY <1>1
  <2>. QED BY <2>1, <2>2 DEF Rising
<1>3. ASSUME NEW i \in 1 .. Len(q) - 1
      PROVE  q[1].session = s /\ q[i + 1].session = s => q[1].xid < q[i + 1].xid
  <2>1. i + 1 \in 1 .. Len(q) /\ 1 \in 1 .. ((i + 1) - 1)
    BY <1>1
  <2>. QED BY <2>1 DEF Rising
<1>4. Ahead({Head(q)}, Elements(Tail(q)), s)
  BY <1>1, <1>3 DEF Ahead, Elements
<1>5. Elements(q) = {Head(q)} \cup Elements(Tail(q))
  BY HeadAndTail
<1>. QED BY <1>1, <1>2, <1>4, <1>5

LEMMA RisingConcat ==
  ASSUME NEW a \in Seq(Request), NEW b \in Seq(Request), NEW s, Rising(a, s), Rising(b, s),
         Ahead(Elements(a), Elements(b), s)
  PROVE  Rising(a \o b, s)
<1>1. /\ Len(a) \in Nat /\ Len(b) \in Nat /\ Len(a \o b) = Len(a) + Len(b)
      /\ \A i \in 1 .. Len(a) + Len(b) :
           (a \o b)[i] = IF i <= Len(a) THEN a[i] ELSE b[i - Len(a)]
  BY ConcatProperties, LenProperties
<1>2. SUFFICES ASSUME NEW j \in 1 .. Len(a) + Len(b), NEW i \in 1 .. (j - 1),
                      (a \o b)[i].session = s, (a \o b)[j].session = s
               PROVE  (a \o b)[i].xid < (a \o b)[j].xid
  BY <1>1 DEF Rising
<1>3. CASE j <= Len(a)
  BY <1>1, <1>2, <1>3 DEF Rising
<1>4. CASE i <= Len(a) /\ j > Len(a)
  <2>1. /\ (a \o b)[i] = a[i] /\ a[i] \in Elements(a)
        /\ (a \o b)[j] = b[j - Len(a)] /\ b[j - Len(a)] \in Elements(b)
    <3>1. i \in 1 .. Len(a) /\ j - Len(a) \in 1 .. Len(b)
      BY <1>1, <1>4
    <3>. QED BY <1>1, <1>4, <3>1 DEF Elements
  <2>. QED BY <1>2, <2>1 DEF Ahead
<1>5. CASE i > Len(a)
  <2>1. j - Len(a) \in 1 .. Len(b) /\ i - Len(a) \in 1 .. ((j - Len(a)) - 1)
    BY <1>1, <1>5
  <2>2. (a \o b)[i] = b[i - Len(a)] /\ (a \o b)[j] = b[j - Len(a)]
    BY <1>1, <1>5
  <2>. QED BY <1>2, <2>1, <2>2 DEF Rising
<1>6. j <= Len(a) \/ (i <= Len(a) /\ j > Len(a)) \/ i > Len(a)
  BY <1>1
<1>. QED BY <1>3, <1>4, <1>5, <1>6

LEMMA RisingEmpty == \A s : Rising(<<>>, s)
<1>1. Len(<<>>) = 0 /\ 1 .. 0 = {}
  OBVIOUS
<1>. QED BY <1>1 DEF Rising

(* Raft commits the first entry of its log.                                *)
LEMMA LineCommit ==
  ASSUME NEW s, NEW C \in Seq(Request), NEW L \in Seq(Request), NEW B, NEW Q, NEW N, NEW F,
         NEW T, L # <<>>, Line(s, C, L, B, Q, N, F, T)
  PROVE  Line(s, Append(C, Head(L)), Tail(L), B, Q, N, F, T)
<1>1. /\ Rising(Tail(L), s) /\ Ahead({Head(L)}, Elements(Tail(L)), s)
      /\ Elements(L) = {Head(L)} \cup Elements(Tail(L)) /\ Head(L) \in Request
  BY RisingTail DEF Line
<1>2. Elements(Append(C, Head(L))) = Elements(C) \cup {Head(L)}
  BY AppendElements
<1>3. Rising(Append(C, Head(L)), s)
  <2>1. Ahead(Elements(C), {Head(L)}, s)
    BY <1>1 DEF Line, Ahead
  <2>. QED BY <1>1, <2>1, RisingAppend DEF Line
<1>. QED BY <1>1, <1>2, <1>3 DEF Line, Ahead

(* Raft appends a batch.                                                   *)
LEMMA LineLog ==
  ASSUME NEW s, NEW C, NEW L \in Seq(Request), NEW B \in Seq(Request), NEW Q, NEW T,
         Line(s, C, L, B, Q, <<>>, <<>>, T)
  PROVE  Line(s, C, L \o B, <<>>, Q, <<>>, <<>>, T)
<1>1. Elements(L \o B) = Elements(L) \cup Elements(B)
  BY ConcatElements
<1>2. Rising(L \o B, s)
  <2>1. Ahead(Elements(L), Elements(B), s)
    BY DEF Line, Ahead
  <2>. QED BY <2>1, RisingConcat DEF Line
<1>. QED BY <1>1, <1>2, RisingEmpty, NoElements DEF Line, Ahead

(* The accumulator takes a request into its batch.                         *)
LEMMA LineBatch ==
  ASSUME NEW s, NEW C, NEW L, NEW B \in Seq(Request), NEW Q \in Seq(Request), NEW N, NEW F,
         NEW T, Q # <<>>, Line(s, C, L, B, Q, N, F, T)
  PROVE  Line(s, C, L, Append(B, Head(Q)), Tail(Q), N, F, T)
<1>1. /\ Rising(Tail(Q), s) /\ Ahead({Head(Q)}, Elements(Tail(Q)), s)
      /\ Elements(Q) = {Head(Q)} \cup Elements(Tail(Q)) /\ Head(Q) \in Request
  BY RisingTail DEF Line
<1>2. Elements(Append(B, Head(Q))) = Elements(B) \cup {Head(Q)}
  BY AppendElements
<1>3. Rising(Append(B, Head(Q)), s)
  <2>1. Ahead(Elements(B), {Head(Q)}, s)
    BY <1>1 DEF Line, Ahead
  <2>. QED BY <1>1, <2>1, RisingAppend DEF Line
<1>. QED BY <1>1, <1>2, <1>3 DEF Line, Ahead

(* The leader appends a request that was forwarded.                        *)
LEMMA LineAppends ==
  ASSUME NEW s, NEW C, NEW L \in Seq(Request), NEW N \in Seq(Request), NEW F, NEW T,
         N # <<>>, Line(s, C, L, <<>>, <<>>, N, F, T)
  PROVE  Line(s, C, Append(L, Head(N)), <<>>, <<>>, Tail(N), F, T)
<1>1. /\ Rising(Tail(N), s) /\ Ahead({Head(N)}, Elements(Tail(N)), s)
      /\ Elements(N) = {Head(N)} \cup Elements(Tail(N)) /\ Head(N) \in Request
  BY RisingTail DEF Line
<1>2. Elements(Append(L, Head(N))) = Elements(L) \cup {Head(N)}
  BY AppendElements
<1>3. Rising(Append(L, Head(N)), s)
  <2>1. Ahead(Elements(L), {Head(N)}, s)
    BY <1>1 DEF Line, Ahead
  <2>. QED BY <1>1, <2>1, RisingAppend DEF Line
<1>. QED BY <1>1, <1>2, <1>3, NoElements DEF Line, Ahead

(* The forwarder sends a request.                                          *)
LEMMA LineSend ==
  ASSUME NEW s, NEW C, NEW L, NEW B, NEW Q, NEW N \in Seq(Request), NEW F \in Seq(Request),
         NEW T, F # <<>>, Line(s, C, L, B, Q, N, F, T)
  PROVE  Line(s, C, L, B, Q, Append(N, Head(F)), Tail(F), T)
<1>1. /\ Rising(Tail(F), s) /\ Ahead({Head(F)}, Elements(Tail(F)), s)
      /\ Elements(F) = {Head(F)} \cup Elements(Tail(F)) /\ Head(F) \in Request
  BY RisingTail DEF Line
<1>2. Elements(Append(N, Head(F))) = Elements(N) \cup {Head(F)}
  BY AppendElements
<1>3. Rising(Append(N, Head(F)), s)
  <2>1. Ahead(Elements(N), {Head(F)}, s)
    BY <1>1 DEF Line, Ahead
  <2>. QED BY <1>1, <2>1, RisingAppend DEF Line
<1>. QED BY <1>1, <1>2, <1>3 DEF Line, Ahead

(* The dispatcher puts a request in one of the queues.                     *)
LEMMA LineRoute ==
  ASSUME NEW s, NEW C, NEW L, NEW B, NEW Q \in Seq(Request), NEW N, NEW F \in Seq(Request),
         NEW r \in Request, Line(s, C, L, B, Q, N, F, {r})
  PROVE  /\ Line(s, C, L, B, Append(Q, r), N, F, {})
         /\ Line(s, C, L, B, Q, N, Append(F, r), {})
<1>1. /\ Elements(Append(Q, r)) = Elements(Q) \cup {r}
      /\ Elements(Append(F, r)) = Elements(F) \cup {r}
  BY AppendElements
<1>2. Rising(Append(Q, r), s) /\ Rising(Append(F, r), s)
  <2>1. Ahead(Elements(Q), {r}, s) /\ Ahead(Elements(F), {r}, s)
    BY DEF Line, Ahead
  <2>. QED BY <2>1, RisingAppend DEF Line
<1>3. Line(s, C, L, B, Append(Q, r), N, F, {})
  BY <1>1, <1>2 DEF Line, Ahead
<1>. QED BY <1>1, <1>2, <1>3 DEF Line, Ahead

(* A request of another session takes no place in the line.                *)
LEMMA LineOther ==
  ASSUME NEW s, NEW C, NEW L \in Seq(Request), NEW B, NEW Q \in Seq(Request), NEW N, NEW F,
         NEW T, NEW r \in Request, r.session # s, Line(s, C, L, B, Q, N, F, T)
  PROVE  /\ Line(s, C, Append(L, r), B, Q, N, F, T)
         /\ Line(s, C, L, B, Append(Q, r), N, F, T)
<1>1. /\ Elements(Append(Q, r)) = Elements(Q) \cup {r}
      /\ Elements(Append(L, r)) = Elements(L) \cup {r}
  BY AppendElements
<1>2. Rising(Append(Q, r), s) /\ Rising(Append(L, r), s)
  <2>1. Ahead(Elements(Q), {r}, s) /\ Ahead(Elements(L), {r}, s)
    BY DEF Ahead
  <2>. QED BY <2>1, RisingAppend DEF Line
<1>3. Line(s, C, Append(L, r), B, Q, N, F, T)
  BY <1>1, <1>2 DEF Line, Ahead
<1>. QED BY <1>1, <1>2, <1>3 DEF Line, Ahead

(* A request that is later than all others joins the line at its end.      *)
LEMMA LineTake ==
  ASSUME NEW s, NEW C, NEW L, NEW B, NEW Q, NEW N, NEW F, NEW r,
         Line(s, C, L, B, Q, N, F, {}),
         \A p \in Elements(C) \cup Elements(L) \cup Elements(B) \cup Elements(Q)
                  \cup Elements(N) \cup Elements(F) : p.session = s => p.xid < r.xid
  PROVE  Line(s, C, L, B, Q, N, F, {r})
BY DEF Line, Ahead

-----------------------------------------------------------------------------
(* The steps that are left when nothing fails                              *)

SteadyTypes ==
  /\ committed_queue \in Seq(Request) /\ raft_log \in Seq(Request)
  /\ acc_queue \in Seq(Request) /\ acc_batch \in Seq(Request) /\ Batch \in Seq(Request)
  /\ \A s \in Sessions :
       /\ fwd_net[s] \in Seq(Request) /\ fwd_queue[s] \in Seq(Request)
       /\ routing[s] # Idle =>
            /\ routing[s] \in [at : {"alive?", "leader?", "dead?"}, req : Request]
            /\ routing[s].req \in Request /\ Routed(s) = {routing[s].req}
       /\ routing[s] = Idle => Routed(s) = {}
       /\ pending_requests[s] \in Seq(Request) /\ requests_queue[s] \in Seq(Request)
       /\ dispatch_queue[s] \in Seq(Request) /\ next_xid[s] \in 1 .. MaxXid + 1
       /\ responses[s] \in Seq(Response)
  /\ fwd_net = [s \in Sessions |-> fwd_net[s]]
  /\ fwd_queue = [s \in Sessions |-> fwd_queue[s]]
  /\ routing = [s \in Sessions |-> routing[s]]
  /\ MaxXid \in Nat

LEMMA SteadyTypesHold == FullInv => SteadyTypes
<1> SUFFICES ASSUME FullInv PROVE SteadyTypes
  OBVIOUS
<1> USE DEF FullInv, ProcInv, ProcTypeOK, PipeTypes
<1>1. Batch \in Seq(Request)
  BY DEF Batch
<1>2. ASSUME NEW s \in Sessions, routing[s] # Idle PROVE routing[s].req \in Request
  BY <1>2
<1>. QED BY <1>1, <1>2, ProcessorAssumption DEF SteadyTypes, Routed

SteadyNext ==
  \/ UNCHANGED vars
  \/ Run /\ ~ProcessErrorRequest /\ UNCHANGED pipeVars
  \/ \E s \in Sessions :
       \/ TakeRequest(s) \/ LookAtLeaderAlive(s) \/ RouteByLeader(s) \/ SetResponse(s)
       \/ ForwardSend(s) \/ LeaderAppends(s)
       \/ \E kind \in ClientKinds : kind # "auth" /\ PutRequest(s, kind)
  \/ Accumulate \/ PutRequestBatch \/ BatchCommitted
  \/ RaftCommit

LEMMA NextIsSteady ==
  ASSUME FullInv, Calm, [Next]_vars
  PROVE  SteadyNext
<1>1. \A what \in Faults : ~Spend(what)
  BY DEF Calm, Spend
<1>2. CASE UNCHANGED vars
  BY <1>2 DEF SteadyNext
<1>3. CASE Processor
  BY <1>3 DEF Processor, SteadyNext, Calm, ProcessErrorRequest
<1>4. ASSUME NEW s \in Sessions,
             \/ FinishSession(s) \/ TakeRequest(s) \/ LookAtLeaderAlive(s)
             \/ RouteByLeader(s) \/ LookAgain(s) \/ SetResponse(s)
      PROVE  SteadyNext
  <2>1. ~FinishSession(s)
    BY DEF FinishSession, Calm
  <2>2. ~LookAgain(s)
    <3>1. routing[s] = Idle => routing[s].at # "dead?"
      BY DEF Idle
    <3>. QED BY <3>1 DEF LookAgain, Calm
  <2>. QED BY <1>4, <2>1, <2>2 DEF SteadyNext
<1>5. CASE Accumulator
  <2>1. ~BatchCancelled
    BY DEF BatchCancelled, Calm, FullInv, PipeTypes
  <2>2. ~ReportFailure
    BY DEF ReportFailure, Calm
  <2>. QED BY <1>5, <2>1, <2>2 DEF Accumulator, SteadyNext
<1>6. ASSUME NEW s \in Sessions, ForwardSend(s) \/ ForwardRefused(s)
      PROVE  SteadyNext
  BY <1>6 DEF ForwardRefused, Calm, SteadyNext
<1>7. ASSUME NEW s \in Sessions,
             \/ \E kind \in ClientKinds : PutRequest(s, kind)
             \/ PutForwardingRequest(s) \/ CleanSession(s)
             \/ Disconnect(s) \/ Handshake(s) \/ Reconnect(s)
      PROVE  SteadyNext
  <2>1. ~PutForwardingRequest(s) /\ ~CleanSession(s) /\ ~Disconnect(s) /\ ~Handshake(s)
    BY <1>1 DEF PutForwardingRequest, CleanSession, Disconnect, Handshake, Faults
  <2>2. ~Reconnect(s)
    BY DEF Reconnect, Calm
  <2>3. ~PutRequest(s, "auth")
    BY <1>1 DEF PutRequest, Faults
  <2>. QED BY <1>7, <2>1, <2>2, <2>3 DEF SteadyNext
<1>8. CASE Raft
  BY <1>8 DEF Raft, SteadyNext
<1>9. CASE Failures
  <2>1. ~LeaderChange /\ ~BatchTimeout
    BY <1>1 DEF LeaderChange, BatchTimeout, Faults
  <2>2. ASSUME NEW s \in Sessions,
               ForwardFail(s) \/ LeaderRefuses(s) \/ ConnectionLost(s) \/ RemoteAppend(s)
        PROVE  FALSE
    <3>1. ~LeaderRefuses(s) /\ ~ConnectionLost(s) /\ ~RemoteAppend(s)
      BY <1>1 DEF LeaderRefuses, ConnectionLost, RemoteAppend, Faults
    <3>2. ~ForwardFail(s)
      BY <1>1 DEF ForwardFail, Faults, Calm
    <3>. QED BY <2>2, <3>1, <3>2
  <2>. QED BY <1>9, <2>1, <2>2 DEF Failures
<1>. QED BY <1>2, <1>3, <1>4, <1>5, <1>6, <1>7, <1>8, <1>9
         DEF Next, Dispatcher, Forwarder, Clients

LEMMA CalmNext ==
  ASSUME FullInv, Calm, SteadyNext
  PROVE  Calm'
<1>0. SteadyTypes
  BY SteadyTypesHold
<1>1. CASE UNCHANGED vars
  BY <1>1 DEF vars, procVars, pipeVars, envVars, dispatchVars, accVars, fwdVars, raftVars, Calm
<1>2. CASE Run /\ ~ProcessErrorRequest /\ UNCHANGED pipeVars
  <2>1. UNCHANGED <<leader_alive, errors>>
    BY <1>2 DEF Run, WakeUp, WaitTimeout, StartIteration, ErrorsDone, TakeSizes, MoveRequest,
                ReadRequest, RunnersDone, ProcessCommittedRequest, CommittedDone, envVars
  <2>. QED BY <1>2, <2>1 DEF pipeVars, dispatchVars, accVars, fwdVars, raftVars, Calm
<1>3. ASSUME NEW s \in Sessions, TakeRequest(s) PROVE Calm'
  <2>1. UNCHANGED <<leader_alive, errors>>
    BY <1>3 DEF TakeRequest, Push, procVars, envVars
  <2>2. \A t \in Sessions : routing'[t] # Idle => routing'[t].at # "dead?"
    BY <1>0, <1>3 DEF TakeRequest, Calm, SteadyTypes
  <2>. QED BY <1>3, <2>1, <2>2 DEF TakeRequest, accVars, fwdVars, raftVars, Calm
<1>4. ASSUME NEW s \in Sessions, LookAtLeaderAlive(s) PROVE Calm'
  <2>1. \A t \in Sessions : routing'[t] # Idle => routing'[t].at # "dead?"
    BY <1>0, <1>4 DEF LookAtLeaderAlive, Calm, SteadyTypes, Idle
  <2>. QED BY <1>4, <2>1 DEF LookAtLeaderAlive, procVars, envVars, accVars, fwdVars, raftVars, Calm
<1>5. ASSUME NEW s \in Sessions, RouteByLeader(s) PROVE Calm'
  <2>1. \A t \in Sessions : routing'[t] # Idle => routing'[t].at # "dead?"
    BY <1>0, <1>5 DEF RouteByLeader, Enqueue, Calm, SteadyTypes, Idle
  <2>2. is_leader \in BOOLEAN
    BY DEF FullInv, PipeTypes
  <2>3. CASE is_leader
    <3>1. fwd_queue' = fwd_queue
      BY <1>0, <1>5, <2>3 DEF RouteByLeader, Enqueue, SteadyTypes
    <3>. QED BY <1>5, <2>1, <2>3, <3>1
             DEF RouteByLeader, Enqueue, procVars, envVars, raftVars, Calm
  <2>4. CASE ~is_leader
    BY <1>5, <2>1, <2>4 DEF RouteByLeader, Enqueue, procVars, envVars, raftVars, Calm
  <2>. QED BY <2>2, <2>3, <2>4
<1>6. ASSUME NEW s \in Sessions, SetResponse(s) PROVE Calm'
  <2>1. UNCHANGED <<leader_alive, errors>>
    BY <1>6 DEF SetResponse, SetLocal, procVars, envVars
  <2>. QED BY <1>6, <2>1 DEF SetResponse, accVars, fwdVars, raftVars, Calm
<1>7. ASSUME NEW s \in Sessions, ForwardSend(s) PROVE Calm'
  BY <1>7 DEF ForwardSend, procVars, envVars, dispatchVars, accVars, raftVars, Calm
<1>8. ASSUME NEW s \in Sessions, LeaderAppends(s) PROVE Calm'
  BY <1>8 DEF LeaderAppends, procVars, envVars, dispatchVars, accVars, Calm
<1>9. ASSUME NEW s \in Sessions, NEW kind, kind # "auth", PutRequest(s, kind) PROVE Calm'
  BY <1>9 DEF PutRequest, procVars, envVars, accVars, fwdVars, raftVars, Calm
<1>10. CASE Accumulate
  BY <1>10 DEF Accumulate, procVars, envVars, dispatchVars, fwdVars, raftVars, Calm
<1>11. CASE PutRequestBatch
  BY <1>11 DEF PutRequestBatch, procVars, envVars, dispatchVars, fwdVars, Calm
<1>12. CASE BatchCommitted
  BY <1>12 DEF BatchCommitted, procVars, envVars, dispatchVars, fwdVars, raftVars, Calm
<1>13. CASE RaftCommit
  BY <1>13 DEF RaftCommit, Commit, envVars, dispatchVars, accVars, fwdVars, Calm
<1>. QED BY <1>1, <1>2, <1>3, <1>4, <1>5, <1>6, <1>7, <1>8, <1>9, <1>10, <1>11, <1>12, <1>13
         DEF SteadyNext
-----------------------------------------------------------------------------
(* The line moves on                                                       *)

(* Nothing happens to the queues that the clients' requests wait in.       *)
QueuesRest ==
  UNCHANGED <<pending_requests, requests_queue, dispatch_queue, next_xid, responses, local>>

LEMMA QueuesResting ==
  ASSUME QueuesRest, NEW s, CloseLast(s), AnsweredBefore(s)
  PROVE  CloseLast(s)' /\ AnsweredBefore(s)' /\ Queued(s)' = Queued(s)
BY DEF QueuesRest, CloseLast, AnsweredBefore, Queued, Waiting

(* The line of session t after a step that leaves alone what the processor *)
(* waits for.                                                              *)
LEMMA LineMoved ==
  ASSUME NEW t, WritesInLine(t), QueuesRest,
         Line(t, committed_queue, raft_log, Batch, acc_queue, fwd_net[t], fwd_queue[t], Routed(t))',
         \A r \in Sent(t)' : r.session = t,
         OnWay(t)' = OnWay(t)
  PROVE  WritesInLine(t)'
BY DEF WritesInLine, QueuesRest, Queued

LEMMA RouteLine ==
  ASSUME SteadyTypes, Calm, NEW s \in Sessions, RouteByLeader(s),
         NEW t \in Sessions, WritesInLine(s), WritesInLine(t)
  PROVE  QueuesRest /\ WritesInLine(t)'
<1>1. QueuesRest /\ UNCHANGED <<committed_queue, raft_log, Batch, fwd_net>>
  BY DEF RouteByLeader, Enqueue, QueuesRest, procVars, envVars, raftVars, Batch
<1>2. PICK r \in Request : r = routing[s].req /\ Routed(s) = {r} /\ r.session = s
  <2>1. routing[s] # Idle
    <3>1. Idle.at # "leader?"
      BY DEF Idle
    <3>. QED BY <3>1 DEF RouteByLeader
  <2>. QED BY <2>1 DEF SteadyTypes, WritesInLine, Sent
<1>3. Routed(s)' = {} /\ (t # s => Routed(t)' = Routed(t))
  BY DEF RouteByLeader, Enqueue, Routed, SteadyTypes
<1>4. CASE is_leader
  <2>1. acc_queue' = Append(acc_queue, r) /\ fwd_queue' = fwd_queue
    BY <1>2, <1>4 DEF RouteByLeader, Enqueue, SteadyTypes
  <2>2. Elements(acc_queue') = Elements(acc_queue) \cup {r}
    BY <2>1, AppendElements DEF SteadyTypes
  <2>3. Line(t, committed_queue, raft_log, Batch, acc_queue, fwd_net[t], fwd_queue[t], Routed(t))'
    <3>1. CASE t = s
      <4>1. Line(s, committed_queue, raft_log, Batch, acc_queue, fwd_net[s], fwd_queue[s], {r})
        BY <1>2 DEF WritesInLine
      <4>2. Line(s, committed_queue, raft_log, Batch, Append(acc_queue, r), fwd_net[s],
                 fwd_queue[s], {})
        BY <4>1, LineRoute DEF SteadyTypes
      <4>. QED BY <1>1, <1>3, <2>1, <3>1, <4>2
    <3>2. CASE t # s
      BY <1>1, <1>2, <1>3, <2>1, <3>2, LineOther DEF SteadyTypes, WritesInLine
    <3>. QED BY <3>1, <3>2
  <2>4. OnWay(t)' = OnWay(t)
    <3>1. CASE t = s
      BY <1>1, <1>2, <1>3, <2>1, <2>2, <3>1 DEF OnWay, Sent
    <3>2. CASE t # s
      BY <1>1, <1>2, <1>3, <2>1, <2>2, <3>2 DEF OnWay, Sent
    <3>. QED BY <3>1, <3>2
  <2>5. Sent(t)' \subseteq Sent(t)
    BY <1>1, <1>3, <2>1 DEF Sent
  <2>. QED BY <1>1, <2>3, <2>4, <2>5, LineMoved DEF WritesInLine
<1>5. CASE ~is_leader
  <2>1. acc_queue' = acc_queue /\ fwd_queue' = [fwd_queue EXCEPT ![s] = Append(@, r)]
    BY <1>2, <1>5 DEF RouteByLeader, Enqueue
  <2>2. CASE t = s
    <3>1. fwd_queue'[s] = Append(fwd_queue[s], r)
      BY <2>1 DEF SteadyTypes
    <3>2. Elements(fwd_queue'[s]) = Elements(fwd_queue[s]) \cup {r}
      BY <3>1, AppendElements DEF SteadyTypes
    <3>3. Line(t, committed_queue, raft_log, Batch, acc_queue, fwd_net[t], fwd_queue[t], Routed(t))'
      <4>1. Line(s, committed_queue, raft_log, Batch, acc_queue, fwd_net[s], fwd_queue[s], {r})
        BY <1>2 DEF WritesInLine
      <4>2. Line(s, committed_queue, raft_log, Batch, acc_queue, fwd_net[s],
                 Append(fwd_queue[s], r), {})
        BY <4>1, LineRoute DEF SteadyTypes
      <4>. QED BY <1>1, <1>3, <2>1, <2>2, <3>1, <4>2
    <3>4. OnWay(t)' = OnWay(t) /\ Sent(t)' = Sent(t)
      BY <1>1, <1>2, <1>3, <2>1, <2>2, <3>2 DEF OnWay, Sent
    <3>. QED BY <1>1, <3>3, <3>4, LineMoved DEF WritesInLine
  <2>3. CASE t # s
    <3>1. fwd_queue'[t] = fwd_queue[t]
      BY <2>1, <2>3 DEF SteadyTypes
    <3>2. Line(t, committed_queue, raft_log, Batch, acc_queue, fwd_net[t], fwd_queue[t], Routed(t))'
      BY <1>1, <1>3, <2>1, <2>3, <3>1 DEF WritesInLine
    <3>3. OnWay(t)' = OnWay(t) /\ Sent(t)' = Sent(t)
      BY <1>1, <1>3, <2>1, <2>3, <3>1 DEF OnWay, Sent
    <3>. QED BY <1>1, <3>2, <3>3, LineMoved DEF WritesInLine
  <2>. QED BY <2>2, <2>3
<1>. QED BY <1>1, <1>4, <1>5

LEMMA LookLine ==
  ASSUME SteadyTypes, NEW s \in Sessions, LookAtLeaderAlive(s), NEW t \in Sessions,
         WritesInLine(t)
  PROVE  QueuesRest /\ WritesInLine(t)'
<1>1. QueuesRest /\ UNCHANGED <<committed_queue, raft_log, Batch, acc_queue, fwd_net, fwd_queue>>
  BY DEF LookAtLeaderAlive, QueuesRest, procVars, envVars, raftVars, accVars, fwdVars, Batch
<1>2. Routed(t)' = Routed(t)
  <2>1. routing[s] # Idle
    <3>1. Idle.at # "alive?"
      BY DEF Idle
    <3>. QED BY <3>1 DEF LookAtLeaderAlive
  <2>2. CASE t = s
    <3>1. routing'[s] # Idle /\ routing'[s].req = routing[s].req
      <4>1. routing'[s] = [routing[s] EXCEPT !.at = IF leader_alive THEN "leader?" ELSE "dead?"]
        BY DEF LookAtLeaderAlive, SteadyTypes
      <4>2. PICK x : x = routing[s] /\ x \in [at : {"alive?", "leader?", "dead?"}, req : Request]
        BY <2>1 DEF SteadyTypes
      <4>. QED BY <4>1, <4>2 DEF Idle
    <3>. QED BY <2>1, <2>2, <3>1 DEF Routed
  <2>3. CASE t # s
    BY <2>3 DEF LookAtLeaderAlive, SteadyTypes, Routed
  <2>. QED BY <2>2, <2>3
<1>3. OnWay(t)' = OnWay(t) /\ Sent(t)' = Sent(t)
  BY <1>1, <1>2 DEF OnWay, Sent
<1>. QED BY <1>1, <1>2, <1>3, LineMoved DEF WritesInLine

LEMMA AccumulateLine ==
  ASSUME SteadyTypes, Accumulate, NEW t \in Sessions, WritesInLine(t)
  PROVE  QueuesRest /\ WritesInLine(t)'
<1>1. /\ QueuesRest /\ UNCHANGED <<committed_queue, raft_log, fwd_net, fwd_queue, routing>>
      /\ acc_queue # <<>> /\ acc_queue' = Tail(acc_queue)
      /\ Batch' = Append(Batch, Head(acc_queue))
  BY DEF Accumulate, QueuesRest, procVars, envVars, dispatchVars, raftVars, fwdVars, Batch
<1>2. Routed(t)' = Routed(t)
  BY <1>1 DEF Routed
<1>3. /\ Elements(acc_queue) = {Head(acc_queue)} \cup Elements(acc_queue')
      /\ Elements(Batch') = Elements(Batch) \cup {Head(acc_queue)}
  <2>1. Elements(acc_queue) = {Head(acc_queue)} \cup Elements(acc_queue') /\ Head(acc_queue) \in Request
    BY <1>1, HeadAndTail DEF SteadyTypes
  <2>. QED BY <1>1, <2>1, AppendElements DEF SteadyTypes
<1>4. OnWay(t)' = OnWay(t) /\ Sent(t)' = Sent(t)
  BY <1>1, <1>2, <1>3 DEF OnWay, Sent
<1>5. Line(t, committed_queue, raft_log, Batch, acc_queue, fwd_net[t], fwd_queue[t], Routed(t))'
  BY <1>1, <1>2, LineBatch DEF WritesInLine, SteadyTypes
<1>. QED BY <1>1, <1>4, <1>5, LineMoved DEF WritesInLine

LEMMA BatchLine ==
  ASSUME SteadyTypes, Calm, PutRequestBatch, NEW t \in Sessions, WritesInLine(t)
  PROVE  QueuesRest /\ WritesInLine(t)'
<1>1. /\ QueuesRest
      /\ UNCHANGED <<committed_queue, acc_queue, fwd_net, fwd_queue, routing>>
      /\ raft_log' = raft_log \o Batch /\ Batch' = <<>>
      /\ fwd_net[t] = <<>> /\ fwd_queue[t] = <<>>
  BY DEF PutRequestBatch, Calm, QueuesRest, procVars, envVars, dispatchVars, fwdVars, Batch
<1>2. Routed(t)' = Routed(t)
  BY <1>1 DEF Routed
<1>3. Elements(raft_log') = Elements(raft_log) \cup Elements(Batch) /\ Elements(Batch') = {}
  BY <1>1, ConcatElements, NoElements DEF SteadyTypes
<1>4. OnWay(t)' = OnWay(t) /\ Sent(t)' = Sent(t)
  BY <1>1, <1>2, <1>3 DEF OnWay, Sent
<1>5. Line(t, committed_queue, raft_log, Batch, acc_queue, fwd_net[t], fwd_queue[t], Routed(t))'
  BY <1>1, <1>2, LineLog DEF WritesInLine, SteadyTypes
<1>. QED BY <1>1, <1>4, <1>5, LineMoved DEF WritesInLine

LEMMA BatchDoneLine ==
  ASSUME SteadyTypes, BatchCommitted, NEW t \in Sessions, WritesInLine(t)
  PROVE  QueuesRest /\ WritesInLine(t)'
<1>1. /\ QueuesRest
      /\ UNCHANGED <<committed_queue, raft_log, acc_queue, fwd_net, fwd_queue, routing>>
      /\ Batch' = Batch
  BY DEF BatchCommitted, QueuesRest, procVars, envVars, dispatchVars, raftVars, fwdVars, Batch
<1>2. Routed(t)' = Routed(t)
  BY <1>1 DEF Routed
<1>3. OnWay(t)' = OnWay(t) /\ Sent(t)' = Sent(t)
  BY <1>1, <1>2 DEF OnWay, Sent
<1>. QED BY <1>1, <1>2, <1>3, LineMoved DEF WritesInLine

LEMMA SendLine ==
  ASSUME SteadyTypes, NEW s \in Sessions, ForwardSend(s), NEW t \in Sessions, WritesInLine(s),
         WritesInLine(t)
  PROVE  QueuesRest /\ WritesInLine(t)'
<1>1. /\ QueuesRest
      /\ UNCHANGED <<committed_queue, raft_log, acc_queue, Batch, routing>>
      /\ fwd_queue[s] # <<>>
      /\ fwd_net' = [fwd_net EXCEPT ![s] = Append(@, Head(fwd_queue[s]))]
      /\ fwd_queue' = [fwd_queue EXCEPT ![s] = Tail(@)]
  BY DEF ForwardSend, QueuesRest, procVars, envVars, dispatchVars, raftVars, accVars, Batch
<1>2. Routed(t)' = Routed(t)
  BY <1>1 DEF Routed
<1>3. CASE t = s
  <2>1. /\ fwd_net'[s] = Append(fwd_net[s], Head(fwd_queue[s]))
        /\ fwd_queue'[s] = Tail(fwd_queue[s])
    BY <1>1 DEF SteadyTypes
  <2>2. /\ Elements(fwd_queue[s]) = {Head(fwd_queue[s])} \cup Elements(fwd_queue'[s])
        /\ Elements(fwd_net'[s]) = Elements(fwd_net[s]) \cup {Head(fwd_queue[s])}
    <3>1. /\ Elements(fwd_queue[s]) = {Head(fwd_queue[s])} \cup Elements(fwd_queue'[s])
          /\ Head(fwd_queue[s]) \in Request
      BY <1>1, <2>1, HeadAndTail DEF SteadyTypes
    <3>. QED BY <2>1, <3>1, AppendElements DEF SteadyTypes
  <2>3. OnWay(t)' = OnWay(t) /\ Sent(t)' = Sent(t)
    BY <1>1, <1>2, <1>3, <2>2 DEF OnWay, Sent
  <2>4. Line(t, committed_queue, raft_log, Batch, acc_queue, fwd_net[t], fwd_queue[t], Routed(t))'
    BY <1>1, <1>2, <1>3, <2>1, LineSend DEF WritesInLine, SteadyTypes
  <2>. QED BY <1>1, <2>3, <2>4, LineMoved DEF WritesInLine
<1>4. CASE t # s
  <2>1. fwd_net'[t] = fwd_net[t] /\ fwd_queue'[t] = fwd_queue[t]
    BY <1>1, <1>4 DEF SteadyTypes
  <2>2. OnWay(t)' = OnWay(t) /\ Sent(t)' = Sent(t)
    BY <1>1, <1>2, <2>1 DEF OnWay, Sent
  <2>3. Line(t, committed_queue, raft_log, Batch, acc_queue, fwd_net[t], fwd_queue[t], Routed(t))'
    BY <1>1, <1>2, <2>1 DEF WritesInLine
  <2>. QED BY <1>1, <2>2, <2>3, LineMoved DEF WritesInLine
<1>. QED BY <1>1, <1>3, <1>4

LEMMA AppendsLine ==
  ASSUME SteadyTypes, Calm, NEW s \in Sessions, LeaderAppends(s), NEW t \in Sessions,
         WritesInLine(s), WritesInLine(t)
  PROVE  QueuesRest /\ WritesInLine(t)'
<1>1. /\ QueuesRest
      /\ UNCHANGED <<committed_queue, acc_queue, Batch, routing, fwd_queue>>
      /\ acc_queue = <<>> /\ Batch = <<>>
      /\ fwd_net[s] # <<>>
      /\ raft_log' = Append(raft_log, Head(fwd_net[s]))
      /\ fwd_net' = [fwd_net EXCEPT ![s] = Tail(@)]
  BY DEF LeaderAppends, Calm, QueuesRest, procVars, envVars, dispatchVars, accVars, Batch
<1>2. Routed(t)' = Routed(t)
  BY <1>1 DEF Routed
<1>3. /\ Elements(fwd_net[s]) = {Head(fwd_net[s])} \cup Elements(Tail(fwd_net[s]))
      /\ Head(fwd_net[s]) \in Request /\ Head(fwd_net[s]).session = s
  <2>1. /\ Elements(fwd_net[s]) = {Head(fwd_net[s])} \cup Elements(Tail(fwd_net[s]))
        /\ Head(fwd_net[s]) \in Request
    BY <1>1, HeadAndTail DEF SteadyTypes
  <2>. QED BY <2>1 DEF WritesInLine, Sent
<1>4. Elements(raft_log') = Elements(raft_log) \cup {Head(fwd_net[s])}
  BY <1>1, <1>3, AppendElements DEF SteadyTypes
<1>5. CASE t = s
  <2>1. fwd_net'[s] = Tail(fwd_net[s])
    BY <1>1 DEF SteadyTypes
  <2>2. OnWay(t)' = OnWay(t) /\ Sent(t)' \subseteq Sent(t)
    BY <1>1, <1>2, <1>3, <1>4, <1>5, <2>1 DEF OnWay, Sent
  <2>3. Line(t, committed_queue, raft_log, Batch, acc_queue, fwd_net[t], fwd_queue[t], Routed(t))'
    <3>1. Line(s, committed_queue, raft_log, <<>>, <<>>, fwd_net[s], fwd_queue[s], Routed(s))
      BY <1>1 DEF WritesInLine
    <3>2. Line(s, committed_queue, Append(raft_log, Head(fwd_net[s])), <<>>, <<>>,
               Tail(fwd_net[s]), fwd_queue[s], Routed(s))
      BY <1>1, <3>1, LineAppends DEF SteadyTypes
    <3>. QED BY <1>1, <1>2, <1>5, <2>1, <3>2
  <2>. QED BY <1>1, <2>2, <2>3, LineMoved DEF WritesInLine
<1>6. CASE t # s
  <2>1. fwd_net'[t] = fwd_net[t]
    BY <1>1, <1>6 DEF SteadyTypes
  <2>2. OnWay(t)' = OnWay(t) /\ Sent(t)' = Sent(t)
    BY <1>1, <1>2, <1>3, <1>4, <1>6, <2>1 DEF OnWay, Sent
  <2>3. Line(t, committed_queue, raft_log, Batch, acc_queue, fwd_net[t], fwd_queue[t], Routed(t))'
    <3>1. Line(t, committed_queue, Append(raft_log, Head(fwd_net[s])), Batch, acc_queue,
               fwd_net[t], fwd_queue[t], Routed(t))
      BY <1>3, <1>6, LineOther DEF WritesInLine, SteadyTypes
    <3>. QED BY <1>1, <1>2, <2>1, <3>1
  <2>. QED BY <1>1, <2>2, <2>3, LineMoved DEF WritesInLine
<1>. QED BY <1>1, <1>5, <1>6

LEMMA CommitLine ==
  ASSUME SteadyTypes, RaftCommit, NEW t \in Sessions, WritesInLine(t)
  PROVE  QueuesRest /\ WritesInLine(t)'
<1>1. /\ QueuesRest
      /\ UNCHANGED <<acc_queue, Batch, routing, fwd_queue, fwd_net>>
      /\ raft_log # <<>> /\ raft_log' = Tail(raft_log)
      /\ committed_queue' = Append(committed_queue, Head(raft_log))
  BY DEF RaftCommit, Commit, QueuesRest, envVars, dispatchVars, accVars, fwdVars, Batch
<1>2. Routed(t)' = Routed(t)
  BY <1>1 DEF Routed
<1>3. /\ Elements(raft_log) = {Head(raft_log)} \cup Elements(raft_log')
      /\ Elements(committed_queue') = Elements(committed_queue) \cup {Head(raft_log)}
  <2>1. Elements(raft_log) = {Head(raft_log)} \cup Elements(raft_log') /\ Head(raft_log) \in Request
    BY <1>1, HeadAndTail DEF SteadyTypes
  <2>. QED BY <1>1, <2>1, AppendElements DEF SteadyTypes
<1>4. OnWay(t)' = OnWay(t) /\ Sent(t)' = Sent(t)
  BY <1>1, <1>2, <1>3 DEF OnWay, Sent
<1>5. Line(t, committed_queue, raft_log, Batch, acc_queue, fwd_net[t], fwd_queue[t], Routed(t))'
  BY <1>1, <1>2, LineCommit DEF WritesInLine, SteadyTypes
<1>. QED BY <1>1, <1>4, <1>5, LineMoved DEF WritesInLine
-----------------------------------------------------------------------------
(* Requests and answers                                                    *)

(* Where neither the way of the writes nor the writes that the processor   *)
(* waits for change.                                                       *)
LEMMA WayResting ==
  ASSUME NEW t, WritesInLine(t), routing'[t] = routing[t],
         UNCHANGED <<committed_queue, raft_log, acc_queue, Batch, fwd_queue, fwd_net>>,
         {r \in Queued(t)' : ~IsRead(r)} = {r \in Queued(t) : ~IsRead(r)}
  PROVE  WritesInLine(t)'
<1>1. Routed(t)' = Routed(t)
  BY DEF Routed
<1>2. OnWay(t)' = OnWay(t) /\ Sent(t)' = Sent(t)
  BY <1>1 DEF OnWay, Sent
<1>3. Line(t, committed_queue, raft_log, Batch, acc_queue, fwd_net[t], fwd_queue[t], Routed(t))'
  BY <1>1 DEF WritesInLine
<1>. QED BY <1>2, <1>3 DEF WritesInLine

LEMMA WaitingKept ==
  ASSUME NEW t, CloseLast(t), AnsweredBefore(t), Waiting(t)' = Waiting(t),
         responses'[t] = responses[t], next_xid'[t] = next_xid[t], local' = local
  PROVE  CloseLast(t)' /\ AnsweredBefore(t)'
BY DEF CloseLast, AnsweredBefore

(* The first of the requests that wait is answered.                        *)
LEMMA AnswerFirst ==
  ASSUME NEW s \in Sessions, SteadyTypes, CloseLast(s), AnsweredBefore(s),
         NEW r \in Waiting(s), r.xid < next_xid[s],
         Waiting(s)' \subseteq Waiting(s), \A p \in Waiting(s)' : r.xid < p.xid,
         local' = local, next_xid'[s] = next_xid[s],
         \/ responses'[s] = responses[s]
         \/ \E a \in Response : /\ responses'[s] = Append(responses[s], a)
                                /\ a.xid = r.xid /\ a.kind = r.kind
  PROVE  CloseLast(s)' /\ AnsweredBefore(s)'
<1>1. r.kind = "close" => Waiting(s)' = {} /\ next_xid[s] = MaxXid + 1
  <2>1. SUFFICES ASSUME r.kind = "close" PROVE Waiting(s)' = {} /\ next_xid[s] = MaxXid + 1
    OBVIOUS
  <2>2. next_xid[s] = MaxXid + 1 /\ \A p \in Waiting(s) : p.xid <= r.xid
    BY <2>1 DEF CloseLast
  <2>3. \A p \in Waiting(s) : p.xid \in Int
    BY DEF AnsweredBefore, Numbered
  <2>. QED BY <2>2, <2>3
<1>2. CASE responses'[s] = responses[s]
  BY <1>2 DEF CloseLast, AnsweredBefore
<1>3. ASSUME NEW a \in Response, responses'[s] = Append(responses[s], a), a.xid = r.xid,
             a.kind = r.kind
      PROVE  CloseLast(s)' /\ AnsweredBefore(s)'
  <2>1. Elements(responses'[s]) = Elements(responses[s]) \cup {a}
    BY <1>3, AppendElements DEF SteadyTypes
  <2>2. CloseLast(s)'
    BY <1>1, <1>3, <2>1 DEF CloseLast
  <2>3. PICK old \in Seq(Response) : old = responses[s]
    BY DEF SteadyTypes
  <2>4. /\ Len(old) \in Nat /\ Len(responses'[s]) = Len(old) + 1
        /\ \A k \in 1 .. Len(old) : responses'[s][k] = old[k] /\ old[k] \in Elements(old)
        /\ responses'[s][Len(old) + 1] = a
    BY <1>3, <2>3, AppendProperties, LenProperties DEF Elements
  <2>5. ASSUME NEW j \in 1 .. Len(responses'[s]), NEW i \in 1 .. (j - 1)
        PROVE  responses'[s][i].xid < responses'[s][j].xid
    <3>1. CASE j = Len(old) + 1
      BY <1>3, <2>3, <2>4, <3>1 DEF AnsweredBefore
    <3>2. CASE j \in 1 .. Len(old)
      <4>1. i \in 1 .. Len(old) /\ responses'[s][i] = old[i] /\ responses'[s][j] = old[j]
        <5>1. i \in 1 .. Len(old)
          BY <2>4, <3>2
        <5>. QED BY <2>4, <3>2, <5>1
      <4>2. old[i].xid < old[j].xid
        BY <2>3, <3>2 DEF AnsweredBefore
      <4>. QED BY <4>1, <4>2
    <3>. QED BY <2>4, <3>1, <3>2
  <2>. QED BY <1>3, <2>1, <2>2, <2>5 DEF AnsweredBefore
<1>. QED BY <1>2, <1>3

(* A client sends a request.                                               *)
LEMMA PutSteady ==
  ASSUME FullInv, QueuesInOrder, NEW s \in Sessions, NEW kind, kind # "auth",
         PutRequest(s, kind), NEW t \in Sessions,
         WritesInLine(t), CloseLast(t), AnsweredBefore(t)
  PROVE  WritesInLine(t)' /\ CloseLast(t)' /\ AnsweredBefore(t)'
<1>0. SteadyTypes /\ QueueTypes
  BY SteadyTypesHold, QueueTypesHold
<1>1. UNCHANGED <<procVars, routing, accVars, fwdVars, raftVars>>
  BY DEF PutRequest
<1>2. WritesInLine(t)'
  BY <1>1, WayResting DEF procVars, accVars, fwdVars, raftVars, Batch, Queued
<1>3. CASE t # s
  <2>1. Waiting(t)' = Waiting(t) /\ next_xid'[t] = next_xid[t]
    BY <1>0, <1>1, <1>3 DEF PutRequest, Enter, QueueTypes, Waiting, Queued, procVars
  <2>. QED BY <1>1, <1>2, <2>1, WaitingKept DEF procVars, envVars
<1>4. CASE t = s
  <2>1. PICK n \in 1 .. MaxXid : n = next_xid[s]
    BY <1>0 DEF PutRequest, Closing, SteadyTypes
  <2>2. PICK r : /\ r = [session |-> s, xid |-> n, kind |-> kind]
                 /\ dispatch_queue'[s] = Append(dispatch_queue[s], r)
                 /\ next_xid'[s] = IF kind = "close" THEN MaxXid + 1 ELSE n + 1
    BY <1>0, <2>1 DEF PutRequest, Enter, QueueTypes
  <2>3. Waiting(s)' = Waiting(s) \cup {r}
    <3>1. Elements(dispatch_queue'[s]) = Elements(dispatch_queue[s]) \cup {r}
      BY <1>0, <2>2, AppendElements DEF SteadyTypes
    <3>. QED BY <1>1, <3>1 DEF Waiting, Queued, procVars
  <2>4. \A p \in Waiting(s) : p.xid \in Numbered /\ p.xid < n
    BY <1>4, <2>1 DEF AnsweredBefore, QueuesInOrder, InOrder, Below, Waiting, Queued
  <2>5. /\ \A p \in Waiting(s) : p.kind # "close"
        /\ \A a \in Elements(responses[s]) : a.kind # "close"
        /\ s \in local
    <3>1. n # MaxXid + 1
      BY <1>0, <2>1 DEF SteadyTypes
    <3>. QED BY <1>4, <2>1, <3>1 DEF CloseLast, PutRequest
  <2>6. responses' = responses /\ local' = local
    BY <1>1 DEF procVars, envVars
  <2>7. CloseLast(s)'
    BY <2>2, <2>3, <2>4, <2>5, <2>6 DEF CloseLast, Numbered
  <2>8. \A a \in Elements(responses[s]) : a.xid \in Int /\ a.xid < n
    <3>1. \A i \in 1 .. Len(responses[s]) : responses[s][i] \in Response
      BY <1>0, ElementOfSeq DEF SteadyTypes
    <3>2. \A a \in Response : a.xid \in Int
      BY ProcessorAssumption DEF Response, Xids, AuthXid, CloseXid
    <3>. QED BY <1>4, <2>1, <3>1, <3>2 DEF AnsweredBefore, Elements
  <2>9. AnsweredBefore(s)'
    <3>1. n \in Numbered /\ MaxXid \in Nat
      BY <1>0, <2>1 DEF Numbered, SteadyTypes
    <3>2. \A p \in Waiting(s)' : p.xid \in Numbered
      BY <2>2, <2>3, <2>4, <3>1
    <3>3. \A a \in Elements(responses[s]) :
            a.xid < next_xid'[s] /\ \A p \in Waiting(s)' : a.xid < p.xid
      BY <1>4, <2>1, <2>2, <2>3, <2>8, <3>1 DEF AnsweredBefore
    <3>. QED BY <1>4, <2>6, <3>2, <3>3 DEF AnsweredBefore
  <2>. QED BY <1>2, <1>4, <2>7, <2>9
<1>. QED BY <1>3, <1>4
(* What QueuesInOrder says of the requests that wait.                      *)
LEMMA WaitingInOrder ==
  ASSUME QueuesInOrder, NEW s \in Sessions, AnsweredBefore(s)
  PROVE  /\ \A r \in Waiting(s) : /\ r.session = s /\ r.kind # "auth"
                                  /\ r.xid \in Numbered /\ r.xid < next_xid[s]
         /\ \A p \in Elements(pending_requests[s]),
               r \in Elements(requests_queue[s]) \cup Elements(dispatch_queue[s]) : p.xid < r.xid
         /\ \A p \in Elements(requests_queue[s]), r \in Elements(dispatch_queue[s]) :
               p.xid < r.xid
<1>1. InOrder(s, pending_requests[s], requests_queue[s], dispatch_queue[s], next_xid[s])
  BY DEF QueuesInOrder
<1>2. AuthXid \notin Numbered
  BY ProcessorAssumption DEF AuthXid, Numbered
<1>3. \A r \in Waiting(s) : r.xid \in Numbered
  BY DEF AnsweredBefore
<1>4. \A r \in Waiting(s) : r.session = s /\ r.kind # "auth" /\ r.xid < next_xid[s]
  BY <1>1, <1>2, <1>3 DEF InOrder, OfSession, WellFormed, Below, Waiting, Queued
<1>5. /\ \A p \in Elements(pending_requests[s]),
               r \in Elements(requests_queue[s]) \cup Elements(dispatch_queue[s]) : p.xid < r.xid
      /\ \A p \in Elements(requests_queue[s]), r \in Elements(dispatch_queue[s]) : p.xid < r.xid
  <2>1. \A p \in Waiting(s), r \in Waiting(s) : Precedes(p, r) => p.xid < r.xid
    BY <1>2, <1>3, ProcessorAssumption DEF Precedes, Numbered
  <2>. QED BY <1>1, <2>1 DEF InOrder, Before, Waiting, Queued
<1>. QED BY <1>3, <1>4, <1>5

(* The first pending request is before all others that wait.               *)
LEMMA FirstPending ==
  ASSUME SteadyTypes, QueuesInOrder, NEW s \in Sessions, AnsweredBefore(s),
         pending_requests[s] # <<>>
  PROVE  /\ Head(pending_requests[s]) \in Waiting(s) /\ Head(pending_requests[s]) \in Request
         /\ Tail(pending_requests[s]) \in Seq(Request)
         /\ Elements(pending_requests[s]) = {Head(pending_requests[s])}
                                            \cup Elements(Tail(pending_requests[s]))
         /\ \A p \in Elements(Tail(pending_requests[s])) \cup Elements(requests_queue[s])
                     \cup Elements(dispatch_queue[s]) : Head(pending_requests[s]).xid < p.xid
<1>0. PICK q \in Seq(Request) : q = pending_requests[s] /\ q # <<>>
  BY DEF SteadyTypes
<1>1. InOrder(s, pending_requests[s], requests_queue[s], dispatch_queue[s], next_xid[s])
  BY DEF QueuesInOrder
<1>2. /\ Elements(q) = {Head(q)} \cup Elements(Tail(q))
      /\ Head(q) \in Request /\ Tail(q) \in Seq(Request)
  BY <1>0, HeadAndTail
<1>4. \A r \in Elements(Tail(q)) : Precedes(Head(q), r)
  BY <1>0, <1>1, HeadPrecedes DEF InOrder
<1>5. /\ Elements(q) = {Head(q)} \cup Elements(Tail(q))
      /\ Head(q) \in Waiting(s) /\ Elements(Tail(q)) \subseteq Waiting(s)
  BY <1>0, <1>2 DEF Waiting, Queued
<1>6. \A r \in Elements(Tail(q)) : Head(q).xid < r.xid
  <2>1. \A r \in Waiting(s) : r.xid \in Numbered
    BY DEF AnsweredBefore
  <2>2. \A r \in Elements(Tail(q)) : r.xid # AuthXid
    BY <1>5, <2>1, ProcessorAssumption DEF AuthXid, Numbered
  <2>. QED BY <1>4, <1>5, <2>1, <2>2, ProcessorAssumption DEF Precedes, Numbered
<1>. QED BY <1>0, <1>2, <1>5, <1>6, WaitingInOrder
(* A dispatcher thread takes a request: the processor gets it, and a write *)
(* joins the line.                                                         *)
LEMMA TakeSteady ==
  ASSUME FullInv, QueuesInOrder, NEW s \in Sessions, TakeRequest(s),
         WritesInLine(s), CloseLast(s), AnsweredBefore(s), NEW t \in Sessions,
         WritesInLine(t), CloseLast(t), AnsweredBefore(t)
  PROVE  WritesInLine(t)' /\ CloseLast(t)' /\ AnsweredBefore(t)'
<1>0. SteadyTypes /\ QueueTypes
  BY SteadyTypesHold, QueueTypesHold
<1>1. PICK r \in Request :
        /\ r = Head(dispatch_queue[s])
        /\ Elements(dispatch_queue[s]) = {r} \cup Elements(Tail(dispatch_queue[s]))
  BY <1>0, HeadAndTail DEF TakeRequest, SteadyTypes
<1>2. r \in Waiting(s) /\ r.session = s /\ r.xid \in Numbered
  BY <1>1, WaitingInOrder DEF Waiting
<1>3. s \in local
  BY <1>2 DEF CloseLast
<1>4. /\ requests_queue' = [requests_queue EXCEPT ![s] = Append(@, r)]
      /\ dispatch_queue' = [dispatch_queue EXCEPT ![s] = Tail(@)]
      /\ routing' = [routing EXCEPT ![s] = IF IsRead(r) THEN Idle ELSE [at |-> "alive?", req |-> r]]
      /\ routing[s] = Idle
      /\ UNCHANGED <<pending_requests, committed_queue, raft_log, acc_queue, Batch, fwd_queue,
                     fwd_net, next_xid, responses, local>>
  BY <1>1, <1>2, <1>3 DEF TakeRequest, Push, accVars, fwdVars, raftVars, envVars, Batch
<1>5. CASE t # s
  <2>1. /\ Waiting(t)' = Waiting(t) /\ Queued(t)' = Queued(t) /\ routing'[t] = routing[t]
    BY <1>0, <1>4, <1>5 DEF QueueTypes, SteadyTypes, Waiting, Queued
  <2>. QED BY <1>4, <2>1, WayResting, WaitingKept
<1>6. CASE t = s
  <2>1. /\ requests_queue'[s] = Append(requests_queue[s], r)
        /\ dispatch_queue'[s] = Tail(dispatch_queue[s])
        /\ routing'[s] = IF IsRead(r) THEN Idle ELSE [at |-> "alive?", req |-> r]
    BY <1>0, <1>4 DEF QueueTypes, SteadyTypes
  <2>2. Elements(requests_queue'[s]) = Elements(requests_queue[s]) \cup {r}
    BY <1>0, <2>1, AppendElements DEF SteadyTypes
  <2>3. Waiting(s)' = Waiting(s) /\ Queued(s)' = Queued(s) \cup {r}
    BY <1>1, <1>4, <2>1, <2>2 DEF Waiting, Queued
  <2>4. CloseLast(s)' /\ AnsweredBefore(s)'
    BY <1>4, <2>3, WaitingKept
  <2>5. CASE IsRead(r)
    <3>1. {p \in Queued(s)' : ~IsRead(p)} = {p \in Queued(s) : ~IsRead(p)}
      BY <2>3, <2>5
    <3>. QED BY <1>4, <1>6, <2>1, <2>4, <2>5, <3>1, WayResting
  <2>6. CASE ~IsRead(r)
    <3>1. Routed(s)' = {r} /\ Routed(s) = {}
      <4>1. [at |-> "alive?", req |-> r] # Idle
        BY DEF Idle
      <4>. QED BY <1>4, <2>1, <2>6, <4>1 DEF Routed
    <3>2. Sent(s)' = Sent(s) \cup {r} /\ OnWay(s)' = OnWay(s) \cup {r}
      BY <1>2, <1>4, <3>1 DEF OnWay, Sent
    <3>3. \A p \in OnWay(s) : p.xid < r.xid
      <4>1. r \in Elements(dispatch_queue[s])
        BY <1>1
      <4>2. \A p \in Queued(s) : p.xid < r.xid
        BY <4>1, WaitingInOrder DEF Queued
      <4>. QED BY <4>2 DEF WritesInLine
    <3>4. Line(s, committed_queue, raft_log, Batch, acc_queue, fwd_net[s], fwd_queue[s], {r})
      <4>1. Line(s, committed_queue, raft_log, Batch, acc_queue, fwd_net[s], fwd_queue[s], {})
        BY <3>1 DEF WritesInLine
      <4>2. \A p \in Elements(committed_queue) \cup Elements(raft_log) \cup Elements(Batch)
                     \cup Elements(acc_queue) \cup Elements(fwd_net[s])
                     \cup Elements(fwd_queue[s]) : p.session = s => p.xid < r.xid
        BY <3>3 DEF OnWay, Sent
      <4>. QED BY <4>1, <4>2, LineTake
    <3>5. Line(s, committed_queue, raft_log, Batch, acc_queue, fwd_net[s], fwd_queue[s], Routed(s))'
      BY <1>4, <3>1, <3>4
    <3>6. OnWay(s)' = {p \in Queued(s)' : ~IsRead(p)}
      BY <2>3, <2>6, <3>2 DEF WritesInLine
    <3>7. \A p \in Sent(s)' : p.session = s
      BY <1>2, <3>2 DEF WritesInLine
    <3>. QED BY <1>6, <2>4, <3>5, <3>6, <3>7 DEF WritesInLine
  <2>. QED BY <2>5, <2>6
<1>. QED BY <1>5, <1>6

(* moveRequestToPendingQueue.                                              *)
LEMMA MoveSteady ==
  ASSUME FullInv, QueuesInOrder, NEW s \in Sessions, MoveRequest(s), UNCHANGED pipeVars,
         AnsweredBefore(s), NEW t \in Sessions,
         WritesInLine(t), CloseLast(t), AnsweredBefore(t)
  PROVE  WritesInLine(t)' /\ CloseLast(t)' /\ AnsweredBefore(t)'
<1>0. SteadyTypes /\ QueueTypes
  BY SteadyTypesHold, QueueTypesHold
<1>1. PICK r \in Request :
        /\ r = Head(requests_queue[s])
        /\ Elements(requests_queue[s]) = {r} \cup Elements(Tail(requests_queue[s]))
  BY <1>0, HeadAndTail DEF MoveRequest, SteadyTypes
<1>2. r.kind # "auth"
  BY <1>1, WaitingInOrder DEF Waiting, Queued
<1>3. /\ requests_queue' = [requests_queue EXCEPT ![s] = Tail(@)]
      /\ pending_requests' = [pending_requests EXCEPT ![s] = Append(@, r)]
      /\ UNCHANGED <<committed_queue, raft_log, acc_queue, Batch, fwd_queue, fwd_net, routing,
                     dispatch_queue, next_xid, responses, local>>
  BY <1>1, <1>2 DEF MoveRequest, pipeVars, dispatchVars, accVars, fwdVars, raftVars, envVars, Batch
<1>4. Queued(t)' = Queued(t)
  <2>1. CASE t # s
    BY <1>0, <1>3, <2>1 DEF QueueTypes, Queued
  <2>2. CASE t = s
    <3>1. /\ requests_queue'[s] = Tail(requests_queue[s])
          /\ pending_requests'[s] = Append(pending_requests[s], r)
      BY <1>0, <1>3 DEF QueueTypes
    <3>2. Elements(pending_requests'[s]) = Elements(pending_requests[s]) \cup {r}
      BY <1>0, <3>1, AppendElements DEF SteadyTypes
    <3>. QED BY <1>1, <2>2, <3>1, <3>2 DEF Queued
  <2>. QED BY <2>1, <2>2
<1>5. Waiting(t)' = Waiting(t)
  BY <1>3, <1>4 DEF Waiting
<1>. QED BY <1>3, <1>4, <1>5, WayResting, WaitingKept

(* applyRequest answers with the request's xid, or not at all.             *)
LEMMA ApplyAnswers ==
  ASSUME SteadyTypes, responses \in [Sessions -> Seq(Response)], NEW r \in Request, ApplyRequest(r)
  PROVE  /\ \/ responses'[r.session] = responses[r.session]
            \/ \E a \in Response : /\ responses'[r.session] = Append(responses[r.session], a)
                                   /\ a.xid = r.xid /\ a.kind = r.kind
         /\ \A t \in Sessions : t # r.session => responses'[t] = responses[t]
<1>1. ApplyResponse(r) \in Response
  BY ApplyResponseType
<1>2. ApplyResponse(r).xid = r.xid /\ ApplyResponse(r).kind = r.kind /\ r.session \in Sessions
  BY DEF ApplyResponse, Request
<1>. QED BY <1>1, <1>2 DEF ApplyRequest

(* processReadRequests.                                                    *)
LEMMA ReadSteady ==
  ASSUME FullInv, QueuesInOrder, NEW s \in Sessions, ReadRequest(s), UNCHANGED pipeVars,
         AnsweredBefore(s), NEW t \in Sessions,
         WritesInLine(t), CloseLast(t), AnsweredBefore(t)
  PROVE  WritesInLine(t)' /\ CloseLast(t)' /\ AnsweredBefore(t)'
<1>0. SteadyTypes /\ QueueTypes /\ responses \in [Sessions -> Seq(Response)]
  BY SteadyTypesHold, QueueTypesHold DEF FullInv, ProcInv, ProcTypeOK
<1>1. PICK r \in Request :
        /\ r = Head(pending_requests[s]) /\ r \in Waiting(s)
        /\ Elements(pending_requests[s]) = {r} \cup Elements(Tail(pending_requests[s]))
        /\ \A p \in Elements(Tail(pending_requests[s])) \cup Elements(requests_queue[s])
                    \cup Elements(dispatch_queue[s]) : r.xid < p.xid
  BY <1>0, FirstPending DEF ReadRequest, HeadIsRead
<1>2. r.session = s /\ r.xid < next_xid[s]
  BY <1>1, WaitingInOrder
<1>3. /\ pending_requests' = [pending_requests EXCEPT ![s] = Tail(@)]
      /\ ApplyRequest(r) /\ IsRead(r)
      /\ UNCHANGED <<committed_queue, raft_log, acc_queue, Batch, fwd_queue, fwd_net, routing,
                     dispatch_queue, requests_queue, next_xid, local>>
  BY <1>1 DEF ReadRequest, HeadIsRead, pipeVars, dispatchVars, accVars, fwdVars, raftVars, envVars,
              Batch
<1>4. CASE t # s
  <2>1. Waiting(t)' = Waiting(t) /\ Queued(t)' = Queued(t) /\ responses'[t] = responses[t]
    BY <1>0, <1>2, <1>3, <1>4, ApplyAnswers DEF QueueTypes, Waiting, Queued
  <2>. QED BY <1>3, <2>1, WayResting, WaitingKept
<1>5. CASE t = s
  <2>1. pending_requests'[s] = Tail(pending_requests[s])
    BY <1>0, <1>3 DEF QueueTypes
  <2>2. /\ {p \in Queued(s)' : ~IsRead(p)} = {p \in Queued(s) : ~IsRead(p)}
        /\ Waiting(s)' \subseteq Waiting(s) /\ \A p \in Waiting(s)' : r.xid < p.xid
    BY <1>1, <1>3, <2>1 DEF Waiting, Queued
  <2>3. \/ responses'[s] = responses[s]
        \/ \E a \in Response : /\ responses'[s] = Append(responses[s], a)
                               /\ a.xid = r.xid /\ a.kind = r.kind
    BY <1>0, <1>2, <1>3, ApplyAnswers
  <2>4. local' = local /\ next_xid'[s] = next_xid[s] /\ CloseLast(s) /\ AnsweredBefore(s)
    BY <1>3, <1>5
  <2>5. CloseLast(s)' /\ AnsweredBefore(s)'
    BY <1>0, <1>1, <1>2, <2>2, <2>3, <2>4, AnswerFirst
  <2>. QED BY <1>3, <1>5, <2>2, <2>5, WayResting
<1>. QED BY <1>4, <1>5

(* The processor takes the first request out of the line.                  *)
LEMMA LineFirst ==
  ASSUME NEW s, committed_queue \in Seq(Request), committed_queue # <<>>, WritesInLine(s),
         NEW r, r = Head(committed_queue)
  PROVE  /\ Line(s, Tail(committed_queue), raft_log, Batch, acc_queue, fwd_net[s], fwd_queue[s],
                 Routed(s))
         /\ Elements(committed_queue) = {r} \cup Elements(Tail(committed_queue))
         /\ \A p \in Elements(Tail(committed_queue)) \cup Elements(raft_log) \cup Elements(Batch)
                     \cup Elements(acc_queue) \cup Sent(s) :
              r.session = s /\ p.session = s => r.xid < p.xid
<1>0. Line(s, committed_queue, raft_log, Batch, acc_queue, fwd_net[s], fwd_queue[s], Routed(s))
  BY DEF WritesInLine
<1>1. Rising(committed_queue, s)
  BY <1>0 DEF Line
<1>2. /\ Rising(Tail(committed_queue), s) /\ Ahead({r}, Elements(Tail(committed_queue)), s)
      /\ Elements(committed_queue) = {r} \cup Elements(Tail(committed_queue))
  BY <1>1, RisingTail
<1>3. Line(s, Tail(committed_queue), raft_log, Batch, acc_queue, fwd_net[s], fwd_queue[s],
           Routed(s))
  BY <1>0, <1>2 DEF Line, Ahead
<1>4. ASSUME NEW p \in Elements(Tail(committed_queue)) \cup Elements(raft_log) \cup Elements(Batch)
                       \cup Elements(acc_queue) \cup Sent(s),
             r.session = s, p.session = s
      PROVE  r.xid < p.xid
  BY <1>0, <1>2, <1>4 DEF Line, Ahead, Sent
<1>. QED BY <1>2, <1>3, <1>4

(* The committed request at the head of the queue is the first pending     *)
(* request of its session: earlier reads have been answered, earlier       *)
(* writes are before it in the line and have been applied.                 *)
LEMMA CommittedIsFirst ==
  ASSUME FullInv, QueuesInOrder, SizesCover, Calm, ProcessCommittedRequest,
         NEW r, r = Head(committed_queue), ~CommittedWaits(r),
         \A s \in Sessions : WritesInLine(s) /\ CloseLast(s) /\ AnsweredBefore(s)
  PROVE  /\ committed_queue # <<>> /\ r \in Request /\ ~IsRead(r)
         /\ CommittedLocal(r)
         /\ pending_requests[r.session] # <<>> /\ Head(pending_requests[r.session]) = r
         /\ pending_requests' = [pending_requests EXCEPT ![r.session] = Tail(@)]
<1>0. SteadyTypes /\ QueueTypes
  BY SteadyTypesHold, QueueTypesHold
<1>1. committed_queue # <<>> /\ Len(committed_queue) >= 1 /\ count >= 1
  <2>1. /\ count \in Nat /\ count > 0 /\ count <= Len(committed_queue)
        /\ committed_queue \in Seq(Request)
    BY DEF ProcessCommittedRequest, FullInv, ProcInv, ProcTypeOK, SizeStillThere
  <2>2. Len(committed_queue) \in Nat
    BY <2>1, LenProperties
  <2>. QED BY <2>1, <2>2, EmptySeq
<1>2. /\ r \in Request /\ r = committed_queue[1]
      /\ Elements(committed_queue) = {r} \cup Elements(Tail(committed_queue))
  BY <1>0, <1>1, HeadAndTail, HeadElement DEF SteadyTypes
<1>3. PICK s \in Sessions : s = r.session
  BY <1>2 DEF Request
<1>4. r \in Queued(s) /\ ~IsRead(r)
  <2>1. r \in OnWay(s)
    BY <1>2, <1>3 DEF OnWay
  <2>. QED BY <2>1 DEF WritesInLine
<1>5. r.xid \in Numbered /\ r.kind # "auth" /\ s \in local
  BY <1>4, WaitingInOrder DEF Waiting, CloseLast
<1>6. r \in Elements(pending_requests[s])
  <2>1. Lacks(requests_queue[s], r.xid)
    <3>1. 1 \in 1 .. count
      BY <1>1 DEF FullInv, ProcInv, ProcTypeOK
    <3>2. phase = "committed"
      BY DEF ProcessCommittedRequest
    <3>. QED BY <1>2, <1>3, <1>5, <3>1, <3>2 DEF SizesCover
  <2>. QED BY <1>4, <2>1 DEF Lacks, Queued
<1>7. CommittedLocal(r)
  BY <1>3, <1>5 DEF ProcessCommittedRequest, CommittedRemote, IsRemote
<1>8. pending_requests[s] # <<>>
  BY <1>6, NoElements
<1>9. PICK h : /\ h = Head(pending_requests[s]) /\ h \in Queued(s)
               /\ \A p \in Elements(Tail(pending_requests[s])) : h.xid < p.xid
               /\ Elements(pending_requests[s]) = {h} \cup Elements(Tail(pending_requests[s]))
  <2>1. Elements(pending_requests[s]) \subseteq Queued(s)
    BY DEF Queued
  <2>. QED BY <1>0, <1>8, <2>1, FirstPending
<1>10. h = r
  <2>1. SUFFICES ASSUME h # r PROVE FALSE
    OBVIOUS
  <2>2. h.xid < r.xid
    BY <1>6, <1>9, <2>1
  <2>3. h.xid \in Int /\ r.xid \in Int /\ h.session = s
    BY <1>5, <1>9, WaitingInOrder DEF Waiting, Numbered
  <2>4. h.xid # r.xid
    BY <2>2, <2>3
  <2>5. ~IsRead(h)
    <3>1. ~MustWait(r)
      BY <1>7 DEF CommittedLocal
    <3>2. ~IsRemote(r)
      BY <1>7 DEF CommittedLocal
    <3>. QED BY <1>3, <1>8, <1>9, <2>4, <3>1, <3>2 DEF MustWait
  <2>6. h \in OnWay(s)
    BY <1>9, <2>5 DEF WritesInLine
  <2>7. \A p \in Elements(Tail(committed_queue)) \cup Elements(raft_log) \cup Elements(Batch)
                 \cup Elements(acc_queue) \cup Sent(s) :
          r.session = s /\ p.session = s => r.xid < p.xid
    <3>1. committed_queue \in Seq(Request) /\ committed_queue # <<>> /\ WritesInLine(s)
      BY <1>0, <1>1 DEF SteadyTypes
    <3>. QED BY <3>1, LineFirst
  <2>8. r.xid < h.xid
    <3>1. h \in Elements(Tail(committed_queue)) \cup Elements(raft_log) \cup Elements(Batch)
                \cup Elements(acc_queue) \cup Sent(s)
      BY <1>2, <2>1, <2>6 DEF OnWay
    <3>. QED BY <1>3, <2>3, <2>7, <3>1
  <2>. QED BY <2>2, <2>3, <2>8
<1>11. AfterMatch(pending_requests[s], r) = Tail(pending_requests[s])
  <2>1. PICK q \in Seq(Request) : q = pending_requests[s] /\ q # <<>> /\ q[1] = r
    BY <1>0, <1>8, <1>9, <1>10, HeadElement DEF SteadyTypes
  <2>2. Len(q) \in Nat /\ Len(q) >= 1
    BY <2>1, EmptySeq, LenProperties
  <2> DEFINE Match(p) == p.xid = r.xid \/ BothClose(p, r)
  <2>3. FirstAt(q, Match) = {1}
    <3>1. 1 \in FirstAt(q, Match)
      BY <2>1, <2>2 DEF FirstAt
    <3>2. ASSUME NEW i \in FirstAt(q, Match) PROVE i = 1
      <4>1. i \in 1 .. Len(q) /\ \A j \in 1 .. (i - 1) : ~Match(q[j])
        BY <3>2 DEF FirstAt
      <4>2. 1 \notin 1 .. (i - 1)
        BY <2>1, <4>1
      <4>. QED BY <2>2, <4>1, <4>2
    <3>. QED BY <3>1, <3>2
  <2>4. AfterMatch(q, r) = SubSeq(q, 1 + 1, Len(q))
    BY <2>3 DEF AfterMatch
  <2>5. SubSeq(q, 1 + 1, Len(q)) = Tail(q)
    BY <2>1
  <2>6. AfterMatch(q, r) = Tail(q)
    BY <2>4, <2>5, Zenon
  <2>. QED BY <2>1, <2>6, Zenon
<1>12. pending_requests' = [pending_requests EXCEPT ![r.session] = Tail(@)]
  <2>1. pending_requests' = [pending_requests EXCEPT
                               ![r.session] = AfterMatch(pending_requests[r.session], r)]
    BY <1>7 DEF CommittedLocal
  <2>. QED BY <1>3, <1>11, <2>1
<1>. QED BY <1>1, <1>2, <1>3, <1>4, <1>7, <1>8, <1>9, <1>10, <1>12

(* processCommittedRequest.                                                *)
LEMMA CommittedSteady ==
  ASSUME FullInv, QueuesInOrder, SizesCover, Calm, ProcessCommittedRequest, UNCHANGED pipeVars,
         \A s \in Sessions : WritesInLine(s) /\ CloseLast(s) /\ AnsweredBefore(s),
         NEW t \in Sessions
  PROVE  WritesInLine(t)' /\ CloseLast(t)' /\ AnsweredBefore(t)'
<1>0. SteadyTypes /\ QueueTypes /\ responses \in [Sessions -> Seq(Response)]
  BY SteadyTypesHold, QueueTypesHold DEF FullInv, ProcInv, ProcTypeOK
<1>1. PICK r : r = Head(committed_queue)
  OBVIOUS
<1>2. UNCHANGED <<raft_log, acc_queue, Batch, fwd_queue, fwd_net, routing, dispatch_queue,
                  requests_queue, next_xid, local>>
  BY DEF ProcessCommittedRequest, pipeVars, dispatchVars, accVars, fwdVars, raftVars, envVars, Batch
<1>3. CASE CommittedWaits(r)
  <2>1. UNCHANGED <<committed_queue, pending_requests, responses>>
    BY <1>3 DEF CommittedWaits
  <2>2. Queued(t)' = Queued(t) /\ Waiting(t)' = Waiting(t)
    BY <1>2, <2>1 DEF Queued, Waiting
  <2>. QED BY <1>2, <2>1, <2>2, WayResting, WaitingKept
<1>4. CASE ~CommittedWaits(r)
  <2>0. /\ committed_queue # <<>> /\ r \in Request /\ ~IsRead(r) /\ CommittedLocal(r)
        /\ pending_requests[r.session] # <<>> /\ Head(pending_requests[r.session]) = r
        /\ pending_requests' = [pending_requests EXCEPT ![r.session] = Tail(@)]
    BY <1>1, <1>4, CommittedIsFirst
  <2>1. PICK s \in Sessions :
          /\ committed_queue # <<>> /\ r \in Request /\ ~IsRead(r) /\ s = r.session
          /\ CommittedLocal(r)
          /\ pending_requests[s] # <<>> /\ Head(pending_requests[s]) = r
          /\ pending_requests' = [pending_requests EXCEPT ![s] = Tail(@)]
    <3>1. r.session \in Sessions
      BY <2>0 DEF Request
    <3>. QED BY <2>0, <3>1
  <2>2. committed_queue' = Tail(committed_queue) /\ ApplyRequest(r)
    BY <2>1 DEF CommittedLocal, ApplyCommitted
  <2>3. /\ r \in Waiting(s) /\ r.xid < next_xid[s] /\ r.xid \in Numbered
        /\ Elements(pending_requests[s]) = {r} \cup Elements(Tail(pending_requests[s]))
        /\ \A p \in Elements(Tail(pending_requests[s])) \cup Elements(requests_queue[s])
                    \cup Elements(dispatch_queue[s]) : r.xid < p.xid
    <3>1. /\ r \in Waiting(s)
          /\ Elements(pending_requests[s]) = {r} \cup Elements(Tail(pending_requests[s]))
          /\ \A p \in Elements(Tail(pending_requests[s])) \cup Elements(requests_queue[s])
                      \cup Elements(dispatch_queue[s]) : r.xid < p.xid
      BY <1>0, <2>1, FirstPending
    <3>. QED BY <3>1, WaitingInOrder
  <2>4. /\ Line(t, Tail(committed_queue), raft_log, Batch, acc_queue, fwd_net[t], fwd_queue[t],
                Routed(t))
        /\ Elements(committed_queue) = {r} \cup Elements(Tail(committed_queue))
        /\ \A p \in Elements(Tail(committed_queue)) \cup Elements(raft_log) \cup Elements(Batch)
                    \cup Elements(acc_queue) \cup Sent(t) :
             r.session = t /\ p.session = t => r.xid < p.xid
    <3>1. committed_queue \in Seq(Request) /\ committed_queue # <<>> /\ WritesInLine(t)
      BY <1>0, <2>1 DEF SteadyTypes
    <3>. QED BY <1>1, <3>1, LineFirst
  <2>5. Routed(t)' = Routed(t) /\ Sent(t)' = Sent(t)
    BY <1>2 DEF Routed, Sent
  <2>6. Line(t, committed_queue, raft_log, Batch, acc_queue, fwd_net[t], fwd_queue[t], Routed(t))'
    BY <1>2, <2>2, <2>4, <2>5
  <2>7. CASE t # s
    <3>1. Waiting(t)' = Waiting(t) /\ Queued(t)' = Queued(t) /\ responses'[t] = responses[t]
      BY <1>0, <1>2, <2>1, <2>2, <2>7, ApplyAnswers DEF QueueTypes, Waiting, Queued
    <3>2. OnWay(t)' = OnWay(t)
      BY <1>2, <2>1, <2>2, <2>4, <2>5, <2>7 DEF OnWay
    <3>3. WritesInLine(t)'
      BY <2>5, <2>6, <3>1, <3>2 DEF WritesInLine
    <3>. QED BY <1>2, <3>1, <3>3, WaitingKept
  <2>8. CASE t = s
    <3>1. pending_requests'[s] = Tail(pending_requests[s])
      BY <1>0, <2>1 DEF QueueTypes
    <3>2. Waiting(s)' \subseteq Waiting(s) /\ \A p \in Waiting(s)' : r.xid < p.xid
      BY <1>2, <2>3, <3>1 DEF Waiting, Queued
    <3>3. CloseLast(s)' /\ AnsweredBefore(s)'
      BY <1>0, <1>2, <2>1, <2>2, <2>3, <3>2, ApplyAnswers, AnswerFirst
    <3>4. r.xid \in Int /\ ~(r.xid < r.xid)
      BY <2>3 DEF Numbered
    <3>5. Queued(s)' = Queued(s) \ {r}
      BY <1>2, <2>3, <3>1, <3>4 DEF Queued
    <3>6. OnWay(s)' = OnWay(s) \ {r}
      <4>1. r \notin Elements(Tail(committed_queue)) \cup Elements(raft_log) \cup Elements(Batch)
                     \cup Elements(acc_queue) \cup Sent(s)
        BY <2>1, <2>4, <2>8, <3>4
      <4>2. r \in Elements(committed_queue) /\ r.session = s
        BY <2>1, <2>4
      <4>. QED BY <1>2, <2>2, <2>4, <2>5, <2>8, <4>1, <4>2 DEF OnWay
    <3>7. OnWay(s)' = {p \in Queued(s)' : ~IsRead(p)}
      BY <3>5, <3>6 DEF WritesInLine
    <3>. QED BY <2>5, <2>6, <2>8, <3>3, <3>7 DEF WritesInLine
  <2>. QED BY <2>7, <2>8
<1>. QED BY <1>3, <1>4

(* responseThread: the session of a Close is not local any more.           *)
LEMMA ResponseSteady ==
  ASSUME FullInv, NEW s \in Sessions, SetResponse(s), CloseLast(s), NEW t \in Sessions,
         WritesInLine(t), CloseLast(t), AnsweredBefore(t)
  PROVE  WritesInLine(t)' /\ CloseLast(t)' /\ AnsweredBefore(t)'
<1>1. UNCHANGED <<committed_queue, raft_log, acc_queue, Batch, fwd_queue, fwd_net, routing,
                  dispatch_queue, requests_queue, pending_requests, responses, next_xid>>
  BY DEF SetResponse, SetLocal, procVars, accVars, fwdVars, raftVars, Batch
<1>2. Queued(t)' = Queued(t) /\ Waiting(t)' = Waiting(t)
  BY <1>1 DEF Queued, Waiting
<1>3. WritesInLine(t)' /\ AnsweredBefore(t)'
  BY <1>1, <1>2, WayResting DEF AnsweredBefore
<1>4. local' = local \/ (local' = local \ {s} /\ Waiting(s) = {})
  <2>1. CASE s \in local /\ responses[s][sent[s] + 1].kind = "close"
    <3>1. sent[s] \in Nat /\ sent[s] < Len(responses[s]) /\ Len(responses[s]) \in Nat
      BY LenProperties DEF SetResponse, FullInv, ProcInv, ProcTypeOK, PipeTypes
    <3>2. responses[s][sent[s] + 1] \in Elements(responses[s])
      BY <3>1 DEF Elements
    <3>. QED BY <2>1, <3>2 DEF SetResponse, SetLocal, CloseLast
  <2>2. CASE ~(s \in local /\ responses[s][sent[s] + 1].kind = "close")
    BY <2>2 DEF SetResponse, procVars, envVars
  <2>. QED BY <2>1, <2>2
<1>5. CloseLast(t)'
  BY <1>1, <1>2, <1>4 DEF CloseLast
<1>. QED BY <1>3, <1>5

LEMMA SteadyInvInit == Undisturbed /\ Init => SteadyInv
<1> SUFFICES ASSUME Undisturbed, Init PROVE SteadyInv
  OBVIOUS
<1>1. OrderInv
  BY OrderInvInit
<1>2. Calm
  BY DEF Init, ProcInit, Undisturbed, Calm
<1>3. ASSUME NEW s \in Sessions PROVE WritesInLine(s) /\ CloseLast(s) /\ AnsweredBefore(s)
  <2>1. /\ pending_requests[s] = <<>> /\ requests_queue[s] = <<>> /\ dispatch_queue[s] = <<>>
        /\ responses[s] = <<>> /\ fwd_queue[s] = <<>> /\ fwd_net[s] = <<>> /\ Routed(s) = {}
        /\ committed_queue = <<>> /\ raft_log = <<>> /\ acc_queue = <<>> /\ Batch = <<>>
    BY DEF Init, ProcInit, Routed, Batch
  <2>2. Waiting(s) = {} /\ Queued(s) = {} /\ Sent(s) = {} /\ OnWay(s) = {}
        /\ Elements(responses[s]) = {}
    BY <2>1, NoElements DEF Waiting, Queued, Sent, OnWay
  <2>3. Line(s, <<>>, <<>>, <<>>, <<>>, <<>>, <<>>, {})
    BY NoElements, RisingEmpty DEF Line, Ahead
  <2>4. AnsweredBefore(s)
    <3>1. Len(responses[s]) = 0 /\ 1 .. 0 = {}
      BY <2>1
    <3>. QED BY <2>2, <3>1 DEF AnsweredBefore
  <2>. QED BY <2>1, <2>2, <2>3, <2>4 DEF WritesInLine, CloseLast
<1>. QED BY <1>1, <1>2, <1>3 DEF SteadyInv

LEMMA SteadyInvStep == SteadyInv /\ [Next]_vars => SteadyInv'
<1> SUFFICES ASSUME SteadyInv, [Next]_vars PROVE SteadyInv'
  OBVIOUS
<1>0. /\ FullInv /\ QueuesInOrder /\ SizesCover /\ Calm /\ SteadyTypes
      /\ \A s \in Sessions : WritesInLine(s) /\ CloseLast(s) /\ AnsweredBefore(s)
  BY SteadyTypesHold DEF SteadyInv, OrderInv
<1>1. OrderInv'
  BY OrderInvStep DEF SteadyInv
<1>2. SteadyNext /\ Calm'
  BY <1>0, NextIsSteady, CalmNext
<1>3. ASSUME NEW t \in Sessions
      PROVE  WritesInLine(t)' /\ CloseLast(t)' /\ AnsweredBefore(t)'
  <2> USE <1>0
  <2>1. CASE UNCHANGED vars
    <3>1. UNCHANGED <<committed_queue, raft_log, acc_queue, Batch, fwd_queue, fwd_net, routing>>
          /\ QueuesRest
      BY <2>1 DEF vars, procVars, pipeVars, envVars, dispatchVars, accVars, fwdVars, raftVars,
                  Batch, QueuesRest
    <3>. QED BY <3>1, WayResting, QueuesResting
  <2>2. CASE Run /\ ~ProcessErrorRequest /\ UNCHANGED pipeVars
    <3>1. ASSUME NEW s \in Sessions, MoveRequest(s) \/ ReadRequest(s)
          PROVE  WritesInLine(t)' /\ CloseLast(t)' /\ AnsweredBefore(t)'
      BY <2>2, <3>1, MoveSteady, ReadSteady
    <3>2. CASE ProcessCommittedRequest
      BY <2>2, <3>2, CommittedSteady
    <3>3. CASE WakeUp \/ WaitTimeout \/ ErrorsDone \/ TakeSizes \/ RunnersDone \/ CommittedDone
      <4>1. UNCHANGED <<committed_queue, raft_log, acc_queue, Batch, fwd_queue, fwd_net, routing>>
            /\ QueuesRest
        BY <2>2, <3>3 DEF WakeUp, WaitTimeout, StartIteration, ErrorsDone, TakeSizes, RunnersDone,
                    CommittedDone, pipeVars, envVars, dispatchVars, accVars, fwdVars, raftVars,
                    Batch, QueuesRest
      <4>. QED BY <4>1, WayResting, QueuesResting
    <3>. QED BY <2>2, <3>1, <3>2, <3>3 DEF Run
  <2>3. ASSUME NEW s \in Sessions, TakeRequest(s) \/ SetResponse(s)
        PROVE  WritesInLine(t)' /\ CloseLast(t)' /\ AnsweredBefore(t)'
    BY <2>3, TakeSteady, ResponseSteady
  <2>4. ASSUME NEW s \in Sessions, NEW kind, kind # "auth", PutRequest(s, kind)
        PROVE  WritesInLine(t)' /\ CloseLast(t)' /\ AnsweredBefore(t)'
    BY <2>4, PutSteady
  <2>5. ASSUME NEW s \in Sessions,
               LookAtLeaderAlive(s) \/ RouteByLeader(s) \/ ForwardSend(s) \/ LeaderAppends(s)
        PROVE  WritesInLine(t)' /\ CloseLast(t)' /\ AnsweredBefore(t)'
    BY <2>5, LookLine, RouteLine, SendLine, AppendsLine, QueuesResting
  <2>6. CASE Accumulate \/ PutRequestBatch \/ BatchCommitted \/ RaftCommit
    BY <2>6, AccumulateLine, BatchLine, BatchDoneLine, CommitLine, QueuesResting
  <2>. QED BY <1>2, <2>1, <2>2, <2>3, <2>4, <2>5, <2>6 DEF SteadyNext
<1>. QED BY <1>1, <1>2, <1>3 DEF SteadyInv

(* README, guarantee 1: as long as nothing fails, the responses of every   *)
(* session come in the order of its requests, on the leader and on a       *)
(* follower, for any number of sessions and requests, any batches, and any *)
(* order in which the threads run.                                         *)
THEOREM ResponsesInOrderHolds == Undisturbed => (Spec => []ResponsesInOrder)
<1>1. SteadyInv => ResponsesInOrder
  BY DEF SteadyInv, AnsweredBefore, ResponsesInOrder
<1>. QED BY <1>1, SteadyInvInit, SteadyInvStep, PTL DEF Spec
=============================================================================
