-------------------------- MODULE ScopeServerProofs --------------------------
(***************************************************************************)
(* Proofs about ScopeServer, for any number of sockets and samples and any *)
(* sizes of the queue and of a packet.                                     *)
(***************************************************************************)
EXTENDS ScopeServer, SequenceTheorems, TLAPS

\* What the active session may still be sent: nothing older than the session
\* nor than what it was sent already, in the order it was taken.
QueueInOrder ==
    /\ \A i \in 1..Len(js_queue) : js_queue[i] <= produced
    /\ \A i, j \in 1..Len(js_queue) : i < j => js_queue[i] < js_queue[j]

NotStarted == {"free", "configure", "reset"}

SamplesTaken ==
    \A f \in Fds : /\ sample[f] <= produced /\ since[f] <= produced
                   /\ pc[f] \in NotStarted => sample[f] = 0

\* The last sample of a full packet is the one still in javascope_data_sending.
PacketEndsInSample ==
    \A f \in Fds : pc[f] = "recheck" => nwsend[f][PacketSize] = sample[f]

ActiveInOrder ==
    \A a \in Fds : js_connection_established = a =>
        /\ pc[a] \in Serving
        /\ sample[a] = 0 \/ since[a] < sample[a]
        /\ sent[a] <= sample[a]
        /\ pc[a] # "reset" => \A i \in 1..Len(js_queue) : /\ since[a] < js_queue[i]
                                                          /\ sample[a] <= js_queue[i]

IInv == QueueInOrder /\ SamplesTaken /\ PacketEndsInSample /\ ActiveInOrder

-----------------------------------------------------------------------------
(* Types *)

LEMMA TypeInit == Init => TypeOK
BY ServerAssumption, SMT
   DEF Init, TypeOK, SharedType, ThreadType, HistoryType, Labels

\* What a wait for the queue does, whether it takes a sample or times out.
LEMMA ReceiveEffect ==
    ASSUME TypeOK, NEW f \in Fds, xQueueReceive(f)
    PROVE  /\ \/ sample' = sample /\ js_queue' = js_queue
              \/ /\ sample' = [sample EXCEPT ![f] = js_queue[1]]
                 /\ Len(js_queue) >= 1 /\ Len(js_queue') = Len(js_queue) - 1
                 /\ \A i \in 1..Len(js_queue') : js_queue'[i] = js_queue[i + 1]
           /\ sample' \in [Fds -> 0..MaxSample]
           /\ js_queue' \in Seq(1..MaxSample) /\ Len(js_queue') <= QueueSize
<1> USE DEF TypeOK, SharedType, ThreadType
<1>1. CASE js_queue = <<>>
    BY <1>1 DEF xQueueReceive
<1>2. CASE js_queue # <<>>
    <2> DEFINE q == js_queue
    <2>1. /\ Head(q) \in 1..MaxSample /\ Tail(q) \in Seq(1..MaxSample)
          /\ Len(Tail(q)) = Len(q) - 1
          /\ \A i \in 1..Len(Tail(q)) : Tail(q)[i] = q[i + 1]
        BY <1>2, HeadTailProperties
    <2>2. Len(q) \in Nat \ {0} /\ Head(q) = q[1]
        BY <1>2, EmptySeq
    <2>3. sample' = [sample EXCEPT ![f] = Head(q)] /\ js_queue' = Tail(q)
        BY <1>2 DEF xQueueReceive
    <2>4. Head(q) \in 0..MaxSample
        BY <2>1, ServerAssumption
    <2>5. sample' \in [Fds -> 0..MaxSample]
        BY <2>3, <2>4
    <2>6. QueueSize \in Nat /\ Len(q) <= QueueSize
        BY ServerAssumption
    <2>7. Len(js_queue') <= QueueSize
        BY <2>1, <2>2, <2>3, <2>6
    <2>8. /\ sample' = [sample EXCEPT ![f] = q[1]]
          /\ Len(q) >= 1 /\ Len(js_queue') = Len(q) - 1
          /\ \A i \in 1..Len(js_queue') : js_queue'[i] = q[i + 1]
        BY <2>1, <2>2, <2>3
    <2>9. js_queue' \in Seq(1..MaxSample)
        BY <2>1, <2>3
    <2> QED BY <2>5, <2>7, <2>8, <2>9
<1> QED BY <1>1, <1>2

LEMMA SharedTypeStep == TypeOK /\ Next => SharedType'
<1> SUFFICES ASSUME TypeOK, Next PROVE SharedType'
    OBVIOUS
<1> USE DEF TypeOK, SharedType, ThreadType, shared, ipi, thread
<1>1. CASE Transfer_ipc_Intr_Handler
    <2>1. produced' \in 1..MaxSample
        BY <1>1, ServerAssumption DEF Transfer_ipc_Intr_Handler
    <2>2. js_queue' \in Seq(1..MaxSample) /\ Len(js_queue') <= QueueSize
        <3>1. CASE UNCHANGED js_queue
            BY <3>1
        <3>2. CASE Len(js_queue) < QueueSize /\ js_queue' = Append(js_queue, produced')
            <4>1. /\ Append(js_queue, produced') \in Seq(1..MaxSample)
                  /\ Len(Append(js_queue, produced')) = Len(js_queue) + 1
                BY <2>1, AppendProperties
            <4>2. QueueSize \in Nat /\ Len(js_queue) \in Nat
                BY ServerAssumption, LenProperties
            <4> QED BY <3>2, <4>1, <4>2
        <3> QED BY <1>1, <3>1, <3>2 DEF Transfer_ipc_Intr_Handler, xQueueSendToBackFromISR
    <2> QED BY <1>1, <2>1, <2>2 DEF Transfer_ipc_Intr_Handler
<1>2. ASSUME NEW f \in Fds, application_thread(f) PROVE SharedType'
    BY <1>2 DEF application_thread
<1>3. ASSUME NEW f \in Fds, process_request_thread(f) PROVE SharedType'
    <2>1. CASE take_over(f)
        BY <2>1, <1>3 DEF take_over
    <2>2. CASE xQueueReset(f)
        BY <2>2, <1>3, ServerAssumption DEF xQueueReset
    <2>3. CASE receive(f)
        BY <2>3, <1>3, ReceiveEffect DEF receive
    <2>4. CASE store(f)
        <3>1. received[f] \in Messages
            BY <1>3, ServerAssumption
        <3>2. ControlData' \in Messages
            BY <2>4, <3>1 DEF store, Messages
        <3> QED BY <2>4, <3>2 DEF store
    <2>5. CASE end(f)
        BY <2>5, <1>3 DEF end
    <2>6. CASE while(f) \/ recheck(f) \/ write(f) \/ check(f) \/ close(f)
        BY <2>6 DEF while, recheck, write, check, close
    <2> QED BY <1>3, <2>1, <2>2, <2>3, <2>4, <2>5, <2>6 DEF process_request_thread
<1> QED BY <1>1, <1>2, <1>3 DEF Next

LEMMA ThreadTypeStep == TypeOK /\ Next => ThreadType'
<1> SUFFICES ASSUME TypeOK, Next PROVE ThreadType'
    OBVIOUS
<1> USE DEF TypeOK, SharedType, ThreadType, thread, Goto, Labels
<1>1. CASE Transfer_ipc_Intr_Handler
    BY <1>1 DEF Transfer_ipc_Intr_Handler
<1>2. ASSUME NEW f \in Fds, application_thread(f) PROVE ThreadType'
    BY <1>2 DEF application_thread
<1>3. ASSUME NEW f \in Fds, process_request_thread(f) PROVE ThreadType'
    <2>1. CASE take_over(f) \/ xQueueReset(f)
        BY <2>1, <1>3 DEF take_over, xQueueReset
    <2>2. CASE while(f)
        BY <2>2, <1>3, ServerAssumption DEF while
    <2>3. CASE receive(f)
        <3>1. sample' \in [Fds -> 0..MaxSample]
            BY <2>3, <1>3, ReceiveEffect DEF receive
        <3>2. nwsend' \in [Fds -> Seq(0..MaxSample)]
            <4>1. Append(nwsend[f], sample'[f]) \in Seq(0..MaxSample)
                BY <1>3, <3>1, AppendProperties
            <4> QED BY <2>3, <1>3, <4>1 DEF receive
        <3>3. /\ Len(nwsend'[f]) = Len(nwsend[f]) + 1
              /\ Len(nwsend[f]) \in Nat /\ Len(nwsend[f]) < PacketSize
            BY <2>3, <1>3, <3>1, AppendProperties, LenProperties DEF receive
        <3>4. \A g \in Fds : /\ Len(nwsend'[g]) <= PacketSize
                             /\ pc'[g] = "receive" => Len(nwsend'[g]) < PacketSize
                             /\ pc'[g] = "recheck" => Len(nwsend'[g]) = PacketSize
            BY <2>3, <1>3, <3>3, ServerAssumption DEF receive
        <3> QED BY <2>3, <3>1, <3>2, <3>4 DEF receive
    <2>4. CASE recheck(f) \/ check(f) \/ store(f) \/ end(f)
        BY <2>4, <1>3 DEF recheck, check, store, end
    <2>5. CASE write(f)
        BY <2>5, <1>3 DEF write
    <2>6. CASE close(f)
        BY <2>6, <1>3, ServerAssumption DEF close
    <2> QED BY <1>3, <2>1, <2>2, <2>3, <2>4, <2>5, <2>6 DEF process_request_thread
<1> QED BY <1>1, <1>2, <1>3 DEF Next

LEMMA HistoryTypeStep == TypeOK /\ Next => HistoryType'
<1> SUFFICES ASSUME TypeOK, Next PROVE HistoryType'
    OBVIOUS
<1> USE DEF HistoryType, history
<1>0. HistoryType /\ produced \in 0..MaxSample
    BY DEF TypeOK, SharedType
<1>1. CASE Transfer_ipc_Intr_Handler
    BY <1>0, <1>1 DEF Transfer_ipc_Intr_Handler
<1>2. ASSUME NEW f \in Fds, application_thread(f) PROVE HistoryType'
    BY <1>0, <1>2 DEF application_thread
<1>3. ASSUME NEW f \in Fds, process_request_thread(f) PROVE HistoryType'
    <2>1. CASE take_over(f)
        BY <1>0, <2>1, <1>3, ServerAssumption DEF take_over
    <2>2. CASE recheck(f)
        <3>1. CASE UNCHANGED sent
            BY <1>0, <2>2, <3>1 DEF recheck
        <3>2. CASE pc[f] = "recheck" /\ sent' = [sent EXCEPT ![f] = nwsend[f][PacketSize]]
            <4>1. nwsend[f] \in Seq(0..MaxSample) /\ Len(nwsend[f]) = PacketSize
                BY <1>3, <3>2 DEF TypeOK, ThreadType
            <4>2. nwsend[f][PacketSize] \in 0..MaxSample
                BY <4>1, ElementOfSeq, ServerAssumption
            <4> QED BY <1>0, <2>2, <3>2, <4>2 DEF recheck
        <3> QED BY <2>2, <3>1, <3>2 DEF recheck, Goto
    <2>3. CASE close(f)
        BY <1>0, <2>3, <1>3 DEF close
    <2>4. CASE xQueueReset(f) \/ while(f) \/ receive(f) \/ write(f) \/ check(f)
               \/ store(f) \/ end(f)
        BY <1>0, <2>4 DEF xQueueReset, while, receive, write, check, store, end
    <2> QED BY <1>3, <2>1, <2>2, <2>3, <2>4 DEF process_request_thread
<1> QED BY <1>1, <1>2, <1>3 DEF Next

LEMMA TypeStep == TypeOK /\ [Next]_vars => TypeOK'
<1>1. TypeOK /\ Next => TypeOK'
    BY SharedTypeStep, ThreadTypeStep, HistoryTypeStep DEF TypeOK
<1>2. TypeOK /\ UNCHANGED vars => TypeOK'
    BY DEF TypeOK, SharedType, ThreadType, HistoryType, vars, shared, ipi, thread, history
<1> QED BY <1>1, <1>2

\* The type invariant, for any sockets, commands, samples and sizes.
THEOREM TypeCorrect == Spec => []TypeOK
<1>1. Init => TypeOK
    BY TypeInit
<1>2. TypeOK /\ [Next]_vars => TypeOK'
    BY TypeStep
<1> QED BY <1>1, <1>2, PTL DEF Spec

-----------------------------------------------------------------------------
(* The order of the samples *)

LEMMA Numbers ==
    ASSUME TypeOK
    PROVE  /\ produced \in Nat /\ Len(js_queue) \in Nat
           /\ \A i \in 1..Len(js_queue) : js_queue[i] \in Nat /\ 1 <= js_queue[i]
           /\ \A f \in Fds : sample[f] \in Nat /\ since[f] \in Nat /\ sent[f] \in Nat
<1>1. \A i \in 1..Len(js_queue) : js_queue[i] \in 1..MaxSample
    BY ElementOfSeq DEF TypeOK, SharedType
<1>2. Len(js_queue) \in Nat
    BY LenProperties DEF TypeOK, SharedType
<1>3. MaxSample \in Nat
    BY ServerAssumption
<1> QED BY <1>1, <1>2, <1>3 DEF TypeOK, SharedType, ThreadType, HistoryType

LEMMA QueueInOrderStep == TypeOK /\ IInv /\ Next => QueueInOrder'
<1> SUFFICES ASSUME TypeOK, IInv, Next PROVE QueueInOrder'
    OBVIOUS
<1> USE DEF QueueInOrder
<1>0. QueueInOrder
    BY DEF IInv
<1>1. CASE Transfer_ipc_Intr_Handler
    <2>1. produced' = produced + 1
        BY <1>1 DEF Transfer_ipc_Intr_Handler
    <2>2. CASE UNCHANGED js_queue
        BY <1>0, <2>1, <2>2, Numbers
    <2>3. CASE js_queue' = Append(js_queue, produced')
        <3>1. js_queue \in Seq(Nat) /\ produced' \in Nat
            BY <2>1, Numbers, ServerAssumption DEF TypeOK, SharedType
        <3>2. /\ Len(js_queue') = Len(js_queue) + 1
              /\ \A i \in 1..Len(js_queue) : js_queue'[i] = js_queue[i]
              /\ js_queue'[Len(js_queue) + 1] = produced + 1
            BY <2>1, <2>3, <3>1, AppendProperties
        <3>3. \A i \in 1..Len(js_queue') : i \in 1..Len(js_queue) \/ i = Len(js_queue) + 1
            BY <3>2, Numbers
        <3>4. \A i \in 1..Len(js_queue) : js_queue[i] \in Nat /\ js_queue[i] <= produced
            BY <1>0, Numbers
        <3>5. \A i \in 1..Len(js_queue') : js_queue'[i] <= produced'
            BY <2>1, <3>2, <3>3, <3>4, Numbers
        <3>6. ASSUME NEW i \in 1..Len(js_queue'), NEW j \in 1..Len(js_queue'), i < j
              PROVE  js_queue'[i] < js_queue'[j]
            <4>1. i \in 1..Len(js_queue)
                BY <3>2, <3>6, Numbers
            <4>2. CASE j \in 1..Len(js_queue)
                BY <1>0, <3>2, <3>6, <4>1, <4>2
            <4>3. CASE j = Len(js_queue) + 1
                BY <3>2, <3>4, <4>1, <4>3, Numbers
            <4> QED BY <3>3, <4>2, <4>3
        <3> QED BY <3>5, <3>6
    <2> QED BY <1>1, <2>2, <2>3 DEF Transfer_ipc_Intr_Handler, xQueueSendToBackFromISR
<1>2. CASE UNCHANGED <<js_queue, produced>>
    BY <1>0, <1>2
<1>3. ASSUME NEW f \in Fds, xQueueReset(f) PROVE QueueInOrder'
    BY <1>3 DEF xQueueReset
<1>4. ASSUME NEW f \in Fds, receive(f) PROVE QueueInOrder'
    <2>1. produced' = produced
        BY <1>4 DEF receive, ipi
    <2>2. CASE UNCHANGED js_queue
        BY <1>0, <2>1, <2>2
    <2>3. CASE /\ Len(js_queue) >= 1 /\ Len(js_queue') = Len(js_queue) - 1
               /\ \A i \in 1..Len(js_queue') : js_queue'[i] = js_queue[i + 1]
        <3>1. \A i \in 1..Len(js_queue') : i + 1 \in 1..Len(js_queue)
            BY <2>3, Numbers
        <3>2. \A i \in 1..Len(js_queue') : js_queue'[i] <= produced'
            BY <1>0, <2>1, <2>3, <3>1
        <3>3. ASSUME NEW i \in 1..Len(js_queue'), NEW j \in 1..Len(js_queue'), i < j
              PROVE  js_queue'[i] < js_queue'[j]
            <4>1. i + 1 < j + 1
                BY <2>3, <3>3, Numbers
            <4> QED BY <1>0, <2>3, <3>1, <4>1
        <3> QED BY <3>2, <3>3
    <2> QED BY <1>4, <2>2, <2>3, ReceiveEffect DEF receive
<1>5. ASSUME NEW f \in Fds, application_thread(f) \/ process_request_thread(f)
      PROVE  UNCHANGED <<js_queue, produced>> \/ xQueueReset(f) \/ receive(f)
    BY <1>5 DEF application_thread, process_request_thread, take_over, while, recheck,
                write, check, store, end, close, shared, ipi
<1> QED BY <1>1, <1>2, <1>3, <1>4, <1>5 DEF Next

LEMMA SamplesTakenStep == TypeOK /\ IInv /\ Next => SamplesTaken'
<1> SUFFICES ASSUME TypeOK, IInv, Next PROVE SamplesTaken'
    OBVIOUS
<1> USE DEF SamplesTaken, NotStarted, Goto, thread, history, ipi
<1>0. SamplesTaken /\ QueueInOrder /\ pc \in [Fds -> Labels] /\ since \in [Fds -> 0..MaxSample]
      /\ sample \in [Fds -> 0..MaxSample]
    BY DEF IInv, TypeOK, ThreadType, HistoryType
<1>1. CASE Transfer_ipc_Intr_Handler
    BY <1>0, <1>1, Numbers DEF Transfer_ipc_Intr_Handler
<1>2. ASSUME NEW f \in Fds, application_thread(f) PROVE SamplesTaken'
    BY <1>0, <1>2 DEF application_thread
<1>3. ASSUME NEW f \in Fds, process_request_thread(f) PROVE SamplesTaken'
    <2>1. CASE take_over(f)
        BY <1>0, <1>3, <2>1, Numbers DEF take_over
    <2>2. CASE receive(f)
        <3>1. \A i \in 1..Len(js_queue) : js_queue[i] <= produced
            BY <1>0 DEF QueueInOrder
        <3>2. /\ UNCHANGED <<produced, since>> /\ pc[f] = "receive"
              /\ pc' = [pc EXCEPT ![f] = pc'[f]] /\ pc'[f] \in {"recheck", "receive"}
            BY <1>0, <1>3, <2>2 DEF receive
        <3>3. \/ sample' = sample
              \/ sample' = [sample EXCEPT ![f] = js_queue[1]] /\ 1 \in 1..Len(js_queue)
            <4>1. xQueueReceive(f)
                BY <2>2 DEF receive
            <4>2. \/ sample' = sample
                  \/ sample' = [sample EXCEPT ![f] = js_queue[1]] /\ Len(js_queue) >= 1
                BY <1>3, <4>1, ReceiveEffect
            <4> QED BY <4>2, Numbers
        <3>4. sample'[f] <= produced /\ \A g \in Fds : g # f => sample'[g] = sample[g]
            BY <1>0, <1>3, <3>1, <3>3
        <3> QED BY <1>0, <1>3, <3>2, <3>4
    <2>3. CASE close(f)
        BY <1>0, <1>3, <2>3, Numbers DEF close
    <2>4. CASE xQueueReset(f) \/ while(f) \/ recheck(f) \/ write(f) \/ check(f)
               \/ store(f) \/ end(f)
        BY <1>0, <1>3, <2>4 DEF xQueueReset, while, recheck, write, check, store, end
    <2> QED BY <1>3, <2>1, <2>2, <2>3, <2>4 DEF process_request_thread
<1> QED BY <1>1, <1>2, <1>3 DEF Next

LEMMA PacketEndsInSampleStep == TypeOK /\ IInv /\ Next => PacketEndsInSample'
<1> SUFFICES ASSUME TypeOK, IInv, Next PROVE PacketEndsInSample'
    OBVIOUS
<1> USE DEF PacketEndsInSample, Goto, thread
<1>0. PacketEndsInSample /\ ThreadType
    BY DEF IInv, TypeOK
<1>1. CASE Transfer_ipc_Intr_Handler
    BY <1>0, <1>1 DEF Transfer_ipc_Intr_Handler
<1>2. ASSUME NEW f \in Fds, application_thread(f) PROVE PacketEndsInSample'
    BY <1>0, <1>2 DEF application_thread, ThreadType
<1>3. ASSUME NEW f \in Fds, process_request_thread(f) PROVE PacketEndsInSample'
    <2>1. CASE receive(f)
        <3>1. nwsend'[f] = Append(nwsend[f], sample'[f]) /\ sample' \in [Fds -> 0..MaxSample]
            BY <1>0, <1>3, <2>1, ReceiveEffect DEF receive, ThreadType
        <3>2. \A g \in Fds : g # f => /\ nwsend'[g] = nwsend[g] /\ pc'[g] = pc[g]
                                      /\ sample'[g] = sample[g]
            BY <1>0, <1>3, <2>1, ReceiveEffect DEF receive, ThreadType
        <3>3. nwsend'[f][Len(nwsend[f]) + 1] = sample'[f]
            BY <1>0, <1>3, <3>1, AppendProperties DEF ThreadType
        <3>4. pc'[f] = "recheck" => Len(nwsend[f]) + 1 = PacketSize
            BY <1>0, <1>3, <2>1 DEF receive, ThreadType
        <3> QED BY <1>0, <3>2, <3>3, <3>4
    <2>2. CASE take_over(f) \/ xQueueReset(f) \/ while(f) \/ recheck(f) \/ write(f)
               \/ check(f) \/ store(f) \/ end(f) \/ close(f)
        BY <1>0, <1>3, <2>2
           DEF take_over, xQueueReset, while, recheck, write, check, store, end, close, ThreadType
    <2> QED BY <1>3, <2>1, <2>2 DEF process_request_thread
<1> QED BY <1>1, <1>2, <1>3 DEF Next

LEMMA ActiveInOrderStep == TypeOK /\ IInv /\ Next => ActiveInOrder'
<1> SUFFICES ASSUME TypeOK, IInv, Next,
                    NEW a \in Fds, js_connection_established' = a
             PROVE  /\ pc'[a] \in Serving
                    /\ sample'[a] = 0 \/ since'[a] < sample'[a]
                    /\ sent'[a] <= sample'[a]
                    /\ pc'[a] # "reset" => \A i \in 1..Len(js_queue') :
                          since'[a] < js_queue'[i] /\ sample'[a] <= js_queue'[i]
    BY DEF ActiveInOrder
<1> USE DEF Serving, Labels, Goto, NotStarted, thread, history, ipi, shared
<1>0. QueueInOrder /\ SamplesTaken /\ ThreadType /\ HistoryType
    BY DEF IInv, TypeOK
<1> DEFINE Before == /\ pc[a] \in Serving
                     /\ sample[a] = 0 \/ since[a] < sample[a]
                     /\ sent[a] <= sample[a]
                     /\ pc[a] # "reset" => \A i \in 1..Len(js_queue) :
                           since[a] < js_queue[i] /\ sample[a] <= js_queue[i]
<1>1. js_connection_established = a => Before
    BY DEF IInv, ActiveInOrder
<1>2. CASE Transfer_ipc_Intr_Handler
    <2>1. /\ Before /\ UNCHANGED <<pc, sample, since, sent>> /\ produced' = produced + 1
        BY <1>1, <1>2 DEF Transfer_ipc_Intr_Handler
    <2>2. CASE UNCHANGED js_queue
        BY <2>1, <2>2
    <2>3. CASE js_queue' = Append(js_queue, produced')
        <3>1. js_queue \in Seq(Nat) /\ produced' \in Nat
            BY <2>1, Numbers, ServerAssumption DEF TypeOK, SharedType
        <3>2. /\ Len(js_queue') = Len(js_queue) + 1
              /\ \A i \in 1..Len(js_queue) : js_queue'[i] = js_queue[i]
              /\ js_queue'[Len(js_queue) + 1] = produced + 1
            BY <2>1, <2>3, <3>1, AppendProperties
        <3>3. \A i \in 1..Len(js_queue') : i \in 1..Len(js_queue) \/ i = Len(js_queue) + 1
            BY <3>2, Numbers
        <3>4. since[a] < produced + 1 /\ sample[a] <= produced + 1
            BY <1>0, Numbers DEF SamplesTaken
        <3> QED BY <2>1, <3>2, <3>3, <3>4
    <2> QED BY <1>2, <2>2, <2>3 DEF Transfer_ipc_Intr_Handler, xQueueSendToBackFromISR
<1>3. ASSUME NEW f \in Fds, application_thread(f) PROVE Before'
    BY <1>0, <1>1, <1>3 DEF application_thread, ThreadType
<1>4. ASSUME NEW f \in Fds, process_request_thread(f) PROVE Before'
    <2>1. CASE take_over(f)
        BY <1>0, <1>4, <2>1 DEF take_over, ThreadType, HistoryType, SamplesTaken
    <2>2. CASE xQueueReset(f)
        <3>1. Len(js_queue') = 0
            BY <2>2 DEF xQueueReset
        <3>2. UNCHANGED <<sample, since, sent>> /\ Before /\ pc'[a] \in Serving
            BY <1>0, <1>1, <1>4, <2>2 DEF xQueueReset, ThreadType
        <3> QED BY <3>1, <3>2
    <2>3. CASE receive(f)
        <3>1. /\ Before /\ UNCHANGED <<since, sent>> /\ pc'[a] \in Serving
              /\ f = a => pc[a] = "receive"
              /\ pc[a] = "reset" => pc'[a] = "reset"
            BY <1>0, <1>1, <1>4, <2>3 DEF receive, ThreadType
        <3>2. CASE UNCHANGED <<sample, js_queue>>
            BY <1>0, <1>4, <2>3, <3>1, <3>2 DEF receive, ThreadType
        <3>3. CASE /\ sample' = [sample EXCEPT ![f] = js_queue[1]]
                   /\ Len(js_queue) >= 1 /\ Len(js_queue') = Len(js_queue) - 1
                   /\ \A i \in 1..Len(js_queue') : js_queue'[i] = js_queue[i + 1]
            <4>1. \A i \in 1..Len(js_queue') : i + 1 \in 1..Len(js_queue) /\ 1 < i + 1
                BY <3>3, Numbers
            <4>2. 1 \in 1..Len(js_queue)
                BY <3>3, Numbers
            <4>3. \A i \in 1..Len(js_queue') : js_queue[1] < js_queue'[i]
                BY <1>0, <3>3, <4>1, <4>2 DEF QueueInOrder
            <4>4. pc[a] # "reset" => \A i \in 1..Len(js_queue') :
                                        since[a] < js_queue'[i] /\ sample[a] <= js_queue'[i]
                BY <3>1, <3>3, <4>1
            <4>5. CASE f = a
                <5>1. sample'[a] = js_queue[1] /\ pc[a] # "reset"
                    BY <1>0, <3>1, <3>3, <4>5 DEF ThreadType
                <5>2. /\ since[a] < js_queue[1] /\ sample[a] <= js_queue[1]
                      /\ sent[a] <= sample[a]
                    BY <3>1, <4>2, <5>1
                <5>3. sent[a] <= js_queue[1]
                    BY <4>2, <5>2, Numbers
                <5>4. \A i \in 1..Len(js_queue') : js_queue[1] <= js_queue'[i]
                    BY <3>3, <4>1, <4>2, <4>3, Numbers
                <5> QED BY <3>1, <4>4, <5>1, <5>2, <5>3, <5>4
            <4>6. CASE f # a
                <5>1. sample'[a] = sample[a]
                    BY <1>0, <3>3, <4>6 DEF ThreadType
                <5>2. pc'[a] = pc[a]
                    BY <1>0, <2>3, <4>6 DEF receive, ThreadType
                <5> QED BY <3>1, <4>4, <5>1, <5>2
            <4> QED BY <4>5, <4>6
        <3> QED BY <1>4, <2>3, <3>2, <3>3, ReceiveEffect DEF receive
    <2>4. CASE recheck(f)
        <3>1. /\ Before /\ UNCHANGED <<js_queue, sample, since>> /\ pc'[a] \in Serving
              /\ pc[a] = "reset" => pc'[a] = "reset"
            BY <1>0, <1>1, <1>4, <2>4 DEF recheck, ThreadType
        <3>2. sent'[a] = sent[a] \/ sent'[a] = sample[a]
            BY <1>0, <1>4, <2>4 DEF recheck, HistoryType, IInv, PacketEndsInSample
        <3>3. sent'[a] <= sample[a]
            BY <3>1, <3>2, Numbers
        <3> QED BY <3>1, <3>3
    <2>5. CASE close(f)
        BY <1>0, <1>1, <1>4, <2>5 DEF close, ThreadType
    <2>6. CASE end(f)
        BY <1>0, <1>1, <1>4, <2>6, ServerAssumption DEF end, StillActive, ThreadType
    <2>7. CASE while(f) \/ write(f) \/ check(f) \/ store(f)
        BY <1>0, <1>1, <1>4, <2>7 DEF while, write, check, store, ThreadType
    <2> QED BY <1>4, <2>1, <2>2, <2>3, <2>4, <2>5, <2>6, <2>7 DEF process_request_thread
<1> QED BY <1>2, <1>3, <1>4 DEF Next

LEMMA InvInductive ==
    /\ Init => IInv
    /\ TypeOK /\ IInv /\ [Next]_vars => IInv'
<1>1. Init => IInv
    BY ServerAssumption
       DEF Init, IInv, QueueInOrder, SamplesTaken, PacketEndsInSample, ActiveInOrder
<1>2. TypeOK /\ IInv /\ Next => IInv'
    BY QueueInOrderStep, SamplesTakenStep, PacketEndsInSampleStep, ActiveInOrderStep DEF IInv
<1>3. TypeOK /\ IInv /\ UNCHANGED vars => IInv'
    BY DEF IInv, QueueInOrder, SamplesTaken, PacketEndsInSample, ActiveInOrder,
           vars, shared, ipi, thread, history
<1> QED BY <1>1, <1>2, <1>3

THEOREM InvHolds == Spec => [](TypeOK /\ IInv)
<1>1. Spec => []TypeOK
    BY TypeCorrect
<1>2. Spec => []IInv
    BY <1>1, InvInductive, PTL DEF Spec
<1> QED BY <1>1, <1>2, PTL

-----------------------------------------------------------------------------
(* What follows for the sessions *)

\* The socket the interrupt collects samples for always has its thread.
THEOREM ActiveServed == Spec => []ActiveSessionServed
<1>1. TypeOK /\ IInv => ActiveSessionServed
    BY DEF IInv, ActiveInOrder, ActiveSessionServed, TypeOK, SharedType
<1> QED BY <1>1, InvHolds, PTL

\* No thread ends a session but its own.
THEOREM OwnerEnds == Spec => OnlyOwnerEnds
<1> DEFINE Owned == js_connection_established # None /\ js_connection_established' = None
                    => pc[js_connection_established] = "end"
<1>1. TypeOK /\ Next => Owned
    <2> SUFFICES ASSUME TypeOK, Next, js_connection_established # None,
                        js_connection_established' = None
                 PROVE  pc[js_connection_established] = "end"
        OBVIOUS
    <2>1. ASSUME NEW f \in Fds, end(f) PROVE pc[js_connection_established] = "end"
        BY <2>1 DEF end, Goto, StillActive
    <2>2. ASSUME NEW f \in Fds, take_over(f) PROVE FALSE
        BY <2>2, ServerAssumption DEF take_over
    <2>3. js_connection_established' # js_connection_established
        OBVIOUS
    <2>4. PICK f \in Fds : end(f) \/ take_over(f)
        BY <2>3 DEF Next, Transfer_ipc_Intr_Handler, application_thread, process_request_thread,
               xQueueReset, while, receive, recheck, write, check, store, close, shared
    <2> QED BY <2>1, <2>2, <2>4
<1>2. UNCHANGED vars => Owned
    BY DEF vars, shared
<1>3. TypeOK /\ [Next]_vars => [Owned]_vars
    BY <1>1, <1>2
<1> QED BY <1>3, TypeCorrect, PTL DEF Spec, OnlyOwnerEnds

LEMMA StreamStep == TypeOK /\ IInv /\ [Next]_vars => [Stream!Next]_(Stream!stream)
<1> SUFFICES ASSUME TypeOK, IInv, [Next]_vars PROVE [Stream!Next]_(Stream!stream)
    OBVIOUS
<1> USE DEF Stream!stream
<1>1. CASE UNCHANGED vars
    BY <1>1 DEF vars, shared, ipi, history
<1>2. CASE Transfer_ipc_Intr_Handler
    BY <1>2 DEF Transfer_ipc_Intr_Handler, history, Stream!Next, Stream!Take
<1>3. ASSUME NEW f \in Fds, application_thread(f) PROVE UNCHANGED Stream!stream
    BY <1>3 DEF application_thread, shared, ipi, history
<1>4. ASSUME NEW f \in Fds, process_request_thread(f)
      PROVE  [Stream!Next]_(Stream!stream)
    <2>1. CASE take_over(f)
        <3>1. Stream!Open(f)
            BY <2>1 DEF take_over, ipi, Stream!Open
        <3> QED BY <1>4, <3>1 DEF Stream!Next
    <2>2. CASE recheck(f) /\ StillActive(f)
        <3>1. /\ js_connection_established = f /\ pc[f] = "recheck"
              /\ sent' = [sent EXCEPT ![f] = sample[f]]
              /\ UNCHANGED <<js_connection_established, produced, since>>
            BY <1>4, <2>2 DEF recheck, StillActive, Goto, shared, ipi, IInv, PacketEndsInSample
        <3>2. sample[f] \in {0} \cup (since[f] + 1)..produced
            BY <1>4, <3>1, Numbers DEF IInv, ActiveInOrder, SamplesTaken
        <3>3. sample[f] >= sent[f]
            BY <1>4, <3>1, Numbers DEF IInv, ActiveInOrder
        <3>4. Stream!Send(f)
            BY <3>1, <3>2, <3>3 DEF Stream!Send
        <3> QED BY <1>4, <3>4 DEF Stream!Next
    <2>3. CASE recheck(f) /\ ~StillActive(f)
        BY <2>3 DEF recheck, shared, ipi
    <2>4. CASE end(f)
        BY <1>4, <2>4, ServerAssumption
           DEF end, StillActive, ipi, history, Stream!Next, Stream!Close
    <2>5. CASE xQueueReset(f) \/ while(f) \/ receive(f) \/ write(f) \/ check(f)
               \/ store(f) \/ close(f)
        BY <2>5 DEF xQueueReset, while, receive, write, check, store, close,
                    shared, ipi, history
    <2> QED BY <1>4, <2>1, <2>2, <2>3, <2>4, <2>5 DEF process_request_thread
<1> QED BY <1>1, <1>2, <1>3, <1>4 DEF Next

\* The server implements SampleStream: no client is sent a sample from before
\* its session, nor samples out of order.
THEOREM StreamImplemented == Spec => ImplementsStream
<1>1. Init => Stream!Init
    BY DEF Init, Stream!Init
<1> QED BY <1>1, StreamStep, InvHolds, PTL DEF Spec, ImplementsStream, Stream!Spec

=============================================================================
