--------------------------- MODULE ScopeLinkProofs ---------------------------
(***************************************************************************)
(* Proofs about ScopeLink, for any words, updates and answers: how old a   *)
(* word may be in each of the places it passes through.                    *)
(***************************************************************************)
EXTENDS ScopeLink, TLAPS

\* The R5 raises the IPI when the memory holds the whole update.
MemoryAge ==
    /\ r5 \in {"write", "trigger"} => update = triggered + 1
    /\ r5 \notin {"write", "trigger"} => update = triggered
    /\ \A w \in Words : /\ triggered <= memory[w] /\ memory[w] <= r5_data[w]
                        /\ r5_data[w] <= update
                        /\ r5 # "write" => memory[w] = update

\* What the handler has fetched since its flush is as new as its interrupt.
FetchedAge ==
    /\ served <= triggered
    /\ \A w \in Words : a53_data[w] <= update
    /\ a53 \in {"copy", "status"} => \A w \in cached : served <= a53_data[w]
    /\ StatusOfItsInterrupt

\* The response is between the last answer given and the one being given.
ResponseAge ==
    /\ \A m \in {"id", "value"} :
          answered[m] <= response[m] /\ response[m] <= ControlData[m]
    /\ a53 \in {"value", "clear"} => response.id = ControlData.id
    /\ a53 = "clear" => response.value = ControlData.value
    /\ ControlData.value <= ControlData.id

IInv == MemoryAge /\ FetchedAge /\ ResponseAge

USE DEF r5_side, a53_side, buffers

-----------------------------------------------------------------------------
(* Types *)

\* The initial state has the types.
LEMMA TypeInit == Init => TypeOK
  <1>. SUFFICES ASSUME Init PROVE TypeOK
    OBVIOUS
  <1>1. Message(0) \in Messages /\ [w \in Words |-> 0] \in Samples /\ 0 \in 0..MaxUpdate
    BY LinkAssumption DEF Messages, Message, Samples
  <1>2. {ControlData, response, Received_Data_from_A53, answered} \subseteq Messages
    BY <1>1 DEF Init
  <1>3. {r5_data, memory, a53_data, sample} \subseteq Samples
    BY <1>1 DEF Init
  <1>. QED BY <1>1, <1>2, <1>3 DEF Init, TypeOK

\* One step keeps the types.
LEMMA TypeStep == TypeOK /\ [Next]_vars => TypeOK'
  <1>. SUFFICES ASSUME TypeOK, [Next]_vars PROVE TypeOK'
    OBVIOUS
  <1>. USE LinkAssumption DEF TypeOK
  <1>1. CASE JavaScope_update
    <2>. USE DEF R5
    <2>1. CASE begin
      <3>1. Message(0) \in Messages
        BY DEF Message, Messages
      <3>. QED BY <2>1, <3>1 DEF begin
    <2>2. ASSUME NEW w \in Words, write(w) PROVE TypeOK'
      BY <2>2 DEF write, Samples
    <2>3. CASE flush
      BY <2>3 DEF flush
    <2>4. CASE XIpiPsu_TriggerIpi
      BY <2>4 DEF XIpiPsu_TriggerIpi
    <2>5. CASE XIpiPsu_ReadMessage
      BY <2>5 DEF XIpiPsu_ReadMessage, Messages
    <2>. QED BY <1>1, <2>1, <2>2, <2>3, <2>4, <2>5 DEF JavaScope_update
  <1>2. CASE Transfer_ipc_Intr_Handler
    <2>. USE DEF A53
    <2>1. CASE enter
      BY <2>1 DEF enter
    <2>2. CASE Xil_DCacheFlushRange
      BY <2>2 DEF Xil_DCacheFlushRange
    <2>3. CASE xQueueSendToBackFromISR
      BY <2>3 DEF xQueueSendToBackFromISR
    <2>4. CASE status
      BY <2>4 DEF status, Samples
    <2>5. CASE XIpiPsu_WriteMessage
      BY <2>5 DEF XIpiPsu_WriteMessage, Messages
    <2>6. CASE XIpiPsu_ClearInterruptStatus
      BY <2>6 DEF XIpiPsu_ClearInterruptStatus
    <2>. QED BY <1>2, <2>1, <2>2, <2>3, <2>4, <2>5, <2>6 DEF Transfer_ipc_Intr_Handler
  <1>3. CASE Threads
    <2>1. ControlData' \in Messages
      <3>1. CASE connect \/ disconnect
        BY <3>1 DEF connect, disconnect
      <3>2. ASSUME ControlData.id < MaxAnswer, ControlData' = [ControlData EXCEPT !.id = @ + 1]
            PROVE  ControlData' \in Messages
        <4>1. ControlData.id + 1 \in 0..MaxAnswer
          BY <3>2 DEF Messages
        <4>. QED BY <3>2, <4>1 DEF Messages
      <3>3. ASSUME ControlData' = [ControlData EXCEPT !.value = ControlData.id]
            PROVE  ControlData' \in Messages
        BY <3>3 DEF Messages
      <3>. QED BY <1>3, <3>1, <3>2, <3>3 DEF Threads, store
    <2>2. established' \in BOOLEAN
      BY <1>3 DEF Threads, connect, disconnect, store
    <2>3. UNCHANGED <<r5_side, a53_side, buffers>>
      BY <1>3 DEF Threads
    <2>. QED BY <2>1, <2>2, <2>3
  <1>4. ASSUME NEW w \in Words, WriteBack(w) PROVE TypeOK'
    BY <1>4 DEF WriteBack, Samples
  <1>5. ASSUME NEW w \in Words, Fetch(w) PROVE TypeOK'
    BY <1>5 DEF Fetch, Samples
  <1>6. CASE UNCHANGED vars
    BY <1>6 DEF vars
  <1>. QED BY <1>1, <1>2, <1>3, <1>4, <1>5, <1>6 DEF Next

\* The types of both sides of the link.
THEOREM TypeCorrect == Spec => []TypeOK
  BY TypeInit, TypeStep, PTL DEF Spec

-----------------------------------------------------------------------------
(* Ages *)

\* One step of the R5 or of its cache keeps the ages in the memory.
LEMMA MemoryStep == TypeOK /\ MemoryAge /\ [Next]_vars => MemoryAge'
  <1>. SUFFICES ASSUME TypeOK, MemoryAge, [Next]_vars PROVE MemoryAge'
    OBVIOUS
  <1>. USE DEF TypeOK, MemoryAge, Samples
  <1>1. CASE JavaScope_update
    <2>. USE DEF R5
    <2>1. CASE begin
      BY <2>1 DEF begin
    <2>2. ASSUME NEW w \in Words, write(w) PROVE MemoryAge'
      BY <2>2 DEF write
    <2>3. CASE flush
      BY <2>3 DEF flush
    <2>4. CASE XIpiPsu_TriggerIpi
      BY <2>4 DEF XIpiPsu_TriggerIpi
    <2>5. CASE XIpiPsu_ReadMessage
      BY <2>5 DEF XIpiPsu_ReadMessage
    <2>. QED BY <1>1, <2>1, <2>2, <2>3, <2>4, <2>5 DEF JavaScope_update
  <1>2. ASSUME NEW w \in Words, WriteBack(w) PROVE MemoryAge'
    BY <1>2 DEF WriteBack
  <1>3. CASE UNCHANGED <<r5, update, triggered, r5_data, memory>>
    BY <1>3
  <1>. QED BY <1>1, <1>2, <1>3 DEF Next, Transfer_ipc_Intr_Handler, A53, enter,
       Xil_DCacheFlushRange, xQueueSendToBackFromISR, status, XIpiPsu_WriteMessage,
       XIpiPsu_ClearInterruptStatus, Threads, Fetch, vars

\* One step keeps what the handler has fetched as new as its interrupt.
LEMMA FetchedStep == TypeOK /\ MemoryAge /\ MemoryAge' /\ FetchedAge /\ [Next]_vars => FetchedAge'
  <1>. SUFFICES ASSUME TypeOK, MemoryAge, MemoryAge', FetchedAge, [Next]_vars PROVE FetchedAge'
    OBVIOUS
  <1>. USE DEF TypeOK, FetchedAge, StatusOfItsInterrupt, Samples
  <1>1. CASE JavaScope_update
    <2>1. UNCHANGED a53_side
      BY <1>1 DEF JavaScope_update, R5, begin, write, flush, XIpiPsu_TriggerIpi, XIpiPsu_ReadMessage
    <2>2. update <= update' /\ triggered <= triggered' /\ update' \in Nat /\ triggered' \in Nat
      BY <1>1 DEF JavaScope_update, begin, write, flush, XIpiPsu_TriggerIpi, XIpiPsu_ReadMessage,
         MemoryAge
    <2>. QED BY <2>1, <2>2
  <1>2. CASE Transfer_ipc_Intr_Handler
    <2>. USE DEF A53
    <2>1. CASE enter
      BY <2>1 DEF enter
    <2>2. CASE Xil_DCacheFlushRange
      BY <2>2 DEF Xil_DCacheFlushRange
    <2>3. CASE xQueueSendToBackFromISR
      BY <2>3 DEF xQueueSendToBackFromISR
    <2>4. CASE status
      BY <2>4 DEF status
    <2>5. CASE XIpiPsu_WriteMessage
      BY <2>5 DEF XIpiPsu_WriteMessage
    <2>6. CASE XIpiPsu_ClearInterruptStatus
      BY <2>6 DEF XIpiPsu_ClearInterruptStatus
    <2>. QED BY <1>2, <2>1, <2>2, <2>3, <2>4, <2>5, <2>6 DEF Transfer_ipc_Intr_Handler
  <1>3. ASSUME NEW w \in Words, Fetch(w) PROVE FetchedAge'
    <2>1. served <= memory[w] /\ memory[w] <= update
      BY DEF MemoryAge
    <2>. QED BY <1>3, <2>1 DEF Fetch
  <1>4. CASE UNCHANGED <<update, triggered, a53_side>>
    BY <1>4
  <1>. QED BY <1>1, <1>2, <1>3, <1>4 DEF Next, Threads, WriteBack, vars

\* One step keeps the response between the answers.
LEMMA ResponseStep == TypeOK /\ ResponseAge /\ [Next]_vars => ResponseAge'
  <1>. SUFFICES ASSUME TypeOK, ResponseAge, [Next]_vars PROVE ResponseAge'
    OBVIOUS
  <1>. USE DEF TypeOK, ResponseAge, Messages
  <1>1. CASE Transfer_ipc_Intr_Handler
    <2>. USE DEF A53
    <2>1. CASE XIpiPsu_WriteMessage
      BY <2>1 DEF XIpiPsu_WriteMessage
    <2>2. CASE XIpiPsu_ClearInterruptStatus
      BY <2>2 DEF XIpiPsu_ClearInterruptStatus
    <2>3. CASE a53' \notin {"value", "clear"} /\ UNCHANGED <<response, answered, ControlData>>
      BY <2>3
    <2>. QED BY <1>1, <2>1, <2>2, <2>3 DEF Transfer_ipc_Intr_Handler, enter, Xil_DCacheFlushRange,
         xQueueSendToBackFromISR, status
  <1>2. CASE Threads
    BY <1>2 DEF Threads, connect, disconnect, store
  <1>3. CASE UNCHANGED <<a53, response, answered, ControlData>>
    BY <1>3
  <1>. QED BY <1>1, <1>2, <1>3 DEF Next, JavaScope_update, R5, begin, write, flush,
       XIpiPsu_TriggerIpi, XIpiPsu_ReadMessage, WriteBack, Fetch, vars

\* The ages are right in every reachable state.
LEMMA Ages == Spec => [](TypeOK /\ IInv)
  <1>1. Init => IInv
    BY LinkAssumption DEF Init, IInv, MemoryAge, FetchedAge, StatusOfItsInterrupt, ResponseAge, Message
  <1>2. TypeOK /\ IInv /\ [Next]_vars => IInv'
    BY MemoryStep, FetchedStep, ResponseStep DEF IInv
  <1>. QED BY <1>1, <1>2, TypeCorrect, PTL DEF Spec

-----------------------------------------------------------------------------
(* What follows for the client and for the R5 *)

\* A sample is no older than its interrupt, and of one update unless another
\* has begun.
THEOREM SampleAge == Spec => SampleOfItsInterrupt
  <1>. DEFINE Fresh == a53 = "copy" /\ a53' = "status" => \A w \in Words : sample'[w] \in served..update
  <1>1. TypeOK /\ IInv /\ [Next]_vars => [Fresh]_vars
    <2>. SUFFICES ASSUME TypeOK, IInv, [Next]_vars, a53 = "copy", a53' = "status", NEW w \in Words
                  PROVE  sample'[w] \in served..update
      OBVIOUS
    <2>1. xQueueSendToBackFromISR
      BY DEF Next, JavaScope_update, R5, begin, write, flush, XIpiPsu_TriggerIpi,
         XIpiPsu_ReadMessage, WriteBack, Fetch, vars, Threads, Transfer_ipc_Intr_Handler, A53,
         enter, Xil_DCacheFlushRange, status, XIpiPsu_WriteMessage, XIpiPsu_ClearInterruptStatus
    <2>2. sample'[w] = a53_data[w] /\ w \in cached
      BY <2>1 DEF xQueueSendToBackFromISR
    <2>. QED BY <2>2 DEF IInv, FetchedAge, TypeOK, Samples
  <1>. QED BY <1>1, Ages, PTL DEF Spec, SampleOfItsInterrupt

\* The status shown is no older than the interrupt.
THEOREM StatusAge == Spec => []StatusOfItsInterrupt
  <1>1. IInv => StatusOfItsInterrupt
    BY DEF IInv, FetchedAge
  <1>. QED BY <1>1, Ages, PTL

\* A command the R5 reads is no older than the answer of the last handler.
THEOREM CommandAge == Spec => CommandNotOlder
  <1>. DEFINE NotOlder ==
           /\ r5 = "id" /\ r5' = "value" =>
                 Received_Data_from_A53'.id \in answered.id..ControlData.id
           /\ r5 = "value" /\ r5' = "out" =>
                 Received_Data_from_A53'.value \in answered.value..ControlData.value
  <1>1. TypeOK /\ IInv /\ [Next]_vars => [NotOlder]_vars
    <2>. SUFFICES ASSUME TypeOK, IInv, [Next]_vars,
                         r5 \in {"id", "value"}, r5' # r5
                  PROVE  NotOlder
      OBVIOUS
    <2>1. XIpiPsu_ReadMessage
      BY DEF Next, JavaScope_update, R5, begin, write, flush, XIpiPsu_TriggerIpi,
         WriteBack, Fetch, vars, Threads, Transfer_ipc_Intr_Handler, A53,
         enter, Xil_DCacheFlushRange, xQueueSendToBackFromISR, status, XIpiPsu_WriteMessage,
         XIpiPsu_ClearInterruptStatus
    <2>. QED BY <2>1 DEF XIpiPsu_ReadMessage, R5, IInv, ResponseAge, TypeOK, Messages
  <1>. QED BY <1>1, Ages, PTL DEF Spec, CommandNotOlder
=============================================================================
