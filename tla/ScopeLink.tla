------------------------------ MODULE ScopeLink ------------------------------
(***************************************************************************)
(* The link between the cores: with every control interrupt the R5 writes  *)
(* a sample into the shared memory, raises an IPI, and reads the command   *)
(* the A53 left in the response buffer, without waiting for it.  The A53   *)
(* copies the sample, answers and clears the IPI.                          *)
(*                                                                         *)
(* Both cores cache the memory.  Data is abstracted to its age: a word is  *)
(* the number of the update that wrote it, a member of a command is the    *)
(* number of the answer it came with.  A word may be written back, or      *)
(* fetched, at any time its core has it cached, or has not.                *)
(***************************************************************************)
EXTENDS Naturals

CONSTANTS
    Words,       \* words of struct javascope_data_t that differ in what is shown of them
    MaxUpdate,   \* bound on the updates of the R5
    MaxAnswer    \* bound on the answers of the client

ASSUME LinkAssumption ==
    "status" \in Words /\ MaxUpdate \in Nat /\ MaxAnswer \in Nat

VARIABLES
    r5, a53,              \* the next statement of the update and of the handler
    update, triggered,    \* updates begun, the last one that raised the IPI
    r5_data, memory,      \* javascope_data as the R5 sees it, and in the memory
    ipi,                  \* interrupt status of the A53
    a53_data, cached,     \* javascope_data in the cache of the A53
    established,          \* js_connection_established # 0
    sample,               \* the last sample given to the queue
    javascope_data_status,
    ControlData, response, Received_Data_from_A53,
    served, answered      \* history: update whose IPI is handled, last answer given

r5_side  == <<r5, update, triggered, r5_data, Received_Data_from_A53>>
a53_side == <<a53, a53_data, cached, sample, javascope_data_status, served, answered>>
buffers  == <<memory, ipi, response>>
vars == <<r5_side, a53_side, buffers, established, ControlData>>

Message(n) == [id |-> n, value |-> n]

Init ==
    /\ r5 = "out" /\ a53 = "out"
    /\ update = 0 /\ triggered = 0 /\ served = 0
    /\ r5_data = [w \in Words |-> 0] /\ memory = r5_data
    /\ a53_data = r5_data /\ cached = {} /\ sample = r5_data
    /\ ipi = FALSE /\ established = FALSE
    /\ javascope_data_status = 0
    /\ ControlData = Message(0) /\ response = Message(0)
    /\ Received_Data_from_A53 = Message(0) /\ answered = Message(0)

-----------------------------------------------------------------------------
(* JavaScope_update *)

R5(from, to) == r5 = from /\ r5' = to /\ UNCHANGED <<a53_side, established, ControlData>>

begin ==
    /\ R5("out", "write")
    /\ update < MaxUpdate /\ update' = update + 1
    /\ Received_Data_from_A53' = Message(0)
    /\ UNCHANGED <<triggered, r5_data, buffers>>

write(w) ==
    /\ R5("write", "write")
    /\ r5_data[w] # update
    /\ r5_data' = [r5_data EXCEPT ![w] = update]
    /\ UNCHANGED <<update, triggered, Received_Data_from_A53, buffers>>

\* Faulty variant: only the word written last is flushed.
FlushStatus ==
    /\ R5("write", "trigger")
    /\ \A w \in Words : r5_data[w] = update
    /\ memory' = [memory EXCEPT !["status"] = r5_data["status"]]
    /\ UNCHANGED <<update, triggered, r5_data, Received_Data_from_A53, ipi, response>>

flush ==
    /\ R5("write", "trigger")
    /\ \A w \in Words : r5_data[w] = update
    /\ memory' = r5_data
    /\ UNCHANGED <<update, triggered, r5_data, Received_Data_from_A53, ipi, response>>

XIpiPsu_TriggerIpi ==
    /\ R5("trigger", "id")
    /\ ipi' = TRUE /\ triggered' = update
    /\ UNCHANGED <<update, r5_data, Received_Data_from_A53, memory, response>>

\* Faulty variant: the length of the message in bytes of a larger structure.
ReadPastMessage ==
    /\ R5("id", "out")
    /\ Received_Data_from_A53' = [id |-> response.id, value |-> response.value, next |-> 0]
    /\ UNCHANGED <<update, triggered, r5_data, buffers>>

\* The words of the message are read one after the other.
XIpiPsu_ReadMessage ==
    /\ \/ R5("id", "value")
          /\ Received_Data_from_A53' = [Received_Data_from_A53 EXCEPT !.id = response.id]
       \/ R5("value", "out")
          /\ Received_Data_from_A53' = [Received_Data_from_A53 EXCEPT !.value = response.value]
    /\ UNCHANGED <<update, triggered, r5_data, buffers>>

\* A cache line of the R5 may be written back before the flush.
WriteBack(w) ==
    /\ memory[w] # r5_data[w]
    /\ memory' = [memory EXCEPT ![w] = r5_data[w]]
    /\ UNCHANGED <<r5_side, a53_side, ipi, response, established, ControlData>>

JavaScope_update ==
    begin \/ (\E w \in Words : write(w)) \/ flush \/ XIpiPsu_TriggerIpi \/ XIpiPsu_ReadMessage

-----------------------------------------------------------------------------
(* Transfer_ipc_Intr_Handler *)

A53(from, to) == a53 = from /\ a53' = to /\ UNCHANGED <<r5_side, memory, established, ControlData>>

enter ==
    /\ ipi /\ A53("out", "flush")
    /\ served' = triggered
    /\ UNCHANGED <<a53_data, cached, sample, javascope_data_status, answered, ipi, response>>

\* Faulty variant: the words are taken from the cache as they are.
NoFlush ==
    /\ A53("flush", IF established THEN "copy" ELSE "status")
    /\ UNCHANGED <<a53_data, cached, sample, javascope_data_status, served, answered, ipi, response>>

Xil_DCacheFlushRange ==
    /\ A53("flush", IF established THEN "copy" ELSE "status")
    /\ cached' = {}
    /\ UNCHANGED <<a53_data, sample, javascope_data_status, served, answered, ipi, response>>

\* A word is fetched when it is read, or before, and again once it was evicted.
Fetch(w) ==
    /\ w \notin cached \/ a53_data[w] # memory[w]
    /\ cached' = cached \cup {w}
    /\ a53_data' = [a53_data EXCEPT ![w] = memory[w]]
    /\ UNCHANGED <<r5_side, a53, sample, javascope_data_status, served, answered, buffers,
                   established, ControlData>>

xQueueSendToBackFromISR ==
    /\ A53("copy", "status")
    /\ cached = Words
    /\ sample' = a53_data
    /\ UNCHANGED <<a53_data, cached, javascope_data_status, served, answered, ipi, response>>

status ==
    /\ A53("status", "id")
    /\ "status" \in cached
    /\ javascope_data_status' = a53_data["status"]
    /\ UNCHANGED <<a53_data, cached, sample, served, answered, ipi, response>>

\* Faulty variant: a message of one word.
WriteIdOnly ==
    /\ A53("id", "clear") /\ response' = [response EXCEPT !.id = ControlData.id]
    /\ UNCHANGED <<a53_data, cached, sample, javascope_data_status, served, answered, ipi>>

XIpiPsu_WriteMessage ==
    /\ \/ A53("id", "value") /\ response' = [response EXCEPT !.id = ControlData.id]
       \/ A53("value", "clear") /\ response' = [response EXCEPT !.value = ControlData.value]
    /\ UNCHANGED <<a53_data, cached, sample, javascope_data_status, served, answered, ipi>>

XIpiPsu_ClearInterruptStatus ==
    /\ A53("clear", "out")
    /\ ipi' = FALSE
    /\ answered' = ControlData
    /\ UNCHANGED <<a53_data, cached, sample, javascope_data_status, served, response>>

Transfer_ipc_Intr_Handler ==
    \/ enter \/ Xil_DCacheFlushRange \/ xQueueSendToBackFromISR \/ status
    \/ XIpiPsu_WriteMessage \/ XIpiPsu_ClearInterruptStatus

-----------------------------------------------------------------------------
(* The threads of the A53, which do not run during the handler *)

connect    == established' = TRUE  /\ UNCHANGED ControlData
disconnect == established' = FALSE /\ UNCHANGED ControlData

store ==
    /\ \/ /\ ControlData.id = ControlData.value /\ ControlData.id < MaxAnswer
          /\ ControlData' = [ControlData EXCEPT !.id = @ + 1]
       \/ /\ ControlData.value < ControlData.id
          /\ ControlData' = [ControlData EXCEPT !.value = ControlData.id]
    /\ UNCHANGED established

Threads == a53 = "out" /\ (connect \/ disconnect \/ store) /\ UNCHANGED <<r5_side, a53_side, buffers>>

-----------------------------------------------------------------------------
Next ==
    \/ JavaScope_update \/ Transfer_ipc_Intr_Handler \/ Threads
    \/ \E w \in Words : WriteBack(w) \/ Fetch(w)

Spec == Init /\ [][Next]_vars

-----------------------------------------------------------------------------
(* Properties *)

\* Types of both sides, the buffers between them and the histories.
Messages == [id : 0..MaxAnswer, value : 0..MaxAnswer]
Samples  == [Words -> 0..MaxUpdate]

TypeOK ==
    /\ r5 \in {"out", "write", "trigger", "id", "value"}
    /\ a53 \in {"out", "flush", "copy", "status", "id", "value", "clear"}
    /\ {update, triggered, served, javascope_data_status} \subseteq 0..MaxUpdate
    /\ {r5_data, memory, a53_data, sample} \subseteq Samples /\ cached \subseteq Words
    /\ ipi \in BOOLEAN /\ established \in BOOLEAN
    /\ {ControlData, response, Received_Data_from_A53, answered} \subseteq Messages

\* javascope.c:103, isr.c:116: no word of a sample is older than the update whose
\* IPI is handled, and none is newer unless the R5 has begun another update:
\* an A53 that is in time queues the words of one update.
SampleOfItsInterrupt ==
    [][a53 = "copy" /\ a53' = "status" => \A w \in Words : sample'[w] \in served..update]_vars

\* The status the A53 shows on its LEDs is as new, with or without a client.
StatusOfItsInterrupt ==
    a53 \in {"id", "value", "clear"} => javascope_data_status \in served..update

\* javascope.c:112-115: the R5 does not wait, and still reads no member of a
\* command that is older than the answer of the last handler that ended.
CommandNotOlder ==
    [][/\ r5 = "id" /\ r5' = "value" =>
             Received_Data_from_A53'.id \in answered.id..ControlData.id
       /\ r5 = "value" /\ r5' = "out" =>
             Received_Data_from_A53'.value \in answered.value..ControlData.value]_vars
=============================================================================
