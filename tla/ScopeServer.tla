----------------------------- MODULE ScopeServer -----------------------------
(***************************************************************************)
(* The scope server of the A53: application_thread accepts connections,    *)
(* process_request_thread serves one of them, and the interrupt that the   *)
(* R5 raises with every sample fills the queue and answers with the last   *)
(* command.  The tasks are preempted between any two accesses to the       *)
(* variables they share; the interrupt and the critical section run in one *)
(* piece.                                                                  *)
(*                                                                         *)
(* A sample is its number, counted from 1; 0 is the zeroed structure a     *)
(* thread starts with.  A thread is named by its socket, which lwIP hands  *)
(* out again once it is closed.                                            *)
(***************************************************************************)
EXTENDS Naturals, Sequences

CONSTANTS
    Fds,          \* sockets lwIP can have open
    None,         \* 0: no connection
    Commands,     \* commands a client may answer with, [id |-> , value |-> ]
    NoCommand,    \* ControlData before the first command
    QueueSize,    \* JS_QUEUE_SIZE_ELEMENTS
    PacketSize,   \* NETWORK_SEND_FIELD_SIZE
    MaxSample     \* bound on the number of samples

\* A struct APU_to_RPU_t, its members stored one by one
Messages == [id : {c.id : c \in Commands \cup {NoCommand}},
             value : {c.value : c \in Commands \cup {NoCommand}}]

ASSUME ServerAssumption ==
    /\ None \notin Fds
    /\ Commands \cup {NoCommand} \subseteq Messages
    /\ QueueSize \in Nat \ {0} /\ PacketSize \in Nat \ {0} /\ MaxSample \in Nat

VARIABLES
    js_connection_established,
    js_queue,
    ControlData,
    mailbox,        \* response buffer of the IPI
    produced,       \* samples the R5 has sent
    pc,             \* per thread, the statement it is at
    sample,         \* javascope_data_sending
    nwsend,         \* samples of the packet so far
    received,
    since, sent     \* history: samples taken when the session began; last sent

shared  == <<js_connection_established, js_queue, ControlData>>
ipi     == <<mailbox, produced>>
thread  == <<sample, nwsend, received>>
history == <<since, sent>>
vars == <<shared, ipi, pc, thread, history>>

Labels == {"free", "configure", "reset", "while", "receive", "recheck", "write",
           "check", "id", "value", "end", "close"}

\* The thread between line 110 and the critical section at its end
Serving == Labels \ {"free", "configure", "close"}

Init ==
    /\ js_connection_established = None
    /\ js_queue = <<>>
    /\ ControlData = NoCommand
    /\ mailbox = NoCommand
    /\ produced = 0
    /\ pc = [f \in Fds |-> "free"]
    /\ sample = [f \in Fds |-> 0]
    /\ nwsend = [f \in Fds |-> <<>>]
    /\ received = [f \in Fds |-> NoCommand]
    /\ since = [f \in Fds |-> 0]
    /\ sent = [f \in Fds |-> 0]

Goto(f, from, to) == pc[f] = from /\ pc' = [pc EXCEPT ![f] = to]

\* Faulty variant: some connection is established, not necessarily this one.
SomeActive(f) == js_connection_established # None
StillActive(f) == js_connection_established = f

-----------------------------------------------------------------------------
(* application_thread *)

\* A thread that cannot be created only closes its socket again.
application_thread(f) ==
    /\ Goto(f, "free", "configure")
    /\ UNCHANGED <<shared, ipi, thread, history>>

-----------------------------------------------------------------------------
(* process_request_thread *)

take_over(f) ==
    /\ Goto(f, "configure", "reset")
    /\ js_connection_established' = f
    /\ since' = [since EXCEPT ![f] = produced]
    /\ sent' = [sent EXCEPT ![f] = 0]
    /\ UNCHANGED <<js_queue, ControlData, ipi, thread>>

\* Faulty variant: the samples of the last session stay in the queue.
KeepQueue(f) ==
    /\ Goto(f, "reset", "while")
    /\ UNCHANGED <<shared, ipi, thread, history>>

xQueueReset(f) ==
    /\ Goto(f, "reset", "while")
    /\ js_queue' = <<>>
    /\ UNCHANGED <<js_connection_established, ControlData, ipi, thread, history>>

while(f) ==
    /\ Goto(f, "while", IF StillActive(f) THEN "receive" ELSE "end")
    /\ nwsend' = [nwsend EXCEPT ![f] = <<>>]
    /\ UNCHANGED <<shared, ipi, sample, received, history>>

\* A wait that times out leaves the last sample in javascope_data_sending.
xQueueReceive(f) ==
    \/ /\ js_queue # <<>>
       /\ sample' = [sample EXCEPT ![f] = Head(js_queue)]
       /\ js_queue' = Tail(js_queue)
    \/ js_queue = <<>> /\ UNCHANGED <<sample, js_queue>>

\* Faulty variant: one sample too many.
receive_past_end(f) ==
    /\ Goto(f, "receive", IF Len(nwsend[f]) = PacketSize THEN "recheck" ELSE "receive")
    /\ xQueueReceive(f)
    /\ nwsend' = [nwsend EXCEPT ![f] = Append(@, sample'[f])]
    /\ UNCHANGED <<js_connection_established, ControlData, ipi, received, history>>

receive(f) ==
    /\ Goto(f, "receive", IF Len(nwsend[f]) + 1 = PacketSize THEN "recheck" ELSE "receive")
    /\ xQueueReceive(f)
    /\ nwsend' = [nwsend EXCEPT ![f] = Append(@, sample'[f])]
    /\ UNCHANGED <<js_connection_established, ControlData, ipi, received, history>>

\* The packet counts as sent once the session is known to be active.
recheck(f) ==
    /\ \/ StillActive(f) /\ Goto(f, "recheck", "write")
                         /\ sent' = [sent EXCEPT ![f] = nwsend[f][PacketSize]]
       \/ ~StillActive(f) /\ Goto(f, "recheck", "end") /\ UNCHANGED sent
    /\ UNCHANGED <<shared, ipi, thread, since>>

\* The packet is written and the eight bytes of the answer are read; an error,
\* the end of the stream or a timeout of either ends the session.
write(f) ==
    /\ \/ /\ Goto(f, "write", "check")
          /\ \E c \in Commands : received' = [received EXCEPT ![f] = c]
       \/ Goto(f, "write", "end") /\ UNCHANGED received
    /\ UNCHANGED <<shared, ipi, sample, nwsend, history>>

check(f) ==
    /\ Goto(f, "check", IF StillActive(f) THEN "id" ELSE "end")
    /\ UNCHANGED <<shared, ipi, thread, history>>

store(f) ==
    /\ \/ Goto(f, "id", "value")
          /\ ControlData' = [ControlData EXCEPT !.id = received[f].id]
       \/ Goto(f, "value", "while")
          /\ ControlData' = [ControlData EXCEPT !.value = received[f].value]
    /\ UNCHANGED <<js_connection_established, js_queue, ipi, thread, history>>

\* Faulty variants: the thread clears the variable whoever owns it, or never.
end_always(f) ==
    /\ Goto(f, "end", "close")
    /\ js_connection_established' = None
    /\ UNCHANGED <<js_queue, ControlData, ipi, thread, history>>

end_never(f) ==
    /\ Goto(f, "end", "close")
    /\ UNCHANGED <<shared, ipi, thread, history>>

\* The critical section
end(f) ==
    /\ Goto(f, "end", "close")
    /\ js_connection_established' =
          IF StillActive(f) THEN None ELSE js_connection_established
    /\ UNCHANGED <<js_queue, ControlData, ipi, thread, history>>

\* The next thread of this socket starts with zeroed variables.
close(f) ==
    /\ Goto(f, "close", "free")
    /\ sample' = [sample EXCEPT ![f] = 0]
    /\ nwsend' = [nwsend EXCEPT ![f] = <<>>]
    /\ received' = [received EXCEPT ![f] = NoCommand]
    /\ UNCHANGED <<shared, ipi, history>>

process_request_thread(f) ==
    \/ take_over(f) \/ xQueueReset(f) \/ while(f) \/ receive(f) \/ recheck(f)
    \/ write(f) \/ check(f) \/ store(f) \/ end(f) \/ close(f)

-----------------------------------------------------------------------------
(* The interrupt of the R5 *)

\* A sample that finds the queue full is dropped.
xQueueSendToBackFromISR(s) ==
    js_queue' = IF Len(js_queue) < QueueSize THEN Append(js_queue, s) ELSE js_queue

Transfer_ipc_Intr_Handler ==
    /\ produced < MaxSample
    /\ produced' = produced + 1
    /\ \/ js_connection_established # None /\ xQueueSendToBackFromISR(produced')
       \/ js_connection_established = None /\ UNCHANGED js_queue
    /\ mailbox' = ControlData
    /\ UNCHANGED <<js_connection_established, ControlData, pc, thread, history>>

-----------------------------------------------------------------------------
Next ==
    \/ Transfer_ipc_Intr_Handler
    \/ \E f \in Fds : application_thread(f) \/ process_request_thread(f)

Spec == Init /\ [][Next]_vars

\* The scheduler runs every thread, and a thread never waits for ever: the
\* queue, the keepalive and the receive timeout of the socket bound its waits.
FairSpec == Spec /\ \A f \in Fds : WF_vars(process_request_thread(f))

-----------------------------------------------------------------------------
(* Properties *)

SharedType ==
    /\ js_connection_established \in Fds \cup {None}
    /\ js_queue \in Seq(1..MaxSample) /\ Len(js_queue) <= QueueSize
    /\ ControlData \in Messages /\ mailbox \in Messages
    /\ produced \in 0..MaxSample

ThreadType ==
    /\ pc \in [Fds -> Labels]
    /\ sample \in [Fds -> 0..MaxSample]
    /\ nwsend \in [Fds -> Seq(0..MaxSample)]
    /\ \A f \in Fds : /\ Len(nwsend[f]) <= PacketSize
                      /\ pc[f] = "receive" => Len(nwsend[f]) < PacketSize
                      /\ pc[f] = "recheck" => Len(nwsend[f]) = PacketSize
    /\ received \in [Fds -> Commands \cup {NoCommand}]

HistoryType ==
    /\ since \in [Fds -> 0..MaxSample] /\ sent \in [Fds -> 0..MaxSample]

TypeOK == SharedType /\ ThreadType /\ HistoryType

\* The connection the interrupt collects samples for has a thread that serves
\* it: the interrupt never fills the queue for nobody, and the variable never
\* names a socket that lwIP may hand out again.
ActiveSessionServed ==
    js_connection_established # None => pc[js_connection_established] \in Serving

\* ethernet.c:179-180: the end of an old session never switches off a newer one.
OnlyOwnerEnds ==
    [][js_connection_established # None /\ js_connection_established' = None
          => pc[js_connection_established] = "end"]_vars

\* The clients are sent what SampleStream promises.
Stream == INSTANCE SampleStream WITH active <- js_connection_established
ImplementsStream == Stream!Spec

\* A session that has been replaced ends, and gives its socket back.
ReplacedSessionEnds ==
    \A f \in Fds : pc[f] \in Serving /\ js_connection_established # f ~> pc[f] = "free"

\* ethernet.c:173-174: a command of a session that was replaced is not stored.
CommandOfActiveSession ==
    [][ControlData' # ControlData
          => js_connection_established # None
             /\ pc[js_connection_established] \in {"id", "value"}]_vars
=============================================================================
