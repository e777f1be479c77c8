---------------------------- MODULE SampleStream ----------------------------
(***************************************************************************)
(* What the scope server of the A53 promises to its clients: one session   *)
(* is active, and it is sent samples in the order they were taken, none of *)
(* them older than the session.  Until the first sample arrives a session  *)
(* is sent the zeros of an empty packet, sample 0.                         *)
(***************************************************************************)
EXTENDS Naturals

CONSTANTS Fds, None

VARIABLES active,    \* the session samples are collected for
          produced,  \* samples taken so far
          since,     \* per session, the samples taken when it became active
          sent       \* per session, the last sample of the last packet

stream == <<active, produced, since, sent>>

Init ==
    /\ active = None
    /\ produced = 0
    /\ since = [f \in Fds |-> 0]
    /\ sent = [f \in Fds |-> 0]

Take == produced' = produced + 1 /\ UNCHANGED <<active, since, sent>>

Open(f) ==
    /\ active' = f
    /\ since' = [since EXCEPT ![f] = produced]
    /\ sent' = [sent EXCEPT ![f] = 0]
    /\ UNCHANGED produced

Send(f) ==
    /\ active = f
    /\ \E s \in {0} \cup (since[f] + 1)..produced :
          /\ s >= sent[f]
          /\ sent' = [sent EXCEPT ![f] = s]
    /\ UNCHANGED <<active, produced, since>>

Close == active # None /\ active' = None /\ UNCHANGED <<produced, since, sent>>

Next == Take \/ Close \/ \E f \in Fds : Open(f) \/ Send(f)

Spec == Init /\ [][Next]_stream
=============================================================================
