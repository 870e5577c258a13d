------------------------------- MODULE Socket -------------------------------
(***************************************************************************)
(* What a page may rely on of one DcWebSocket, as if it were a WebSocket   *)
(* to the service: one open event, then the service's messages in order    *)
(* and without a gap, then at most one close event, which comes after all  *)
(* of them; and nothing more.                                              *)
(***************************************************************************)
EXTENDS Naturals, Sequences

VARIABLES
  state,      \* readyState; "gone": the page forgot the socket
  frames,     \* frames the page sent
  opened,     \* it had its open event
  got,        \* the messages it had
  told,       \* it had an error or close event
  service,    \* the connection to the service: "none", "open" or "closed"
  read        \* frames the service sent

events == <<opened, got, told>>
vars == <<state, frames, events, service, read>>

InUse == state \in {"connecting", "open", "closing"}

Init ==
  /\ state = "none" /\ frames = 0
  /\ opened = FALSE /\ got = <<>> /\ told = FALSE
  /\ service = "none" /\ read = 0

Create ==
  /\ state = "none" /\ state' = "connecting"
  /\ UNCHANGED <<frames, events, service, read>>

\* The agent dials once, for a socket that was created and not refused.
Dial ==
  /\ state \notin {"none", "closed"}
  /\ service = "none" /\ service' = "open"
  /\ UNCHANGED <<state, frames, events, read>>

\* A page that closes a socket too early for it to be open sees it open again.
Open ==
  /\ state \in {"connecting", "closing"} /\ ~opened
  /\ service # "none"
  /\ state' = "open" /\ opened' = TRUE
  /\ UNCHANGED <<frames, got, told, service, read>>

SendFrame ==
  /\ state = "open" /\ opened
  /\ frames' = frames + 1
  /\ UNCHANGED <<state, events, service, read>>

\* The service sends; what it sent before it closed is read after.
Read ==
  /\ service # "none" /\ state # "closed"
  /\ read' = read + 1
  /\ UNCHANGED <<state, frames, events, service>>

Message ==
  /\ state \in {"open", "closing"} /\ opened /\ Len(got) < read
  /\ got' = Append(got, Len(got) + 1)
  /\ UNCHANGED <<state, frames, opened, told, service, read>>

\* An error event: a frame could not be written, or the connection broke.
Error ==
  /\ state \in {"open", "closing"} /\ opened
  /\ told' = TRUE
  /\ UNCHANGED <<state, frames, opened, got, service, read>>

ServiceEnds ==
  /\ service = "open" /\ service' = "closed"
  /\ UNCHANGED <<state, frames, events, read>>

\* The close event: the service refused, or ended the socket and all it sent was received.
Closed ==
  /\ \/ state \in {"connecting", "closing"} /\ ~opened /\ service = "none"
     \/ state \in {"open", "closing"} /\ opened /\ Len(got) = read
  /\ state' = "closed" /\ told' = TRUE
  /\ UNCHANGED <<frames, opened, got, service, read>>

Close ==
  /\ InUse /\ state' = "closing"
  /\ UNCHANGED <<frames, events, service, read>>

\* disconnect() of the page.
Forget ==
  /\ InUse /\ state' = "gone"
  /\ UNCHANGED <<frames, events, service, read>>

Next ==
  \/ Create \/ Dial \/ Open
  \/ SendFrame \/ Read \/ Message
  \/ Error \/ ServiceEnds \/ Closed
  \/ Close \/ Forget

Spec == Init /\ [][Next]_vars
=============================================================================
