------------------------------- MODULE Stream -------------------------------
(***************************************************************************)
(* What port mapping promises to one local connection, as if it were alone *)
(* on the link: two ends, and between them two pipes that deliver the      *)
(* chunks read at one end to the other, each once and in order.  Nothing   *)
(* another stream does can be told from it.                                *)
(***************************************************************************)
EXTENDS Naturals, Sequences

CONSTANT self   \* the connection

VARIABLES
  local,      \* the local connection: "none", "open" or "closed"
  up,         \* chunks read from it
  localGot,   \* what was written to it
  remote,     \* the agent's connection to the service; "wclosed": its write side ended
  down,       \* chunks read from it
  remoteGot   \* what was written to it

vars == <<local, up, localGot, remote, down, remoteGot>>

Chunk(k) == <<self, k>>
NextChunk(got) == Append(got, Chunk(Len(got) + 1))

Init ==
  /\ local = "none" /\ up = 0 /\ localGot = <<>>
  /\ remote = "none" /\ down = 0 /\ remoteGot = <<>>

Accept ==
  /\ local = "none" /\ local' = "open"
  /\ UNCHANGED <<up, localGot, remote, down, remoteGot>>

\* The agent dials once, for a connection that was accepted; one that is too late to be
\* answered is closed at once.
Dial ==
  /\ local # "none" /\ remote = "none"
  /\ remote' \in {"open", "closed"}
  /\ UNCHANGED <<local, up, localGot, down, remoteGot>>

\* Nothing is read any more from an application whose end of file was passed on.
ReadLocal ==
  /\ local = "open" /\ remote # "wclosed"
  /\ up' = up + 1
  /\ UNCHANGED <<local, localGot, remote, down, remoteGot>>

WriteRemote ==
  /\ remote = "open" /\ Len(remoteGot) < up
  /\ remoteGot' = NextChunk(remoteGot)
  /\ UNCHANGED <<local, up, localGot, remote, down>>

\* The end of file is passed on when all that was read has been written.
EndRemote ==
  /\ remote = "open" /\ Len(remoteGot) = up
  /\ remote' = "wclosed"
  /\ UNCHANGED <<local, up, localGot, down, remoteGot>>

\* The service goes on answering after the end of its input.
ReadRemote ==
  /\ remote \in {"open", "wclosed"}
  /\ down' = down + 1
  /\ UNCHANGED <<local, up, localGot, remote, remoteGot>>

WriteLocal ==
  /\ local = "open" /\ Len(localGot) < down
  /\ localGot' = NextChunk(localGot)
  /\ UNCHANGED <<local, up, remote, down, remoteGot>>

\* Either end may be closed at any time, and is not opened again.
CloseLocal ==
  /\ local = "open" /\ local' = "closed"
  /\ UNCHANGED <<up, localGot, remote, down, remoteGot>>

CloseRemote ==
  /\ remote \in {"open", "wclosed"} /\ remote' = "closed"
  /\ UNCHANGED <<local, up, localGot, down, remoteGot>>

Next ==
  \/ Accept \/ Dial
  \/ ReadLocal \/ WriteRemote \/ EndRemote
  \/ ReadRemote \/ WriteLocal
  \/ CloseLocal \/ CloseRemote

Spec == Init /\ [][Next]_vars
=============================================================================
