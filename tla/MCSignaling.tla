----------------------------- MODULE MCSignaling -----------------------------
(* Instances of Signaling for TLC.  The part of Next below lets a run give   *)
(* its states to the requests its properties are about.                      *)
EXTENDS Signaling, TLC

\* Requests are interchangeable, and so are sessions.
Symmetry == Permutations(Reqs) \cup Permutations(Sessions)

\* Sessions claim, displace and release an agent over sockets; nothing is
\* polled and nothing expires.
ControlNext ==
  \/ \E r \in Reqs, s \in Sessions, k \in Kinds, a \in Agents :
       DisconnectCall(r, s, k, a) \/ \E f \in BOOLEAN : ConnectCall(r, s, k, a, f)
  \/ \E r \in Reqs, a \in Agents : RegisterUpsert(r, a)
  \/ \E r \in Reqs :
       RegisterEntry(r) \/ ConnectLock(r) \/ DisconnectLock(r) \/ Notify(r)
  \/ \E c \in Conn : WSStep(c)

ControlSpec == Init /\ [][ControlNext]_vars
ControlLiveSpec == ControlSpec /\ Fairness
=============================================================================
