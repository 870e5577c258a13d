------------------------------- MODULE Tunnel -------------------------------
(***************************************************************************)
(* Port mapping over one authenticated data channel: the CLI client's      *)
(* Manager (pkg/tunnel/manager.go), which accepts local connections, and   *)
(* the agent's ClientManager (pkg/tunnel/client.go), which dials the       *)
(* mapped service for each.  A stream is known by its id at both ends.     *)
(*                                                                         *)
(* The channel is ordered and each end handles one message at a time, in   *)
(* the callback of the peer; readers run beside it, one per connection.    *)
(* A link that is lost takes what is under way with it, and what is sent   *)
(* until the sender notices.                                               *)
(* closeStream (delete, close the connection, tell the other end) is one   *)
(* step: only the deletion is seen by others before the message is.        *)
(* Applications read what is written to them; a Write never blocks.        *)
(***************************************************************************)
EXTENDS Naturals, Sequences

CONSTANTS
  Conns,       \* local connections the applications open
  Nil,         \* no connection
  MaxStreams,  \* bound: streams of one session, fewer than the 2^16 ids
  MaxUp,       \* bound: chunks read from each local connection
  MaxDown      \* bound: chunks read from each connection of the agent

ASSUME TunnelAssumption ==
  /\ Nil \notin Conns /\ MaxStreams \in Nat
  /\ MaxUp \in [Conns -> Nat] /\ MaxDown \in [Conns -> Nat]

VARIABLES
  value,      \* StreamID.value
  mapped,     \* the map is in Manager.maps, its listener open
  sid,        \* handleLocalConn: the id it took; 0 before
  accepted,   \* handleLocalConn: where it is
  streams,    \* Manager.streams
  connMap,    \* Map.connMap
  local,      \* the local connections
  up,         \* chunks read from each
  localGot,   \* history: what was written to each
  dialing,    \* HandleConnectRequest: the request being dialed
  remotes,    \* ClientManager.streams
  remote,     \* the agent's connections to the service
  reading,    \* readLoop of each
  down,       \* chunks it read
  remoteGot,  \* history: what was written to each
  endedBy,    \* history: why the agent closed the stream
  toAgent, toClient,     \* messages on the channel
  link,       \* it carries messages
  clientOpen, \* the client's dataChanOpen
  agentOpen,  \* the agent's a.peer, its channel open
  cleanup,    \* the agent's cleanup(): not begun, in CloseAll, done
  closing     \* CloseAll: the ids still to be closed

clientVars == <<value, mapped, sid, accepted, streams, connMap, local, up, localGot>>
agentVars == <<dialing, remotes, remote, reading, down, remoteGot, endedBy>>
linkVars == <<toAgent, toClient, link, clientOpen, agentOpen, cleanup, closing>>
vars == <<clientVars, agentVars, linkVars>>

Ids == 1..MaxStreams
Message(type, i, c, n) == [type |-> type, sid |-> i, conn |-> c, chunk |-> n]
Messages == [type : {"ConnectReq", "ConnectResp", "Data", "HalfCloseStream", "CloseStream"},
             sid : Ids, conn : Conns \cup {Nil}, chunk : Nat]
ASSUME NilAssumption == Nil \notin Messages   \* no request is not a request

ClientTypes ==
  /\ value \in 0..MaxStreams /\ mapped \in BOOLEAN
  /\ sid \in [Conns -> 0..MaxStreams]
  /\ accepted \in [Conns -> {"none", "registered", "mapped", "read", "send", "eof", "done"}]
  /\ streams \in [Ids -> Conns \cup {Nil}] /\ connMap \in [Ids -> Conns \cup {Nil}]
  /\ local \in [Conns -> {"none", "open", "closed"}]
  /\ up \in [Conns -> Nat] /\ localGot \in [Conns -> Seq(Conns \X Nat)]
AgentTypes ==
  /\ dialing \in Messages \cup {Nil}
  /\ remotes \in [Ids -> Conns \cup {Nil}]
  /\ remote \in [Conns -> {"none", "open", "wclosed", "closed"}]
  /\ reading \in [Conns -> {"none", "read", "send", "done"}]
  /\ down \in [Conns -> Nat] /\ remoteGot \in [Conns -> Seq(Conns \X Nat)]
  /\ endedBy \in [Conns -> {"none", "eof", "error", "request"}]
LinkTypes ==
  /\ toAgent \in Seq(Messages) /\ toClient \in Seq(Messages)
  /\ link \in {"up", "lost"} /\ clientOpen \in BOOLEAN /\ agentOpen \in BOOLEAN
  /\ cleanup \in {"no", "closing", "done"} /\ closing \in SUBSET Ids
TypeOK == ClientTypes /\ AgentTypes /\ LinkTypes

Init ==
  /\ value = 0 /\ mapped = TRUE
  /\ sid = [c \in Conns |-> 0] /\ accepted = [c \in Conns |-> "none"]
  /\ streams = [i \in Ids |-> Nil] /\ connMap = [i \in Ids |-> Nil]
  /\ local = [c \in Conns |-> "none"]
  /\ up = [c \in Conns |-> 0] /\ localGot = [c \in Conns |-> <<>>]
  /\ dialing = Nil /\ remotes = [i \in Ids |-> Nil]
  /\ remote = [c \in Conns |-> "none"] /\ reading = [c \in Conns |-> "none"]
  /\ down = [c \in Conns |-> 0] /\ remoteGot = [c \in Conns |-> <<>>]
  /\ endedBy = [c \in Conns |-> "none"]
  /\ toAgent = <<>> /\ toClient = <<>> /\ link = "up"
  /\ clientOpen = TRUE /\ agentOpen = TRUE /\ cleanup = "no" /\ closing = {}

----------------------------------------------------------------------------
(* The client's end.                                                       *)

\* SendMessage succeeds while the channel is open; what is sent on a lost link is lost.
Carried(queue, m) == IF link = "up" THEN Append(queue, m) ELSE queue

\* closeStreamWithNotify of the stream i, and what the caller sends besides.
CloseLocal(i, notify) ==
  LET c == streams[i] IN
  /\ streams' = [streams EXCEPT ![i] = Nil]
  /\ IF c = Nil
     THEN UNCHANGED <<connMap, local, toAgent>>
     ELSE /\ connMap' = [connMap EXCEPT ![i] = Nil]
          /\ local' = [local EXCEPT ![c] = "closed"]
          /\ toAgent' = IF notify /\ clientOpen
                        THEN Carried(toAgent, Message("CloseStream", i, Nil, 0)) ELSE toAgent

LosesLink == link' = "lost" /\ toAgent' = <<>> /\ toClient' = <<>>
KeepStreams == UNCHANGED <<streams, connMap, local>>
At(c, from, to) == accepted[c] = from /\ accepted' = [accepted EXCEPT ![c] = to]

\* Mutant: an id beyond its range is given.
NextId_Unmasked == value + MaxStreams + 1
NextId == value + 1

\* handleLocalConn takes an id and registers the stream, which nobody can name yet.
Accept(c) ==
  /\ mapped /\ value < MaxStreams
  /\ At(c, "none", "registered")
  /\ value' = NextId /\ sid' = [sid EXCEPT ![c] = NextId]
  /\ streams' = [streams EXCEPT ![NextId] = c]
  /\ local' = [local EXCEPT ![c] = "open"]
  /\ UNCHANGED <<mapped, connMap, up, localGot, agentVars, linkVars>>

EnterConnMap(c) ==
  /\ At(c, "registered", "mapped")
  /\ connMap' = [connMap EXCEPT ![sid[c]] = c]
  /\ UNCHANGED <<value, mapped, sid, streams, local, up, localGot, agentVars, linkVars>>

\* A message of handleLocalConn: on to `then`, or the stream is closed when it cannot be sent.
SendOrClose(c, from, m, then) ==
  /\ accepted[c] = from
  /\ accepted' = [accepted EXCEPT ![c] = IF clientOpen THEN then ELSE "done"]
  /\ IF clientOpen
     THEN toAgent' = Carried(toAgent, m) /\ KeepStreams
     ELSE CloseLocal(sid[c], TRUE)
  /\ UNCHANGED <<value, mapped, sid, up, localGot, agentVars,
                 toClient, link, clientOpen, agentOpen, cleanup, closing>>

SendConnectReq(c) == SendOrClose(c, "mapped", Message("ConnectReq", sid[c], c, 0), "read")
SendLocalData(c) == SendOrClose(c, "send", Message("Data", sid[c], c, up[c]), "read")
SendHalfClose(c) == SendOrClose(c, "eof", Message("HalfCloseStream", sid[c], Nil, 0), "done")

ReadLocal(c) ==
  /\ local[c] = "open" /\ up[c] < MaxUp[c]
  /\ At(c, "read", "send") /\ up' = [up EXCEPT ![c] = @ + 1]
  /\ UNCHANGED <<value, mapped, sid, streams, connMap, local, localGot, agentVars, linkVars>>

ReadLocalEOF(c) ==
  /\ local[c] = "open" /\ At(c, "read", "eof")
  /\ UNCHANGED <<value, mapped, sid, streams, connMap, local, up, localGot, agentVars, linkVars>>

\* The application resets the connection, or the client closed it meanwhile.
ReadLocalError(c) ==
  /\ At(c, "read", "done") /\ CloseLocal(sid[c], TRUE)
  /\ UNCHANGED <<value, mapped, sid, up, localGot, agentVars,
                 toClient, link, clientOpen, agentOpen, cleanup, closing>>

FromAgent(type) == toClient # <<>> /\ Head(toClient).type = type /\ toClient' = Tail(toClient)
KeepClientLoop == UNCHANGED <<value, mapped, sid, accepted, up>>
KeepLink == UNCHANGED <<link, clientOpen, agentOpen, cleanup, closing>>

\* HandleDataMessage; the Write fails when the application has gone.
LocalData ==
  /\ FromAgent("Data")
  /\ LET c == streams[Head(toClient).sid] IN
     localGot' = IF c = Nil THEN localGot
                 ELSE [localGot EXCEPT ![c] = Append(@, <<Head(toClient).conn, Head(toClient).chunk>>)]
  /\ KeepStreams /\ KeepClientLoop /\ KeepLink /\ UNCHANGED <<toAgent, agentVars>>
LocalDataFails ==
  /\ FromAgent("Data") /\ CloseLocal(Head(toClient).sid, TRUE)
  /\ KeepClientLoop /\ KeepLink /\ UNCHANGED <<localGot, agentVars>>

\* A successful response changes nothing at the client and is not modelled.
ConnectFailed ==
  /\ FromAgent("ConnectResp") /\ CloseLocal(Head(toClient).sid, TRUE)
  /\ KeepClientLoop /\ KeepLink /\ UNCHANGED <<localGot, agentVars>>

LocalCloseStream ==
  /\ FromAgent("CloseStream") /\ CloseLocal(Head(toClient).sid, FALSE)
  /\ KeepClientLoop /\ KeepLink /\ UNCHANGED <<localGot, agentVars>>

\* RemoveMap closes what is in connMap, and tells the agent nothing.
RemoveMap ==
  /\ mapped /\ mapped' = FALSE
  /\ LET gone == {i \in Ids : connMap[i] # Nil} IN
     /\ streams' = [i \in Ids |-> IF i \in gone THEN Nil ELSE streams[i]]
     /\ local' = [c \in Conns |-> IF \E i \in gone : c \in {connMap[i], streams[i]}
                                  THEN "closed" ELSE local[c]]
  /\ UNCHANGED <<value, sid, accepted, connMap, up, localGot, agentVars, linkVars>>

\* The client's cleanup() goes on to close its peer.
ClientClosesPeer ==
  /\ ~mapped /\ clientOpen
  /\ clientOpen' = FALSE /\ LosesLink
  /\ UNCHANGED <<clientVars, agentVars, agentOpen, cleanup, closing>>

----------------------------------------------------------------------------
(* The agent's end.                                                        *)

\* Mutant: the other end is not told.
CloseRemote_Silent(i, notify, why) ==
  LET c == remotes[i] IN
  /\ remotes' = [remotes EXCEPT ![i] = Nil] /\ UNCHANGED toClient
  /\ IF c = Nil
     THEN UNCHANGED <<remote, endedBy>>
     ELSE remote' = [remote EXCEPT ![c] = "closed"] /\ endedBy' = [endedBy EXCEPT ![c] = why]

\* closeStream of the stream i.
CloseRemote(i, notify, why) ==
  LET c == remotes[i] IN
  /\ remotes' = [remotes EXCEPT ![i] = Nil]
  /\ IF c = Nil
     THEN UNCHANGED <<remote, endedBy, toClient>>
     ELSE /\ remote' = [remote EXCEPT ![c] = "closed"]
          /\ endedBy' = [endedBy EXCEPT ![c] = why]
          /\ toClient' = IF notify /\ agentOpen
                         THEN Carried(toClient, Message("CloseStream", i, Nil, 0)) ELSE toClient

\* The callback takes the next message once the last one was handled.
HandlerIdle_Async == TRUE   \* Mutant: requests are dialed beside the callback.
HandlerIdle == dialing = Nil
FromClient(type) ==
  HandlerIdle /\ toAgent # <<>> /\ Head(toAgent).type = type /\ toAgent' = Tail(toAgent)

HandleConnectRequest ==
  /\ FromClient("ConnectReq") /\ dialing' = Head(toAgent)
  /\ KeepLink
  /\ UNCHANGED <<clientVars, remotes, remote, reading, down, remoteGot, endedBy, toClient>>

\* Dial returned: register, answer, start to read; an answer that cannot be sent closes again.
Connected ==
  /\ dialing # Nil /\ dialing' = Nil
  /\ LET c == dialing.conn IN
     /\ remote' = [remote EXCEPT ![c] = IF agentOpen THEN "open" ELSE "closed"]
     /\ IF agentOpen
        THEN /\ remotes' = [remotes EXCEPT ![dialing.sid] = c]
             /\ reading' = [reading EXCEPT ![c] = "read"] /\ UNCHANGED endedBy
        ELSE UNCHANGED <<remotes, reading>> /\ endedBy' = [endedBy EXCEPT ![c] = "request"]
  /\ UNCHANGED <<clientVars, down, remoteGot, linkVars>>

ConnectRefused ==
  /\ dialing # Nil /\ dialing' = Nil
  /\ toClient' = IF agentOpen THEN Carried(toClient, Message("ConnectResp", dialing.sid, Nil, 0))
                 ELSE toClient
  /\ KeepLink
  /\ UNCHANGED <<clientVars, remotes, remote, reading, down, remoteGot, endedBy, toAgent>>

RemoteData ==
  /\ FromClient("Data")
  /\ LET c == remotes[Head(toAgent).sid] IN
     remoteGot' = IF c = Nil THEN remoteGot
                  ELSE [remoteGot EXCEPT ![c] = Append(@, <<Head(toAgent).conn, Head(toAgent).chunk>>)]
  /\ KeepLink
  /\ UNCHANGED <<clientVars, dialing, remotes, remote, reading, down, endedBy, toClient>>
\* Mutant: a failed write is ignored.
RemoteDataFails_Ignored ==
  /\ FromClient("Data") /\ KeepLink
  /\ UNCHANGED <<clientVars, dialing, remotes, remote, reading, down, remoteGot, endedBy, toClient>>
RemoteDataFails ==
  /\ FromClient("Data") /\ CloseRemote(Head(toAgent).sid, TRUE, "error")
  /\ KeepLink /\ UNCHANGED <<clientVars, dialing, reading, down, remoteGot>>

RemoteHalfClose ==
  /\ FromClient("HalfCloseStream")
  /\ LET c == remotes[Head(toAgent).sid] IN
     remote' = IF c = Nil THEN remote ELSE [remote EXCEPT ![c] = "wclosed"]
  /\ KeepLink
  /\ UNCHANGED <<clientVars, dialing, remotes, reading, down, remoteGot, endedBy, toClient>>

RemoteCloseStream ==
  /\ FromClient("CloseStream") /\ CloseRemote(Head(toAgent).sid, FALSE, "request")
  /\ KeepLink /\ UNCHANGED <<clientVars, dialing, reading, down, remoteGot>>

ReadRemote(c) ==
  /\ reading[c] = "read" /\ remote[c] # "closed" /\ down[c] < MaxDown[c]
  /\ reading' = [reading EXCEPT ![c] = "send"] /\ down' = [down EXCEPT ![c] = @ + 1]
  /\ UNCHANGED <<clientVars, dialing, remotes, remote, remoteGot, endedBy, linkVars>>

SendRemoteData(c) ==
  /\ reading[c] = "send" /\ agentOpen
  /\ reading' = [reading EXCEPT ![c] = "read"]
  /\ toClient' = Carried(toClient, Message("Data", sid[c], c, down[c]))
  /\ KeepLink
  /\ UNCHANGED <<clientVars, dialing, remotes, remote, down, remoteGot, endedBy, toAgent>>

\* readLoop returns and its deferred closeStream runs.
ReadLoopEnds(c, why) ==
  /\ reading' = [reading EXCEPT ![c] = "done"]
  /\ CloseRemote(sid[c], TRUE, why)
  /\ KeepLink /\ UNCHANGED <<clientVars, dialing, down, remoteGot, toAgent>>
ReadRemoteEOF(c) == reading[c] = "read" /\ remote[c] # "closed" /\ ReadLoopEnds(c, "eof")
ReadRemoteError(c) == reading[c] = "read" /\ ReadLoopEnds(c, "error")
SendRemoteFails(c) == reading[c] = "send" /\ ~agentOpen /\ ReadLoopEnds(c, "error")

\* cleanup(): the peer failed or closed, or a new offer preempts the session.
CleanupBegins ==
  /\ cleanup = "no" /\ cleanup' = "closing"
  /\ closing' = {i \in Ids : remotes[i] # Nil}
  /\ UNCHANGED <<clientVars, agentVars, toAgent, toClient, link, clientOpen, agentOpen>>
CloseAllNext(i) ==
  /\ i \in closing /\ closing' = closing \ {i}
  /\ CloseRemote(i, TRUE, "request")
  /\ UNCHANGED <<clientVars, dialing, reading, down, remoteGot,
                 toAgent, link, clientOpen, agentOpen, cleanup>>
AgentClosesPeer ==
  /\ cleanup = "closing" /\ closing = {} /\ cleanup' = "done"
  /\ agentOpen' = FALSE /\ LosesLink
  /\ UNCHANGED <<clientVars, agentVars, clientOpen, closing>>

----------------------------------------------------------------------------
LinkLost ==
  /\ link = "up" /\ LosesLink
  /\ UNCHANGED <<clientVars, agentVars, clientOpen, agentOpen, cleanup, closing>>
\* OnClose of the client's channel.
ClientNotices ==
  /\ link = "lost" /\ clientOpen /\ clientOpen' = FALSE
  /\ UNCHANGED <<clientVars, agentVars, toAgent, toClient, link, agentOpen, cleanup, closing>>

HandleLocalConn(c) ==
  \/ EnterConnMap(c)
  \/ SendConnectReq(c) \/ SendLocalData(c) \/ SendHalfClose(c)
ClientReads(c) == ReadLocal(c) \/ ReadLocalEOF(c) \/ ReadLocalError(c)
ClientMessage == LocalData \/ LocalDataFails \/ ConnectFailed \/ LocalCloseStream
Dialed == Connected \/ ConnectRefused
AgentMessage ==
  \/ HandleConnectRequest \/ RemoteData \/ RemoteDataFails
  \/ RemoteHalfClose \/ RemoteCloseStream
AgentReads(c) == ReadRemote(c) \/ ReadRemoteEOF(c) \/ ReadRemoteError(c)
AgentSends(c) == SendRemoteData(c) \/ SendRemoteFails(c)
CloseAll == (\E i \in Ids : CloseAllNext(i)) \/ AgentClosesPeer

Next ==
  \/ \E c \in Conns : Accept(c) \/ HandleLocalConn(c) \/ ClientReads(c) \/ AgentReads(c) \/ AgentSends(c)
  \/ ClientMessage \/ RemoveMap \/ ClientClosesPeer
  \/ AgentMessage \/ Dialed \/ CleanupBegins \/ CloseAll
  \/ LinkLost \/ ClientNotices

Spec == Init /\ [][Next]_vars

\* Goroutines go on, Dial returns, a link that is up delivers.  Applications and the
\* service may stay silent for ever, and no link need ever be lost.
Fairness ==
  /\ \A c \in Conns : WF_vars(HandleLocalConn(c)) /\ WF_vars(AgentSends(c))
  /\ WF_vars(ClientMessage) /\ WF_vars(AgentMessage)
  /\ WF_vars(Dialed) /\ WF_vars(ClientClosesPeer) /\ WF_vars(CloseAll)
FairSpec == Spec /\ Fairness

----------------------------------------------------------------------------
\* What is written to a connection is what its own stream's other end read, in order and
\* without a gap: no byte of another stream, none skipped while the stream goes on.
InOrder(got) == \A c \in Conns : \A k \in DOMAIN got[c] : got[c][k] = <<c, k>>
BytesInOrder == InOrder(localGot) /\ InOrder(remoteGot)

\* Every connection has its stream as if it were alone on the link (manager.go 190-374,
\* client.go 36-229): whatever step the tunnel takes is one that each stream may take by
\* itself, or that leaves it alone.
StreamOf(c) == INSTANCE Stream WITH
  self <- c, local <- local[c], up <- up[c], localGot <- localGot[c],
  remote <- remote[c], down <- down[c], remoteGot <- remoteGot[c]
EachIsAStream ==
  /\ \A c \in Conns : StreamOf(c)!Init
  /\ [][\A c \in Conns : [StreamOf(c)!Next]_(StreamOf(c)!vars)]_vars

\* An end of file is passed on only after every byte before it: the service sees the
\* client's write side end, and the client hears that the service ended the stream, when
\* all that was read at the other end has been written.
ToldToClose(c) ==
  toClient # <<>> /\ Head(toClient).type = "CloseStream" /\ Head(toClient).sid = sid[c]
EndIsComplete ==
  \A c \in Conns :
    /\ remote[c] = "wclosed" => Len(remoteGot[c]) = up[c]
    /\ (endedBy[c] = "eof" /\ local[c] = "open" /\ ToldToClose(c)) => Len(localGot[c]) = down[c]

\* With the link up and no message under way the two tables of streams agree: no
\* interleaving of a refusal, a failed write, a reset and both closes leaves a stream
\* open at one end only.
AgreeOn(c) == (sid[c] # 0 /\ streams[sid[c]] = c) <=> (sid[c] # 0 /\ remotes[sid[c]] = c)
Quiet ==
  /\ link = "up" /\ mapped /\ cleanup = "no"
  /\ toAgent = <<>> /\ toClient = <<>> /\ dialing = Nil
TablesAgreeWhenQuiet ==
  Quiet => \A c \in Conns : accepted[c] \in {"registered", "mapped"} \/ AgreeOn(c)

\* A stream that ends at one end ends at the other, unless the link is lost first.
CloseReachesTheOther ==
  \A c \in Conns :
    /\ local[c] = "closed" ~> (remote[c] \in {"none", "closed"} \/ link = "lost")
    /\ remote[c] = "closed" ~> (local[c] = "closed" \/ link = "lost")
=============================================================================
