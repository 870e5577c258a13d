------------------------------ MODULE WebProxy ------------------------------
(***************************************************************************)
(* WebSockets and HTTP requests of a page, proxied over the data channel:  *)
(* the DcWebSocket and fetchDc of the web controller                       *)
(* (web/static/controller.js) and their handlers at the agent              *)
(* (cmd/agent/main.go), which run in a goroutine for each message.         *)
(*                                                                         *)
(* The channel is ordered, but a message to the agent is handled at any    *)
(* time after it was sent, in any order: toAgent is a set.  Two equal      *)
(* closes on their way do no more than the later one.  A lost link takes   *)
(* along what was not handled; what goroutines have begun goes on.         *)
(* closeWSConn (take out of the map, close) is one step, since only the    *)
(* first half is seen by others; so is a read with what is sent for it.    *)
(***************************************************************************)
EXTENDS Naturals, Sequences

CONSTANTS
  Sockets,    \* sockets the page opens, each with an id of its own
  Requests,   \* requests it sends
  MaxFrames,  \* bound: frames the page sends on each socket
  MaxData,    \* bound: frames the service sends on each
  Chunks      \* for each request, the chunks of the response's body

ASSUME WebProxyAssumption ==
  /\ MaxFrames \in Nat /\ MaxData \in Nat
  /\ Chunks \in [Requests -> Nat]

VARIABLES
  connected,  \* page: state.dataChannel is there
  page,       \* page: readyState of each socket; gone: no longer in wsConnections
  frames,     \* page: frames sent on each
  opened,     \* history: it had its open event
  got,        \* history: the messages it had
  told,       \* history: it had an error or close event
  req,        \* page: pendingHTTPRequests, and how each request ended
  chunks,     \* page: the chunks received for each
  opener,     \* agent: handleWSOpen of each socket
  wsConns,    \* agent: wsConns
  conn,       \* agent: the connection to the service
  reader,     \* agent: readWSLoop of each
  read,       \* agent: frames it read
  failed,     \* agent: handleWSData whose write failed
  answer,     \* agent: handleHTTPRequest of each request
  next,       \* agent: the chunk it sends next
  peer,       \* agent: a.peer: this page's, none, or the next session's
  cleaning,   \* agent: in cleanup(), its sockets closed and its peer not yet
  toAgent,    \* messages sent to the agent and not handled
  toPage,     \* messages on their way to the page
  link        \* the link carries messages

pageSockets == <<page, frames, opened, got, told>>
pageRequests == <<req, chunks>>
agentSockets == <<opener, wsConns, conn, reader, read, failed>>
agentRequests == <<answer, next>>
session == <<peer, cleaning>>
vars == <<connected, pageSockets, pageRequests, agentSockets, agentRequests,
          session, toAgent, toPage, link>>

Max2(a, b) == IF a > b THEN a ELSE b
LastChunk(q) == Max2(Chunks[q], 1) - 1   \* a body that is empty is sent in one message
Id == Sockets \cup Requests
ToAgent == {"open", "data", "close", "http"} \X Id \X (0..MaxFrames)
ToPage == {"ack", "refused", "data", "close", "error", "chunk", "failure"} \X Id \X Nat

TypeOK ==
  /\ connected \in BOOLEAN
  /\ page \in [Sockets -> {"none", "connecting", "open", "closing", "closed", "gone"}]
  /\ frames \in [Sockets -> 0..MaxFrames]
  /\ opened \in [Sockets -> BOOLEAN] /\ told \in [Sockets -> BOOLEAN]
  /\ got \in [Sockets -> Seq(1..MaxData)]
  /\ req \in [Requests -> {"none", "pending", "resolved", "failed", "rejected", "dropped"}]
  /\ \A q \in Requests : chunks[q] \subseteq 0..LastChunk(q)
  /\ opener \in [Sockets -> {"none", "dialing", "registered", "done"}]
  /\ wsConns \subseteq Sockets /\ failed \subseteq Sockets
  /\ conn \in [Sockets -> {"none", "open", "closed"}]
  /\ reader \in [Sockets -> {"none", "reading", "ending", "done"}]
  /\ read \in [Sockets -> 0..MaxData]
  /\ answer \in [Requests -> {"none", "fetching", "sending", "done"}]
  /\ \A q \in Requests : next[q] \in 0..LastChunk(q)
  /\ peer \in {"ours", "none", "next"} /\ cleaning \in BOOLEAN
  /\ toAgent \subseteq ToAgent /\ toPage \in Seq(ToPage)
  /\ link \in {"up", "lost"}

Init ==
  /\ connected = TRUE
  /\ page = [s \in Sockets |-> "none"] /\ frames = [s \in Sockets |-> 0]
  /\ opened = [s \in Sockets |-> FALSE] /\ told = [s \in Sockets |-> FALSE]
  /\ got = [s \in Sockets |-> <<>>]
  /\ req = [q \in Requests |-> "none"] /\ chunks = [q \in Requests |-> {}]
  /\ opener = [s \in Sockets |-> "none"] /\ wsConns = {} /\ failed = {}
  /\ conn = [s \in Sockets |-> "none"] /\ reader = [s \in Sockets |-> "none"]
  /\ read = [s \in Sockets |-> 0]
  /\ answer = [q \in Requests |-> "none"] /\ next = [q \in Requests |-> 0]
  /\ peer = "ours" /\ cleaning = FALSE
  /\ toAgent = {} /\ toPage = <<>> /\ link = "up"

-----------------------------------------------------------------------------
(* The page sends.                                                          *)

\* sendProtocolMessage, while the page has a channel; a lost link loses it.
Post(ms) == toAgent' = IF link = "up" THEN toAgent \cup ms ELSE toAgent

InConnections(s) == page[s] \in {"connecting", "open", "closing"}

OpenSocket(s) ==
  /\ connected /\ page[s] = "none"
  /\ page' = [page EXCEPT ![s] = "connecting"]
  /\ Post({<<"open", s, 0>>})
  /\ UNCHANGED <<connected, frames, opened, got, told, pageRequests, agentSockets,
                 agentRequests, session, toPage, link>>

SendFrame(s) ==
  /\ connected /\ page[s] = "open" /\ frames[s] < MaxFrames
  /\ frames' = [frames EXCEPT ![s] = @ + 1]
  /\ Post({<<"data", s, frames[s] + 1>>})
  /\ UNCHANGED <<connected, page, opened, got, told, pageRequests, agentSockets,
                 agentRequests, session, toPage, link>>

CloseSocket(s) ==
  /\ connected /\ InConnections(s)
  /\ page' = [page EXCEPT ![s] = "closing"]
  /\ Post({<<"close", s, 0>>})
  /\ UNCHANGED <<connected, frames, opened, got, told, pageRequests, agentSockets,
                 agentRequests, session, toPage, link>>

FetchDc(q) ==
  /\ connected /\ req[q] = "none"
  /\ req' = [req EXCEPT ![q] = "pending"]
  /\ Post({<<"http", q, 0>>})
  /\ UNCHANGED <<connected, pageSockets, chunks, agentSockets, agentRequests,
                 session, toPage, link>>

\* The timer of fetchDc finds the request pending.
FetchTimesOut(q) ==
  /\ req[q] = "pending"
  /\ req' = [req EXCEPT ![q] = "rejected"]
  /\ UNCHANGED <<connected, pageSockets, chunks, agentSockets, agentRequests,
                 session, toAgent, toPage, link>>

\* disconnect(), by the user, the page's 30 s mask or a connection that failed: it
\* closes and forgets the sockets, and forgets the requests without settling them.
Disconnect ==
  /\ connected /\ connected' = FALSE
  /\ page' = [s \in Sockets |-> IF InConnections(s) THEN "gone" ELSE page[s]]
  /\ Post({<<"close", s, 0>> : s \in {t \in Sockets : InConnections(t)}})
  /\ req' = [q \in Requests |-> IF req[q] = "pending" THEN "dropped" ELSE req[q]]
  /\ UNCHANGED <<frames, opened, got, told, chunks, agentSockets, agentRequests,
                 session, toPage, link>>

-----------------------------------------------------------------------------
(* The page receives.                                                       *)

Arrives(type) == toPage # <<>> /\ Head(toPage)[1] = type /\ toPage' = Tail(toPage)
At == Head(toPage)[2]     \* the id the message names
Num == Head(toPage)[3]
KeepRest == UNCHANGED <<connected, frames, pageRequests, agentSockets, agentRequests,
                        session, toAgent, link>>

\* Mutant: a socket that was closed meanwhile does not open.
HandleWSOpenAck_IfConnecting ==
  /\ Arrives("ack")
  /\ IF page[At] = "connecting"
     THEN page' = [page EXCEPT ![At] = "open"] /\ opened' = [opened EXCEPT ![At] = TRUE]
     ELSE UNCHANGED <<page, opened>>
  /\ UNCHANGED <<got, told>> /\ KeepRest

\* __setOpen asks only whether the socket is open, not whether it is closing.
HandleWSOpenAck ==
  /\ Arrives("ack")
  /\ IF InConnections(At)
     THEN page' = [page EXCEPT ![At] = "open"] /\ opened' = [opened EXCEPT ![At] = TRUE]
     ELSE UNCHANGED <<page, opened>>
  /\ UNCHANGED <<got, told>> /\ KeepRest

\* A refusal is an error and a close.
HandleWSClose ==
  /\ Arrives("close") \/ Arrives("refused")
  /\ IF InConnections(At)
     THEN page' = [page EXCEPT ![At] = "closed"] /\ told' = [told EXCEPT ![At] = TRUE]
     ELSE UNCHANGED <<page, told>>
  /\ UNCHANGED <<opened, got>> /\ KeepRest

HandleWSData ==
  /\ Arrives("data")
  /\ got' = IF InConnections(At) THEN [got EXCEPT ![At] = Append(@, Num)] ELSE got
  /\ UNCHANGED <<page, opened, told>> /\ KeepRest

HandleWSError ==
  /\ Arrives("error")
  /\ told' = IF InConnections(At) THEN [told EXCEPT ![At] = TRUE] ELSE told
  /\ UNCHANGED <<page, opened, got>> /\ KeepRest

\* Mutant: the chunk before the last is marked as the last.
Done_Early(q, i) == i + 1 >= LastChunk(q)
\* payload.done, as the agent set it.
Done(q, i) == i = LastChunk(q)

\* handleHTTPResponse: chunks are kept by their index until the last is there.
HandleHTTPResponse ==
  /\ Arrives("chunk")
  /\ IF req[At] = "pending"
     THEN /\ chunks' = [chunks EXCEPT ![At] = @ \cup {Num}]
          /\ req' = IF Done(At, Num) THEN [req EXCEPT ![At] = "resolved"] ELSE req
     ELSE UNCHANGED <<chunks, req>>
  /\ UNCHANGED <<connected, pageSockets, agentSockets, agentRequests, session, toAgent, link>>

HandleHTTPFailure ==
  /\ Arrives("failure")
  /\ req' = IF req[At] = "pending" THEN [req EXCEPT ![At] = "failed"] ELSE req
  /\ UNCHANGED <<connected, pageSockets, chunks, agentSockets, agentRequests,
                 session, toAgent, link>>

-----------------------------------------------------------------------------
(* The agent's goroutines.                                                  *)

\* sendMessage: over this page's channel, or the next session's, whose page knows
\* none of the ids; it fails when there is no peer.
Send(type, id, n) ==
  toPage' = IF peer = "ours" /\ link = "up" THEN Append(toPage, <<type, id, n>>) ELSE toPage
SendFails == peer = "none"

Handles(m) == m \in toAgent /\ toAgent' = toAgent \ {m}
KeepPage == UNCHANGED <<connected, pageSockets, pageRequests>>

\* closeWSConn
CloseWSConn(s) ==
  /\ wsConns' = wsConns \ {s}
  /\ conn' = IF s \in wsConns THEN [conn EXCEPT ![s] = "closed"] ELSE conn

HandleWSOpen(s) ==
  /\ Handles(<<"open", s, 0>>)
  /\ opener' = [opener EXCEPT ![s] = "dialing"]
  /\ KeepPage
  /\ UNCHANGED <<wsConns, conn, reader, read, failed, agentRequests, session, toPage, link>>

DialFails(s) ==
  /\ opener[s] = "dialing" /\ opener' = [opener EXCEPT ![s] = "done"]
  /\ Send("refused", s, 0)
  /\ KeepPage
  /\ UNCHANGED <<wsConns, conn, reader, read, failed, agentRequests, session, toAgent, link>>

\* Mutant: the reader does not wait for the acknowledgement.
Dialed_ReadsAtOnce(s) ==
  /\ opener[s] = "dialing" /\ opener' = [opener EXCEPT ![s] = "registered"]
  /\ wsConns' = wsConns \cup {s} /\ conn' = [conn EXCEPT ![s] = "open"]
  /\ reader' = [reader EXCEPT ![s] = "reading"]
  /\ KeepPage
  /\ UNCHANGED <<read, failed, agentRequests, session, toAgent, toPage, link>>

Dialed(s) ==
  /\ opener[s] = "dialing" /\ opener' = [opener EXCEPT ![s] = "registered"]
  /\ wsConns' = wsConns \cup {s} /\ conn' = [conn EXCEPT ![s] = "open"]
  /\ KeepPage
  /\ UNCHANGED <<reader, read, failed, agentRequests, session, toAgent, toPage, link>>

\* The page is told first, then the reader is started.
SendWSOpenAck(s) ==
  /\ opener[s] = "registered" /\ opener' = [opener EXCEPT ![s] = "done"]
  /\ Send("ack", s, 0)
  /\ reader' = [reader EXCEPT ![s] = "reading"]
  /\ KeepPage
  /\ UNCHANGED <<wsConns, conn, read, failed, agentRequests, session, toAgent, link>>

\* handleWSData: the service takes the frame.
WriteFrame(s, n) ==
  /\ s \in wsConns /\ Handles(<<"data", s, n>>)
  /\ KeepPage
  /\ UNCHANGED <<agentSockets, agentRequests, session, toPage, link>>

\* There is no connection, or the write fails and the connection is to be closed.
WriteFails(s, n) ==
  /\ Handles(<<"data", s, n>>)
  /\ Send("error", s, 0)
  /\ failed' = IF s \in wsConns THEN failed \cup {s} ELSE failed
  /\ KeepPage
  /\ UNCHANGED <<opener, wsConns, conn, reader, read, agentRequests, session, link>>

CloseFailed(s) ==
  /\ s \in failed /\ failed' = failed \ {s}
  /\ CloseWSConn(s)
  /\ KeepPage
  /\ UNCHANGED <<opener, reader, read, agentRequests, session, toAgent, toPage, link>>

PageCloses(s) ==
  /\ Handles(<<"close", s, 0>>)
  /\ CloseWSConn(s)
  /\ KeepPage
  /\ UNCHANGED <<opener, reader, read, failed, agentRequests, session, toPage, link>>

\* readWSLoop: frames that were buffered are read even after the connection was closed.
ReadData(s) ==
  /\ reader[s] = "reading" /\ read[s] < MaxData
  /\ read' = [read EXCEPT ![s] = @ + 1]
  /\ Send("data", s, read[s] + 1)
  /\ reader' = IF SendFails THEN [reader EXCEPT ![s] = "ending"] ELSE reader
  /\ KeepPage
  /\ UNCHANGED <<opener, wsConns, conn, failed, agentRequests, session, toAgent, link>>

ReadEnds(s, type) ==
  /\ reader[s] = "reading" /\ reader' = [reader EXCEPT ![s] = "ending"]
  /\ Send(type, s, 0)
  /\ KeepPage
  /\ UNCHANGED <<opener, wsConns, conn, read, failed, agentRequests, session, toAgent, link>>

\* The service closes the connection with a close frame, or it breaks or was closed here.
ReadClose(s) == ReadEnds(s, "close")

\* Mutant: an error other than a close frame ends the loop silently.
ReadError_Silent(s) ==
  /\ reader[s] = "reading" /\ reader' = [reader EXCEPT ![s] = "ending"]
  /\ KeepPage
  /\ UNCHANGED <<opener, wsConns, conn, read, failed, agentRequests, session, toAgent, toPage, link>>
ReadError(s) == ReadEnds(s, "error")

\* The deferred closeWSConn.
ReadLoopReturns(s) ==
  /\ reader[s] = "ending" /\ reader' = [reader EXCEPT ![s] = "done"]
  /\ CloseWSConn(s)
  /\ KeepPage
  /\ UNCHANGED <<opener, read, failed, agentRequests, session, toAgent, toPage, link>>

HandleHTTPRequest(q) ==
  /\ Handles(<<"http", q, 0>>)
  /\ answer' = [answer EXCEPT ![q] = "fetching"]
  /\ KeepPage
  /\ UNCHANGED <<agentSockets, next, session, toPage, link>>

\* No such port, or the service does not answer in 30 s.
SendHTTPError(q) ==
  /\ answer[q] = "fetching" /\ answer' = [answer EXCEPT ![q] = "done"]
  /\ Send("failure", q, 0)
  /\ KeepPage
  /\ UNCHANGED <<agentSockets, next, session, toAgent, link>>

Fetched(q) ==
  /\ answer[q] = "fetching" /\ answer' = [answer EXCEPT ![q] = "sending"]
  /\ KeepPage
  /\ UNCHANGED <<agentSockets, next, session, toAgent, toPage, link>>

\* Mutant: one chunk too many.
SendChunk_OneMore(q) ==
  /\ answer[q] = "sending"
  /\ Send("chunk", q, next[q])
  /\ IF SendFails \/ next[q] > LastChunk(q)
     THEN answer' = [answer EXCEPT ![q] = "done"] /\ UNCHANGED next
     ELSE next' = [next EXCEPT ![q] = @ + 1] /\ UNCHANGED answer
  /\ KeepPage
  /\ UNCHANGED <<agentSockets, session, toAgent, link>>

\* sendHTTPResponseChunks: a chunk that cannot be sent ends it.
SendChunk(q) ==
  /\ answer[q] = "sending"
  /\ Send("chunk", q, next[q])
  /\ IF SendFails \/ Done(q, next[q])
     THEN answer' = [answer EXCEPT ![q] = "done"] /\ UNCHANGED next
     ELSE next' = [next EXCEPT ![q] = @ + 1] /\ UNCHANGED answer
  /\ KeepPage
  /\ UNCHANGED <<agentSockets, session, toAgent, link>>

-----------------------------------------------------------------------------
(* The session.                                                             *)

\* cleanup(): the peer failed or a new offer preempts it.
CleanupBegins ==
  /\ ~cleaning /\ peer # "none" /\ cleaning' = TRUE
  /\ wsConns' = {}
  /\ conn' = [s \in Sockets |-> IF s \in wsConns THEN "closed" ELSE conn[s]]
  /\ KeepPage
  /\ UNCHANGED <<opener, reader, read, failed, agentRequests, peer, toAgent, toPage, link>>

LosesLink == link' = "lost" /\ toAgent' = {} /\ toPage' = <<>>

CleanupEnds ==
  /\ cleaning /\ cleaning' = FALSE /\ peer' = "none"
  /\ IF peer = "ours" THEN LosesLink ELSE UNCHANGED <<toAgent, toPage, link>>
  /\ KeepPage
  /\ UNCHANGED <<agentSockets, agentRequests>>

NextSession ==
  /\ ~cleaning /\ peer = "none" /\ peer' = "next"
  /\ KeepPage
  /\ UNCHANGED <<agentSockets, agentRequests, cleaning, toAgent, toPage, link>>

\* The network fails, or the page closed its peer.
LinkLost ==
  /\ link = "up" /\ LosesLink
  /\ KeepPage
  /\ UNCHANGED <<agentSockets, agentRequests, session>>

-----------------------------------------------------------------------------
PageReceives ==
  \/ HandleWSOpenAck \/ HandleWSClose \/ HandleWSData \/ HandleWSError
  \/ HandleHTTPResponse \/ HandleHTTPFailure

Opener(s) == HandleWSOpen(s) \/ DialFails(s) \/ Dialed(s) \/ SendWSOpenAck(s)
Frames(s) == \E n \in 1..MaxFrames : WriteFrame(s, n) \/ WriteFails(s, n)
Closer(s) == CloseFailed(s) \/ PageCloses(s)
ReadWSLoop(s) == ReadData(s) \/ ReadClose(s) \/ ReadError(s) \/ ReadLoopReturns(s)
Answerer(q) == HandleHTTPRequest(q) \/ SendHTTPError(q) \/ Fetched(q) \/ SendChunk(q)

Next ==
  \/ \E s \in Sockets : OpenSocket(s) \/ SendFrame(s) \/ CloseSocket(s)
  \/ \E q \in Requests : FetchDc(q) \/ FetchTimesOut(q)
  \/ Disconnect \/ PageReceives
  \/ \E s \in Sockets : Opener(s) \/ Frames(s) \/ Closer(s) \/ ReadWSLoop(s)
  \/ \E q \in Requests : Answerer(q)
  \/ CleanupBegins \/ CleanupEnds \/ NextSession \/ LinkLost

Spec == Init /\ [][Next]_vars

\* Goroutines go on, a dial returns (45 s), a read of a closed connection fails and a link
\* that is up delivers.  The service may stay silent.
Fairness ==
  /\ WF_vars(PageReceives)
  /\ \A s \in Sockets :
       WF_vars(Opener(s)) /\ WF_vars(Frames(s)) /\ WF_vars(CloseFailed(s)) /\ WF_vars(PageCloses(s))
         /\ WF_vars(conn[s] = "closed" /\ ReadWSLoop(s)) /\ WF_vars(ReadLoopReturns(s))

FairSpec == Spec /\ Fairness

-----------------------------------------------------------------------------
(***************************************************************************)
(* Properties                                                              *)
(***************************************************************************)

\* Opens, frames and closes overtake each other at the agent, each in a goroutine of its
\* own (main.go 953-960), and the page may close a socket that is still being dialed.  When
\* all of a socket's messages are handled, the page still has a socket, open, for every
\* open connection to the service: none is left that only the end of the session closes.
Handled(s) ==
  /\ \A m \in toAgent : m[2] # s
  /\ \A i \in DOMAIN toPage : toPage[i][2] # s
  /\ opener[s] \notin {"dialing", "registered"} /\ reader[s] # "ending" /\ s \notin failed
SessionLasts == connected /\ link = "up" /\ peer = "ours" /\ ~cleaning
NoUnreachableConn ==
  \A s \in Sockets :
    SessionLasts /\ Handled(s) /\ conn[s] = "open" => page[s] = "open"

\* What a page sees of a socket is the stream the service sent: the open event before the
\* first message, messages in order and without a gap, and a close event only after all of
\* them (main.go 1370-1371, 1409-1436).
PageSeesAStream ==
  \A s \in Sockets :
    /\ \A k \in DOMAIN got[s] : got[s][k] = k
    /\ got[s] # <<>> => opened[s]
    /\ page[s] = "closed" => Len(got[s]) = read[s]

\* Each socket is a WebSocket by itself (controller.js 2289-2449, main.go 1335-1436): every
\* step of the page, of the agent's goroutines and of the session is one that the socket may
\* take, or leaves it alone.  A page has no event of a socket that it forgot, none but a
\* refusal before the open event, and none after the close event.
SocketOf(s) == INSTANCE Socket WITH
  state <- page[s], frames <- frames[s], opened <- opened[s], got <- got[s],
  told <- told[s], service <- conn[s], read <- read[s]
EachIsASocket ==
  /\ \A s \in Sockets : SocketOf(s)!Init
  /\ [][\A s \in Sockets : [SocketOf(s)!Next]_(SocketOf(s)!vars)]_vars

\* A connection that ended, whoever ended it, does not stay open for the page without a
\* word: it has an error or a close event, unless the session ends.
EndIsHeard ==
  \A s \in Sockets : conn[s] = "closed" ~> (told[s] \/ ~connected \/ link = "lost")

\* A request that was resolved with a body has every chunk of it, however the chunks of
\* other answers, timeouts and the end of a session came between.
ResponseWhole ==
  \A q \in Requests : req[q] = "resolved" => chunks[q] = 0..LastChunk(q)
=============================================================================
