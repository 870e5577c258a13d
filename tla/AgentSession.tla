---------------------------- MODULE AgentSession ----------------------------
(***************************************************************************)
(* The agent's session with a controller (cmd/agent/main.go): the peer     *)
(* connection it answered last, the handshake over its data channel, and   *)
(* cleanup(), which gives it up.                                           *)
(*                                                                         *)
(* The fields peer, handshaker, authenticated and helloSeen are shared,    *)
(* without a lock, by the signaling loop, handleDataChannel and the timer  *)
(* it leaves behind, and the callbacks of every connection made so far.    *)
(* None of them knows which connection it runs for, except the timer.  A   *)
(* goroutine is cut wherever another one can change what it goes on with.  *)
(*                                                                         *)
(* What cleanup() does first, to the terminal, the streams and the         *)
(* WebSockets, and the messages that follow authentication are in Terminal *)
(* and Tunnel.  A candidate changes nothing that is kept here.             *)
(***************************************************************************)
EXTENDS Naturals

CONSTANTS
  MaxSignals,  \* bound: signals received; each offer makes one connection
  Wrong,       \* bound: connections whose controllers may send what the agent rejects
  Frail        \* bound: connections that may fail

Nil  == 0
Conn == 1..MaxSignals

ASSUME SessionAssumption ==
  /\ MaxSignals \in Nat
  /\ Wrong \subseteq Conn /\ Frail \subseteq Conn

Loop == <<"loop", Nil>>
Kinds == {"channel", "message", "failed", "closed"}
Task == {Loop} \cup Kinds \X Conn
Owner(t) == t[2]   \* the connection it runs for

VARIABLES
  alive,          \* the process has not panicked
  peer,           \* a.peer
  authenticated,  \* a.authenticated
  helloSeen,      \* a.helloSeen
  handshaker,     \* a.handshaker: that made by the handleDataChannel of an offer
  handshake,      \* Handshaker.state of each
  conn,           \* the state of each peer connection
  dataChanOpen,   \* Peer.dataChanOpen
  at,             \* where each goroutine is
  offer,          \* the offer in the loop's hands; Nil for a disconnect
  holds,          \* handleDataChannel: the peer it waits for, then the handshaker whose
                  \* challenge it sends, then the peer its timer was set for
  challenged,     \* the first challenge each controller got, named by its handshaker
  responded,      \* it has answered that challenge
  offers, received      \* offers, and signals of both kinds, so far

fields  == <<peer, authenticated, helloSeen>>
auth    == <<handshaker, handshake>>
remote  == <<challenged, responded>>
signals == <<offer, offers, received>>
vars == <<alive, fields, auth, conn, dataChanOpen, at, holds, remote, signals>>

Cleaning == {"take", "forget"}
Places == {"idle", "newPeer", "answer", "start", "make", "wait", "open",
           "send", "timer", "accept"} \cup Cleaning

TypeOK ==
  /\ alive \in BOOLEAN
  /\ received \in 0..MaxSignals /\ offers \in 0..received
  /\ offer \in 0..offers
  /\ peer \in 0..offers /\ handshaker \in 0..offers
  /\ authenticated \in BOOLEAN /\ helloSeen \in BOOLEAN
  /\ handshake \in [Conn -> {"idle", "challengeSent", "authenticated", "failed"}]
  /\ conn \in [Conn -> {"none", "new", "answered", "failed", "closed"}]
  /\ dataChanOpen \in [Conn -> BOOLEAN]
  /\ at \in [Task -> Places]
  /\ holds \in [Conn -> 0..offers]
  /\ \A n \in Conn : at[<<"channel", n>>] = "wait" => holds[n] # Nil
  /\ challenged \in [Conn -> 0..offers] /\ responded \in [Conn -> BOOLEAN]

Init ==
  /\ alive = TRUE
  /\ peer = Nil /\ authenticated = FALSE /\ helloSeen = FALSE
  /\ handshaker = Nil /\ handshake = [n \in Conn |-> "idle"]
  /\ conn = [n \in Conn |-> "none"] /\ dataChanOpen = [n \in Conn |-> FALSE]
  /\ at = [t \in Task |-> "idle"]
  /\ offer = Nil /\ offers = 0 /\ received = 0
  /\ holds = [n \in Conn |-> Nil]
  /\ challenged = [n \in Conn |-> Nil] /\ responded = [n \in Conn |-> FALSE]

Goes(t, from, to) == at[t] = from /\ at' = [at EXCEPT ![t] = to]

-----------------------------------------------------------------------------
(* cleanup(), in any goroutine.                                            *)

\* Close makes pion report the state Closed, in a goroutine of its own.
Closing(p, t, next) ==
  /\ conn' = [conn EXCEPT ![p] = "closed"]
  /\ dataChanOpen' = [dataChanOpen EXCEPT ![p] = FALSE]
  /\ at' = [at EXCEPT ![t] = next,
                      ![<<"closed", p>>] = IF conn[p] = "closed" THEN @ ELSE "take"]

\* The loop goes on with its offer; a data channel may carry a next message.
AfterCleanup(t) ==
  IF t = Loop /\ offer # Nil THEN "newPeer" ELSE "idle"

\* The peer it finds is closed, be it another than its own connection's.
Take(t) ==
  /\ at[t] = "take" /\ peer # Nil
  /\ Closing(peer, t, "forget")
  /\ UNCHANGED <<alive, fields, auth, holds, remote, signals>>

\* Goroutines that ask whether a.peer is nil and read it again to call it: cleanup(),
\* sendMessage, and the loop with a candidate.
ReadsTwice(t) == at[t] \in {"take", "send"} \/ (t = Loop /\ at[t] = "idle")

\* The fields are cleared in a row, when Close is done.  A goroutine that had just
\* found the peer there calls nil and panics.
Forget(t) ==
  /\ Goes(t, "forget", AfterCleanup(t))
  /\ peer' = Nil /\ authenticated' = FALSE /\ helloSeen' = FALSE
  /\ \/ alive' = TRUE
     \/ alive' = FALSE /\ peer # Nil /\ \E u \in Task \ {t} : ReadsTwice(u)
  /\ UNCHANGED <<auth, conn, dataChanOpen, holds, remote, signals>>

NoPeer(t) ==
  /\ Goes(t, "take", AfterCleanup(t))
  /\ peer = Nil
  /\ authenticated' = FALSE /\ helloSeen' = FALSE
  /\ UNCHANGED <<alive, peer, auth, conn, dataChanOpen, holds, remote, signals>>

Cleanup(t) == Take(t) \/ Forget(t) \/ NoPeer(t)

-----------------------------------------------------------------------------
(* The signaling loop, which handles one message after another.            *)

Disconnect ==
  /\ received < MaxSignals
  /\ Goes(Loop, "idle", "take")
  /\ offer' = Nil /\ received' = received + 1
  /\ UNCHANGED <<alive, fields, auth, conn, dataChanOpen, holds, remote, offers>>

\* handleOffer: the last connection wins.
HandleOffer ==
  /\ received < MaxSignals
  /\ Goes(Loop, "idle", IF peer # Nil \/ authenticated THEN "take" ELSE "newPeer")
  /\ received' = received + 1 /\ offers' = offers + 1 /\ offer' = offers + 1
  /\ UNCHANGED <<alive, fields, auth, conn, dataChanOpen, holds, remote>>

NewPeer ==
  /\ Goes(Loop, "newPeer", "answer")
  /\ peer' = offer
  /\ conn' = [conn EXCEPT ![offer] = "new"]
  /\ UNCHANGED <<alive, authenticated, helloSeen, auth, dataChanOpen, holds, remote, signals>>

NewPeerFails ==
  /\ Goes(Loop, "newPeer", "idle")
  /\ offer' = Nil
  /\ UNCHANGED <<alive, fields, auth, conn, dataChanOpen, holds, remote, offers, received>>

Answered == [conn EXCEPT ![offer] = IF @ = "new" THEN "answered" ELSE @]

\* CreateAnswer, seconds of gathering included, and the answer sent: the network
\* can be tried from here on, and handleDataChannel is started.
Answer ==
  /\ at[Loop] = "answer"
  /\ at' = [at EXCEPT ![Loop] = "idle", ![<<"channel", offer>>] = "start"]
  /\ conn' = Answered
  /\ offer' = Nil
  /\ UNCHANGED <<alive, fields, auth, dataChanOpen, holds, remote, offers, received>>

\* No answer, or none the agent knows was sent: a.peer is kept all the same.
AnswerFails ==
  /\ Goes(Loop, "answer", "idle")
  /\ conn' \in {conn, Answered}
  /\ offer' = Nil
  /\ UNCHANGED <<alive, fields, auth, dataChanOpen, holds, remote, offers, received>>

-----------------------------------------------------------------------------
(* handleDataChannel, one goroutine for each offer answered.               *)

Channel(n) == <<"channel", n>>
KeepSession == UNCHANGED <<fields, conn, dataChanOpen, signals>>

PeerIsNil(n) ==
  /\ Goes(Channel(n), "start", "idle")
  /\ peer = Nil
  /\ UNCHANGED <<alive, auth, holds, remote>> /\ KeepSession

PeerIsThere(n) ==
  /\ Goes(Channel(n), "start", "make")
  /\ peer # Nil
  /\ UNCHANGED <<alive, auth, holds, remote>> /\ KeepSession

\* Mutant: a nil peer is not noticed.
WaitForOpen_NilTolerated(n) ==
  /\ Goes(Channel(n), "make", "wait")
  /\ handshaker' = n
  /\ holds' = [holds EXCEPT ![n] = peer]
  /\ UNCHANGED <<alive, handshake, remote>> /\ KeepSession

\* a.peer is read again for the call: by now it may be nil, and the call panics.
WaitForOpen(n) ==
  /\ Goes(Channel(n), "make", IF peer = Nil THEN "idle" ELSE "wait")
  /\ handshaker' = n
  /\ holds' = [holds EXCEPT ![n] = peer]
  /\ alive' = (peer # Nil)
  /\ UNCHANGED <<handshake, remote>> /\ KeepSession

Opened(n) ==
  /\ Goes(Channel(n), "wait", "open")
  /\ dataChanOpen[holds[n]]
  /\ holds' = [holds EXCEPT ![n] = Nil]
  /\ UNCHANGED <<alive, auth, remote>> /\ KeepSession

\* After 30 s the session is given up, be it another connection's by now.
OpenTimeout(n) ==
  /\ Goes(Channel(n), "wait", "take")
  /\ holds' = [holds EXCEPT ![n] = Nil]
  /\ UNCHANGED <<alive, auth, remote>> /\ KeepSession

ResendConfig(n) ==
  /\ Goes(Channel(n), "open", "idle")
  /\ authenticated
  /\ UNCHANGED <<alive, auth, holds, remote>> /\ KeepSession

\* Handshaker.CreateChallenge: once only.
CreateChallenge(n) ==
  /\ at[Channel(n)] = "open" /\ ~authenticated
  /\ IF handshake[handshaker] = "idle"
     THEN /\ Goes(Channel(n), "open", "send")
          /\ handshake' = [handshake EXCEPT ![handshaker] = "challengeSent"]
          /\ holds' = [holds EXCEPT ![n] = handshaker]
     ELSE Goes(Channel(n), "open", "take") /\ UNCHANGED <<handshake, holds>>
  /\ UNCHANGED <<alive, handshaker, remote>> /\ KeepSession

\* The controller's own Handshaker takes one challenge; a later one is an error to it.
Challenged(p, h) ==
  IF p # Nil /\ dataChanOpen[p] /\ challenged[p] = Nil
  THEN [challenged EXCEPT ![p] = h] ELSE challenged

\* To the peer of the moment, for which the timer is set.
SendChallenge(n) ==
  /\ Goes(Channel(n), "send", "timer")
  /\ challenged' = Challenged(peer, holds[n])
  /\ holds' = [holds EXCEPT ![n] = peer]
  /\ UNCHANGED <<alive, auth, responded>> /\ KeepSession

\* Mutant: the timer asks for a session that was authenticated.
HelloTimer_WantsAuthenticated(n) ==
  /\ Goes(Channel(n), "timer",
          IF peer = holds[n] /\ authenticated /\ ~helloSeen THEN "take" ELSE "idle")
  /\ holds' = [holds EXCEPT ![n] = Nil]
  /\ UNCHANGED <<alive, auth, remote>> /\ KeepSession

\* 10 s later: the only goroutine that asks whether its connection is the current one.
HelloTimer(n) ==
  /\ Goes(Channel(n), "timer",
          IF peer = holds[n] /\ ~authenticated /\ ~helloSeen THEN "take" ELSE "idle")
  /\ holds' = [holds EXCEPT ![n] = Nil]
  /\ UNCHANGED <<alive, auth, remote>> /\ KeepSession

HandleDataChannel(n) ==
  \/ PeerIsNil(n) \/ PeerIsThere(n) \/ WaitForOpen(n) \/ Opened(n) \/ OpenTimeout(n)
  \/ ResendConfig(n) \/ CreateChallenge(n) \/ SendChallenge(n) \/ HelloTimer(n)

-----------------------------------------------------------------------------
(* handleMessage, in the callback of a connection: one message at a time.  *)

Message(n) == <<"message", n>>

\* A hello, of another version or not; a challenge, which only an old version
\* sends, ends the session as well.
HandleHello(n, ok) ==
  /\ ok \/ n \in Wrong
  /\ dataChanOpen[n]
  /\ Goes(Message(n), "idle", IF ok THEN "idle" ELSE "take")
  /\ helloSeen' = TRUE
  /\ UNCHANGED <<alive, peer, authenticated, auth, conn, dataChanOpen, holds, remote, signals>>

HandleChallenge(n) ==
  /\ n \in Wrong
  /\ dataChanOpen[n]
  /\ Goes(Message(n), "idle", "take")
  /\ UNCHANGED <<alive, auth, holds, remote>> /\ KeepSession

Verdict(state) == [handshake EXCEPT ![handshaker] = state]

\* Handshaker.HandleResponse, of whatever handshaker the agent has by now.  A
\* response with another clock is refused and leaves the state as it is.
HandleResponse(n, right) ==
  LET verified == right /\ challenged[n] = handshaker IN
  /\ right \/ n \in Wrong
  /\ dataChanOpen[n]
  /\ challenged[n] # Nil /\ ~responded[n]
  /\ responded' = [responded EXCEPT ![n] = TRUE]
  /\ IF verified /\ handshake[handshaker] = "challengeSent"
     THEN Goes(Message(n), "idle", "accept") /\ handshake' = Verdict("authenticated")
     ELSE /\ Goes(Message(n), "idle", "take")
          /\ \/ handshake[handshaker] = "challengeSent" /\ handshake' = Verdict("failed")
             \/ (handshake[handshaker] = "challengeSent" => ~right) /\ UNCHANGED handshake
  /\ UNCHANGED <<alive, handshaker, holds, challenged>> /\ KeepSession

\* handleAuthMessage, the result sent.
Accept(n) ==
  /\ Goes(Message(n), "accept", "idle")
  /\ authenticated' = TRUE
  /\ UNCHANGED <<alive, peer, helloSeen, auth, conn, dataChanOpen, holds, remote, signals>>

HandleMessage(n) ==
  \/ \E ok \in BOOLEAN : HandleHello(n, ok) \/ HandleResponse(n, ok)
  \/ HandleChallenge(n)

-----------------------------------------------------------------------------
(* The connections.                                                        *)

ChannelOpens(n) ==
  /\ conn[n] = "answered" /\ ~dataChanOpen[n]
  /\ dataChanOpen' = [dataChanOpen EXCEPT ![n] = TRUE]
  /\ UNCHANGED <<alive, fields, auth, conn, at, holds, remote, signals>>

\* Mutant: the state callback does not know Failed.
ConnectionFails_NotHandled(n) ==
  /\ n \in Frail
  /\ conn[n] = "answered"
  /\ conn' = [conn EXCEPT ![n] = "failed"]
  /\ UNCHANGED <<alive, fields, auth, dataChanOpen, at, holds, remote, signals>>

\* The state Failed, reported in a goroutine of its own.
ConnectionFails(n) ==
  /\ n \in Frail
  /\ conn[n] = "answered"
  /\ conn' = [conn EXCEPT ![n] = "failed"]
  /\ at' = [at EXCEPT ![<<"failed", n>>] = "take"]
  /\ UNCHANGED <<alive, fields, auth, dataChanOpen, holds, remote, signals>>

\* What each goroutine does once it is under way.
Steps(t) ==
  /\ at[t] # "idle"
  /\ \/ Cleanup(t)
     \/ t[1] = "loop" /\ (NewPeer \/ NewPeerFails \/ Answer \/ AnswerFails)
     \/ t[1] = "channel" /\ HandleDataChannel(Owner(t))
     \/ t[1] = "message" /\ Accept(Owner(t))

Next ==
  /\ alive
  /\ \/ \E t \in Task : Steps(t)
     \/ Disconnect \/ HandleOffer
     \/ \E n \in Conn : HandleMessage(n) \/ ChannelOpens(n) \/ ConnectionFails(n)

Spec == Init /\ [][Next]_vars

\* Goroutines that can go on do, and timers fire; the network, the controllers
\* and the signaling server owe nothing.
Fairness == \A t \in Task : WF_vars(alive /\ Steps(t))

FairSpec == Spec /\ Fairness

-----------------------------------------------------------------------------
(* Properties                                                              *)

\* A connection that failed is not kept (main.go 793-804): as long as it is the agent's,
\* the goroutine that will close it is on its way, whatever other goroutines did
\* with the session meanwhile.
DeadPeerDropped ==
  \A n \in Conn : conn[n] = "failed" /\ peer = n => at[<<"failed", n>>] = "take"

\* A connection that was answered gets somewhere (862-866, 888-895): unless a
\* controller says hello or authenticates, the agent gives the connection up,
\* whether its channel never opens or opens and stays silent.
SilentPeerDropped ==
  \A n \in Conn : (peer = n /\ at[Channel(n)] # "idle")
                  ~> (peer # n \/ authenticated \/ helloSeen \/ ~alive)

\* The last connection wins (766-769): a session is ended on behalf of its own
\* connection, or of the signaling loop, and never by what is left of another.
LastConnectionWins ==
  [][\A t \in Task : Take(t) /\ peer # Nil => Owner(t) \in {peer, Nil}]_vars
=============================================================================
