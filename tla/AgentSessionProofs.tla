-------------------------- MODULE AgentSessionProofs --------------------------
(***************************************************************************)
(* Proofs about AgentSession, for every number of signals and every choice *)
(* of the controllers that misbehave and the connections that fail.        *)
(***************************************************************************)
EXTENDS AgentSession, TLAPS

\* A data channel is waited for on behalf of an offer that was received.
Begun == \A n \in Conn : at[Channel(n)] # "idle" => n <= offers

\* A handshaker that accepted a response had it from a controller that was
\* given this handshaker's challenge, and the session is authenticated, or about
\* to be, only after such a response.
Responses ==
  /\ \A h \in Conn : handshake[h] = "authenticated" =>
       \E n \in Conn : challenged[n] = h /\ responded[n]
  /\ authenticated \/ (\E n \in Conn : at[Message(n)] = "accept") =>
       \E h \in Conn : handshake[h] = "authenticated"

Inv == TypeOK /\ Begun /\ DeadPeerDropped /\ Responses

LEMMA InitInv == Init => Inv
<1> SUFFICES ASSUME Init PROVE Inv
  OBVIOUS
<1> USE SessionAssumption
<1>1. TypeOK
  <2>1. /\ received = 0 /\ offers = 0 /\ offer = 0 /\ peer = 0 /\ handshaker = 0
        /\ MaxSignals \in Nat
    BY DEF Init, Nil
  <2>2. /\ received \in 0..MaxSignals /\ offers \in 0..received /\ offer \in 0..offers
        /\ peer \in 0..offers /\ handshaker \in 0..offers
    BY <2>1
  <2>3. /\ holds \in [Conn -> 0..offers] /\ challenged \in [Conn -> 0..offers]
    BY <2>1 DEF Init, Nil
  <2>4. /\ alive \in BOOLEAN /\ authenticated \in BOOLEAN /\ helloSeen \in BOOLEAN
        /\ handshake \in [Conn -> {"idle", "challengeSent", "authenticated", "failed"}]
        /\ conn \in [Conn -> {"none", "new", "answered", "failed", "closed"}]
        /\ dataChanOpen \in [Conn -> BOOLEAN] /\ responded \in [Conn -> BOOLEAN]
        /\ at \in [Task -> Places]
    BY DEF Init, Places
  <2>5. \A n \in Conn : at[<<"channel", n>>] # "wait"
    BY DEF Init, Task, Kinds
  <2>6. QED BY <2>2, <2>3, <2>4, <2>5 DEF TypeOK
<1>2. \A n \in Conn : Channel(n) \in Task /\ Message(n) \in Task
  BY DEF Task, Channel, Message, Kinds
<1>3. Begun
  BY <1>2 DEF Init, Begun
<1>4. DeadPeerDropped /\ Responses
  BY <1>2 DEF Init, DeadPeerDropped, Responses
<1>5. QED BY <1>1, <1>3, <1>4 DEF Inv

\* The goroutines are told apart by their kind and their connection.
LEMMA Tasks ==
  /\ Loop \in Task
  /\ \A n \in Conn : /\ Channel(n) \in Task /\ Message(n) \in Task
                     /\ <<"failed", n>> \in Task /\ <<"closed", n>> \in Task
                     /\ Owner(Channel(n)) = n /\ Owner(Message(n)) = n
  /\ \A t \in Task : /\ t[1] = "loop" => t = Loop
                     /\ t[1] = "channel" => Owner(t) \in Conn /\ t = Channel(Owner(t))
                     /\ t[1] = "message" => Owner(t) \in Conn /\ t = Message(Owner(t))
BY DEF Task, Loop, Kinds, Channel, Message, Owner

\* One goroutine goes on, and nothing else of the table of goroutines changes.
LEMMA OneGoes ==
  ASSUME TypeOK, NEW t \in Task, NEW from \in Places, NEW to \in Places, Goes(t, from, to)
  PROVE  /\ at' \in [Task -> Places]
         /\ at[t] = from /\ at'[t] = to
         /\ \A u \in Task : u # t => at'[u] = at[u]
BY DEF TypeOK, Goes

-----------------------------------------------------------------------------
(* Each action, in the order of the module.                                *)

\* The peer that is closed is no failed one any more, whose ever it is.
LEMMA TakeStep ==
  ASSUME Inv, NEW t \in Task, Take(t)
  PROVE  Inv'
<1>1. peer \in Conn
  BY SessionAssumption DEF Inv, TypeOK, Take, Nil, Conn
<1>2. /\ at' = [at EXCEPT ![t] = "forget", ![<<"closed", peer>>] = IF conn[peer] = "closed" THEN @ ELSE "take"]
      /\ conn' = [conn EXCEPT ![peer] = "closed"]
      /\ dataChanOpen' = [dataChanOpen EXCEPT ![peer] = FALSE]
  BY DEF Take, Closing
<1>3. at' \in [Task -> Places] /\ \A u \in Task : at'[u] \in {at[u], "take", "forget"}
  BY <1>1, <1>2, Tasks DEF Inv, TypeOK, Places, Cleaning
<1>4. \A n \in Conn : at'[Channel(n)] # "idle" => at[Channel(n)] # "idle"
  BY <1>1, <1>2, Tasks DEF Inv, TypeOK, Channel, Take
<1>5. TypeOK'
  BY <1>1, <1>2, <1>3, Tasks DEF Inv, TypeOK, Take, fields, auth, remote, signals, Channel
<1>6. Begun'
  BY <1>4 DEF Inv, Begun, Take, signals
<1>7. DeadPeerDropped'
  BY <1>1, <1>2 DEF Inv, TypeOK, DeadPeerDropped, Take, fields
<1>8. Responses'
  BY <1>3, Tasks DEF Inv, Responses, Take, fields, auth, remote
<1>9. QED BY <1>5, <1>6, <1>7, <1>8 DEF Inv

\* The agent has no peer.
LEMMA CleanupStep ==
  ASSUME Inv, NEW t \in Task, Cleanup(t)
  PROVE  Inv'
<1> DEFINE next == AfterCleanup(t)
<1>1. next \in {"newPeer", "idle"}
  BY DEF AfterCleanup
<1> HIDE DEF next
<1>2. ASSUME NEW from \in {"take", "forget"}, Goes(t, from, next), peer' = Nil,
             authenticated' = FALSE, helloSeen' = FALSE, alive' \in BOOLEAN,
             UNCHANGED <<auth, conn, dataChanOpen, holds, remote, signals>>
      PROVE  Inv'
  <2> USE <1>2 DEF auth, remote, signals
  <2>1. from \in Places /\ next \in Places
    BY <1>1 DEF Places, Cleaning
  <2>2. /\ at' \in [Task -> Places] /\ at[t] = from /\ at'[t] = next
        /\ \A u \in Task : u # t => at'[u] = at[u]
    BY <2>1, OneGoes DEF Inv
  <2>3. \A u \in Task : at'[u] # at[u] => at[u] # "idle" /\ at'[u] \in {"newPeer", "idle"}
    BY <1>1, <2>2
  <2>4. TypeOK'
    <3>1. \A n \in Conn : at'[<<"channel", n>>] = "wait" => at[<<"channel", n>>] = "wait"
      BY <2>3, Tasks DEF Channel
    <3>2. Nil \in 0..offers'
      BY SessionAssumption DEF Inv, TypeOK, Nil
    <3>3. QED BY <2>2, <3>1, <3>2 DEF Inv, TypeOK
  <2>5. Begun'
    BY <2>3, Tasks DEF Inv, Begun
  <2>6. DeadPeerDropped'
    BY SessionAssumption DEF DeadPeerDropped, Conn, Nil
  <2>7. Responses'
    BY <2>3, Tasks DEF Inv, Responses
  <2>8. QED BY <2>4, <2>5, <2>6, <2>7 DEF Inv
<1>3. CASE Take(t)
  BY <1>3, TakeStep
<1>4. CASE Forget(t)
  BY <1>4, <1>2 DEF Forget, next
<1>5. CASE NoPeer(t)
  <2>1. alive' \in BOOLEAN /\ peer' = Nil
    BY <1>5 DEF NoPeer, Inv, TypeOK
  <2>2. QED BY <1>5, <1>2, <2>1 DEF NoPeer, next
<1>6. QED BY <1>3, <1>4, <1>5 DEF Cleanup

\* The signaling loop receives a signal, or gives up the offer in its hands.
LEMMA SignalStep ==
  ASSUME Inv, Disconnect \/ HandleOffer \/ NewPeerFails
  PROVE  Inv'
<1> DEFINE from == at[Loop]
           to == at'[Loop]
<1>1. Loop \in Task /\ MaxSignals \in Nat
  BY Tasks, SessionAssumption
<1>2. /\ Goes(Loop, from, to) /\ from \in {"idle", "newPeer"} /\ to \in {"idle", "take", "newPeer"}
  BY <1>1 DEF Disconnect, HandleOffer, NewPeerFails, Goes, Inv, TypeOK
<1> HIDE DEF from, to
<1>3. /\ at' \in [Task -> Places] /\ \A u \in Task : u # Loop => at'[u] = at[u]
  <2>1. from \in Places /\ to \in Places
    BY <1>2 DEF Places, Cleaning
  <2>2. QED BY <1>1, <1>2, <2>1, OneGoes DEF Inv
<1>4. \A n \in Conn : /\ at'[Channel(n)] = at[Channel(n)] /\ at'[Message(n)] = at[Message(n)]
                      /\ at'[<<"failed", n>>] = at[<<"failed", n>>]
  BY <1>3, Tasks DEF Loop, Channel, Message
<1>5. /\ received' \in 0..MaxSignals /\ offers' \in 0..received' /\ offers <= offers'
      /\ offer' \in 0..offers'
  BY <1>1 DEF Disconnect, HandleOffer, NewPeerFails, Inv, TypeOK, Nil
<1>6. /\ UNCHANGED <<alive, peer, authenticated, helloSeen, handshaker, handshake>>
      /\ UNCHANGED <<conn, dataChanOpen, holds, challenged, responded>>
  BY DEF Disconnect, HandleOffer, NewPeerFails, fields, auth, remote
<1>7. TypeOK'
  <2>1. \A x \in 0..offers : x \in 0..offers'
    BY <1>5 DEF Inv, TypeOK
  <2>2. peer' \in 0..offers' /\ handshaker' \in 0..offers'
    BY <1>6, <2>1 DEF Inv, TypeOK
  <2>3. holds' \in [Conn -> 0..offers'] /\ challenged' \in [Conn -> 0..offers']
    BY <1>6, <2>1 DEF Inv, TypeOK
  <2>4. \A n \in Conn : at'[<<"channel", n>>] = "wait" => holds'[n] # Nil
    BY <1>4, <1>6 DEF Inv, TypeOK, Channel
  <2>5. QED BY <1>3, <1>5, <1>6, <2>2, <2>3, <2>4 DEF Inv, TypeOK
<1>8. Begun'
  <2>1. offers \in Nat /\ offers' \in Nat /\ MaxSignals \in Nat /\ offers <= offers'
    BY <1>1, <1>5 DEF Inv, TypeOK
  <2>2. \A n \in Conn : n <= offers => n <= offers'
    BY <2>1 DEF Conn
  <2>3. QED BY <1>4, <2>2 DEF Inv, Begun
<1>9. DeadPeerDropped' /\ Responses'
  BY <1>4, <1>6 DEF Inv, DeadPeerDropped, Responses
<1>10. QED BY <1>7, <1>8, <1>9 DEF Inv

\* The loop makes a connection of the offer in its hands, and answers.
LEMMA NewPeerStep ==
  ASSUME Inv, NewPeer
  PROVE  Inv'
<1>1. Loop \in Task /\ "newPeer" \in Places /\ "answer" \in Places
  BY Tasks DEF Places
<1>2. /\ at' \in [Task -> Places] /\ \A u \in Task : u # Loop => at'[u] = at[u]
  BY <1>1, OneGoes DEF NewPeer, Inv
<1>3. \A n \in Conn : /\ at'[Channel(n)] = at[Channel(n)] /\ at'[Message(n)] = at[Message(n)]
                      /\ at'[<<"failed", n>>] = at[<<"failed", n>>]
  BY <1>2, Tasks DEF Loop, Channel, Message
<1>4. TypeOK'
  <2>1. \A n \in Conn : at'[<<"channel", n>>] = "wait" => holds'[n] # Nil
    BY <1>3 DEF Inv, TypeOK, Channel, NewPeer
  <2>2. QED BY <1>2, <2>1 DEF Inv, TypeOK, NewPeer, auth, remote, signals
<1>5. Begun' /\ Responses'
  BY <1>3 DEF Inv, Begun, Responses, NewPeer, auth, remote, signals
<1>6. DeadPeerDropped'
  BY DEF Inv, TypeOK, DeadPeerDropped, NewPeer
<1>7. QED BY <1>4, <1>5, <1>6 DEF Inv

LEMMA AnswerStep ==
  ASSUME Inv, Answer \/ AnswerFails
  PROVE  Inv'
<1>1. /\ at' = [at EXCEPT ![Loop] = "idle", ![Channel(offer)] = "start"]
         \/ at' = [at EXCEPT ![Loop] = "idle"]
      /\ conn' \in {conn, Answered}
      /\ offer' = Nil
      /\ UNCHANGED <<alive, fields, auth, dataChanOpen, holds, remote, offers, received>>
  BY DEF Answer, AnswerFails, Goes, Channel
<1> USE DEF fields, auth, remote
<1>2. Nil \in 0..offers /\ offers \in Nat /\ offer \in 0..offers
  BY DEF Inv, TypeOK, Nil
<1>3. at' \in [Task -> Places]
  BY <1>1 DEF Inv, TypeOK, Places
<1>4. /\ \A n \in Conn : /\ at'[Message(n)] = at[Message(n)] /\ at'[<<"failed", n>>] = at[<<"failed", n>>]
                         /\ at'[Channel(n)] = at[Channel(n)] \/ (n = offer /\ at'[Channel(n)] = "start")
  BY <1>1, Tasks DEF Inv, TypeOK, Loop, Channel, Message
<1>5. /\ conn' \in [Conn -> {"none", "new", "answered", "failed", "closed"}]
      /\ \A n \in Conn : conn'[n] = "failed" => conn[n] = "failed"
  BY <1>1 DEF Inv, TypeOK, Answered
<1>6. TypeOK'
  <2>1. \A n \in Conn : at'[<<"channel", n>>] = "wait" => holds'[n] # Nil
    BY <1>1, <1>4 DEF Inv, TypeOK, Channel
  <2>2. QED BY <1>1, <1>2, <1>3, <1>5, <2>1 DEF Inv, TypeOK
<1>7. Begun'
  <2>1. offer <= offers /\ offers' = offers
    BY <1>1, <1>2
  <2>2. QED BY <1>4, <2>1 DEF Inv, Begun
<1>8. DeadPeerDropped' /\ Responses'
  BY <1>1, <1>4, <1>5 DEF Inv, DeadPeerDropped, Responses
<1>9. QED BY <1>6, <1>7, <1>8 DEF Inv

-----------------------------------------------------------------------------
\* A step of a data channel's goroutine that leaves the connections alone and
\* keeps or makes a handshaker, a challenge, or the record of one.
LEMMA ChannelGoes ==
  ASSUME Inv, NEW n \in Conn, NEW from \in Places \ {"idle"}, NEW to \in Places \ {"accept"},
         Goes(Channel(n), from, to),
         UNCHANGED <<fields, conn, dataChanOpen, signals>>, responded' = responded,
         alive' \in BOOLEAN,
         handshaker' \in 0..offers,
         handshake' \in [Conn -> {"idle", "challengeSent", "authenticated", "failed"}],
         \A h \in Conn : handshake[h] = "authenticated" <=> handshake'[h] = "authenticated",
         holds' \in [Conn -> 0..offers],
         \A m \in Conn \ {n} : holds'[m] = holds[m],
         to = "wait" => holds'[n] # Nil,
         challenged' \in [Conn -> 0..offers],
         \A m \in Conn : challenged[m] # Nil => challenged'[m] = challenged[m]
  PROVE  Inv'
<1> USE DEF fields, signals
<1>1. Channel(n) \in Task
  BY Tasks
<1>2. /\ at' \in [Task -> Places] /\ at[Channel(n)] = from /\ at'[Channel(n)] = to
      /\ \A u \in Task : u # Channel(n) => at'[u] = at[u]
  BY <1>1, OneGoes DEF Inv
<1>3. \A m \in Conn : /\ at'[Message(m)] = at[Message(m)] /\ at'[<<"failed", m>>] = at[<<"failed", m>>]
                      /\ m # n => at'[Channel(m)] = at[Channel(m)]
  BY <1>2, Tasks DEF Channel, Message
<1>4. TypeOK'
  <2>1. \A m \in Conn : at'[<<"channel", m>>] = "wait" => holds'[m] # Nil
    BY <1>2, <1>3 DEF Inv, TypeOK, Channel
  <2>2. QED BY <1>2, <2>1 DEF Inv, TypeOK
<1>5. Begun'
  BY <1>2, <1>3 DEF Inv, Begun
<1>6. DeadPeerDropped'
  BY <1>3 DEF Inv, DeadPeerDropped
<1>7. Responses'
  <2>1. \A h \in Conn : h # Nil
    BY SessionAssumption DEF Conn, Nil
  <2>2. ASSUME NEW h \in Conn, handshake'[h] = "authenticated"
        PROVE  \E m \in Conn : challenged'[m] = h /\ responded'[m]
    <3>1. PICK m \in Conn : challenged[m] = h /\ responded[m]
      BY <2>2 DEF Inv, Responses
    <3>2. challenged'[m] = h /\ responded'[m]
      BY <2>1, <3>1
    <3>3. QED BY <3>2
  <2>3. ASSUME authenticated' \/ \E m \in Conn : at'[Message(m)] = "accept"
        PROVE  \E h \in Conn : handshake'[h] = "authenticated"
    <3>1. \E h \in Conn : handshake[h] = "authenticated"
      BY <1>3, <2>3 DEF Inv, Responses
    <3>2. QED BY <3>1
  <2>4. QED BY <2>2, <2>3 DEF Responses
<1>8. QED BY <1>4, <1>5, <1>6, <1>7 DEF Inv

\* handleDataChannel, from its start to its timer.
LEMMA ChannelStep ==
  ASSUME Inv, NEW n \in Conn, HandleDataChannel(n)
  PROVE  Inv'
<1> USE DEF KeepSession, auth, remote
<1>1. /\ alive \in BOOLEAN /\ peer \in 0..offers /\ handshaker \in 0..offers
      /\ handshake \in [Conn -> {"idle", "challengeSent", "authenticated", "failed"}]
      /\ holds \in [Conn -> 0..offers] /\ challenged \in [Conn -> 0..offers]
      /\ Nil \in 0..offers
  BY DEF Inv, TypeOK, Nil
<1> DEFINE Pl == Places \ {"idle"}
           Pt == Places \ {"accept"}
<1>2. /\ {"start", "make", "wait", "open", "send", "timer"} \subseteq Pl
      /\ {"idle", "make", "wait", "open", "send", "timer", "take"} \subseteq Pt
  BY DEF Places, Cleaning
<1> HIDE DEF Pl, Pt
<1>3. holds' = [holds EXCEPT ![n] = Nil] =>
        holds' \in [Conn -> 0..offers] /\ \A m \in Conn \ {n} : holds'[m] = holds[m]
  BY <1>1
<1>4. CASE PeerIsNil(n) \/ PeerIsThere(n) \/ ResendConfig(n)
  <2>1. PICK from \in Pl, to \in Pt : Goes(Channel(n), from, to) /\ to # "wait"
    BY <1>2, <1>4 DEF PeerIsNil, PeerIsThere, ResendConfig
  <2>2. UNCHANGED <<alive, auth, holds, remote>> /\ KeepSession
    BY <1>4 DEF PeerIsNil, PeerIsThere, ResendConfig
  <2>3. QED BY <1>1, <2>1, <2>2, ChannelGoes DEF Pl, Pt
<1>5. CASE WaitForOpen(n)
  <2>1. n \in 0..offers
    <3>1. n <= offers
      BY <1>5, Tasks DEF WaitForOpen, Goes, Inv, Begun
    <3>2. QED BY <3>1, SessionAssumption DEF Conn, Inv, TypeOK
  <2>2. /\ holds' \in [Conn -> 0..offers] /\ \A m \in Conn \ {n} : holds'[m] = holds[m]
        /\ holds'[n] = peer
    BY <1>1, <1>5 DEF WaitForOpen
  <2>3. PICK to \in Pt : Goes(Channel(n), "make", to) /\ (to = "wait" => peer # Nil)
    BY <1>2, <1>5 DEF WaitForOpen
  <2>4. /\ handshaker' = n /\ alive' \in BOOLEAN /\ UNCHANGED <<handshake, remote>> /\ KeepSession
    BY <1>5 DEF WaitForOpen
  <2>5. QED BY <1>1, <1>2, <2>1, <2>2, <2>3, <2>4, ChannelGoes DEF Pl, Pt
<1>6. CASE Opened(n) \/ OpenTimeout(n) \/ HelloTimer(n)
  <2>1. PICK from \in Pl, to \in Pt : Goes(Channel(n), from, to) /\ to # "wait"
    BY <1>2, <1>6 DEF Opened, OpenTimeout, HelloTimer
  <2>2. /\ holds' = [holds EXCEPT ![n] = Nil]
        /\ UNCHANGED <<alive, auth, remote>> /\ KeepSession
    BY <1>6 DEF Opened, OpenTimeout, HelloTimer
  <2>3. QED BY <1>1, <1>3, <2>1, <2>2, ChannelGoes DEF Pl, Pt
<1>7. CASE CreateChallenge(n)
  <2>1. PICK to \in Pt : Goes(Channel(n), "open", to) /\ to # "wait"
    BY <1>2, <1>7 DEF CreateChallenge
  <2>2. /\ handshake' \in [Conn -> {"idle", "challengeSent", "authenticated", "failed"}]
        /\ \A h \in Conn : handshake[h] = "authenticated" <=> handshake'[h] = "authenticated"
        /\ holds' \in [Conn -> 0..offers] /\ \A m \in Conn \ {n} : holds'[m] = holds[m]
    BY <1>1, <1>7 DEF CreateChallenge
  <2>3. UNCHANGED <<alive, handshaker, remote>> /\ KeepSession
    BY <1>7 DEF CreateChallenge
  <2>4. QED BY <1>1, <1>2, <2>1, <2>2, <2>3, ChannelGoes DEF Pl, Pt
<1>8. CASE SendChallenge(n)
  <2>1. /\ holds' \in [Conn -> 0..offers] /\ \A m \in Conn \ {n} : holds'[m] = holds[m]
        /\ challenged' \in [Conn -> 0..offers]
        /\ \A m \in Conn : challenged[m] # Nil => challenged'[m] = challenged[m]
    BY <1>1, <1>8 DEF SendChallenge, Challenged
  <2>2. UNCHANGED <<alive, auth, responded>> /\ KeepSession /\ Goes(Channel(n), "send", "timer")
    BY <1>8 DEF SendChallenge
  <2>3. "send" \in Pl /\ "timer" \in Pt
    BY <1>2
  <2>4. QED BY <1>1, <2>1, <2>2, <2>3, ChannelGoes DEF Pl, Pt
<1>9. QED BY <1>4, <1>5, <1>6, <1>7, <1>8 DEF HandleDataChannel

-----------------------------------------------------------------------------
\* What a message does to its goroutine, which is no data channel's.
LEMMA MessageGoes ==
  ASSUME Inv, NEW n \in Conn, NEW from \in Places, NEW to \in Places,
         Goes(Message(n), from, to)
  PROVE  /\ at' \in [Task -> Places] /\ at'[Message(n)] = to
         /\ \A m \in Conn : /\ at'[Channel(m)] = at[Channel(m)] /\ at'[<<"failed", m>>] = at[<<"failed", m>>]
                            /\ m # n => at'[Message(m)] = at[Message(m)]
<1>1. Message(n) \in Task
  BY Tasks
<1>2. /\ at' \in [Task -> Places] /\ at'[Message(n)] = to
      /\ \A u \in Task : u # Message(n) => at'[u] = at[u]
  BY <1>1, OneGoes DEF Inv
<1>3. QED BY <1>2, Tasks DEF Channel, Message

\* A message that is no response, and the result of one that was accepted.
LEMMA MessageStep ==
  ASSUME Inv, NEW n \in Conn,
         (\E ok \in BOOLEAN : HandleHello(n, ok)) \/ HandleChallenge(n) \/ Accept(n)
  PROVE  Inv'
<1> DEFINE from == at[Message(n)]
           to == at'[Message(n)]
<1>1. /\ Goes(Message(n), from, to) /\ from \in Places /\ to \in {"idle", "take"}
      /\ authenticated' = authenticated \/ (authenticated' = TRUE /\ from = "accept")
  <2>1. at \in [Task -> Places] /\ Message(n) \in Task
    BY Tasks DEF Inv, TypeOK
  <2>2. QED BY <2>1 DEF HandleHello, HandleChallenge, Accept, Goes, KeepSession, fields
<1>2. /\ UNCHANGED <<alive, peer, handshaker, handshake, conn, dataChanOpen, holds, challenged, responded, offer, offers, received>>
      /\ helloSeen' \in BOOLEAN
  BY DEF HandleHello, HandleChallenge, Accept, KeepSession, fields, auth, remote, signals, Inv, TypeOK
<1> HIDE DEF from, to
<1>3. /\ at' \in [Task -> Places] /\ at'[Message(n)] = to
      /\ \A m \in Conn : /\ at'[Channel(m)] = at[Channel(m)] /\ at'[<<"failed", m>>] = at[<<"failed", m>>]
                         /\ m # n => at'[Message(m)] = at[Message(m)]
  BY <1>1, MessageGoes DEF Places, Cleaning
<1>4. authenticated' \in BOOLEAN
  BY <1>1 DEF Inv, TypeOK
<1>5. TypeOK'
  <2>1. \A m \in Conn : at'[<<"channel", m>>] = "wait" => holds'[m] # Nil
    BY <1>2, <1>3 DEF Inv, TypeOK, Channel
  <2>2. QED BY <1>2, <1>3, <1>4, <2>1 DEF Inv, TypeOK
<1>6. Begun' /\ DeadPeerDropped'
  BY <1>2, <1>3 DEF Inv, Begun, DeadPeerDropped
<1>7. Responses'
  <2>1. authenticated' \/ (\E m \in Conn : at'[Message(m)] = "accept") =>
          authenticated \/ (\E m \in Conn : at[Message(m)] = "accept")
    BY <1>1, <1>3 DEF from
  <2>2. QED BY <1>2, <2>1 DEF Inv, Responses
<1>8. QED BY <1>5, <1>6, <1>7 DEF Inv

\* A response: only the answer to the challenge of the handshaker that verifies
\* it is accepted.
LEMMA ResponseStep ==
  ASSUME Inv, NEW n \in Conn, NEW right \in BOOLEAN, HandleResponse(n, right)
  PROVE  Inv'
<1> DEFINE to == at'[Message(n)]
           accepted == /\ challenged[n] = handshaker
                       /\ handshake[handshaker] = "challengeSent"
                       /\ handshake' = Verdict("authenticated")
<1>1. /\ Goes(Message(n), "idle", to) /\ to \in {"accept", "take"}
      /\ to = "accept" => accepted
      /\ to # "accept" => \/ handshake' = handshake
                          \/ handshake[handshaker] = "challengeSent" /\ handshake' = Verdict("failed")
  <2>1. at \in [Task -> Places] /\ Message(n) \in Task
    BY Tasks DEF Inv, TypeOK
  <2>2. QED BY <2>1 DEF HandleResponse, Goes
<1>2. /\ challenged[n] # Nil /\ responded' = [responded EXCEPT ![n] = TRUE]
      /\ UNCHANGED <<alive, peer, authenticated, helloSeen, handshaker, conn, dataChanOpen, holds, challenged, offer, offers, received>>
  BY DEF HandleResponse, KeepSession, fields, signals
<1> HIDE DEF to, accepted
<1>3. /\ at' \in [Task -> Places] /\ at'[Message(n)] = to
      /\ \A m \in Conn : /\ at'[Channel(m)] = at[Channel(m)] /\ at'[<<"failed", m>>] = at[<<"failed", m>>]
                         /\ m # n => at'[Message(m)] = at[Message(m)]
  BY <1>1, MessageGoes DEF Places, Cleaning
<1>4. /\ handshake' \in [Conn -> {"idle", "challengeSent", "authenticated", "failed"}]
      /\ \A h \in Conn : handshake[h] = "authenticated" => handshake'[h] = "authenticated"
      /\ \A h \in Conn : handshake'[h] = "authenticated" =>
           handshake[h] = "authenticated" \/ (h = challenged[n] /\ accepted)
  BY <1>1 DEF Verdict, Inv, TypeOK, accepted
<1>5. responded' \in [Conn -> BOOLEAN] /\ responded'[n] /\ \A m \in Conn : responded[m] => responded'[m]
  BY <1>2 DEF Inv, TypeOK
<1>6. TypeOK'
  <2>1. \A m \in Conn : at'[<<"channel", m>>] = "wait" => holds'[m] # Nil
    BY <1>2, <1>3 DEF Inv, TypeOK, Channel
  <2>2. QED BY <1>2, <1>3, <1>4, <1>5, <2>1 DEF Inv, TypeOK
<1>7. Begun' /\ DeadPeerDropped'
  BY <1>2, <1>3 DEF Inv, Begun, DeadPeerDropped
<1>8. Responses'
  <2>1. ASSUME NEW h \in Conn, handshake'[h] = "authenticated"
        PROVE  \E m \in Conn : challenged'[m] = h /\ responded'[m]
    <3>1. CASE handshake[h] = "authenticated"
      BY <1>2, <1>5, <3>1 DEF Inv, Responses
    <3>2. CASE h = challenged[n]
      BY <1>2, <1>5, <3>2
    <3>3. QED BY <1>4, <2>1, <3>1, <3>2
  <2>2. ASSUME authenticated' \/ \E m \in Conn : at'[Message(m)] = "accept"
        PROVE  \E h \in Conn : handshake'[h] = "authenticated"
    <3>1. CASE to = "accept"
      <4>1. challenged[n] \in Conn
        BY <1>2, SessionAssumption DEF Inv, TypeOK, Conn, Nil
      <4>2. handshake'[challenged[n]] = "authenticated"
        BY <1>1, <3>1, <4>1 DEF accepted, Verdict, Inv, TypeOK
      <4>3. QED BY <4>1, <4>2
    <3>2. CASE to # "accept"
      <4>1. authenticated \/ \E m \in Conn : at[Message(m)] = "accept"
        BY <1>2, <1>3, <2>2, <3>2
      <4>2. QED BY <1>4, <4>1 DEF Inv, Responses
    <3>3. QED BY <3>1, <3>2
  <2>3. QED BY <2>1, <2>2 DEF Responses
<1>9. QED BY <1>6, <1>7, <1>8 DEF Inv

\* The channel of a connection opens, or the connection fails and is reported.
LEMMA NetworkStep ==
  ASSUME Inv, NEW n \in Conn, ChannelOpens(n) \/ ConnectionFails(n)
  PROVE  Inv'
<1>1. /\ \/ conn' = conn /\ at' = at
         \/ /\ conn' = [conn EXCEPT ![n] = "failed"]
            /\ at' = [at EXCEPT ![<<"failed", n>>] = "take"]
      /\ dataChanOpen' \in [Conn -> BOOLEAN]
      /\ UNCHANGED <<alive, peer, authenticated, helloSeen, handshaker, handshake, holds, challenged, responded, offer, offers, received>>
  BY DEF ChannelOpens, ConnectionFails, fields, auth, remote, signals, Inv, TypeOK
<1>2. /\ at' \in [Task -> Places]
      /\ \A m \in Conn : at'[Channel(m)] = at[Channel(m)] /\ at'[Message(m)] = at[Message(m)]
  BY <1>1, Tasks DEF Inv, TypeOK, Channel, Message, Places, Cleaning
<1>3. TypeOK'
  <2>1. \A m \in Conn : at'[<<"channel", m>>] = "wait" => holds'[m] # Nil
    BY <1>1, <1>2 DEF Inv, TypeOK, Channel
  <2>2. QED BY <1>1, <1>2, <2>1 DEF Inv, TypeOK
<1>4. Begun' /\ Responses'
  BY <1>1, <1>2 DEF Inv, Begun, Responses
<1>5. DeadPeerDropped'
  BY <1>1, Tasks DEF Inv, TypeOK, DeadPeerDropped
<1>6. QED BY <1>3, <1>4, <1>5 DEF Inv

LEMMA InvStep == Inv /\ [Next]_vars => Inv'
<1> SUFFICES ASSUME Inv, [Next]_vars PROVE Inv'
  OBVIOUS
<1>1. CASE UNCHANGED vars
  BY <1>1 DEF Inv, TypeOK, Begun, DeadPeerDropped, Responses, vars, fields, auth, remote, signals
<1>2. ASSUME NEW t \in Task, Steps(t) PROVE Inv'
  <2>1. CASE Cleanup(t)
    BY <2>1, CleanupStep
  <2>2. CASE t[1] = "loop" /\ (NewPeer \/ NewPeerFails \/ Answer \/ AnswerFails)
    BY <2>2, NewPeerStep, SignalStep, AnswerStep
  <2>3. CASE t[1] = "channel" /\ HandleDataChannel(Owner(t))
    BY <2>3, Tasks, ChannelStep
  <2>4. CASE t[1] = "message" /\ Accept(Owner(t))
    BY <2>4, Tasks, MessageStep
  <2>5. QED BY <1>2, <2>1, <2>2, <2>3, <2>4 DEF Steps
<1>3. CASE Disconnect \/ HandleOffer
  BY <1>3, SignalStep
<1>4. ASSUME NEW n \in Conn, HandleMessage(n) \/ ChannelOpens(n) \/ ConnectionFails(n) PROVE Inv'
  BY <1>4, MessageStep, ResponseStep, NetworkStep DEF HandleMessage
<1>5. QED BY <1>1, <1>2, <1>3, <1>4 DEF Next

\* Every variable keeps its type, and a data channel that is waited for is that of
\* a peer (main.go 857-866).
THEOREM SessionTypeCorrect == Spec => []TypeOK
<1>1. Inv => TypeOK
  BY DEF Inv
<1>2. QED BY <1>1, InitInv, InvStep, PTL DEF Spec

\* A failed connection that is still the agent's has the goroutine that will close
\* it on its way (main.go 793-804), however cleanups of older ones interleave.
THEOREM DeadPeersAreDropped == Spec => []DeadPeerDropped
<1>1. Inv => DeadPeerDropped
  BY DEF Inv
<1>2. QED BY <1>1, InitInv, InvStep, PTL DEF Spec

\* An authenticated session rests on an answer (main.go 1008-1019): a controller was given
\* the challenge of one of the agent's handshakers and responded, and that
\* handshaker accepted it, whichever handshaker the agent holds by then.
THEOREM AuthenticatedByResponse ==
  Spec => [](authenticated => \E n \in Conn : responded[n] /\ handshake[challenged[n]] = "authenticated")
<1>1. Inv => (authenticated => \E n \in Conn : responded[n] /\ handshake[challenged[n]] = "authenticated")
  <2> SUFFICES ASSUME Inv, authenticated
               PROVE  \E n \in Conn : responded[n] /\ handshake[challenged[n]] = "authenticated"
    OBVIOUS
  <2>1. PICK h \in Conn : handshake[h] = "authenticated"
    BY DEF Inv, Responses
  <2>2. PICK n \in Conn : challenged[n] = h /\ responded[n]
    BY <2>1 DEF Inv, Responses
  <2>3. QED BY <2>1, <2>2
<1>2. QED BY <1>1, InitInv, InvStep, PTL DEF Spec
=============================================================================
