--------------------------- MODULE WebProxyProofs ---------------------------
(***************************************************************************)
(* Proofs about WebProxy, for any number of sockets and requests, of       *)
(* frames and of chunks.  A socket is followed from the page through the   *)
(* agent's goroutines and back: Life is what its two ends have in common,  *)
(* Queue what the messages on their way to the page say of it.             *)
(***************************************************************************)
EXTENDS WebProxy, SequenceTheorems, TLAPS

\* The messages the agent sends.
PageMessage ==
  {m \in ToPage :
     /\ m[1] \in {"ack", "refused", "data", "close", "error"} => m[2] \in Sockets
     /\ m[1] = "data" => m[3] \in 1..MaxData
     /\ m[1] \in {"chunk", "failure"} => m[2] \in Requests
     /\ m[1] = "chunk" => m[3] \in 0..LastChunk(m[2])}

Is(i, type, id) == i \in 1..Len(toPage) /\ toPage[i][1] = type /\ toPage[i][2] = id

Types ==
  /\ TypeOK
  /\ toPage \in Seq(PageMessage)
  /\ chunks \in [Requests -> SUBSET Nat] /\ next \in [Requests -> Nat]
  /\ peer # "ours" => link = "lost"
  /\ link = "lost" => toPage = <<>> /\ toAgent = {}

Life(s) ==
  /\ <<"open", s, 0>> \in toAgent \/ opener[s] # "none" => page[s] # "none"
  /\ <<"open", s, 0>> \in toAgent => opener[s] = "none"
  /\ opener[s] \in {"none", "dialing"} => conn[s] = "none"
  /\ reader[s] # "none" => opener[s] = "done"
  /\ opener[s] = "done" /\ reader[s] = "none" => conn[s] = "none"
  /\ reader[s] = "none" => read[s] = 0
  /\ s \in wsConns <=> conn[s] = "open"
  /\ reader[s] = "done" => conn[s] # "open"
  /\ page[s] = "gone" => ~connected
  /\ page[s] \in {"none", "connecting"} => ~opened[s]
  /\ Len(got[s]) <= read[s] /\ \A k \in 1..Len(got[s]) : got[s][k] = k
  /\ got[s] # <<>> => opened[s]
  /\ page[s] = "closed" => Len(got[s]) = read[s] /\ reader[s] # "reading" /\ opener[s] = "done"

Queue(s) ==
  /\ \A i \in 1..Len(toPage) : Is(i, "ack", s) => reader[s] # "none"
  /\ \A i \in 1..Len(toPage) : Is(i, "refused", s) => opener[s] = "done" /\ reader[s] = "none"
  /\ \A i \in 1..Len(toPage) : Is(i, "data", s) =>
       /\ reader[s] # "none" /\ toPage[i][3] <= read[s]
       /\ InConnections(s) => Len(got[s]) < toPage[i][3]
       /\ InConnections(s) /\ ~opened[s] => \E j \in 1..Len(toPage) : j < i /\ Is(j, "ack", s)
  /\ \A i \in 1..Len(toPage) : Is(i, "close", s) =>
       /\ reader[s] \in {"ending", "done"}
       /\ \A j \in 1..Len(toPage) : Is(j, "data", s) => j < i
  /\ \A i, j \in 1..Len(toPage) :
       Is(i, "data", s) /\ Is(j, "data", s) /\ i < j => toPage[i][3] < toPage[j][3]
  /\ link = "up" /\ InConnections(s) =>
       \A k \in Len(got[s])+1..read[s] : \E i \in 1..Len(toPage) : Is(i, "data", s) /\ toPage[i][3] = k
  /\ link = "up" /\ InConnections(s) /\ reader[s] # "none" /\ ~opened[s] =>
       \E i \in 1..Len(toPage) : Is(i, "ack", s)
  /\ link = "up" /\ page[s] = "closing" /\ conn[s] = "open" /\ opener[s] = "done" =>
       <<"close", s, 0>> \in toAgent \/ \E i \in 1..Len(toPage) : Is(i, "ack", s)

Answer(q) ==
  /\ <<"http", q, 0>> \in toAgent \/ answer[q] # "none" => req[q] # "none"
  /\ <<"http", q, 0>> \in toAgent => answer[q] = "none"
  /\ answer[q] \in {"none", "fetching"} => next[q] = 0
  /\ req[q] = "resolved" => chunks[q] = 0..LastChunk(q)
  /\ \A i \in 1..Len(toPage) : Is(i, "chunk", q) =>
       /\ answer[q] \in {"sending", "done"} /\ toPage[i][3] <= next[q]
       /\ answer[q] = "sending" => toPage[i][3] < next[q]
  /\ \A i, j \in 1..Len(toPage) :
       Is(i, "chunk", q) /\ Is(j, "chunk", q) /\ i < j => toPage[i][3] < toPage[j][3]
  /\ link = "up" /\ req[q] = "pending" =>
       \A k \in Nat : k < next[q] =>
         k \in chunks[q] \/ \E i \in 1..Len(toPage) : Is(i, "chunk", q) /\ toPage[i][3] = k

ProxyInv ==
  /\ Types
  /\ \A s \in Sockets : Life(s) /\ Queue(s)
  /\ \A q \in Requests : Answer(q)

-----------------------------------------------------------------------------
(* The queue.                                                               *)

LEMMA AppendIs ==
  ASSUME NEW T, NEW q \in Seq(T), NEW m \in T
  PROVE  /\ Append(q, m) \in Seq(T)
         /\ Len(Append(q, m)) = Len(q) + 1 /\ Len(q) \in Nat
         /\ Append(q, m)[Len(q) + 1] = m
         /\ \A k \in 1..Len(q) : Append(q, m)[k] = q[k]
<1>1. /\ Append(q, m) \in Seq(T) /\ Len(Append(q, m)) = Len(q) + 1
      /\ \A k \in 1..Len(q) : Append(q, m)[k] = q[k]
      /\ Append(q, m)[Len(q) + 1] = m
  BY AppendProperties
<1>2. Len(q) \in Nat
  BY LenProperties
<1>3. QED BY <1>1, <1>2

LEMMA TailIs ==
  ASSUME NEW T, NEW q \in Seq(T), q # <<>>
  PROVE  /\ Tail(q) \in Seq(T) /\ Head(q) \in T /\ Head(q) = q[1]
         /\ 1 \in 1..Len(q) /\ Len(q) \in Nat /\ Len(Tail(q)) = Len(q) - 1
         /\ \A k \in 1..Len(Tail(q)) : k + 1 \in 1..Len(q) /\ Tail(q)[k] = q[k + 1]
         /\ \A k \in 1..Len(q) : k # 1 => k - 1 \in 1..Len(Tail(q)) /\ Tail(q)[k - 1] = q[k]
<1>1. /\ Tail(q) \in Seq(T) /\ Head(q) \in T /\ Len(Tail(q)) = Len(q) - 1
      /\ \A k \in 1..Len(Tail(q)) : Tail(q)[k] = q[k + 1]
  BY HeadTailProperties
<1>2. Len(q) \in Nat /\ Len(q) >= 1 /\ Head(q) = q[1]
  BY EmptySeq, LenProperties
<1>3. \A k \in 1..Len(q) : k # 1 => k - 1 \in 1..Len(Tail(q)) /\ Tail(q)[k - 1] = q[k]
  <2> SUFFICES ASSUME NEW k \in 1..Len(q), k # 1
               PROVE  k - 1 \in 1..Len(Tail(q)) /\ Tail(q)[k - 1] = q[k]
    OBVIOUS
  <2>1. k - 1 \in 1..Len(Tail(q)) /\ (k - 1) + 1 = k
    BY <1>1, <1>2
  <2>2. QED BY <1>1, <2>1
<1>4. QED BY <1>1, <1>2, <1>3

LEMMA Wider == ASSUME NEW q \in Seq(PageMessage) PROVE q \in Seq(ToPage)
<1>1. Len(q) \in Nat /\ \A k \in 1..Len(q) : q[k] \in ToPage
  BY LenProperties, ElementOfSeq DEF PageMessage
<1>2. q = [k \in 1..Len(q) |-> q[k]]
  BY SeqDef
<1>3. QED BY <1>1, <1>2, SeqDef

LEMMA LastChunkNat == ASSUME NEW q \in Requests PROVE LastChunk(q) \in Nat
<1>1. Chunks[q] \in Nat
  BY WebProxyAssumption
<1>2. QED BY <1>1 DEF LastChunk, Max2

\* A step adds at most one message to the queue, or takes the first.
Adds(m) == toPage' = Append(toPage, m) /\ m \in PageMessage
Takes == toPage # <<>> /\ toPage' = Tail(toPage)
Loses == toPage' = <<>> /\ link' = "lost"

LEMMA AddedIs ==
  ASSUME Types, NEW m, Adds(m)
  PROVE  /\ Len(toPage) \in Nat /\ Len(toPage') = Len(toPage) + 1 /\ toPage' \in Seq(PageMessage)
         /\ \A i \in 1..Len(toPage) : i \in 1..Len(toPage') /\ toPage'[i] = toPage[i]
         /\ toPage'[Len(toPage')] = m /\ Len(toPage') \in 1..Len(toPage')
         /\ \A i \in 1..Len(toPage') : i \in 1..Len(toPage) \/ i = Len(toPage')
<1>1. toPage \in Seq(PageMessage) /\ m \in PageMessage /\ toPage' = Append(toPage, m)
  BY DEF Types, Adds
<1>2. /\ Append(toPage, m) \in Seq(PageMessage)
      /\ Len(Append(toPage, m)) = Len(toPage) + 1 /\ Len(toPage) \in Nat
      /\ Append(toPage, m)[Len(toPage) + 1] = m
      /\ \A k \in 1..Len(toPage) : Append(toPage, m)[k] = toPage[k]
  BY <1>1, AppendIs
<1>3. QED BY <1>1, <1>2

LEMMA TakenIs ==
  ASSUME Types, Takes
  PROVE  /\ toPage' \in Seq(PageMessage) /\ Head(toPage) \in PageMessage /\ Head(toPage) = toPage[1]
         /\ 1 \in 1..Len(toPage) /\ Len(toPage) \in Nat /\ Len(toPage') = Len(toPage) - 1
         /\ \A k \in 1..Len(toPage') : k + 1 \in 1..Len(toPage) /\ toPage'[k] = toPage[k + 1]
         /\ \A k \in 1..Len(toPage) : k # 1 => k - 1 \in 1..Len(toPage') /\ toPage'[k - 1] = toPage[k]
<1>1. toPage \in Seq(PageMessage) /\ toPage # <<>> /\ toPage' = Tail(toPage)
  BY DEF Types, Takes
<1>2. QED BY <1>1, TailIs

-----------------------------------------------------------------------------
(* A socket, or a request, that a step does not touch.                      *)

SameSocket(s) ==
  /\ page'[s] = page[s] /\ opened'[s] = opened[s] /\ got'[s] = got[s]
  /\ opener'[s] = opener[s] /\ conn'[s] = conn[s] /\ reader'[s] = reader[s] /\ read'[s] = read[s]
  /\ s \in wsConns' <=> s \in wsConns
  /\ connected' => connected
  /\ <<"open", s, 0>> \in toAgent' => <<"open", s, 0>> \in toAgent

\* What concerns a socket is still on its way.
SameWay(s) ==
  /\ link' = "up" => link = "up"
  /\ link' = "up" /\ <<"close", s, 0>> \in toAgent => <<"close", s, 0>> \in toAgent'

ForSocket(m, s) == m[1] \in {"ack", "refused", "data", "close"} /\ m[2] = s

SameRequest(q) ==
  /\ req'[q] = req[q] /\ chunks'[q] = chunks[q] /\ answer'[q] = answer[q] /\ next'[q] = next[q]
  /\ <<"http", q, 0>> \in toAgent' => <<"http", q, 0>> \in toAgent
  /\ link' = "up" => link = "up"

ForRequest(m, q) == m[1] = "chunk" /\ m[2] = q

LEMMA LifeKept == ASSUME NEW s \in Sockets, Life(s), SameSocket(s) PROVE Life(s)'
BY DEF Life, SameSocket

LEMMA QueueLost == ASSUME NEW s \in Sockets, Loses PROVE Queue(s)'
<1>1. 1..Len(toPage') = {} /\ link' # "up"
  BY DEF Loses
<1>2. QED BY <1>1 DEF Queue, Is

LEMMA QueueStays ==
  ASSUME NEW s \in Sockets, Queue(s), SameSocket(s), SameWay(s), toPage' = toPage
  PROVE  Queue(s)'
BY DEF Queue, SameSocket, SameWay, Is, InConnections

LEMMA QueueAdds ==
  ASSUME Types, NEW s \in Sockets, Queue(s), SameSocket(s), SameWay(s), NEW m, Adds(m), ~ForSocket(m, s)
  PROVE  Queue(s)'
<1>1. /\ Len(toPage) \in Nat /\ Len(toPage') = Len(toPage) + 1
      /\ \A i \in 1..Len(toPage) : i \in 1..Len(toPage') /\ toPage'[i] = toPage[i]
      /\ toPage'[Len(toPage')] = m
      /\ \A i \in 1..Len(toPage') : i \in 1..Len(toPage) \/ i = Len(toPage')
  BY AddedIs
<1>2. \A type : \A i \in 1..Len(toPage) : Is(i, type, s) => Is(i, type, s)'
  BY <1>1 DEF Is
<1>3. \A i \in 1..Len(toPage'), type \in {"ack", "refused", "data", "close"} :
        Is(i, type, s)' => Is(i, type, s) /\ toPage'[i] = toPage[i] /\ i \in 1..Len(toPage)
  BY <1>1 DEF Is, ForSocket
<1>4. \A i \in 1..Len(toPage') : Is(i, "ack", s)' => reader'[s] # "none"
  BY <1>3 DEF Queue, SameSocket
<1>5. \A i \in 1..Len(toPage') : Is(i, "refused", s)' => opener'[s] = "done" /\ reader'[s] = "none"
  BY <1>3 DEF Queue, SameSocket
<1>6. \A i \in 1..Len(toPage') : Is(i, "data", s)' =>
       /\ reader'[s] # "none" /\ toPage'[i][3] <= read'[s]
       /\ InConnections(s)' => Len(got'[s]) < toPage'[i][3]
       /\ InConnections(s)' /\ ~opened'[s] => \E j \in 1..Len(toPage') : j < i /\ Is(j, "ack", s)'
  <2> SUFFICES ASSUME NEW i \in 1..Len(toPage'), Is(i, "data", s)'
               PROVE  /\ reader'[s] # "none" /\ toPage'[i][3] <= read'[s]
                      /\ InConnections(s)' => Len(got'[s]) < toPage'[i][3]
                      /\ InConnections(s)' /\ ~opened'[s] =>
                           \E j \in 1..Len(toPage') : j < i /\ Is(j, "ack", s)'
    OBVIOUS
  <2>1. Is(i, "data", s) /\ toPage'[i] = toPage[i] /\ i \in 1..Len(toPage)
    BY <1>3
  <2>2. InConnections(s) /\ ~opened[s] => \E j \in 1..Len(toPage) : j < i /\ Is(j, "ack", s)
    BY <2>1 DEF Queue
  <2>3. QED BY <1>1, <1>2, <2>1, <2>2 DEF Queue, SameSocket, InConnections
<1>7. \A i \in 1..Len(toPage') : Is(i, "close", s)' =>
       /\ reader'[s] \in {"ending", "done"}
       /\ \A j \in 1..Len(toPage') : Is(j, "data", s)' => j < i
  BY <1>3 DEF Queue, SameSocket
<1>8. \A i, j \in 1..Len(toPage') :
       Is(i, "data", s)' /\ Is(j, "data", s)' /\ i < j => toPage'[i][3] < toPage'[j][3]
  BY <1>3 DEF Queue
<1>9. link' = "up" /\ InConnections(s)' =>
       \A k \in Len(got'[s])+1..read'[s] : \E i \in 1..Len(toPage') : Is(i, "data", s)' /\ toPage'[i][3] = k
  <2> SUFFICES ASSUME link' = "up", InConnections(s)', NEW k \in Len(got[s])+1..read[s]
               PROVE  \E i \in 1..Len(toPage') : Is(i, "data", s)' /\ toPage'[i][3] = k
    BY DEF SameSocket
  <2>1. PICK i \in 1..Len(toPage) : Is(i, "data", s) /\ toPage[i][3] = k
    BY DEF Queue, SameSocket, SameWay, InConnections
  <2>2. QED BY <1>1, <1>2, <2>1
<1>10. (\E i \in 1..Len(toPage) : Is(i, "ack", s)) => \E i \in 1..Len(toPage') : Is(i, "ack", s)'
  BY <1>1, <1>2
<1>11. /\ link' = "up" /\ InConnections(s)' /\ reader'[s] # "none" /\ ~opened'[s] =>
            \E i \in 1..Len(toPage') : Is(i, "ack", s)'
       /\ link' = "up" /\ page'[s] = "closing" /\ conn'[s] = "open" /\ opener'[s] = "done" =>
            <<"close", s, 0>> \in toAgent' \/ \E i \in 1..Len(toPage') : Is(i, "ack", s)'
  BY <1>10 DEF Queue, SameSocket, SameWay, InConnections
<1> HIDE DEF Is, InConnections
<1>12. QED BY <1>4, <1>5, <1>6, <1>7, <1>8, <1>9, <1>11 DEF Queue

LEMMA QueueTakes ==
  ASSUME Types, NEW s \in Sockets, Queue(s), SameSocket(s), SameWay(s), Takes, ~ForSocket(Head(toPage), s)
  PROVE  Queue(s)'
<1>1. /\ Head(toPage) = toPage[1] /\ Len(toPage) \in Nat /\ Len(toPage') = Len(toPage) - 1
      /\ \A k \in 1..Len(toPage') : k + 1 \in 1..Len(toPage) /\ toPage'[k] = toPage[k + 1]
      /\ \A k \in 1..Len(toPage) : k # 1 => k - 1 \in 1..Len(toPage') /\ toPage'[k - 1] = toPage[k]
  BY TakenIs
<1>2. \A type : \A i \in 1..Len(toPage') :
        Is(i, type, s)' => Is(i + 1, type, s) /\ toPage'[i] = toPage[i + 1] /\ i + 1 \in 1..Len(toPage)
  BY <1>1 DEF Is
<1>3. \A i \in 1..Len(toPage), type \in {"ack", "refused", "data", "close"} :
        Is(i, type, s) => /\ i # 1 /\ i - 1 \in 1..Len(toPage') /\ Is(i - 1, type, s)'
                          /\ toPage'[i - 1] = toPage[i]
  BY <1>1 DEF Is, ForSocket
<1>4. \A i \in 1..Len(toPage') : Is(i, "ack", s)' => reader'[s] # "none"
  BY <1>2 DEF Queue, SameSocket
<1>5. \A i \in 1..Len(toPage') : Is(i, "refused", s)' => opener'[s] = "done" /\ reader'[s] = "none"
  BY <1>2 DEF Queue, SameSocket
<1>6. \A i \in 1..Len(toPage') : Is(i, "data", s)' =>
       /\ reader'[s] # "none" /\ toPage'[i][3] <= read'[s]
       /\ InConnections(s)' => Len(got'[s]) < toPage'[i][3]
       /\ InConnections(s)' /\ ~opened'[s] => \E j \in 1..Len(toPage') : j < i /\ Is(j, "ack", s)'
  <2> SUFFICES ASSUME NEW i \in 1..Len(toPage'), Is(i, "data", s)'
               PROVE  /\ reader'[s] # "none" /\ toPage'[i][3] <= read'[s]
                      /\ InConnections(s)' => Len(got'[s]) < toPage'[i][3]
                      /\ InConnections(s)' /\ ~opened'[s] =>
                           \E j \in 1..Len(toPage') : j < i /\ Is(j, "ack", s)'
    OBVIOUS
  <2>1. Is(i + 1, "data", s) /\ toPage'[i] = toPage[i + 1] /\ i + 1 \in 1..Len(toPage)
    BY <1>2
  <2>2. ASSUME InConnections(s), ~opened[s] PROVE \E j \in 1..Len(toPage') : j < i /\ Is(j, "ack", s)'
    <3>1. PICK j \in 1..Len(toPage) : j < i + 1 /\ Is(j, "ack", s)
      BY <2>1, <2>2 DEF Queue
    <3>2. j - 1 \in 1..Len(toPage') /\ Is(j - 1, "ack", s)' /\ j - 1 < i
      BY <1>1, <1>3, <3>1
    <3>3. QED BY <3>2
  <2>3. InConnections(s)' <=> InConnections(s)
    BY DEF SameSocket, InConnections
  <2>4. QED BY <2>1, <2>2, <2>3 DEF Queue, SameSocket
<1>7. \A i \in 1..Len(toPage') : Is(i, "close", s)' =>
       /\ reader'[s] \in {"ending", "done"}
       /\ \A j \in 1..Len(toPage') : Is(j, "data", s)' => j < i
  <2> SUFFICES ASSUME NEW i \in 1..Len(toPage'), Is(i, "close", s)'
               PROVE  /\ reader'[s] \in {"ending", "done"}
                      /\ \A j \in 1..Len(toPage') : Is(j, "data", s)' => j < i
    OBVIOUS
  <2>1. Is(i + 1, "close", s) /\ i + 1 \in 1..Len(toPage)
    BY <1>2
  <2>2. \A j \in 1..Len(toPage') : Is(j, "data", s)' => j + 1 < i + 1
    BY <1>2, <2>1 DEF Queue
  <2>3. QED BY <2>1, <2>2 DEF Queue, SameSocket
<1>8. \A i, j \in 1..Len(toPage') :
       Is(i, "data", s)' /\ Is(j, "data", s)' /\ i < j => toPage'[i][3] < toPage'[j][3]
  <2> SUFFICES ASSUME NEW i \in 1..Len(toPage'), NEW j \in 1..Len(toPage'),
                      Is(i, "data", s)', Is(j, "data", s)', i < j
               PROVE  toPage'[i][3] < toPage'[j][3]
    OBVIOUS
  <2>1. /\ Is(i + 1, "data", s) /\ toPage'[i] = toPage[i + 1] /\ i + 1 \in 1..Len(toPage)
        /\ Is(j + 1, "data", s) /\ toPage'[j] = toPage[j + 1] /\ j + 1 \in 1..Len(toPage)
        /\ i + 1 < j + 1
    BY <1>1, <1>2
  <2>2. QED BY <2>1 DEF Queue
<1>9. link' = "up" /\ InConnections(s)' =>
       \A k \in Len(got'[s])+1..read'[s] : \E i \in 1..Len(toPage') : Is(i, "data", s)' /\ toPage'[i][3] = k
  <2> SUFFICES ASSUME link' = "up", InConnections(s)', NEW k \in Len(got[s])+1..read[s]
               PROVE  \E i \in 1..Len(toPage') : Is(i, "data", s)' /\ toPage'[i][3] = k
    BY DEF SameSocket
  <2>1. PICK i \in 1..Len(toPage) : Is(i, "data", s) /\ toPage[i][3] = k
    BY DEF Queue, SameSocket, SameWay, InConnections
  <2>2. i - 1 \in 1..Len(toPage') /\ Is(i - 1, "data", s)' /\ toPage'[i - 1][3] = k
    BY <1>3, <2>1
  <2>3. QED BY <2>2
<1>10. (\E i \in 1..Len(toPage) : Is(i, "ack", s)) => \E i \in 1..Len(toPage') : Is(i, "ack", s)'
  BY <1>3
<1>11. /\ link' = "up" /\ InConnections(s)' /\ reader'[s] # "none" /\ ~opened'[s] =>
            \E i \in 1..Len(toPage') : Is(i, "ack", s)'
       /\ link' = "up" /\ page'[s] = "closing" /\ conn'[s] = "open" /\ opener'[s] = "done" =>
            <<"close", s, 0>> \in toAgent' \/ \E i \in 1..Len(toPage') : Is(i, "ack", s)'
  BY <1>10 DEF Queue, SameSocket, SameWay, InConnections
<1> HIDE DEF Is, InConnections
<1>12. QED BY <1>4, <1>5, <1>6, <1>7, <1>8, <1>9, <1>11 DEF Queue

\* What a step may do to the queue as far as a socket, or a request, is concerned.
OtherSocketQueue(s) ==
  \/ toPage' = toPage \/ Loses
  \/ Takes /\ ~ForSocket(Head(toPage), s)
  \/ \E m : Adds(m) /\ ~ForSocket(m, s)

LEMMA SocketKept ==
  ASSUME Types, NEW s \in Sockets, Life(s), Queue(s), SameSocket(s), SameWay(s), OtherSocketQueue(s)
  PROVE  Life(s)' /\ Queue(s)'
BY LifeKept, QueueLost, QueueStays, QueueAdds, QueueTakes DEF OtherSocketQueue

LEMMA AnswerLost == ASSUME NEW q \in Requests, Answer(q), SameRequest(q), Loses PROVE Answer(q)'
<1>1. 1..Len(toPage') = {} /\ link' # "up"
  BY DEF Loses
<1>2. QED BY <1>1 DEF Answer, SameRequest, Is

LEMMA AnswerStays ==
  ASSUME NEW q \in Requests, Answer(q), SameRequest(q), toPage' = toPage
  PROVE  Answer(q)'
BY DEF Answer, SameRequest, Is

LEMMA AnswerAdds ==
  ASSUME Types, NEW q \in Requests, Answer(q), SameRequest(q), NEW m, Adds(m), ~ForRequest(m, q)
  PROVE  Answer(q)'
<1>1. /\ Len(toPage) \in Nat /\ Len(toPage') = Len(toPage) + 1
      /\ \A i \in 1..Len(toPage) : i \in 1..Len(toPage') /\ toPage'[i] = toPage[i]
      /\ toPage'[Len(toPage')] = m
      /\ \A i \in 1..Len(toPage') : i \in 1..Len(toPage) \/ i = Len(toPage')
  BY AddedIs
<1>2. \A i \in 1..Len(toPage) : Is(i, "chunk", q) => Is(i, "chunk", q)' /\ toPage'[i] = toPage[i]
  BY <1>1 DEF Is
<1>3. \A i \in 1..Len(toPage') :
        Is(i, "chunk", q)' => Is(i, "chunk", q) /\ toPage'[i] = toPage[i] /\ i \in 1..Len(toPage)
  BY <1>1 DEF Is, ForRequest
<1>4. \A i \in 1..Len(toPage') : Is(i, "chunk", q)' =>
       /\ answer'[q] \in {"sending", "done"} /\ toPage'[i][3] <= next'[q]
       /\ answer'[q] = "sending" => toPage'[i][3] < next'[q]
  BY <1>3 DEF Answer, SameRequest
<1>5. \A i, j \in 1..Len(toPage') :
       Is(i, "chunk", q)' /\ Is(j, "chunk", q)' /\ i < j => toPage'[i][3] < toPage'[j][3]
  BY <1>3 DEF Answer
<1>6. link' = "up" /\ req'[q] = "pending" =>
       \A k \in Nat : k < next'[q] =>
         k \in chunks'[q] \/ \E i \in 1..Len(toPage') : Is(i, "chunk", q)' /\ toPage'[i][3] = k
  <2> SUFFICES ASSUME link' = "up", req'[q] = "pending", NEW k \in Nat, k < next'[q], k \notin chunks'[q]
               PROVE  \E i \in 1..Len(toPage') : Is(i, "chunk", q)' /\ toPage'[i][3] = k
    OBVIOUS
  <2>1. PICK i \in 1..Len(toPage) : Is(i, "chunk", q) /\ toPage[i][3] = k
    BY DEF Answer, SameRequest
  <2>2. QED BY <1>1, <1>2, <2>1
<1>7. QED BY <1>4, <1>5, <1>6 DEF Answer, SameRequest

LEMMA AnswerTakes ==
  ASSUME Types, NEW q \in Requests, Answer(q), SameRequest(q), Takes, ~ForRequest(Head(toPage), q)
  PROVE  Answer(q)'
<1>1. /\ Head(toPage) = toPage[1] /\ Len(toPage) \in Nat /\ Len(toPage') = Len(toPage) - 1
      /\ \A k \in 1..Len(toPage') : k + 1 \in 1..Len(toPage) /\ toPage'[k] = toPage[k + 1]
      /\ \A k \in 1..Len(toPage) : k # 1 => k - 1 \in 1..Len(toPage') /\ toPage'[k - 1] = toPage[k]
  BY TakenIs
<1>2. \A i \in 1..Len(toPage') :
        Is(i, "chunk", q)' => Is(i + 1, "chunk", q) /\ toPage'[i] = toPage[i + 1] /\ i + 1 \in 1..Len(toPage)
  BY <1>1 DEF Is
<1>3. \A i \in 1..Len(toPage) :
        Is(i, "chunk", q) => /\ i # 1 /\ i - 1 \in 1..Len(toPage') /\ Is(i - 1, "chunk", q)'
                             /\ toPage'[i - 1] = toPage[i]
  BY <1>1 DEF Is, ForRequest
<1>4. \A i \in 1..Len(toPage') : Is(i, "chunk", q)' =>
       /\ answer'[q] \in {"sending", "done"} /\ toPage'[i][3] <= next'[q]
       /\ answer'[q] = "sending" => toPage'[i][3] < next'[q]
  BY <1>2 DEF Answer, SameRequest
<1>5. \A i, j \in 1..Len(toPage') :
       Is(i, "chunk", q)' /\ Is(j, "chunk", q)' /\ i < j => toPage'[i][3] < toPage'[j][3]
  <2> SUFFICES ASSUME NEW i \in 1..Len(toPage'), NEW j \in 1..Len(toPage'),
                      Is(i, "chunk", q)', Is(j, "chunk", q)', i < j
               PROVE  toPage'[i][3] < toPage'[j][3]
    OBVIOUS
  <2>1. /\ Is(i + 1, "chunk", q) /\ toPage'[i] = toPage[i + 1] /\ i + 1 \in 1..Len(toPage)
        /\ Is(j + 1, "chunk", q) /\ toPage'[j] = toPage[j + 1] /\ j + 1 \in 1..Len(toPage)
        /\ i + 1 < j + 1
    BY <1>1, <1>2
  <2>2. QED BY <2>1 DEF Answer
<1>6. link' = "up" /\ req'[q] = "pending" =>
       \A k \in Nat : k < next'[q] =>
         k \in chunks'[q] \/ \E i \in 1..Len(toPage') : Is(i, "chunk", q)' /\ toPage'[i][3] = k
  <2> SUFFICES ASSUME link' = "up", req'[q] = "pending", NEW k \in Nat, k < next'[q], k \notin chunks'[q]
               PROVE  \E i \in 1..Len(toPage') : Is(i, "chunk", q)' /\ toPage'[i][3] = k
    OBVIOUS
  <2>1. PICK i \in 1..Len(toPage) : Is(i, "chunk", q) /\ toPage[i][3] = k
    BY DEF Answer, SameRequest
  <2>2. i - 1 \in 1..Len(toPage') /\ Is(i - 1, "chunk", q)' /\ toPage'[i - 1][3] = k
    BY <1>3, <2>1
  <2>3. QED BY <2>2
<1>7. QED BY <1>4, <1>5, <1>6 DEF Answer, SameRequest

OtherRequestQueue(q) ==
  \/ toPage' = toPage \/ Loses
  \/ Takes /\ ~ForRequest(Head(toPage), q)
  \/ \E m : Adds(m) /\ ~ForRequest(m, q)

LEMMA RequestKept ==
  ASSUME Types, NEW q \in Requests, Answer(q), SameRequest(q), OtherRequestQueue(q)
  PROVE  Answer(q)'
BY AnswerLost, AnswerStays, AnswerAdds, AnswerTakes DEF OtherRequestQueue

-----------------------------------------------------------------------------
(* Sending and receiving.                                                   *)

LEMMA SendIs ==
  ASSUME Types, NEW type, NEW id, NEW n, Send(type, id, n), <<type, id, n>> \in PageMessage,
         link' = link, peer' = peer
  PROVE  /\ link = "up" => Adds(<<type, id, n>>)
         /\ link # "up" => toPage' = <<>> /\ toPage = <<>>
         /\ toPage' = toPage \/ Adds(<<type, id, n>>)
         /\ toPage' \in Seq(PageMessage)
<1>1. peer # "ours" => link = "lost"
  BY DEF Types
<1>2. link = "lost" => toPage = <<>>
  BY DEF Types
<1>3. link \in {"up", "lost"} /\ toPage \in Seq(PageMessage)
  BY DEF Types, TypeOK
<1>4. toPage' = IF peer = "ours" /\ link = "up" THEN Append(toPage, <<type, id, n>>) ELSE toPage
  BY DEF Send
<1>5. Adds(<<type, id, n>>) => toPage' \in Seq(PageMessage)
  BY AddedIs
<1>6. QED BY <1>1, <1>2, <1>3, <1>4, <1>5 DEF Adds

LEMMA PostIs ==
  ASSUME Types, NEW ms, Post(ms)
  PROVE  /\ toAgent \subseteq toAgent' /\ toAgent' \subseteq toAgent \cup ms
         /\ link = "up" => ms \subseteq toAgent'
         /\ link # "up" => toAgent' = {}
BY DEF Types, Post, TypeOK

LEMMA ArrivesIs ==
  ASSUME Types, NEW type, Arrives(type)
  PROVE  /\ Takes /\ toPage' \in Seq(PageMessage) /\ Head(toPage)[1] = type /\ link = "up"
         /\ Head(toPage) = toPage[1] /\ 1 \in 1..Len(toPage)
         /\ type \in {"ack", "refused", "data", "close", "error"} => At \in Sockets
         /\ type = "data" => Num \in 1..MaxData
         /\ type \in {"chunk", "failure"} => At \in Requests
         /\ type = "chunk" => Num \in 0..LastChunk(At)
<1>1. Takes /\ Head(toPage)[1] = type
  BY DEF Arrives, Takes
<1>2. Head(toPage) \in PageMessage /\ toPage' \in Seq(PageMessage) /\ Head(toPage) = toPage[1] /\ 1 \in 1..Len(toPage)
  BY <1>1, TakenIs
<1>3. link = "up"
  BY <1>1 DEF Types, TypeOK, Takes
<1>4. QED BY <1>1, <1>2, <1>3 DEF PageMessage, At, Num

-----------------------------------------------------------------------------
(* The steps of the page.                                                   *)

SocketOther(s) == SameSocket(s) /\ SameWay(s) /\ OtherSocketQueue(s)
RequestOther(q) == SameRequest(q) /\ OtherRequestQueue(q)

LEMMA Kept ==
  ASSUME ProxyInv, Types',
         \A s \in Sockets : SocketOther(s) \/ (Life(s)' /\ Queue(s)'),
         \A q \in Requests : RequestOther(q) \/ Answer(q)'
  PROVE  ProxyInv'
BY SocketKept, RequestKept DEF ProxyInv, SocketOther, RequestOther

LEMMA OpenSocketKeeps == ASSUME ProxyInv, NEW s \in Sockets, OpenSocket(s) PROVE ProxyInv'
<1>1. Types /\ Life(s) /\ Queue(s)
  BY DEF ProxyInv
<1>2. /\ toAgent \subseteq toAgent' /\ toAgent' \subseteq toAgent \cup {<<"open", s, 0>>}
      /\ link # "up" => toAgent' = {}
  BY <1>1, PostIs DEF OpenSocket
<1>3. /\ connected /\ page[s] = "none" /\ page' = [page EXCEPT ![s] = "connecting"]
      /\ connected' = connected /\ frames' = frames /\ opened' = opened /\ got' = got /\ told' = told
      /\ UNCHANGED pageRequests /\ UNCHANGED agentSockets /\ UNCHANGED agentRequests
      /\ UNCHANGED session /\ toPage' = toPage /\ link' = link
  BY DEF OpenSocket
<1>4. Types'
  <2>1. <<"open", s, 0>> \in ToAgent
    BY WebProxyAssumption DEF ToAgent, Id
  <2>2. QED BY <1>1, <1>2, <1>3, <2>1 DEF Types, TypeOK, pageRequests, agentSockets, agentRequests, session
<1>5. ASSUME NEW z \in Sockets, z # s PROVE SocketOther(z)
  BY <1>1, <1>2, <1>3, <1>5 DEF SocketOther, SameSocket, SameWay, OtherSocketQueue, agentSockets, Types, TypeOK
<1>6. /\ page'[s] = "connecting" /\ opener[s] = "none" /\ reader[s] = "none" /\ read[s] = 0 /\ conn[s] = "none"
      /\ got[s] = <<>> /\ Len(got[s]) = 0 /\ ~opened[s]
  <2>1. got[s] \in Seq(1..MaxData) /\ page'[s] = "connecting"
    BY <1>1, <1>3 DEF Types, TypeOK
  <2>2. Len(got[s]) \in Nat /\ (Len(got[s]) = 0 => got[s] = <<>>)
    BY <2>1, LenProperties, EmptySeq
  <2>3. QED BY <1>1, <1>3, <2>1, <2>2 DEF Life
<1>7. Life(s)'
  BY <1>1, <1>3, <1>6 DEF Life, agentSockets
<1>8. Queue(s)'
  BY <1>1, <1>3, <1>6 DEF Queue, Is, InConnections, agentSockets
<1>9. ASSUME NEW q \in Requests PROVE RequestOther(q)
  BY <1>2, <1>3 DEF RequestOther, SameRequest, OtherRequestQueue, pageRequests, agentRequests
<1>10. QED BY <1>4, <1>5, <1>7, <1>8, <1>9, Kept

LEMMA SendFrameKeeps == ASSUME ProxyInv, NEW s \in Sockets, SendFrame(s) PROVE ProxyInv'
<1> DEFINE m == <<"data", s, frames[s] + 1>>
<1>1. Types
  BY DEF ProxyInv
<1>2. /\ toAgent \subseteq toAgent' /\ toAgent' \subseteq toAgent \cup {m}
      /\ link # "up" => toAgent' = {}
  BY <1>1, PostIs DEF SendFrame
<1>3. /\ frames[s] < MaxFrames /\ frames' = [frames EXCEPT ![s] = @ + 1]
      /\ connected' = connected /\ page' = page /\ opened' = opened /\ got' = got /\ told' = told
      /\ UNCHANGED pageRequests /\ UNCHANGED agentSockets /\ UNCHANGED agentRequests
      /\ UNCHANGED session /\ toPage' = toPage /\ link' = link
  BY DEF SendFrame
<1>4. Types'
  <2>1. m \in ToAgent /\ frames' \in [Sockets -> 0..MaxFrames]
    BY <1>1, <1>3, WebProxyAssumption DEF ToAgent, Id, Types, TypeOK
  <2>2. QED BY <1>1, <1>2, <1>3, <2>1 DEF Types, TypeOK, pageRequests, agentSockets, agentRequests, session
<1>5. ASSUME NEW z \in Sockets PROVE SocketOther(z)
  BY <1>1, <1>2, <1>3, <1>5 DEF SocketOther, SameSocket, SameWay, OtherSocketQueue, agentSockets, Types, TypeOK
<1>6. ASSUME NEW q \in Requests PROVE RequestOther(q)
  BY <1>2, <1>3 DEF RequestOther, SameRequest, OtherRequestQueue, pageRequests, agentRequests
<1>7. QED BY <1>4, <1>5, <1>6, Kept

LEMMA CloseSocketKeeps == ASSUME ProxyInv, NEW s \in Sockets, CloseSocket(s) PROVE ProxyInv'
<1>1. Types /\ Life(s) /\ Queue(s)
  BY DEF ProxyInv
<1>2. /\ toAgent \subseteq toAgent' /\ toAgent' \subseteq toAgent \cup {<<"close", s, 0>>}
      /\ link = "up" => <<"close", s, 0>> \in toAgent'
      /\ link # "up" => toAgent' = {}
  BY <1>1, PostIs DEF CloseSocket
<1>3. /\ connected /\ InConnections(s) /\ page' = [page EXCEPT ![s] = "closing"]
      /\ connected' = connected /\ frames' = frames /\ opened' = opened /\ got' = got /\ told' = told
      /\ UNCHANGED pageRequests /\ UNCHANGED agentSockets /\ UNCHANGED agentRequests
      /\ UNCHANGED session /\ toPage' = toPage /\ link' = link
  BY DEF CloseSocket
<1>4. Types'
  <2>1. <<"close", s, 0>> \in ToAgent
    BY WebProxyAssumption DEF ToAgent, Id
  <2>2. QED BY <1>1, <1>2, <1>3, <2>1 DEF Types, TypeOK, pageRequests, agentSockets, agentRequests, session
<1>5. ASSUME NEW z \in Sockets, z # s PROVE SocketOther(z)
  BY <1>1, <1>2, <1>3, <1>5 DEF SocketOther, SameSocket, SameWay, OtherSocketQueue, agentSockets, Types, TypeOK
<1>6. page'[s] = "closing"
  BY <1>1, <1>3 DEF Types, TypeOK
<1>7. Life(s)'
  BY <1>1, <1>2, <1>3, <1>6 DEF Life, agentSockets, InConnections
<1>8. Queue(s)'
  <2>1. InConnections(s) /\ InConnections(s)'
    BY <1>3, <1>6 DEF InConnections
  <2>2. QED BY <1>1, <1>2, <1>3, <1>6, <2>1 DEF Queue, Is, agentSockets, Types, TypeOK
<1>9. ASSUME NEW q \in Requests PROVE RequestOther(q)
  BY <1>2, <1>3 DEF RequestOther, SameRequest, OtherRequestQueue, pageRequests, agentRequests
<1>10. QED BY <1>4, <1>5, <1>7, <1>8, <1>9, Kept

LEMMA FetchKeeps == ASSUME ProxyInv, NEW q \in Requests, FetchDc(q) \/ FetchTimesOut(q) PROVE ProxyInv'
<1>1. Types /\ Answer(q)
  BY DEF ProxyInv
<1>2. /\ toAgent \subseteq toAgent' /\ toAgent' \subseteq toAgent \cup {<<"http", q, 0>>}
      /\ link # "up" => toAgent' = {}
      /\ FetchTimesOut(q) => toAgent' = toAgent
  BY <1>1, PostIs DEF FetchDc, FetchTimesOut, Types, TypeOK
<1>3. /\ \/ req[q] = "none" /\ req' = [req EXCEPT ![q] = "pending"]
         \/ req[q] = "pending" /\ req' = [req EXCEPT ![q] = "rejected"] /\ toAgent' = toAgent
      /\ connected' = connected /\ UNCHANGED pageSockets /\ chunks' = chunks
      /\ UNCHANGED agentSockets /\ UNCHANGED agentRequests
      /\ UNCHANGED session /\ toPage' = toPage /\ link' = link
  BY DEF FetchDc, FetchTimesOut
<1>4. Types'
  <2>1. <<"http", q, 0>> \in ToAgent
    BY WebProxyAssumption DEF ToAgent, Id
  <2>2. req' \in [Requests -> {"none", "pending", "resolved", "failed", "rejected", "dropped"}]
    <3>1. req \in [Requests -> {"none", "pending", "resolved", "failed", "rejected", "dropped"}]
      BY <1>1 DEF Types, TypeOK
    <3>2. QED BY <1>3, <3>1
  <2>3. QED BY <1>1, <1>2, <1>3, <2>1, <2>2 DEF Types, TypeOK, pageSockets, agentSockets, agentRequests, session
<1>5. ASSUME NEW z \in Sockets PROVE SocketOther(z)
  BY <1>1, <1>2, <1>3, <1>5 DEF SocketOther, SameSocket, SameWay, OtherSocketQueue, pageSockets, agentSockets, Types, TypeOK
<1>6. ASSUME NEW p \in Requests, p # q PROVE RequestOther(p)
  BY <1>1, <1>2, <1>3, <1>6 DEF RequestOther, SameRequest, OtherRequestQueue, agentRequests, Types, TypeOK
<1>7. Answer(q)'
  <2>1. CASE req[q] = "none" /\ req' = [req EXCEPT ![q] = "pending"]
    <3>1. req'[q] = "pending" /\ answer[q] = "none" /\ next[q] = 0
      BY <1>1, <2>1 DEF Types, TypeOK, Answer
    <3>2. QED BY <1>1, <1>3, <3>1 DEF Answer, Is, agentRequests
  <2>2. CASE req[q] = "pending" /\ req' = [req EXCEPT ![q] = "rejected"] /\ toAgent' = toAgent
    <3>1. req'[q] = "rejected"
      BY <1>1, <2>2 DEF Types, TypeOK
    <3>2. QED BY <1>1, <1>3, <2>2, <3>1 DEF Answer, Is, agentRequests
  <2>3. QED BY <1>3, <2>1, <2>2
<1>8. QED BY <1>4, <1>5, <1>6, <1>7, Kept

LEMMA DisconnectKeeps == ASSUME ProxyInv, Disconnect PROVE ProxyInv'
<1> DEFINE ms == {<<"close", s, 0>> : s \in {t \in Sockets : InConnections(t)}}
<1>1. Types
  BY DEF ProxyInv
<1>2. toAgent \subseteq toAgent' /\ toAgent' \subseteq toAgent \cup ms /\ (link # "up" => toAgent' = {})
  BY <1>1, PostIs DEF Disconnect
<1>3. /\ connected' = FALSE
      /\ page' = [s \in Sockets |-> IF InConnections(s) THEN "gone" ELSE page[s]]
      /\ req' = [q \in Requests |-> IF req[q] = "pending" THEN "dropped" ELSE req[q]]
      /\ frames' = frames /\ opened' = opened /\ got' = got /\ told' = told /\ chunks' = chunks
      /\ UNCHANGED agentSockets /\ UNCHANGED agentRequests
      /\ UNCHANGED session /\ toPage' = toPage /\ link' = link
  BY DEF Disconnect
<1>4. ms \subseteq ToAgent
  BY WebProxyAssumption DEF ToAgent, Id
<1>5. \A m \in ms : m[1] = "close"
  OBVIOUS
<1> HIDE DEF ms
<1>6. Types'
  <2>1. /\ page' \in [Sockets -> {"none", "connecting", "open", "closing", "closed", "gone"}]
        /\ req' \in [Requests -> {"none", "pending", "resolved", "failed", "rejected", "dropped"}]
    BY <1>1, <1>3 DEF Types, TypeOK
  <2>2. QED BY <1>1, <1>2, <1>3, <1>4, <2>1 DEF Types, TypeOK, agentSockets, agentRequests, session
<1>7. ASSUME NEW s \in Sockets PROVE Life(s)' /\ Queue(s)'
  <2>1. Life(s) /\ Queue(s) /\ page'[s] = IF InConnections(s) THEN "gone" ELSE page[s]
    BY <1>3 DEF ProxyInv
  <2>2. <<"open", s, 0>> \in toAgent' => <<"open", s, 0>> \in toAgent
    BY <1>2, <1>5
  <2>3. ~InConnections(s)' /\ page'[s] # "closing"
    BY <2>1 DEF InConnections
  <2>4. Life(s)'
    BY <1>3, <2>1, <2>2 DEF Life, agentSockets, InConnections
  <2>5. Queue(s)'
    BY <1>3, <2>1, <2>3 DEF Queue, agentSockets, Is
  <2>6. QED BY <2>4, <2>5
<1>8. ASSUME NEW q \in Requests PROVE Answer(q)'
  <2>1. Answer(q) /\ req'[q] = IF req[q] = "pending" THEN "dropped" ELSE req[q]
    BY <1>3 DEF ProxyInv
  <2>2. <<"http", q, 0>> \in toAgent' => <<"http", q, 0>> \in toAgent
    BY <1>2, <1>5
  <2>3. QED BY <1>3, <2>1, <2>2 DEF Answer, Is, agentRequests
<1>9. QED BY <1>6, <1>7, <1>8, Kept

-----------------------------------------------------------------------------
(* The page receives.                                                       *)

\* The first message was about this socket: what the others say of it stays.
LEMMA QueueShifts ==
  ASSUME Types, NEW s \in Sockets, Queue(s), Takes,
         reader'[s] = reader[s], opener'[s] = opener[s], read'[s] = read[s],
         InConnections(s)' => InConnections(s) /\ opened'[s],
         page'[s] = "closing" /\ link' = "up" /\ conn'[s] = "open" /\ opener'[s] = "done" =>
           <<"close", s, 0>> \in toAgent' \/ \E i \in 1..Len(toPage) : i # 1 /\ Is(i, "ack", s),
         InConnections(s)' => \A i \in 1..Len(toPage) :
           i # 1 /\ Is(i, "data", s) => Len(got'[s]) < toPage[i][3],
         link' = "up" /\ InConnections(s)' => \A k \in Len(got'[s])+1..read[s] :
           \E i \in 1..Len(toPage) : i # 1 /\ Is(i, "data", s) /\ toPage[i][3] = k
  PROVE  Queue(s)'
<1>1. /\ Len(toPage) \in Nat /\ Len(toPage') = Len(toPage) - 1
      /\ \A k \in 1..Len(toPage') : k + 1 \in 1..Len(toPage) /\ toPage'[k] = toPage[k + 1]
      /\ \A k \in 1..Len(toPage) : k # 1 => k - 1 \in 1..Len(toPage') /\ toPage'[k - 1] = toPage[k]
  BY TakenIs
<1>2. \A type : \A i \in 1..Len(toPage') :
        Is(i, type, s)' => /\ Is(i + 1, type, s) /\ toPage'[i] = toPage[i + 1]
                           /\ i + 1 \in 1..Len(toPage) /\ i + 1 # 1
  BY <1>1 DEF Is
<1>3. \A type : \A i \in 1..Len(toPage) :
        i # 1 /\ Is(i, type, s) => /\ i - 1 \in 1..Len(toPage') /\ Is(i - 1, type, s)'
                                   /\ toPage'[i - 1] = toPage[i]
  BY <1>1 DEF Is
<1>4. \A i \in 1..Len(toPage') : Is(i, "ack", s)' => reader'[s] # "none"
  BY <1>2 DEF Queue
<1>5. \A i \in 1..Len(toPage') : Is(i, "refused", s)' => opener'[s] = "done" /\ reader'[s] = "none"
  BY <1>2 DEF Queue
<1>6. \A i \in 1..Len(toPage') : Is(i, "data", s)' =>
       /\ reader'[s] # "none" /\ toPage'[i][3] <= read'[s]
       /\ InConnections(s)' => Len(got'[s]) < toPage'[i][3]
       /\ InConnections(s)' /\ ~opened'[s] => \E j \in 1..Len(toPage') : j < i /\ Is(j, "ack", s)'
  BY <1>2 DEF Queue
<1>7. \A i \in 1..Len(toPage') : Is(i, "close", s)' =>
       /\ reader'[s] \in {"ending", "done"}
       /\ \A j \in 1..Len(toPage') : Is(j, "data", s)' => j < i
  <2> SUFFICES ASSUME NEW i \in 1..Len(toPage'), Is(i, "close", s)'
               PROVE  /\ reader'[s] \in {"ending", "done"}
                      /\ \A j \in 1..Len(toPage') : Is(j, "data", s)' => j < i
    OBVIOUS
  <2>1. Is(i + 1, "close", s) /\ i + 1 \in 1..Len(toPage)
    BY <1>2
  <2>2. \A j \in 1..Len(toPage') : Is(j, "data", s)' => j + 1 < i + 1
    BY <1>2, <2>1 DEF Queue
  <2>3. QED BY <2>1, <2>2 DEF Queue
<1>8. \A i, j \in 1..Len(toPage') :
       Is(i, "data", s)' /\ Is(j, "data", s)' /\ i < j => toPage'[i][3] < toPage'[j][3]
  <2> SUFFICES ASSUME NEW i \in 1..Len(toPage'), NEW j \in 1..Len(toPage'),
                      Is(i, "data", s)', Is(j, "data", s)', i < j
               PROVE  toPage'[i][3] < toPage'[j][3]
    OBVIOUS
  <2>1. /\ Is(i + 1, "data", s) /\ toPage'[i] = toPage[i + 1] /\ i + 1 \in 1..Len(toPage)
        /\ Is(j + 1, "data", s) /\ toPage'[j] = toPage[j + 1] /\ j + 1 \in 1..Len(toPage)
        /\ i + 1 < j + 1
    BY <1>1, <1>2
  <2>2. QED BY <2>1 DEF Queue
<1>9. link' = "up" /\ InConnections(s)' =>
       \A k \in Len(got'[s])+1..read'[s] : \E i \in 1..Len(toPage') : Is(i, "data", s)' /\ toPage'[i][3] = k
  <2> SUFFICES ASSUME link' = "up", InConnections(s)', NEW k \in Len(got'[s])+1..read[s]
               PROVE  \E i \in 1..Len(toPage') : Is(i, "data", s)' /\ toPage'[i][3] = k
    OBVIOUS
  <2>1. PICK i \in 1..Len(toPage) : i # 1 /\ Is(i, "data", s) /\ toPage[i][3] = k
    OBVIOUS
  <2>2. i - 1 \in 1..Len(toPage') /\ Is(i - 1, "data", s)' /\ toPage'[i - 1][3] = k
    BY <1>3, <2>1
  <2>3. QED BY <2>2
<1>10. (\E i \in 1..Len(toPage) : i # 1 /\ Is(i, "ack", s)) => \E i \in 1..Len(toPage') : Is(i, "ack", s)'
  BY <1>3
<1>11. /\ link' = "up" /\ InConnections(s)' /\ reader'[s] # "none" /\ ~opened'[s] =>
            \E i \in 1..Len(toPage') : Is(i, "ack", s)'
       /\ link' = "up" /\ page'[s] = "closing" /\ conn'[s] = "open" /\ opener'[s] = "done" =>
            <<"close", s, 0>> \in toAgent' \/ \E i \in 1..Len(toPage') : Is(i, "ack", s)'
  BY <1>10
<1> HIDE DEF Is, InConnections
<1>12. QED BY <1>4, <1>5, <1>6, <1>7, <1>8, <1>9, <1>11 DEF Queue

LEMMA OpenAckKeeps == ASSUME ProxyInv, HandleWSOpenAck PROVE ProxyInv'
<1>0. PICK s : s = At
  OBVIOUS
<1>1. Types /\ Arrives("ack")
  BY DEF ProxyInv, HandleWSOpenAck
<1>2. /\ Takes /\ toPage' \in Seq(PageMessage) /\ Head(toPage)[1] = "ack" /\ link = "up"
      /\ Head(toPage) = toPage[1] /\ 1 \in 1..Len(toPage) /\ s \in Sockets /\ Head(toPage)[2] = s
  BY <1>0, <1>1, ArrivesIs DEF At
<1>3. /\ got' = got /\ told' = told /\ connected' = connected /\ frames' = frames
      /\ UNCHANGED pageRequests /\ UNCHANGED agentSockets /\ UNCHANGED agentRequests
      /\ UNCHANGED session /\ toAgent' = toAgent /\ link' = link
      /\ InConnections(s) => page' = [page EXCEPT ![s] = "open"] /\ opened' = [opened EXCEPT ![s] = TRUE]
      /\ ~InConnections(s) => page' = page /\ opened' = opened
  BY <1>0 DEF HandleWSOpenAck, KeepRest
<1>4. Life(s) /\ Queue(s)
  BY <1>2 DEF ProxyInv
<1>5. Types'
  <2>1. /\ page' \in [Sockets -> {"none", "connecting", "open", "closing", "closed", "gone"}]
        /\ opened' \in [Sockets -> BOOLEAN]
    BY <1>1, <1>2, <1>3 DEF Types, TypeOK
  <2>2. QED BY <1>1, <1>2, <1>3, <2>1, Wider DEF Types, TypeOK, pageRequests, agentSockets, agentRequests, session
<1>6. ASSUME NEW z \in Sockets, z # s PROVE SocketOther(z)
  BY <1>1, <1>2, <1>3, <1>6 DEF SocketOther, SameSocket, SameWay, OtherSocketQueue, ForSocket, agentSockets, Types, TypeOK
<1>7. /\ InConnections(s) => page'[s] = "open" /\ opened'[s] = TRUE
      /\ ~InConnections(s) => page'[s] = page[s] /\ opened'[s] = opened[s]
  BY <1>1, <1>2, <1>3 DEF Types, TypeOK
<1>8. Life(s)'
  BY <1>2, <1>3, <1>4, <1>7 DEF Life, agentSockets, InConnections
<1>9. Queue(s)'
  <2>1. page'[s] # "closing" /\ (InConnections(s)' => InConnections(s) /\ opened'[s])
    BY <1>7 DEF InConnections
  <2>2. ~Is(1, "data", s)
    BY <1>2 DEF Is
  <2>3. link' = "up" /\ InConnections(s)' => \A k \in Len(got'[s])+1..read[s] :
           \E i \in 1..Len(toPage) : i # 1 /\ Is(i, "data", s) /\ toPage[i][3] = k
    <3> SUFFICES ASSUME link' = "up", InConnections(s)', NEW k \in Len(got'[s])+1..read[s]
                 PROVE  \E i \in 1..Len(toPage) : i # 1 /\ Is(i, "data", s) /\ toPage[i][3] = k
      OBVIOUS
    <3>1. PICK i \in 1..Len(toPage) : Is(i, "data", s) /\ toPage[i][3] = k
      BY <1>2, <1>3, <1>4, <2>1 DEF Queue
    <3>2. QED BY <2>2, <3>1
  <2>4. InConnections(s)' => \A i \in 1..Len(toPage) :
           i # 1 /\ Is(i, "data", s) => Len(got'[s]) < toPage[i][3]
    BY <1>3, <1>4, <2>1 DEF Queue
  <2>5. reader'[s] = reader[s] /\ opener'[s] = opener[s] /\ read'[s] = read[s]
    BY <1>3 DEF agentSockets
  <2>6. QED BY <1>1, <1>2, <1>4, <2>1, <2>3, <2>4, <2>5, QueueShifts
<1>10. ASSUME NEW q \in Requests PROVE RequestOther(q)
  BY <1>2, <1>3 DEF RequestOther, SameRequest, OtherRequestQueue, ForRequest, pageRequests, agentRequests
<1>11. QED BY <1>5, <1>6, <1>8, <1>9, <1>10, Kept

LEMMA CloseEventKeeps == ASSUME ProxyInv, HandleWSClose PROVE ProxyInv'
<1>0. PICK s : s = At
  OBVIOUS
<1>1. Types /\ (Arrives("close") \/ Arrives("refused"))
  BY DEF ProxyInv, HandleWSClose
<1>2. /\ Takes /\ toPage' \in Seq(PageMessage) /\ Head(toPage)[1] \in {"close", "refused"} /\ link = "up"
      /\ Head(toPage) = toPage[1] /\ 1 \in 1..Len(toPage) /\ s \in Sockets /\ Head(toPage)[2] = s
  BY <1>0, <1>1, ArrivesIs DEF At
<1>3. /\ got' = got /\ opened' = opened /\ connected' = connected /\ frames' = frames
      /\ UNCHANGED pageRequests /\ UNCHANGED agentSockets /\ UNCHANGED agentRequests
      /\ UNCHANGED session /\ toAgent' = toAgent /\ link' = link
      /\ InConnections(s) => page' = [page EXCEPT ![s] = "closed"] /\ told' = [told EXCEPT ![s] = TRUE]
      /\ ~InConnections(s) => page' = page /\ told' = told
  BY <1>0 DEF HandleWSClose, KeepRest
<1>4. Life(s) /\ Queue(s)
  BY <1>2 DEF ProxyInv
<1>5. Types'
  <2>1. /\ page' \in [Sockets -> {"none", "connecting", "open", "closing", "closed", "gone"}]
        /\ told' \in [Sockets -> BOOLEAN]
    BY <1>1, <1>2, <1>3 DEF Types, TypeOK
  <2>2. QED BY <1>1, <1>2, <1>3, <2>1, Wider DEF Types, TypeOK, pageRequests, agentSockets, agentRequests, session
<1>6. ASSUME NEW z \in Sockets, z # s PROVE SocketOther(z)
  BY <1>1, <1>2, <1>3, <1>6 DEF SocketOther, SameSocket, SameWay, OtherSocketQueue, ForSocket, agentSockets, Types, TypeOK
<1>7. /\ InConnections(s) => page'[s] = "closed"
      /\ ~InConnections(s) => page'[s] = page[s]
  BY <1>1, <1>2, <1>3 DEF Types, TypeOK
<1>8. opener[s] = "done" /\ reader[s] # "reading" /\ (InConnections(s) => Len(got[s]) = read[s])
  <2>1. read[s] \in Nat /\ Len(got[s]) \in Nat
    <3>1. got[s] \in Seq(1..MaxData)
      BY <1>1, <1>2 DEF Types, TypeOK
    <3>2. QED BY <1>1, <1>2, <3>1, LenProperties DEF Types, TypeOK
  <2>2. CASE Head(toPage)[1] = "refused"
    <3>1. Is(1, "refused", s)
      BY <1>2, <2>2 DEF Is
    <3>2. opener[s] = "done" /\ reader[s] = "none"
      BY <1>2, <1>4, <3>1 DEF Queue
    <3>3. QED BY <1>4, <2>1, <3>2 DEF Life
  <2>3. CASE Head(toPage)[1] = "close"
    <3>1. Is(1, "close", s)
      BY <1>2, <2>3 DEF Is
    <3>2. reader[s] \in {"ending", "done"} /\ \A j \in 1..Len(toPage) : Is(j, "data", s) => j < 1
      BY <1>2, <1>4, <3>1 DEF Queue
    <3>3. \A j \in 1..Len(toPage) : ~Is(j, "data", s)
      BY <3>2
    <3>4. InConnections(s) => \A k \in Len(got[s])+1..read[s] : FALSE
      BY <1>2, <1>4, <3>3 DEF Queue
    <3>5. InConnections(s) => Len(got[s]) >= read[s]
      BY <2>1, <3>4
    <3>6. QED BY <1>4, <2>1, <3>2, <3>5 DEF Life
  <2>4. QED BY <1>2, <2>2, <2>3
<1>9. Life(s)'
  BY <1>2, <1>3, <1>4, <1>7, <1>8 DEF Life, agentSockets, InConnections
<1>10. Queue(s)'
  <2>1. page'[s] # "closing" /\ ~InConnections(s)'
    BY <1>7 DEF InConnections
  <2>2. reader'[s] = reader[s] /\ opener'[s] = opener[s] /\ read'[s] = read[s]
    BY <1>3 DEF agentSockets
  <2>3. QED BY <1>1, <1>2, <1>4, <2>1, <2>2, QueueShifts
<1>11. ASSUME NEW q \in Requests PROVE RequestOther(q)
  BY <1>2, <1>3 DEF RequestOther, SameRequest, OtherRequestQueue, ForRequest, pageRequests, agentRequests
<1>12. QED BY <1>5, <1>6, <1>9, <1>10, <1>11, Kept

LEMMA DataEventKeeps == ASSUME ProxyInv, HandleWSData PROVE ProxyInv'
<1>0. PICK s, n : s = At /\ n = Num
  OBVIOUS
<1>1. Types /\ Arrives("data")
  BY DEF ProxyInv, HandleWSData
<1>2. /\ Takes /\ toPage' \in Seq(PageMessage) /\ Head(toPage)[1] = "data" /\ link = "up"
      /\ Head(toPage) = toPage[1] /\ 1 \in 1..Len(toPage) /\ s \in Sockets /\ Head(toPage)[2] = s
      /\ n \in 1..MaxData /\ Head(toPage)[3] = n
  BY <1>0, <1>1, ArrivesIs DEF At, Num
<1>3. /\ page' = page /\ opened' = opened /\ told' = told /\ connected' = connected /\ frames' = frames
      /\ UNCHANGED pageRequests /\ UNCHANGED agentSockets /\ UNCHANGED agentRequests
      /\ UNCHANGED session /\ toAgent' = toAgent /\ link' = link
      /\ InConnections(s) => got' = [got EXCEPT ![s] = Append(@, n)]
      /\ ~InConnections(s) => got' = got
  BY <1>0 DEF HandleWSData, KeepRest
<1>4. Life(s) /\ Queue(s)
  BY <1>2 DEF ProxyInv
<1>5. got[s] \in Seq(1..MaxData) /\ got \in [Sockets -> Seq(1..MaxData)] /\ read[s] \in Nat
  BY <1>1, <1>2 DEF Types, TypeOK
<1>6. /\ Append(got[s], n) \in Seq(1..MaxData) /\ Len(Append(got[s], n)) = Len(got[s]) + 1 /\ Len(got[s]) \in Nat
      /\ Append(got[s], n)[Len(got[s]) + 1] = n
      /\ \A k \in 1..Len(got[s]) : Append(got[s], n)[k] = got[s][k]
  BY <1>2, <1>5, AppendIs
<1>7. Types'
  <2>1. got' \in [Sockets -> Seq(1..MaxData)]
    BY <1>2, <1>3, <1>5, <1>6
  <2>2. QED BY <1>1, <1>2, <1>3, <2>1, Wider DEF Types, TypeOK, pageRequests, agentSockets, agentRequests, session
<1>8. ASSUME NEW z \in Sockets, z # s PROVE SocketOther(z)
  BY <1>1, <1>2, <1>3, <1>8 DEF SocketOther, SameSocket, SameWay, OtherSocketQueue, ForSocket, agentSockets, Types, TypeOK
<1>9. /\ InConnections(s) => got'[s] = Append(got[s], n)
      /\ ~InConnections(s) => got'[s] = got[s]
      /\ InConnections(s)' <=> InConnections(s)
  BY <1>2, <1>3, <1>5 DEF InConnections
<1>10. Is(1, "data", s) /\ toPage[1][3] = n
  BY <1>2 DEF Is
\* It is the next one of the stream, to a page that was told the socket is open.
<1>11. ASSUME InConnections(s) PROVE n = Len(got[s]) + 1 /\ n <= read[s] /\ opened[s]
  <2>1. Len(got[s]) < n /\ n <= read[s]
    BY <1>2, <1>4, <1>10, <1>11 DEF Queue
  <2>2. CASE n > Len(got[s]) + 1
    <3>1. Len(got[s]) + 1 \in Len(got[s])+1..read[s]
      BY <1>2, <1>5, <1>6, <2>1, <2>2
    <3>2. PICK i \in 1..Len(toPage) : Is(i, "data", s) /\ toPage[i][3] = Len(got[s]) + 1
      BY <1>2, <1>4, <1>11, <3>1 DEF Queue
    <3>3. i # 1
      BY <1>2, <1>6, <1>10, <2>2, <3>2
    <3>4. 1 < i
      BY <3>3
    <3>5. n < Len(got[s]) + 1
      BY <1>2, <1>4, <1>10, <3>2, <3>4 DEF Queue
    <3>6. QED BY <1>2, <1>6, <2>2, <3>5
  <2>3. n = Len(got[s]) + 1
    BY <1>2, <1>6, <2>1, <2>2
  <2>4. opened[s]
    <3>1. SUFFICES ASSUME ~opened[s] PROVE FALSE
      OBVIOUS
    <3>2. \E j \in 1..Len(toPage) : j < 1
      BY <1>2, <1>4, <1>10, <1>11, <3>1 DEF Queue
    <3>3. QED BY <3>2
  <2>5. QED BY <2>1, <2>3, <2>4
<1>12. Life(s)'
  <2>1. CASE InConnections(s)
    <3>1. got'[s] = Append(got[s], n) /\ n = Len(got[s]) + 1 /\ n <= read[s] /\ opened[s]
      BY <1>9, <1>11, <2>1
    <3>2. Len(got'[s]) <= read[s] /\ \A k \in 1..Len(got'[s]) : got'[s][k] = k
      BY <1>4, <1>6, <3>1 DEF Life
    <3>3. page[s] \notin {"none", "closed", "gone"}
      BY <2>1 DEF InConnections
    <3>4. QED BY <1>3, <1>4, <3>1, <3>2, <3>3 DEF Life, agentSockets
  <2>2. CASE ~InConnections(s)
    BY <1>3, <1>4, <1>9, <2>2 DEF Life, agentSockets
  <2>3. QED BY <2>1, <2>2
<1>13. Queue(s)'
  <2>1. InConnections(s)' => InConnections(s) /\ opened'[s]
    BY <1>3, <1>9, <1>11
  <2>2. page'[s] = "closing" /\ link' = "up" /\ conn'[s] = "open" /\ opener'[s] = "done" =>
           <<"close", s, 0>> \in toAgent' \/ \E i \in 1..Len(toPage) : i # 1 /\ Is(i, "ack", s)
    <3>1. ~Is(1, "ack", s)
      BY <1>2 DEF Is
    <3>2. QED BY <1>3, <1>4, <3>1 DEF Queue, agentSockets
  <2>3. InConnections(s)' => \A i \in 1..Len(toPage) :
           i # 1 /\ Is(i, "data", s) => Len(got'[s]) < toPage[i][3]
    <3> SUFFICES ASSUME InConnections(s), NEW i \in 1..Len(toPage), i # 1, Is(i, "data", s)
                 PROVE  Len(got'[s]) < toPage[i][3]
      BY <1>9
    <3>1. 1 < i
      OBVIOUS
    <3>2. n < toPage[i][3]
      BY <1>2, <1>4, <1>10, <3>1 DEF Queue
    <3>3. Len(got'[s]) = n
      BY <1>6, <1>9, <1>11
    <3>4. QED BY <3>2, <3>3
  <2>4. link' = "up" /\ InConnections(s)' => \A k \in Len(got'[s])+1..read[s] :
           \E i \in 1..Len(toPage) : i # 1 /\ Is(i, "data", s) /\ toPage[i][3] = k
    <3> SUFFICES ASSUME InConnections(s), NEW k \in Len(got'[s])+1..read[s]
                 PROVE  \E i \in 1..Len(toPage) : i # 1 /\ Is(i, "data", s) /\ toPage[i][3] = k
      BY <1>9
    <3>1. Len(got'[s]) = n /\ n = Len(got[s]) + 1
      BY <1>6, <1>9, <1>11
    <3>2. k \in Len(got[s])+1..read[s] /\ k # n
      BY <1>2, <1>5, <1>6, <3>1
    <3>3. PICK i \in 1..Len(toPage) : Is(i, "data", s) /\ toPage[i][3] = k
      BY <1>2, <1>4, <3>2 DEF Queue
    <3>4. QED BY <1>10, <3>2, <3>3
  <2>5. reader'[s] = reader[s] /\ opener'[s] = opener[s] /\ read'[s] = read[s]
    BY <1>3 DEF agentSockets
  <2>6. QED BY <1>1, <1>2, <1>4, <2>1, <2>2, <2>3, <2>4, <2>5, QueueShifts
<1>14. ASSUME NEW q \in Requests PROVE RequestOther(q)
  BY <1>2, <1>3 DEF RequestOther, SameRequest, OtherRequestQueue, ForRequest, pageRequests, agentRequests
<1>15. QED BY <1>7, <1>8, <1>12, <1>13, <1>14, Kept

LEMMA ErrorEventKeeps == ASSUME ProxyInv, HandleWSError PROVE ProxyInv'
<1>0. PICK s : s = At
  OBVIOUS
<1>1. Types /\ Arrives("error")
  BY DEF ProxyInv, HandleWSError
<1>2. /\ Takes /\ toPage' \in Seq(PageMessage) /\ Head(toPage)[1] = "error" /\ link = "up" /\ s \in Sockets
  BY <1>0, <1>1, ArrivesIs DEF At
<1>3. /\ page' = page /\ opened' = opened /\ got' = got /\ connected' = connected /\ frames' = frames
      /\ UNCHANGED pageRequests /\ UNCHANGED agentSockets /\ UNCHANGED agentRequests
      /\ UNCHANGED session /\ toAgent' = toAgent /\ link' = link
      /\ told' \in {told, [told EXCEPT ![s] = TRUE]}
  BY <1>0 DEF HandleWSError, KeepRest
<1>4. Types'
  <2>1. told' \in [Sockets -> BOOLEAN]
    BY <1>1, <1>2, <1>3 DEF Types, TypeOK
  <2>2. QED BY <1>1, <1>2, <1>3, <2>1, Wider DEF Types, TypeOK, pageRequests, agentSockets, agentRequests, session
<1>5. ASSUME NEW z \in Sockets PROVE SocketOther(z)
  BY <1>1, <1>2, <1>3, <1>5 DEF SocketOther, SameSocket, SameWay, OtherSocketQueue, ForSocket, agentSockets, Types, TypeOK
<1>6. ASSUME NEW q \in Requests PROVE RequestOther(q)
  BY <1>2, <1>3 DEF RequestOther, SameRequest, OtherRequestQueue, ForRequest, pageRequests, agentRequests
<1>7. QED BY <1>4, <1>5, <1>6, Kept

LEMMA ResponseKeeps == ASSUME ProxyInv, HandleHTTPResponse PROVE ProxyInv'
<1>0. PICK q, n : q = At /\ n = Num
  OBVIOUS
<1>1. Types /\ Arrives("chunk")
  BY DEF ProxyInv, HandleHTTPResponse
<1>2. /\ Takes /\ toPage' \in Seq(PageMessage) /\ Head(toPage)[1] = "chunk" /\ link = "up"
      /\ Head(toPage) = toPage[1] /\ 1 \in 1..Len(toPage) /\ q \in Requests /\ Head(toPage)[2] = q
      /\ n \in 0..LastChunk(q) /\ Head(toPage)[3] = n
  BY <1>0, <1>1, ArrivesIs DEF At, Num
<1>3. /\ connected' = connected /\ UNCHANGED pageSockets
      /\ UNCHANGED agentSockets /\ UNCHANGED agentRequests
      /\ UNCHANGED session /\ toAgent' = toAgent /\ link' = link
      /\ req[q] = "pending" => /\ chunks' = [chunks EXCEPT ![q] = @ \cup {n}]
                               /\ n = LastChunk(q) => req' = [req EXCEPT ![q] = "resolved"]
                               /\ n # LastChunk(q) => req' = req
      /\ req[q] # "pending" => chunks' = chunks /\ req' = req
  BY <1>0 DEF HandleHTTPResponse, Done
<1>4. Answer(q)
  BY <1>2 DEF ProxyInv
<1>5. n \in Nat /\ LastChunk(q) \in Nat
  BY <1>2, LastChunkNat
<1>6. /\ \A p \in Requests : p # q => chunks'[p] = chunks[p] /\ req'[p] = req[p]
      /\ req[q] = "pending" => /\ chunks'[q] = chunks[q] \cup {n}
                               /\ req'[q] = IF n = LastChunk(q) THEN "resolved" ELSE "pending"
      /\ req[q] # "pending" => chunks'[q] = chunks[q] /\ req'[q] = req[q]
      /\ chunks' \in [Requests -> SUBSET Nat]
      /\ req' \in [Requests -> {"none", "pending", "resolved", "failed", "rejected", "dropped"}]
  <2>1. /\ chunks \in [Requests -> SUBSET Nat]
        /\ req \in [Requests -> {"none", "pending", "resolved", "failed", "rejected", "dropped"}]
    BY <1>1 DEF Types, TypeOK
  <2>2. CASE req[q] # "pending"
    BY <1>3, <2>1, <2>2
  <2>3. CASE req[q] = "pending"
    <3>1. chunks' \in [Requests -> SUBSET Nat] /\ chunks'[q] = chunks[q] \cup {n}
          /\ \A p \in Requests : p # q => chunks'[p] = chunks[p]
      BY <1>2, <1>3, <1>5, <2>1, <2>3
    <3>2. CASE n = LastChunk(q)
      BY <1>2, <1>3, <2>1, <2>3, <3>1, <3>2
    <3>3. CASE n # LastChunk(q)
      BY <1>2, <1>3, <2>1, <2>3, <3>1, <3>3
    <3>4. QED BY <3>2, <3>3
  <2>4. QED BY <2>2, <2>3
<1>7. Types'
  <2>1. \A p \in Requests : chunks'[p] \subseteq 0..LastChunk(p)
    <3>1. \A p \in Requests : chunks[p] \subseteq 0..LastChunk(p)
      BY <1>1 DEF Types, TypeOK
    <3>2. QED BY <1>2, <1>6, <3>1
  <2>2. QED BY <1>1, <1>2, <1>3, <1>6, <2>1, Wider DEF Types, TypeOK, pageSockets, agentSockets, agentRequests, session
<1>8. ASSUME NEW z \in Sockets PROVE SocketOther(z)
  BY <1>2, <1>3 DEF SocketOther, SameSocket, SameWay, OtherSocketQueue, ForSocket, pageSockets, agentSockets
<1>9. ASSUME NEW p \in Requests, p # q PROVE RequestOther(p)
  BY <1>2, <1>3, <1>6, <1>9 DEF RequestOther, SameRequest, OtherRequestQueue, ForRequest, agentRequests
<1>10. Answer(q)'
  <2>1. /\ Len(toPage) \in Nat /\ Len(toPage') = Len(toPage) - 1
        /\ \A k \in 1..Len(toPage') : k + 1 \in 1..Len(toPage) /\ toPage'[k] = toPage[k + 1]
        /\ \A k \in 1..Len(toPage) : k # 1 => k - 1 \in 1..Len(toPage') /\ toPage'[k - 1] = toPage[k]
    BY <1>1, <1>2, TakenIs
  <2>2. \A i \in 1..Len(toPage') :
          Is(i, "chunk", q)' => /\ Is(i + 1, "chunk", q) /\ toPage'[i] = toPage[i + 1]
                                /\ i + 1 \in 1..Len(toPage)
    BY <2>1 DEF Is
  <2>3. \A i \in 1..Len(toPage) :
          i # 1 /\ Is(i, "chunk", q) => /\ i - 1 \in 1..Len(toPage') /\ Is(i - 1, "chunk", q)'
                                        /\ toPage'[i - 1] = toPage[i]
    BY <2>1 DEF Is
  <2>4. Is(1, "chunk", q) /\ toPage[1][3] = n
    BY <1>2 DEF Is
  <2>5. UNCHANGED <<answer, next>>
    BY <1>3 DEF agentRequests
  <2>6. \A i \in 1..Len(toPage') : Is(i, "chunk", q)' =>
         /\ answer'[q] \in {"sending", "done"} /\ toPage'[i][3] <= next'[q]
         /\ answer'[q] = "sending" => toPage'[i][3] < next'[q]
    BY <1>4, <2>2, <2>5 DEF Answer
  <2>7. \A i, j \in 1..Len(toPage') :
         Is(i, "chunk", q)' /\ Is(j, "chunk", q)' /\ i < j => toPage'[i][3] < toPage'[j][3]
    <3> SUFFICES ASSUME NEW i \in 1..Len(toPage'), NEW j \in 1..Len(toPage'),
                        Is(i, "chunk", q)', Is(j, "chunk", q)', i < j
                 PROVE  toPage'[i][3] < toPage'[j][3]
      OBVIOUS
    <3>1. /\ Is(i + 1, "chunk", q) /\ toPage'[i] = toPage[i + 1] /\ i + 1 \in 1..Len(toPage)
          /\ Is(j + 1, "chunk", q) /\ toPage'[j] = toPage[j + 1] /\ j + 1 \in 1..Len(toPage)
          /\ i + 1 < j + 1
      BY <2>1, <2>2
    <3>2. QED BY <1>4, <3>1 DEF Answer
  <2>8. link' = "up" /\ req'[q] = "pending" =>
         \A k \in Nat : k < next'[q] =>
           k \in chunks'[q] \/ \E i \in 1..Len(toPage') : Is(i, "chunk", q)' /\ toPage'[i][3] = k
    <3> SUFFICES ASSUME req'[q] = "pending", NEW k \in Nat, k < next[q], k \notin chunks'[q]
                 PROVE  \E i \in 1..Len(toPage') : Is(i, "chunk", q)' /\ toPage'[i][3] = k
      BY <2>5
    <3>1. req[q] = "pending" /\ k \notin chunks[q] /\ k # n
      BY <1>6
    <3>2. PICK i \in 1..Len(toPage) : Is(i, "chunk", q) /\ toPage[i][3] = k
      BY <1>2, <1>4, <3>1 DEF Answer
    <3>3. i - 1 \in 1..Len(toPage') /\ Is(i - 1, "chunk", q)' /\ toPage'[i - 1][3] = k
      BY <2>3, <2>4, <3>1, <3>2
    <3>4. QED BY <3>3
  \* The last chunk is not the first in the queue while another is missing.
  <2>9. ASSUME req[q] = "pending", n = LastChunk(q) PROVE chunks'[q] = 0..LastChunk(q)
    <3>1. next[q] \in Nat /\ n <= next[q] /\ chunks[q] \subseteq 0..LastChunk(q)
      <4>1. next[q] \in Nat /\ chunks[q] \subseteq 0..LastChunk(q)
        BY <1>1, <1>2 DEF Types, TypeOK
      <4>2. toPage[1][3] <= next[q]
        BY <1>2, <1>4, <2>4 DEF Answer
      <4>3. QED BY <2>4, <4>1, <4>2
    <3>2. ASSUME NEW k \in Nat, k < n PROVE k \in chunks[q]
      <4>1. SUFFICES ASSUME k \notin chunks[q] PROVE FALSE
        OBVIOUS
      <4>2. k < next[q]
        BY <1>5, <3>1, <3>2
      <4>3. PICK i \in 1..Len(toPage) : Is(i, "chunk", q) /\ toPage[i][3] = k
        BY <1>2, <1>4, <2>9, <4>1, <4>2 DEF Answer
      <4>4. 1 < i
        BY <1>5, <2>4, <3>2, <4>3
      <4>5. n < k
        BY <1>2, <1>4, <2>4, <4>3, <4>4 DEF Answer
      <4>6. QED BY <1>5, <3>2, <4>5
    <3>3. chunks'[q] = chunks[q] \cup {n}
      BY <1>6, <2>9
    <3>4. \A k \in 0..LastChunk(q) : k < n \/ k = n
      BY <1>5, <2>9
    <3>5. \A k \in 0..LastChunk(q) : k \in chunks'[q]
      BY <1>5, <3>2, <3>3, <3>4
    <3>6. n \in 0..LastChunk(q)
      BY <1>2
    <3>7. QED BY <3>1, <3>3, <3>5, <3>6
  <2>10. req'[q] = "resolved" => chunks'[q] = 0..LastChunk(q)
    BY <1>4, <1>6, <2>9 DEF Answer
  <2>11. req'[q] = "none" => req[q] = "none"
    BY <1>6
  <2>12. QED BY <1>3, <1>4, <2>5, <2>6, <2>7, <2>8, <2>10, <2>11 DEF Answer
<1>11. QED BY <1>7, <1>8, <1>9, <1>10, Kept

LEMMA FailureKeeps == ASSUME ProxyInv, HandleHTTPFailure PROVE ProxyInv'
<1>0. PICK q : q = At
  OBVIOUS
<1>1. Types /\ Arrives("failure")
  BY DEF ProxyInv, HandleHTTPFailure
<1>2. /\ Takes /\ toPage' \in Seq(PageMessage) /\ Head(toPage)[1] = "failure" /\ link = "up" /\ q \in Requests
  BY <1>0, <1>1, ArrivesIs DEF At
<1>3. /\ connected' = connected /\ UNCHANGED pageSockets /\ chunks' = chunks
      /\ UNCHANGED agentSockets /\ UNCHANGED agentRequests
      /\ UNCHANGED session /\ toAgent' = toAgent /\ link' = link
      /\ req' = IF req[q] = "pending" THEN [req EXCEPT ![q] = "failed"] ELSE req
  BY <1>0 DEF HandleHTTPFailure
<1>4. /\ req' \in [Requests -> {"none", "pending", "resolved", "failed", "rejected", "dropped"}]
      /\ \A p \in Requests : req'[p] = req[p] \/ (req[p] = "pending" /\ req'[p] = "failed")
  <2>1. req \in [Requests -> {"none", "pending", "resolved", "failed", "rejected", "dropped"}]
    BY <1>1 DEF Types, TypeOK
  <2>2. QED BY <1>2, <1>3, <2>1
<1>5. Types'
  BY <1>1, <1>2, <1>3, <1>4, Wider DEF Types, TypeOK, pageSockets, agentSockets, agentRequests, session
<1>6. ASSUME NEW z \in Sockets PROVE SocketOther(z)
  BY <1>2, <1>3 DEF SocketOther, SameSocket, SameWay, OtherSocketQueue, ForSocket, pageSockets, agentSockets
<1>7. ASSUME NEW p \in Requests, req'[p] = req[p] PROVE RequestOther(p)
  BY <1>2, <1>3, <1>7 DEF RequestOther, SameRequest, OtherRequestQueue, ForRequest, agentRequests
<1>8. ASSUME NEW p \in Requests, req[p] = "pending", req'[p] = "failed" PROVE Answer(p)'
  <2>1. Answer(p)
    BY DEF ProxyInv
  <2>2. /\ Len(toPage) \in Nat /\ Len(toPage') = Len(toPage) - 1
        /\ \A k \in 1..Len(toPage') : k + 1 \in 1..Len(toPage) /\ toPage'[k] = toPage[k + 1]
    BY <1>1, <1>2, TakenIs
  <2>3. \A i \in 1..Len(toPage') :
          Is(i, "chunk", p)' => /\ Is(i + 1, "chunk", p) /\ toPage'[i] = toPage[i + 1]
                                /\ i + 1 \in 1..Len(toPage)
    BY <2>2 DEF Is
  <2>4. UNCHANGED <<answer, next>>
    BY <1>3 DEF agentRequests
  <2>5. \A i, j \in 1..Len(toPage') :
         Is(i, "chunk", p)' /\ Is(j, "chunk", p)' /\ i < j => toPage'[i][3] < toPage'[j][3]
    <3> SUFFICES ASSUME NEW i \in 1..Len(toPage'), NEW j \in 1..Len(toPage'),
                        Is(i, "chunk", p)', Is(j, "chunk", p)', i < j
                 PROVE  toPage'[i][3] < toPage'[j][3]
      OBVIOUS
    <3>1. /\ Is(i + 1, "chunk", p) /\ toPage'[i] = toPage[i + 1] /\ i + 1 \in 1..Len(toPage)
          /\ Is(j + 1, "chunk", p) /\ toPage'[j] = toPage[j + 1] /\ j + 1 \in 1..Len(toPage)
          /\ i + 1 < j + 1
      BY <2>2, <2>3
    <3>2. QED BY <2>1, <3>1 DEF Answer
  <2>6. QED BY <1>3, <1>8, <2>1, <2>3, <2>4, <2>5 DEF Answer
<1>9. QED BY <1>4, <1>5, <1>6, <1>7, <1>8, Kept

-----------------------------------------------------------------------------
(* The agent's goroutines.                                                  *)

\* A message about this socket is sent.
LEMMA QueueGrows ==
  ASSUME Types, NEW s \in Sockets, Life(s), Queue(s), NEW m, Adds(m), link = "up", link' = "up", m[2] = s,
         m[1] \in {"ack", "refused", "data", "close", "error"}, read[s] \in Nat, Len(got[s]) \in Nat,
         page'[s] = page[s], opened'[s] = opened[s], got'[s] = got[s], conn'[s] = conn[s],
         <<"close", s, 0>> \in toAgent => <<"close", s, 0>> \in toAgent',
         reader[s] # "none" => reader'[s] # "none",
         opener[s] = "done" => opener'[s] = "done",
         opener[s] = "done" /\ reader[s] = "none" => reader'[s] = "none",
         reader[s] \in {"ending", "done"} => reader'[s] \in {"ending", "done"},
         m[1] = "ack" => reader'[s] # "none",
         m[1] = "refused" => opener'[s] = "done" /\ reader'[s] = "none",
         m[1] = "close" => reader'[s] \in {"ending", "done"},
         m[1] = "data" => /\ reader[s] = "reading" /\ reader'[s] = "reading"
                          /\ read'[s] = read[s] + 1 /\ m[3] = read[s] + 1,
         m[1] # "data" => read'[s] = read[s],
         m[1] # "ack" => /\ reader'[s] # "none" => reader[s] # "none"
                         /\ opener'[s] = "done" /\ conn[s] = "open" => opener[s] = "done"
  PROVE  Queue(s)'
<1>0. PICK N : N = Len(toPage')
  OBVIOUS
<1>1. /\ Len(toPage) \in Nat /\ N = Len(toPage) + 1
      /\ \A i \in 1..Len(toPage) : i \in 1..N /\ toPage'[i] = toPage[i]
      /\ toPage'[N] = m /\ N \in 1..N
      /\ \A i \in 1..N : i \in 1..Len(toPage) \/ i = N
  BY <1>0, AddedIs
<1>2. \A type : \A i \in 1..Len(toPage) : Is(i, type, s) => Is(i, type, s)'
  BY <1>0, <1>1 DEF Is
<1>3. \A type : \A i \in 1..N :
        Is(i, type, s)' => \/ Is(i, type, s) /\ toPage'[i] = toPage[i] /\ i \in 1..Len(toPage)
                           \/ i = N /\ m[1] = type
  BY <1>0, <1>1 DEF Is
<1>4. \A type : m[1] = type => Is(N, type, s)'
  BY <1>0, <1>1 DEF Is
<1>5. \A i \in 1..N : Is(i, "ack", s)' => reader'[s] # "none"
  BY <1>3 DEF Queue
<1>6. \A i \in 1..N : Is(i, "refused", s)' => opener'[s] = "done" /\ reader'[s] = "none"
  BY <1>3 DEF Queue
<1>7. \A i \in 1..N : Is(i, "data", s)' =>
       /\ reader'[s] # "none" /\ toPage'[i][3] <= read'[s]
       /\ InConnections(s)' => Len(got'[s]) < toPage'[i][3]
       /\ InConnections(s)' /\ ~opened'[s] => \E j \in 1..N : j < i /\ Is(j, "ack", s)'
  <2> SUFFICES ASSUME NEW i \in 1..N, Is(i, "data", s)'
               PROVE  /\ reader'[s] # "none" /\ toPage'[i][3] <= read'[s]
                      /\ InConnections(s)' => Len(got'[s]) < toPage'[i][3]
                      /\ InConnections(s)' /\ ~opened'[s] => \E j \in 1..N : j < i /\ Is(j, "ack", s)'
    OBVIOUS
  <2>1. InConnections(s)' <=> InConnections(s)
    BY DEF InConnections
  <2>2. CASE Is(i, "data", s) /\ toPage'[i] = toPage[i] /\ i \in 1..Len(toPage)
    <3>1. /\ reader[s] # "none" /\ toPage[i][3] <= read[s]
          /\ InConnections(s) => Len(got[s]) < toPage[i][3]
          /\ InConnections(s) /\ ~opened[s] => \E j \in 1..Len(toPage) : j < i /\ Is(j, "ack", s)
      BY <2>2 DEF Queue
    <3>2. toPage[i][3] \in Nat
      <4>1. toPage[i] \in PageMessage
        BY <1>1, <2>2, ElementOfSeq DEF Types
      <4>2. QED BY <4>1 DEF PageMessage, ToPage
    <3>3. toPage[i][3] <= read'[s]
      BY <3>1, <3>2
    <3>4. QED BY <1>1, <1>2, <2>1, <2>2, <3>1, <3>3
  <2>3. CASE i = N /\ m[1] = "data"
    <3>1. toPage'[i][3] = read[s] + 1
      BY <1>1, <2>3
    <3>2. InConnections(s) /\ ~opened[s] => \E j \in 1..Len(toPage) : Is(j, "ack", s)
      BY <2>3 DEF Queue
    <3>3. InConnections(s) /\ ~opened[s] => \E j \in 1..N : j < i /\ Is(j, "ack", s)'
      BY <1>1, <1>2, <2>3, <3>2
    <3>4. QED BY <2>1, <2>3, <3>1, <3>3 DEF Life
  <2>4. QED BY <1>3, <2>2, <2>3
<1>8. \A i \in 1..N : Is(i, "close", s)' =>
       /\ reader'[s] \in {"ending", "done"}
       /\ \A j \in 1..N : Is(j, "data", s)' => j < i
  <2> SUFFICES ASSUME NEW i \in 1..N, Is(i, "close", s)'
               PROVE  /\ reader'[s] \in {"ending", "done"}
                      /\ \A j \in 1..N : Is(j, "data", s)' => j < i
    OBVIOUS
  <2>1. CASE Is(i, "close", s) /\ i \in 1..Len(toPage)
    <3>1. reader[s] \in {"ending", "done"} /\ \A j \in 1..Len(toPage) : Is(j, "data", s) => j < i
      BY <2>1 DEF Queue
    <3>2. m[1] # "data"
      BY <3>1
    <3>3. QED BY <1>3, <3>1, <3>2
  <2>2. CASE i = N /\ m[1] = "close"
    <3>1. \A j \in 1..N : Is(j, "data", s)' => j \in 1..Len(toPage)
      BY <1>3, <2>2
    <3>2. QED BY <1>1, <2>2, <3>1
  <2>3. QED BY <1>3, <2>1, <2>2
<1>9. \A i, j \in 1..N :
       Is(i, "data", s)' /\ Is(j, "data", s)' /\ i < j => toPage'[i][3] < toPage'[j][3]
  <2> SUFFICES ASSUME NEW i \in 1..N, NEW j \in 1..N, Is(i, "data", s)', Is(j, "data", s)', i < j
               PROVE  toPage'[i][3] < toPage'[j][3]
    OBVIOUS
  <2>1. Is(i, "data", s) /\ toPage'[i] = toPage[i] /\ i \in 1..Len(toPage)
    BY <1>1, <1>3
  <2>2. toPage[i][3] \in Nat /\ toPage[i][3] <= read[s]
    <3>1. toPage[i] \in PageMessage
      BY <2>1, ElementOfSeq DEF Types
    <3>2. QED BY <2>1, <3>1 DEF PageMessage, ToPage, Queue
  <2>3. CASE Is(j, "data", s) /\ toPage'[j] = toPage[j] /\ j \in 1..Len(toPage)
    BY <2>1, <2>3 DEF Queue
  <2>4. CASE j = N /\ m[1] = "data"
    BY <1>1, <2>1, <2>2, <2>4
  <2>5. QED BY <1>3, <2>3, <2>4
<1>10. InConnections(s)' =>
       \A k \in Len(got'[s])+1..read'[s] : \E i \in 1..N : Is(i, "data", s)' /\ toPage'[i][3] = k
  <2> SUFFICES ASSUME InConnections(s)', NEW k \in Len(got[s])+1..read'[s]
               PROVE  \E i \in 1..N : Is(i, "data", s)' /\ toPage'[i][3] = k
    OBVIOUS
  <2>1. InConnections(s)
    BY DEF InConnections
  <2>2. CASE k \in Len(got[s])+1..read[s]
    <3>1. PICK i \in 1..Len(toPage) : Is(i, "data", s) /\ toPage[i][3] = k
      BY <2>1, <2>2 DEF Queue
    <3>2. QED BY <1>1, <1>2, <3>1
  <2>3. CASE k \notin Len(got[s])+1..read[s]
    <3>1. m[1] = "data" /\ k = read[s] + 1
      BY <2>3
    <3>2. QED BY <1>1, <1>4, <3>1
  <2>4. QED BY <2>2, <2>3
<1>11. (m[1] = "ack" \/ \E i \in 1..Len(toPage) : Is(i, "ack", s)) => \E i \in 1..N : Is(i, "ack", s)'
  BY <1>1, <1>2, <1>4
<1>12. InConnections(s)' /\ reader'[s] # "none" /\ ~opened'[s] => \E i \in 1..N : Is(i, "ack", s)'
  <2>1. InConnections(s)' <=> InConnections(s)
    BY DEF InConnections
  <2>2. QED BY <1>11, <2>1 DEF Queue
<1>13. page'[s] = "closing" /\ conn'[s] = "open" /\ opener'[s] = "done" =>
         <<"close", s, 0>> \in toAgent' \/ \E i \in 1..N : Is(i, "ack", s)'
  BY <1>11 DEF Queue
<1> HIDE DEF Is, InConnections
<1>14. QED BY <1>0, <1>5, <1>6, <1>7, <1>8, <1>9, <1>10, <1>12, <1>13 DEF Queue

LEMMA QueueDown == ASSUME NEW s \in Sockets, toPage' = <<>>, link' # "up" PROVE Queue(s)'
<1>1. 1..Len(toPage') = {}
  OBVIOUS
<1>2. QED BY <1>1 DEF Queue, Is

LEMMA SocketTypes ==
  ASSUME Types, NEW s \in Sockets
  PROVE  read[s] \in Nat /\ read[s] <= MaxData /\ got[s] \in Seq(1..MaxData) /\ Len(got[s]) \in Nat
<1>1. got[s] \in Seq(1..MaxData) /\ read[s] \in 0..MaxData
  BY DEF Types, TypeOK
<1>2. QED BY <1>1, LenProperties, WebProxyAssumption

\* What is sent concerns no other socket.
LEMMA SentToOthers ==
  ASSUME Types, NEW type, NEW id, NEW n, Send(type, id, n), <<type, id, n>> \in PageMessage,
         link' = link, peer' = peer
  PROVE  /\ \A z \in Sockets : z # id \/ type \notin {"ack", "refused", "data", "close"} => OtherSocketQueue(z)
         /\ \A q \in Requests : q # id \/ type # "chunk" => OtherRequestQueue(q)
         /\ toPage' \in Seq(PageMessage) /\ toPage' \in Seq(ToPage) /\ (link # "up" => toPage' = <<>>)
<1>1. toPage' = toPage \/ Adds(<<type, id, n>>)
  BY SendIs
<1>2. PICK m : m = <<type, id, n>>
  OBVIOUS
<1>3. toPage' = toPage \/ Adds(m)
  BY <1>1, <1>2
<1>4. m[1] = type /\ m[2] = id
  BY <1>2
<1>5. \A z \in Sockets : z # id \/ type \notin {"ack", "refused", "data", "close"} => OtherSocketQueue(z)
  BY <1>3, <1>4 DEF OtherSocketQueue, ForSocket
<1>6. \A q \in Requests : q # id \/ type # "chunk" => OtherRequestQueue(q)
  BY <1>3, <1>4 DEF OtherRequestQueue, ForRequest
<1>7. QED BY <1>5, <1>6, SendIs, Wider

LEMMA MessageIs ==
  /\ \A s \in Sockets, type \in {"ack", "refused", "close", "error"} : <<type, s, 0>> \in PageMessage
  /\ \A s \in Sockets, n \in 1..MaxData : <<"data", s, n>> \in PageMessage
  /\ \A q \in Requests : <<"failure", q, 0>> \in PageMessage
  /\ \A q \in Requests : \A n \in 0..LastChunk(q) : <<"chunk", q, n>> \in PageMessage
<1>1. MaxData \in Nat
  BY WebProxyAssumption
<1>2. \A q \in Requests : LastChunk(q) \in Nat
  BY LastChunkNat
<1>3. QED BY <1>1, <1>2 DEF PageMessage, ToPage, Id

\* closeWSConn leaves no open connection, whoever calls it.
LEMMA CloseConnIs ==
  ASSUME Types, NEW s \in Sockets, Life(s), CloseWSConn(s)
  PROVE  /\ wsConns' \subseteq Sockets /\ conn' \in [Sockets -> {"none", "open", "closed"}]
         /\ s \notin wsConns' /\ conn'[s] # "open"
         /\ conn'[s] = conn[s] \/ (conn[s] = "open" /\ conn'[s] = "closed")
         /\ \A z \in Sockets : z # s => conn'[z] = conn[z] /\ (z \in wsConns' <=> z \in wsConns)
<1>1. /\ wsConns \subseteq Sockets /\ conn \in [Sockets -> {"none", "open", "closed"}]
      /\ s \in wsConns <=> conn[s] = "open"
  BY DEF Types, TypeOK, Life
<1>2. /\ wsConns' = wsConns \ {s}
      /\ conn' = IF s \in wsConns THEN [conn EXCEPT ![s] = "closed"] ELSE conn
  BY DEF CloseWSConn
<1>3. CASE s \in wsConns
  BY <1>1, <1>2, <1>3
<1>4. CASE s \notin wsConns
  BY <1>1, <1>2, <1>4
<1>5. QED BY <1>3, <1>4

\* A goroutine of socket s does something that sends nothing.
LEMMA QuietStepKeeps ==
  ASSUME ProxyInv, NEW s \in Sockets, Types', Life(s)', Queue(s)',
         KeepPage, UNCHANGED agentRequests, toPage' = toPage, link' = link,
         toAgent' \subseteq toAgent, \A m \in toAgent : m[2] # s => m \in toAgent',
         \A z \in Sockets \ {s} :
           /\ opener'[z] = opener[z] /\ conn'[z] = conn[z] /\ reader'[z] = reader[z] /\ read'[z] = read[z]
           /\ z \in wsConns' <=> z \in wsConns
  PROVE  ProxyInv'
<1>1. connected' = connected /\ UNCHANGED pageSockets /\ UNCHANGED pageRequests
  BY DEF KeepPage
<1>2. ASSUME NEW z \in Sockets, z # s PROVE SocketOther(z)
  <2>1. <<"close", z, 0>> \in toAgent => <<"close", z, 0>> \in toAgent'
    <3>1. PICK m : m = <<"close", z, 0>>
      OBVIOUS
    <3>2. m[2] # s
      BY <1>2, <3>1
    <3>3. QED BY <3>1, <3>2
  <2>2. SameSocket(z)
    BY <1>1, <1>2 DEF SameSocket, pageSockets
  <2>3. SameWay(z)
    BY <2>1 DEF SameWay
  <2>4. QED BY <2>2, <2>3 DEF SocketOther, OtherSocketQueue
<1>3. ASSUME NEW q \in Requests PROVE RequestOther(q)
  BY <1>1 DEF RequestOther, SameRequest, OtherRequestQueue, pageRequests, agentRequests
<1>4. QED BY <1>2, <1>3, Kept

LEMMA HandleOpenKeeps == ASSUME ProxyInv, NEW s \in Sockets, HandleWSOpen(s) PROVE ProxyInv'
<1>1. Types /\ Life(s) /\ Queue(s)
  BY DEF ProxyInv
<1>2. /\ <<"open", s, 0>> \in toAgent /\ toAgent' = toAgent \ {<<"open", s, 0>>}
      /\ opener' = [opener EXCEPT ![s] = "dialing"]
      /\ UNCHANGED <<wsConns, conn, reader, read, failed>>
      /\ connected' = connected /\ UNCHANGED pageSockets /\ UNCHANGED pageRequests
      /\ UNCHANGED agentRequests /\ UNCHANGED session /\ toPage' = toPage /\ link' = link
  BY DEF HandleWSOpen, Handles, KeepPage
<1>4. Types'
  BY <1>1, <1>2 DEF Types, TypeOK, pageSockets, pageRequests, agentRequests, session
<1>5. opener[s] = "none" /\ opener'[s] = "dialing" /\ <<"open", s, 0>> \notin toAgent'
  BY <1>1, <1>2 DEF Types, TypeOK, Life
<1>6. Life(s)'
  BY <1>1, <1>2, <1>5 DEF Life, pageSockets
<1>7. Queue(s)'
  BY <1>1, <1>2, <1>5 DEF Queue, Is, InConnections, Life, pageSockets
<1>8. toAgent' \subseteq toAgent /\ \A m \in toAgent : m[2] # s => m \in toAgent'
  BY <1>2
<1>9. \A z \in Sockets \ {s} :
        /\ opener'[z] = opener[z] /\ conn'[z] = conn[z] /\ reader'[z] = reader[z] /\ read'[z] = read[z]
        /\ z \in wsConns' <=> z \in wsConns
  BY <1>1, <1>2 DEF Types, TypeOK
<1>10. QED BY <1>2, <1>4, <1>6, <1>7, <1>8, <1>9, QuietStepKeeps DEF KeepPage

LEMMA DialedKeeps == ASSUME ProxyInv, NEW s \in Sockets, Dialed(s) PROVE ProxyInv'
<1>1. Types /\ Life(s) /\ Queue(s)
  BY DEF ProxyInv
<1>2. /\ opener[s] = "dialing" /\ opener' = [opener EXCEPT ![s] = "registered"]
      /\ wsConns' = wsConns \cup {s} /\ conn' = [conn EXCEPT ![s] = "open"]
      /\ UNCHANGED <<reader, read, failed>> /\ toAgent' = toAgent
      /\ connected' = connected /\ UNCHANGED pageSockets /\ UNCHANGED pageRequests
      /\ UNCHANGED agentRequests /\ UNCHANGED session /\ toPage' = toPage /\ link' = link
  BY DEF Dialed, Handles, KeepPage
<1>4. Types'
  BY <1>1, <1>2 DEF Types, TypeOK, pageSockets, pageRequests, agentRequests, session
<1>5. opener'[s] = "registered" /\ conn'[s] = "open" /\ reader[s] = "none"
  BY <1>1, <1>2 DEF Types, TypeOK, Life
<1>6. Life(s)'
  BY <1>1, <1>2, <1>5 DEF Life, pageSockets
<1>7. Queue(s)'
  BY <1>1, <1>2, <1>5 DEF Queue, Is, InConnections, Life, pageSockets
<1>8. toAgent' \subseteq toAgent /\ \A m \in toAgent : m[2] # s => m \in toAgent'
  BY <1>2
<1>9. \A z \in Sockets \ {s} :
        /\ opener'[z] = opener[z] /\ conn'[z] = conn[z] /\ reader'[z] = reader[z] /\ read'[z] = read[z]
        /\ z \in wsConns' <=> z \in wsConns
  BY <1>1, <1>2 DEF Types, TypeOK
<1>10. QED BY <1>2, <1>4, <1>6, <1>7, <1>8, <1>9, QuietStepKeeps DEF KeepPage

LEMMA WriteFrameKeeps == ASSUME ProxyInv, NEW s \in Sockets, NEW n, WriteFrame(s, n) PROVE ProxyInv'
<1>1. Types /\ Life(s) /\ Queue(s)
  BY DEF ProxyInv
<1>2. /\ toAgent' = toAgent \ {<<"data", s, n>>}
      /\ UNCHANGED <<opener, wsConns, conn, reader, read, failed>>
      /\ connected' = connected /\ UNCHANGED pageSockets /\ UNCHANGED pageRequests
      /\ UNCHANGED agentRequests /\ UNCHANGED session /\ toPage' = toPage /\ link' = link
  BY DEF WriteFrame, Handles, KeepPage, agentSockets
<1>4. Types'
  BY <1>1, <1>2 DEF Types, TypeOK, pageSockets, pageRequests, agentRequests, session
<1>5. \A type \in {"open", "close"}, z \in Sockets : <<type, z, 0>> \in toAgent' <=> <<type, z, 0>> \in toAgent
  BY <1>1, <1>2 DEF Types, TypeOK, Life
<1>6. Life(s)'
  BY <1>1, <1>2, <1>5 DEF Life, pageSockets
<1>7. Queue(s)'
  BY <1>1, <1>2, <1>5 DEF Queue, Is, InConnections, Life, pageSockets
<1>8. toAgent' \subseteq toAgent /\ \A m \in toAgent : m[2] # s => m \in toAgent'
  BY <1>2
<1>9. \A z \in Sockets \ {s} :
        /\ opener'[z] = opener[z] /\ conn'[z] = conn[z] /\ reader'[z] = reader[z] /\ read'[z] = read[z]
        /\ z \in wsConns' <=> z \in wsConns
  BY <1>1, <1>2 DEF Types, TypeOK
<1>10. QED BY <1>2, <1>4, <1>6, <1>7, <1>8, <1>9, QuietStepKeeps DEF KeepPage

LEMMA CloseFailedKeeps == ASSUME ProxyInv, NEW s \in Sockets, CloseFailed(s) PROVE ProxyInv'
<1>1. Types /\ Life(s) /\ Queue(s)
  BY DEF ProxyInv
<1>2. /\ CloseWSConn(s) /\ failed' = failed \ {s}
      /\ UNCHANGED <<opener, reader, read>> /\ toAgent' = toAgent
      /\ connected' = connected /\ UNCHANGED pageSockets /\ UNCHANGED pageRequests
      /\ UNCHANGED agentRequests /\ UNCHANGED session /\ toPage' = toPage /\ link' = link
  BY DEF CloseFailed, Handles, KeepPage
<1>3. /\ wsConns' \subseteq Sockets /\ conn' \in [Sockets -> {"none", "open", "closed"}]
      /\ s \notin wsConns' /\ conn'[s] # "open"
      /\ conn'[s] = conn[s] \/ (conn[s] = "open" /\ conn'[s] = "closed")
      /\ \A z \in Sockets : z # s => conn'[z] = conn[z] /\ (z \in wsConns' <=> z \in wsConns)
  BY <1>1, <1>2, CloseConnIs
<1>4. Types'
  BY <1>1, <1>2, <1>3 DEF Types, TypeOK, pageSockets, pageRequests, agentRequests, session
<1>5. conn'[s] = "closed" => conn[s] # "none"
  BY <1>1, <1>2, <1>3 DEF Types, TypeOK, Life
<1>6. Life(s)'
  BY <1>1, <1>2, <1>3, <1>5 DEF Life, pageSockets
<1>7. Queue(s)'
  BY <1>1, <1>2, <1>3, <1>5 DEF Queue, Is, InConnections, Life, pageSockets
<1>8. toAgent' \subseteq toAgent /\ \A m \in toAgent : m[2] # s => m \in toAgent'
  BY <1>2
<1>9. \A z \in Sockets \ {s} :
        /\ opener'[z] = opener[z] /\ conn'[z] = conn[z] /\ reader'[z] = reader[z] /\ read'[z] = read[z]
        /\ z \in wsConns' <=> z \in wsConns
  BY <1>1, <1>2, <1>3 DEF Types, TypeOK
<1>10. QED BY <1>2, <1>4, <1>6, <1>7, <1>8, <1>9, QuietStepKeeps DEF KeepPage

LEMMA PageClosesKeeps == ASSUME ProxyInv, NEW s \in Sockets, PageCloses(s) PROVE ProxyInv'
<1>1. Types /\ Life(s) /\ Queue(s)
  BY DEF ProxyInv
<1>2. /\ CloseWSConn(s) /\ toAgent' = toAgent \ {<<"close", s, 0>>}
      /\ UNCHANGED <<opener, reader, read, failed>>
      /\ connected' = connected /\ UNCHANGED pageSockets /\ UNCHANGED pageRequests
      /\ UNCHANGED agentRequests /\ UNCHANGED session /\ toPage' = toPage /\ link' = link
  BY DEF PageCloses, Handles, KeepPage
<1>3. /\ wsConns' \subseteq Sockets /\ conn' \in [Sockets -> {"none", "open", "closed"}]
      /\ s \notin wsConns' /\ conn'[s] # "open"
      /\ conn'[s] = conn[s] \/ (conn[s] = "open" /\ conn'[s] = "closed")
      /\ \A z \in Sockets : z # s => conn'[z] = conn[z] /\ (z \in wsConns' <=> z \in wsConns)
  BY <1>1, <1>2, CloseConnIs
<1>4. Types'
  BY <1>1, <1>2, <1>3 DEF Types, TypeOK, pageSockets, pageRequests, agentRequests, session
<1>5. conn'[s] = "closed" => conn[s] # "none"
  BY <1>1, <1>2, <1>3 DEF Types, TypeOK, Life
<1>6. Life(s)'
  BY <1>1, <1>2, <1>3, <1>5 DEF Life, pageSockets
<1>7. Queue(s)'
  BY <1>1, <1>2, <1>3, <1>5 DEF Queue, Is, InConnections, Life, pageSockets
<1>8. toAgent' \subseteq toAgent /\ \A m \in toAgent : m[2] # s => m \in toAgent'
  BY <1>2
<1>9. \A z \in Sockets \ {s} :
        /\ opener'[z] = opener[z] /\ conn'[z] = conn[z] /\ reader'[z] = reader[z] /\ read'[z] = read[z]
        /\ z \in wsConns' <=> z \in wsConns
  BY <1>1, <1>2, <1>3 DEF Types, TypeOK
<1>10. QED BY <1>2, <1>4, <1>6, <1>7, <1>8, <1>9, QuietStepKeeps DEF KeepPage

LEMMA ReadReturnsKeeps == ASSUME ProxyInv, NEW s \in Sockets, ReadLoopReturns(s) PROVE ProxyInv'
<1>1. Types /\ Life(s) /\ Queue(s)
  BY DEF ProxyInv
<1>2. /\ CloseWSConn(s) /\ reader[s] = "ending" /\ reader' = [reader EXCEPT ![s] = "done"]
      /\ UNCHANGED <<opener, read, failed>> /\ toAgent' = toAgent
      /\ connected' = connected /\ UNCHANGED pageSockets /\ UNCHANGED pageRequests
      /\ UNCHANGED agentRequests /\ UNCHANGED session /\ toPage' = toPage /\ link' = link
  BY DEF ReadLoopReturns, Handles, KeepPage
<1>3. /\ wsConns' \subseteq Sockets /\ conn' \in [Sockets -> {"none", "open", "closed"}]
      /\ s \notin wsConns' /\ conn'[s] # "open"
      /\ conn'[s] = conn[s] \/ (conn[s] = "open" /\ conn'[s] = "closed")
      /\ \A z \in Sockets : z # s => conn'[z] = conn[z] /\ (z \in wsConns' <=> z \in wsConns)
  BY <1>1, <1>2, CloseConnIs
<1>4. Types'
  BY <1>1, <1>2, <1>3 DEF Types, TypeOK, pageSockets, pageRequests, agentRequests, session
<1>5. reader'[s] = "done" /\ (conn'[s] = "closed" => conn[s] # "none")
  BY <1>1, <1>2, <1>3 DEF Types, TypeOK, Life
<1>6. Life(s)'
  BY <1>1, <1>2, <1>3, <1>5 DEF Life, pageSockets
<1>7. Queue(s)'
  BY <1>1, <1>2, <1>3, <1>5 DEF Queue, Is, InConnections, Life, pageSockets
<1>8. toAgent' \subseteq toAgent /\ \A m \in toAgent : m[2] # s => m \in toAgent'
  BY <1>2
<1>9. \A z \in Sockets \ {s} :
        /\ opener'[z] = opener[z] /\ conn'[z] = conn[z] /\ reader'[z] = reader[z] /\ read'[z] = read[z]
        /\ z \in wsConns' <=> z \in wsConns
  BY <1>1, <1>2, <1>3 DEF Types, TypeOK
<1>10. QED BY <1>2, <1>4, <1>6, <1>7, <1>8, <1>9, QuietStepKeeps DEF KeepPage

\* A goroutine of socket s sends the page a message.
LEMMA LoudStepKeeps ==
  ASSUME ProxyInv, NEW s \in Sockets, NEW type, NEW n, Send(type, s, n), <<type, s, n>> \in PageMessage,
         type \in {"ack", "refused", "data", "close", "error"},
         Types', Life(s)', link = "up" => Queue(s)',
         KeepPage, UNCHANGED agentRequests, link' = link, peer' = peer,
         toAgent' \subseteq toAgent, \A m \in toAgent : m[2] # s => m \in toAgent',
         \A z \in Sockets \ {s} :
           /\ opener'[z] = opener[z] /\ conn'[z] = conn[z] /\ reader'[z] = reader[z] /\ read'[z] = read[z]
           /\ z \in wsConns' <=> z \in wsConns
  PROVE  ProxyInv'
<1>1. connected' = connected /\ UNCHANGED pageSockets /\ UNCHANGED pageRequests
  BY DEF KeepPage
<1>2. Types
  BY DEF ProxyInv
<1>3. /\ \A z \in Sockets : z # s => OtherSocketQueue(z)
      /\ \A q \in Requests : OtherRequestQueue(q)
      /\ link # "up" => toPage' = <<>>
  BY <1>2, SentToOthers
<1>4. Queue(s)'
  BY <1>3, QueueDown
<1>5. ASSUME NEW z \in Sockets, z # s PROVE SocketOther(z)
  <2>1. <<"close", z, 0>> \in toAgent => <<"close", z, 0>> \in toAgent'
    <3>1. PICK m : m = <<"close", z, 0>>
      OBVIOUS
    <3>2. m[2] # s
      BY <1>5, <3>1
    <3>3. QED BY <3>1, <3>2
  <2>2. SameSocket(z)
    BY <1>1, <1>5 DEF SameSocket, pageSockets
  <2>3. SameWay(z)
    BY <2>1 DEF SameWay
  <2>4. QED BY <1>3, <1>5, <2>2, <2>3 DEF SocketOther
<1>6. ASSUME NEW q \in Requests PROVE RequestOther(q)
  BY <1>1, <1>3 DEF RequestOther, SameRequest, pageRequests, agentRequests
<1>7. QED BY <1>4, <1>5, <1>6, Kept

LEMMA DialFailsKeeps == ASSUME ProxyInv, NEW s \in Sockets, DialFails(s) PROVE ProxyInv'
<1>1. Types /\ Life(s) /\ Queue(s)
  BY DEF ProxyInv
<1>2. /\ opener[s] = "dialing" /\ opener' = [opener EXCEPT ![s] = "done"] /\ toAgent' = toAgent
      /\ UNCHANGED <<wsConns, conn, reader, read, failed>>
      /\ connected' = connected /\ UNCHANGED pageSockets /\ UNCHANGED pageRequests
      /\ UNCHANGED agentRequests /\ UNCHANGED session /\ link' = link
      /\ Send("refused", s, 0)
  BY DEF DialFails, KeepPage
<1>3. "refused" \in {"ack", "refused", "data", "close", "error"}
  OBVIOUS
<1>4. <<"refused", s, 0>> \in PageMessage
  BY <1>3, MessageIs
<1>5. /\ peer' = peer /\ toPage' \in Seq(PageMessage) /\ toPage' \in Seq(ToPage)
      /\ link # "up" => toPage' = <<>>
  BY <1>1, <1>2, <1>4, SentToOthers DEF session
<1>6. opener'[s] = "done" /\ reader[s] = "none" /\ conn[s] = "none"
  BY <1>1, <1>2 DEF Types, TypeOK, Life
<1>7. Types'
  BY <1>1, <1>2, <1>5, <1>6 DEF Types, TypeOK, pageSockets, pageRequests, agentRequests, session
<1>8. Life(s)'
  BY <1>1, <1>2, <1>3, <1>6, SocketTypes DEF Life, pageSockets
<1>9. ASSUME link = "up" PROVE Queue(s)'
  <2>1. PICK m : m = <<"refused", s, 0>>
    OBVIOUS
  <2>2. Adds(m) /\ m[1] = "refused" /\ m[2] = s /\ m[3] = 0
    BY <1>1, <1>2, <1>4, <1>5, <1>9, <2>1, SendIs
  <2>3. read[s] \in Nat /\ Len(got[s]) \in Nat
    BY <1>1, SocketTypes
  <2>4. /\ page' = page /\ opened' = opened /\ got' = got
        /\ <<"close", s, 0>> \in toAgent => <<"close", s, 0>> \in toAgent'
    BY <1>2 DEF pageSockets
  <2>5. peer # "none"
    BY <1>1, <1>9 DEF Types
  <2>6. QED BY <1>1, <1>2, <1>3, <1>6, <1>9, <2>2, <2>3, <2>4, <2>5, QueueGrows DEF Life, SendFails
<1>10. toAgent' \subseteq toAgent /\ \A m \in toAgent : m[2] # s => m \in toAgent'
  BY <1>2
<1>11. \A z \in Sockets \ {s} :
        /\ opener'[z] = opener[z] /\ conn'[z] = conn[z] /\ reader'[z] = reader[z] /\ read'[z] = read[z]
        /\ z \in wsConns' <=> z \in wsConns
  BY <1>1, <1>2 DEF Types, TypeOK
<1>12. QED BY <1>2, <1>3, <1>4, <1>5, <1>7, <1>8, <1>9, <1>10, <1>11, LoudStepKeeps DEF KeepPage

LEMMA SendAckKeeps == ASSUME ProxyInv, NEW s \in Sockets, SendWSOpenAck(s) PROVE ProxyInv'
<1>1. Types /\ Life(s) /\ Queue(s)
  BY DEF ProxyInv
<1>2. /\ opener[s] = "registered" /\ opener' = [opener EXCEPT ![s] = "done"] /\ toAgent' = toAgent
      /\ reader' = [reader EXCEPT ![s] = "reading"]
      /\ UNCHANGED <<wsConns, conn, read, failed>>
      /\ connected' = connected /\ UNCHANGED pageSockets /\ UNCHANGED pageRequests
      /\ UNCHANGED agentRequests /\ UNCHANGED session /\ link' = link
      /\ Send("ack", s, 0)
  BY DEF SendWSOpenAck, KeepPage
<1>3. "ack" \in {"ack", "refused", "data", "close", "error"}
  OBVIOUS
<1>4. <<"ack", s, 0>> \in PageMessage
  BY <1>3, MessageIs
<1>5. /\ peer' = peer /\ toPage' \in Seq(PageMessage) /\ toPage' \in Seq(ToPage)
      /\ link # "up" => toPage' = <<>>
  BY <1>1, <1>2, <1>4, SentToOthers DEF session
<1>6. opener'[s] = "done" /\ reader[s] = "none" /\ reader'[s] = "reading"
  BY <1>1, <1>2 DEF Types, TypeOK, Life
<1>7. Types'
  BY <1>1, <1>2, <1>5, <1>6 DEF Types, TypeOK, pageSockets, pageRequests, agentRequests, session
<1>8. Life(s)'
  BY <1>1, <1>2, <1>3, <1>6, SocketTypes DEF Life, pageSockets
<1>9. ASSUME link = "up" PROVE Queue(s)'
  <2>1. PICK m : m = <<"ack", s, 0>>
    OBVIOUS
  <2>2. Adds(m) /\ m[1] = "ack" /\ m[2] = s /\ m[3] = 0
    BY <1>1, <1>2, <1>4, <1>5, <1>9, <2>1, SendIs
  <2>3. read[s] \in Nat /\ Len(got[s]) \in Nat
    BY <1>1, SocketTypes
  <2>4. /\ page' = page /\ opened' = opened /\ got' = got
        /\ <<"close", s, 0>> \in toAgent => <<"close", s, 0>> \in toAgent'
    BY <1>2 DEF pageSockets
  <2>5. peer # "none"
    BY <1>1, <1>9 DEF Types
  <2>6. QED BY <1>1, <1>2, <1>3, <1>6, <1>9, <2>2, <2>3, <2>4, <2>5, QueueGrows DEF Life, SendFails
<1>10. toAgent' \subseteq toAgent /\ \A m \in toAgent : m[2] # s => m \in toAgent'
  BY <1>2
<1>11. \A z \in Sockets \ {s} :
        /\ opener'[z] = opener[z] /\ conn'[z] = conn[z] /\ reader'[z] = reader[z] /\ read'[z] = read[z]
        /\ z \in wsConns' <=> z \in wsConns
  BY <1>1, <1>2 DEF Types, TypeOK
<1>12. QED BY <1>2, <1>3, <1>4, <1>5, <1>7, <1>8, <1>9, <1>10, <1>11, LoudStepKeeps DEF KeepPage

LEMMA WriteFailsKeeps == ASSUME ProxyInv, NEW s \in Sockets, NEW n, WriteFails(s, n) PROVE ProxyInv'
<1>1. Types /\ Life(s) /\ Queue(s)
  BY DEF ProxyInv
<1>2. /\ toAgent' = toAgent \ {<<"data", s, n>>}
      /\ failed' = IF s \in wsConns THEN failed \cup {s} ELSE failed
      /\ UNCHANGED <<opener, wsConns, conn, reader, read>>
      /\ connected' = connected /\ UNCHANGED pageSockets /\ UNCHANGED pageRequests
      /\ UNCHANGED agentRequests /\ UNCHANGED session /\ link' = link
      /\ Send("error", s, 0)
  BY DEF WriteFails, Handles, KeepPage
<1>3. "error" \in {"ack", "refused", "data", "close", "error"}
  OBVIOUS
<1>4. <<"error", s, 0>> \in PageMessage
  BY <1>3, MessageIs
<1>5. /\ peer' = peer /\ toPage' \in Seq(PageMessage) /\ toPage' \in Seq(ToPage)
      /\ link # "up" => toPage' = <<>>
  BY <1>1, <1>2, <1>4, SentToOthers DEF session
<1>6. /\ failed' \subseteq Sockets
      /\ \A type \in {"open", "close"} : <<type, s, 0>> \in toAgent' <=> <<type, s, 0>> \in toAgent
  BY <1>1, <1>2 DEF Types, TypeOK
<1>7. Types'
  BY <1>1, <1>2, <1>5, <1>6 DEF Types, TypeOK, pageSockets, pageRequests, agentRequests, session
<1>8. Life(s)'
  BY <1>1, <1>2, <1>3, <1>6, SocketTypes DEF Life, pageSockets
<1>9. ASSUME link = "up" PROVE Queue(s)'
  <2>1. PICK m : m = <<"error", s, 0>>
    OBVIOUS
  <2>2. Adds(m) /\ m[1] = "error" /\ m[2] = s /\ m[3] = 0
    BY <1>1, <1>2, <1>4, <1>5, <1>9, <2>1, SendIs
  <2>3. read[s] \in Nat /\ Len(got[s]) \in Nat
    BY <1>1, SocketTypes
  <2>4. /\ page' = page /\ opened' = opened /\ got' = got
        /\ <<"close", s, 0>> \in toAgent => <<"close", s, 0>> \in toAgent'
    BY <1>2 DEF pageSockets
  <2>5. peer # "none"
    BY <1>1, <1>9 DEF Types
  <2>6. QED BY <1>1, <1>2, <1>3, <1>6, <1>9, <2>2, <2>3, <2>4, <2>5, QueueGrows DEF Life, SendFails
<1>10. toAgent' \subseteq toAgent /\ \A m \in toAgent : m[2] # s => m \in toAgent'
  BY <1>2
<1>11. \A z \in Sockets \ {s} :
        /\ opener'[z] = opener[z] /\ conn'[z] = conn[z] /\ reader'[z] = reader[z] /\ read'[z] = read[z]
        /\ z \in wsConns' <=> z \in wsConns
  BY <1>1, <1>2 DEF Types, TypeOK
<1>12. QED BY <1>2, <1>3, <1>4, <1>5, <1>7, <1>8, <1>9, <1>10, <1>11, LoudStepKeeps DEF KeepPage

LEMMA ReadDataKeeps == ASSUME ProxyInv, NEW s \in Sockets, ReadData(s) PROVE ProxyInv'
<1>1. Types /\ Life(s) /\ Queue(s)
  BY DEF ProxyInv
<1>2. /\ reader[s] = "reading" /\ read[s] < MaxData /\ read' = [read EXCEPT ![s] = @ + 1]
      /\ reader' = IF SendFails THEN [reader EXCEPT ![s] = "ending"] ELSE reader
      /\ UNCHANGED <<opener, wsConns, conn, failed>> /\ toAgent' = toAgent
      /\ connected' = connected /\ UNCHANGED pageSockets /\ UNCHANGED pageRequests
      /\ UNCHANGED agentRequests /\ UNCHANGED session /\ link' = link
      /\ Send("data", s, read[s] + 1)
  BY DEF ReadData, KeepPage
<1>3. /\ "data" \in {"ack", "refused", "data", "close", "error"}
      /\ read[s] + 1 \in 1..MaxData
  BY <1>1, <1>2, SocketTypes, WebProxyAssumption
<1>4. <<"data", s, read[s] + 1>> \in PageMessage
  BY <1>3, MessageIs
<1>5. /\ peer' = peer /\ toPage' \in Seq(PageMessage) /\ toPage' \in Seq(ToPage)
      /\ link # "up" => toPage' = <<>>
  BY <1>1, <1>2, <1>4, SentToOthers DEF session
<1>6. /\ read' \in [Sockets -> 0..MaxData] /\ read'[s] = read[s] + 1
      /\ reader' \in [Sockets -> {"none", "reading", "ending", "done"}]
      /\ reader'[s] \in {"reading", "ending"} /\ (~SendFails => reader'[s] = "reading")
      /\ \A z \in Sockets : z # s => reader'[z] = reader[z]
  BY <1>1, <1>2, <1>3 DEF Types, TypeOK
<1>7. Types'
  BY <1>1, <1>2, <1>5, <1>6 DEF Types, TypeOK, pageSockets, pageRequests, agentRequests, session
<1>8. Life(s)'
  BY <1>1, <1>2, <1>3, <1>6, SocketTypes DEF Life, pageSockets
<1>9. ASSUME link = "up" PROVE Queue(s)'
  <2>1. PICK m : m = <<"data", s, read[s] + 1>>
    OBVIOUS
  <2>2. Adds(m) /\ m[1] = "data" /\ m[2] = s /\ m[3] = read[s] + 1
    BY <1>1, <1>2, <1>4, <1>5, <1>9, <2>1, SendIs
  <2>3. read[s] \in Nat /\ Len(got[s]) \in Nat
    BY <1>1, SocketTypes
  <2>4. /\ page' = page /\ opened' = opened /\ got' = got
        /\ <<"close", s, 0>> \in toAgent => <<"close", s, 0>> \in toAgent'
    BY <1>2 DEF pageSockets
  <2>5. peer # "none"
    BY <1>1, <1>9 DEF Types
  <2>6. QED BY <1>1, <1>2, <1>3, <1>6, <1>9, <2>2, <2>3, <2>4, <2>5, QueueGrows DEF Life, SendFails
<1>10. toAgent' \subseteq toAgent /\ \A m \in toAgent : m[2] # s => m \in toAgent'
  BY <1>2
<1>11. \A z \in Sockets \ {s} :
        /\ opener'[z] = opener[z] /\ conn'[z] = conn[z] /\ reader'[z] = reader[z] /\ read'[z] = read[z]
        /\ z \in wsConns' <=> z \in wsConns
  BY <1>1, <1>2 DEF Types, TypeOK
<1>12. QED BY <1>2, <1>3, <1>4, <1>5, <1>7, <1>8, <1>9, <1>10, <1>11, LoudStepKeeps DEF KeepPage

LEMMA ReadEndsKeeps == ASSUME ProxyInv, NEW s \in Sockets, NEW type \in {"close", "error"}, ReadEnds(s, type) PROVE ProxyInv'
<1>1. Types /\ Life(s) /\ Queue(s)
  BY DEF ProxyInv
<1>2. /\ reader[s] = "reading" /\ reader' = [reader EXCEPT ![s] = "ending"] /\ toAgent' = toAgent
      /\ UNCHANGED <<opener, wsConns, conn, read, failed>>
      /\ connected' = connected /\ UNCHANGED pageSockets /\ UNCHANGED pageRequests
      /\ UNCHANGED agentRequests /\ UNCHANGED session /\ link' = link
      /\ Send(type, s, 0)
  BY DEF ReadEnds, KeepPage
<1>3. type \in {"ack", "refused", "data", "close", "error"}
  OBVIOUS
<1>4. <<type, s, 0>> \in PageMessage
  BY <1>3, MessageIs
<1>5. /\ peer' = peer /\ toPage' \in Seq(PageMessage) /\ toPage' \in Seq(ToPage)
      /\ link # "up" => toPage' = <<>>
  BY <1>1, <1>2, <1>4, SentToOthers DEF session
<1>6. reader'[s] = "ending"
  BY <1>1, <1>2 DEF Types, TypeOK
<1>7. Types'
  BY <1>1, <1>2, <1>5, <1>6 DEF Types, TypeOK, pageSockets, pageRequests, agentRequests, session
<1>8. Life(s)'
  BY <1>1, <1>2, <1>3, <1>6, SocketTypes DEF Life, pageSockets
<1>9. ASSUME link = "up" PROVE Queue(s)'
  <2>1. PICK m : m = <<type, s, 0>>
    OBVIOUS
  <2>2. Adds(m) /\ m[1] = type /\ m[2] = s /\ m[3] = 0
    BY <1>1, <1>2, <1>4, <1>5, <1>9, <2>1, SendIs
  <2>3. read[s] \in Nat /\ Len(got[s]) \in Nat
    BY <1>1, SocketTypes
  <2>4. /\ page' = page /\ opened' = opened /\ got' = got
        /\ <<"close", s, 0>> \in toAgent => <<"close", s, 0>> \in toAgent'
    BY <1>2 DEF pageSockets
  <2>5. peer # "none"
    BY <1>1, <1>9 DEF Types
  <2>6. QED BY <1>1, <1>2, <1>3, <1>6, <1>9, <2>2, <2>3, <2>4, <2>5, QueueGrows DEF Life, SendFails
<1>10. toAgent' \subseteq toAgent /\ \A m \in toAgent : m[2] # s => m \in toAgent'
  BY <1>2
<1>11. \A z \in Sockets \ {s} :
        /\ opener'[z] = opener[z] /\ conn'[z] = conn[z] /\ reader'[z] = reader[z] /\ read'[z] = read[z]
        /\ z \in wsConns' <=> z \in wsConns
  BY <1>1, <1>2 DEF Types, TypeOK
<1>12. QED BY <1>2, <1>3, <1>4, <1>5, <1>7, <1>8, <1>9, <1>10, <1>11, LoudStepKeeps DEF KeepPage

-----------------------------------------------------------------------------
(* The answers to requests.                                                 *)

\* What a goroutine that answers request q leaves alone.
AnswersOnly(q) ==
  /\ connected' = connected /\ UNCHANGED pageSockets /\ UNCHANGED pageRequests
  /\ UNCHANGED agentSockets /\ peer' = peer /\ cleaning' = cleaning /\ link' = link
  /\ toAgent' = toAgent \/ toAgent' = toAgent \ {<<"http", q, 0>>}
  /\ answer' \in [Requests -> {"none", "fetching", "sending", "done"}]
  /\ next' \in [Requests -> Nat]
  /\ \A p \in Requests : p # q => answer'[p] = answer[p] /\ next'[p] = next[p]

LEMMA AnswerStepKeeps ==
  ASSUME ProxyInv, NEW q \in Requests, AnswersOnly(q), next'[q] \in 0..LastChunk(q),
         toPage' \in Seq(PageMessage), link # "up" => toPage' = <<>>,
         \A s \in Sockets : OtherSocketQueue(s),
         \A p \in Requests : p # q => OtherRequestQueue(p),
         Answer(q)'
  PROVE  ProxyInv'
<1>1. Types
  BY DEF ProxyInv
<1>2. Types'
  <2>1. /\ toAgent' \subseteq ToAgent /\ (link # "up" => toAgent' = {}) /\ toPage' \in Seq(ToPage)
        /\ link \in {"up", "lost"}
    BY <1>1, Wider DEF AnswersOnly, Types, TypeOK
  <2>2. \A p \in Requests : next'[p] \in 0..LastChunk(p)
    BY <1>1 DEF AnswersOnly, Types, TypeOK
  <2>3. QED BY <1>1, <2>1, <2>2 DEF AnswersOnly, Types, TypeOK, pageSockets, pageRequests, agentSockets
<1>3. ASSUME NEW s \in Sockets PROVE SocketOther(s)
  BY DEF SocketOther, SameSocket, SameWay, AnswersOnly, pageSockets, agentSockets
<1>4. ASSUME NEW p \in Requests, p # q PROVE RequestOther(p)
  BY <1>4 DEF RequestOther, SameRequest, AnswersOnly, pageRequests
<1>5. QED BY <1>2, <1>3, <1>4, Kept

LEMMA HandleRequestKeeps == ASSUME ProxyInv, NEW q \in Requests, HandleHTTPRequest(q) PROVE ProxyInv'
<1>1. Types /\ Answer(q)
  BY DEF ProxyInv
<1>2. /\ <<"http", q, 0>> \in toAgent /\ toAgent' = toAgent \ {<<"http", q, 0>>}
      /\ answer' = [answer EXCEPT ![q] = "fetching"] /\ next' = next /\ toPage' = toPage
      /\ UNCHANGED pageRequests
  BY DEF HandleHTTPRequest, Handles, KeepPage
<1>3. AnswersOnly(q)
  BY <1>1, <1>2 DEF AnswersOnly, HandleHTTPRequest, KeepPage, session, Types, TypeOK
<1>4. answer[q] = "none" /\ answer'[q] = "fetching"
  BY <1>1, <1>2 DEF Answer, Types, TypeOK
<1>5. Answer(q)'
  BY <1>1, <1>2, <1>4 DEF Answer, Is, AnswersOnly, HandleHTTPRequest, pageRequests
<1>6. next'[q] \in 0..LastChunk(q) /\ toPage' \in Seq(PageMessage) /\ (link # "up" => toPage' = <<>>)
  BY <1>1, <1>2 DEF Types, TypeOK
<1>7. QED BY <1>2, <1>3, <1>5, <1>6, AnswerStepKeeps DEF OtherSocketQueue, OtherRequestQueue

LEMMA FetchedKeeps == ASSUME ProxyInv, NEW q \in Requests, Fetched(q) PROVE ProxyInv'
<1>1. Types /\ Answer(q)
  BY DEF ProxyInv
<1>2. /\ toAgent' = toAgent /\ answer[q] = "fetching" /\ answer' = [answer EXCEPT ![q] = "sending"]
      /\ next' = next /\ toPage' = toPage /\ UNCHANGED pageRequests /\ link' = link
  BY DEF Fetched, KeepPage
<1>3. AnswersOnly(q)
  BY <1>1, <1>2 DEF AnswersOnly, Fetched, KeepPage, session, Types, TypeOK
<1>4. answer'[q] = "sending"
  BY <1>1, <1>2 DEF Types, TypeOK
<1>5. Answer(q)'
  BY <1>1, <1>2, <1>4 DEF Answer, Is, pageRequests
<1>6. next'[q] \in 0..LastChunk(q) /\ toPage' \in Seq(PageMessage) /\ (link # "up" => toPage' = <<>>)
  BY <1>1, <1>2 DEF Types, TypeOK
<1>7. QED BY <1>2, <1>3, <1>5, <1>6, AnswerStepKeeps DEF OtherSocketQueue, OtherRequestQueue

LEMMA SendErrorKeeps == ASSUME ProxyInv, NEW q \in Requests, SendHTTPError(q) PROVE ProxyInv'
<1>1. Types /\ Answer(q)
  BY DEF ProxyInv
<1>2. /\ toAgent' = toAgent /\ answer[q] = "fetching" /\ answer' = [answer EXCEPT ![q] = "done"]
      /\ next' = next /\ Send("failure", q, 0) /\ link' = link /\ peer' = peer
      /\ UNCHANGED pageRequests
  BY DEF SendHTTPError, KeepPage, session
<1>3. AnswersOnly(q)
  BY <1>1, <1>2 DEF AnswersOnly, SendHTTPError, KeepPage, session, Types, TypeOK
<1>4. <<"failure", q, 0>> \in PageMessage
  BY MessageIs
<1>5. /\ \A s \in Sockets : OtherSocketQueue(s)
      /\ \A p \in Requests : OtherRequestQueue(p)
      /\ toPage' \in Seq(PageMessage) /\ (link # "up" => toPage' = <<>>)
  <2>1. "failure" \notin {"ack", "refused", "data", "close"} /\ "failure" # "chunk"
    OBVIOUS
  <2>2. QED BY <1>1, <1>2, <1>4, <2>1, SentToOthers
<1>6. Answer(q)'
  <2>1. answer'[q] = "done" /\ \A i \in 1..Len(toPage) : ~Is(i, "chunk", q)
    BY <1>1, <1>2 DEF Answer, Types, TypeOK
  <2>2. \A i \in 1..Len(toPage') : ~Is(i, "chunk", q)'
    <3>1. PICK m : m = <<"failure", q, 0>>
      OBVIOUS
    <3>2. (toPage' = toPage \/ Adds(m)) /\ m[1] = "failure"
      BY <1>1, <1>2, <1>4, <3>1, SendIs
    <3>3. CASE toPage' = toPage
      BY <2>1, <3>3 DEF Is
    <3>4. CASE Adds(m)
      <4>1. /\ \A i \in 1..Len(toPage) : toPage'[i] = toPage[i]
            /\ toPage'[Len(toPage')] = m
            /\ \A i \in 1..Len(toPage') : i \in 1..Len(toPage) \/ i = Len(toPage')
        BY <1>1, <3>4, AddedIs
      <4>2. QED BY <2>1, <3>2, <4>1 DEF Is
    <3>5. QED BY <3>2, <3>3, <3>4
  <2>3. /\ req' = req /\ chunks' = chunks /\ next[q] = 0
    BY <1>1, <1>2 DEF Answer, pageRequests
  <2>4. QED BY <1>1, <1>2, <2>1, <2>2, <2>3 DEF Answer
<1>7. next'[q] \in 0..LastChunk(q)
  BY <1>1, <1>2 DEF Types, TypeOK
<1>8. QED BY <1>3, <1>5, <1>6, <1>7, AnswerStepKeeps

LEMMA SendChunkKeeps == ASSUME ProxyInv, NEW q \in Requests, SendChunk(q) PROVE ProxyInv'
<1>1. Types /\ Answer(q)
  BY DEF ProxyInv
<1>2. PICK n : n = next[q]
  OBVIOUS
<1>3. /\ toAgent' = toAgent /\ answer[q] = "sending"
      /\ Send("chunk", q, n) /\ link' = link /\ peer' = peer /\ UNCHANGED pageRequests
      /\ IF SendFails \/ Done(q, n)
         THEN answer' = [answer EXCEPT ![q] = "done"] /\ next' = next
         ELSE next' = [next EXCEPT ![q] = @ + 1] /\ answer' = answer
  BY <1>2 DEF SendChunk, KeepPage, session
<1>4. /\ LastChunk(q) \in Nat /\ n \in 0..LastChunk(q) /\ next \in [Requests -> Nat]
      /\ answer \in [Requests -> {"none", "fetching", "sending", "done"}]
  BY <1>1, <1>2, LastChunkNat DEF Types, TypeOK
\* Either it is done, and next stays, or one more is to be sent.
<1>5. /\ answer' \in [Requests -> {"none", "fetching", "sending", "done"}] /\ next' \in [Requests -> Nat]
      /\ next'[q] \in 0..LastChunk(q)
      /\ \/ answer'[q] = "done" /\ next'[q] = n
         \/ answer'[q] = "sending" /\ next'[q] = n + 1
      /\ \A p \in Requests : p # q => answer'[p] = answer[p] /\ next'[p] = next[p]
  <2>1. CASE SendFails \/ Done(q, n)
    BY <1>2, <1>3, <1>4, <2>1
  <2>2. CASE ~(SendFails \/ Done(q, n))
    <3>1. n < LastChunk(q)
      BY <1>4, <2>2 DEF Done
    <3>2. QED BY <1>2, <1>3, <1>4, <2>2, <3>1
  <2>3. QED BY <2>1, <2>2
<1>6. AnswersOnly(q)
  BY <1>3, <1>5 DEF AnswersOnly, SendChunk, KeepPage, session
<1>7. <<"chunk", q, n>> \in PageMessage
  BY <1>4, MessageIs
<1>8. PICK m : m = <<"chunk", q, n>>
  OBVIOUS
<1>9. /\ \A s \in Sockets : OtherSocketQueue(s)
      /\ \A p \in Requests : p # q => OtherRequestQueue(p)
      /\ toPage' \in Seq(PageMessage) /\ (link # "up" => toPage' = <<>>)
  <2>1. "chunk" \notin {"ack", "refused", "data", "close"}
    OBVIOUS
  <2>2. QED BY <1>1, <1>3, <1>7, <2>1, SentToOthers
<1>10. link = "up" => Adds(m) /\ m[1] = "chunk" /\ m[2] = q /\ m[3] = n
  BY <1>1, <1>3, <1>7, <1>8, SendIs
<1>11. req' = req /\ chunks' = chunks
  BY <1>3 DEF pageRequests
<1>12. Answer(q)'
  <2>1. CASE link # "up"
    <3>1. 1..Len(toPage') = {}
      BY <1>9, <2>1
    <3>2. QED BY <1>1, <1>3, <1>5, <1>11, <2>1, <3>1 DEF Answer, Is
  <2>2. CASE link = "up"
    <3>1. /\ Len(toPage) \in Nat /\ Len(toPage') = Len(toPage) + 1
          /\ \A i \in 1..Len(toPage) : i \in 1..Len(toPage') /\ toPage'[i] = toPage[i]
          /\ toPage'[Len(toPage')] = m /\ Len(toPage') \in 1..Len(toPage')
          /\ \A i \in 1..Len(toPage') : i \in 1..Len(toPage) \/ i = Len(toPage')
      BY <1>1, <1>10, <2>2, AddedIs
    <3>2. \A i \in 1..Len(toPage) : Is(i, "chunk", q) => Is(i, "chunk", q)' /\ toPage'[i] = toPage[i]
      BY <3>1 DEF Is
    <3>3. \A i \in 1..Len(toPage') :
            Is(i, "chunk", q)' => \/ Is(i, "chunk", q) /\ toPage'[i] = toPage[i] /\ i \in 1..Len(toPage)
                                  \/ i = Len(toPage') /\ toPage'[i][3] = n
      BY <1>10, <2>2, <3>1 DEF Is
    <3>4. \E i \in 1..Len(toPage') : Is(i, "chunk", q)' /\ toPage'[i][3] = n
      <4>1. PICK i : i = Len(toPage')
        OBVIOUS
      <4>2. i \in 1..Len(toPage') /\ toPage'[i] = m
        BY <3>1, <4>1
      <4>3. Is(i, "chunk", q)' /\ toPage'[i][3] = n
        BY <1>10, <2>2, <4>2 DEF Is
      <4>4. QED BY <4>2, <4>3
    <3>5. \A i \in 1..Len(toPage) : Is(i, "chunk", q) => toPage[i][3] \in Nat /\ toPage[i][3] < n
      <4> SUFFICES ASSUME NEW i \in 1..Len(toPage), Is(i, "chunk", q)
                   PROVE  toPage[i][3] \in Nat /\ toPage[i][3] < n
        OBVIOUS
      <4>1. toPage[i] \in PageMessage
        BY <1>1, ElementOfSeq DEF Types
      <4>2. QED BY <1>1, <1>2, <1>3, <4>1 DEF Answer, PageMessage, ToPage
    <3>6. \A i \in 1..Len(toPage') : Is(i, "chunk", q)' =>
           /\ answer'[q] \in {"sending", "done"} /\ toPage'[i][3] <= next'[q]
           /\ answer'[q] = "sending" => toPage'[i][3] < next'[q]
      BY <1>4, <1>5, <3>3, <3>5
    <3>7. \A i, j \in 1..Len(toPage') :
           Is(i, "chunk", q)' /\ Is(j, "chunk", q)' /\ i < j => toPage'[i][3] < toPage'[j][3]
      <4> SUFFICES ASSUME NEW i \in 1..Len(toPage'), NEW j \in 1..Len(toPage'),
                          Is(i, "chunk", q)', Is(j, "chunk", q)', i < j
                   PROVE  toPage'[i][3] < toPage'[j][3]
        OBVIOUS
      <4>1. Is(i, "chunk", q) /\ toPage'[i] = toPage[i] /\ i \in 1..Len(toPage)
        BY <3>1, <3>3
      <4>2. QED BY <1>1, <3>3, <3>5, <4>1 DEF Answer
    <3>8. req[q] = "pending" =>
           \A k \in Nat : k < next'[q] =>
             k \in chunks[q] \/ \E i \in 1..Len(toPage') : Is(i, "chunk", q)' /\ toPage'[i][3] = k
      <4> SUFFICES ASSUME req[q] = "pending", NEW k \in Nat, k < next'[q], k \notin chunks[q]
                   PROVE  \E i \in 1..Len(toPage') : Is(i, "chunk", q)' /\ toPage'[i][3] = k
        OBVIOUS
      <4>1. CASE k < n
        <5>1. PICK i \in 1..Len(toPage) : Is(i, "chunk", q) /\ toPage[i][3] = k
          BY <1>1, <1>2, <2>2, <4>1 DEF Answer
        <5>2. QED BY <3>1, <3>2, <5>1
      <4>2. CASE k = n
        BY <3>4, <4>2
      <4>3. k < n \/ k = n
        BY <1>4, <1>5
      <4>4. QED BY <4>1, <4>2, <4>3
    <3>9. QED BY <1>1, <1>3, <1>5, <1>11, <3>6, <3>7, <3>8 DEF Answer
  <2>3. QED BY <2>1, <2>2
<1>13. QED BY <1>5, <1>6, <1>9, <1>12, AnswerStepKeeps

-----------------------------------------------------------------------------
(* The session.                                                             *)

\* The link goes, and with it what it carried: only what was begun is left.
LEMMA LosesKeeps ==
  ASSUME ProxyInv, LosesLink, KeepPage, UNCHANGED agentSockets, UNCHANGED agentRequests,
         peer' \in {"ours", "none", "next"}, cleaning' \in BOOLEAN
  PROVE  ProxyInv'
<1>1. Types /\ link' = "lost" /\ toAgent' = {} /\ toPage' = <<>>
  BY DEF ProxyInv, LosesLink
<1>2. /\ connected' = connected /\ UNCHANGED pageSockets /\ UNCHANGED pageRequests
      /\ UNCHANGED agentSockets /\ UNCHANGED agentRequests
  BY DEF KeepPage
<1>3. <<>> \in Seq(PageMessage) /\ <<>> \in Seq(ToPage)
  OBVIOUS
<1>4. Types'
  BY <1>1, <1>2, <1>3 DEF Types, TypeOK, pageSockets, pageRequests, agentSockets, agentRequests
<1>5. ASSUME NEW s \in Sockets PROVE SocketOther(s)
  BY <1>1, <1>2 DEF SocketOther, SameSocket, SameWay, OtherSocketQueue, Loses, pageSockets, agentSockets
<1>6. ASSUME NEW q \in Requests PROVE RequestOther(q)
  BY <1>1, <1>2 DEF RequestOther, SameRequest, OtherRequestQueue, Loses, pageRequests, agentRequests
<1>7. QED BY <1>4, <1>5, <1>6, Kept

LEMMA LinkLostKeeps == ASSUME ProxyInv, LinkLost PROVE ProxyInv'
<1>1. peer' = peer /\ cleaning' = cleaning /\ Types
  BY DEF LinkLost, session, ProxyInv
<1>2. peer' \in {"ours", "none", "next"} /\ cleaning' \in BOOLEAN
  BY <1>1 DEF Types, TypeOK
<1>3. QED BY <1>2, LosesKeeps DEF LinkLost

\* The peer may only change once the link is lost.
LEMMA PeerChangeKeeps ==
  ASSUME ProxyInv, KeepPage, UNCHANGED agentSockets, UNCHANGED agentRequests, UNCHANGED <<toAgent, toPage, link>>,
         peer # "ours", peer' \in {"none", "next"}, cleaning' \in BOOLEAN
  PROVE  ProxyInv'
<1>1. /\ connected' = connected /\ UNCHANGED pageSockets /\ UNCHANGED pageRequests
      /\ UNCHANGED agentSockets /\ UNCHANGED agentRequests /\ UNCHANGED <<toAgent, toPage, link>>
  BY DEF KeepPage
<1>2. Types'
  BY <1>1 DEF ProxyInv, Types, TypeOK, pageSockets, pageRequests, agentSockets, agentRequests
<1>3. ASSUME NEW s \in Sockets PROVE SocketOther(s)
  BY <1>1 DEF SocketOther, SameSocket, SameWay, OtherSocketQueue, pageSockets, agentSockets
<1>4. ASSUME NEW q \in Requests PROVE RequestOther(q)
  BY <1>1 DEF RequestOther, SameRequest, OtherRequestQueue, pageRequests, agentRequests
<1>5. QED BY <1>2, <1>3, <1>4, Kept

LEMMA CleanupEndsKeeps == ASSUME ProxyInv, CleanupEnds PROVE ProxyInv'
<1>1. /\ peer' = "none" /\ cleaning' = FALSE /\ KeepPage
      /\ UNCHANGED agentSockets /\ UNCHANGED agentRequests
  BY DEF CleanupEnds
<1>2. CASE peer = "ours"
  BY <1>1, <1>2, LosesKeeps DEF CleanupEnds
<1>3. CASE peer # "ours"
  BY <1>1, <1>3, PeerChangeKeeps DEF CleanupEnds
<1>4. QED BY <1>2, <1>3

LEMMA NextSessionKeeps == ASSUME ProxyInv, NextSession PROVE ProxyInv'
<1>1. /\ peer = "none" /\ peer' = "next" /\ cleaning' = cleaning /\ cleaning = FALSE /\ KeepPage
      /\ UNCHANGED agentSockets /\ UNCHANGED agentRequests /\ UNCHANGED <<toAgent, toPage, link>>
  BY DEF NextSession, ProxyInv, Types, TypeOK
<1>2. QED BY <1>1, PeerChangeKeeps

LEMMA CleanupBeginsKeeps == ASSUME ProxyInv, CleanupBegins PROVE ProxyInv'
<1>1. Types
  BY DEF ProxyInv
<1>2. /\ cleaning' = TRUE /\ peer' = peer /\ wsConns' = {}
      /\ conn' = [s \in Sockets |-> IF s \in wsConns THEN "closed" ELSE conn[s]]
      /\ connected' = connected /\ UNCHANGED pageSockets /\ UNCHANGED pageRequests
      /\ UNCHANGED <<opener, reader, read, failed>> /\ UNCHANGED agentRequests
      /\ UNCHANGED <<toAgent, toPage, link>>
  BY DEF CleanupBegins, KeepPage
<1>3. Types'
  <2>1. conn' \in [Sockets -> {"none", "open", "closed"}]
    BY <1>1, <1>2 DEF Types, TypeOK
  <2>2. QED BY <1>1, <1>2, <2>1 DEF Types, TypeOK, pageSockets, pageRequests, agentRequests
<1>4. ASSUME NEW s \in Sockets PROVE Life(s)' /\ Queue(s)'
  <2>1. Life(s) /\ Queue(s)
    BY DEF ProxyInv
  <2>2. /\ conn'[s] # "open" /\ s \notin wsConns'
        /\ conn'[s] = conn[s] \/ (conn[s] = "open" /\ conn'[s] = "closed")
    BY <1>2, <2>1 DEF Life
  <2>3. Life(s)'
    BY <1>2, <2>1, <2>2 DEF Life, pageSockets
  <2>4. Queue(s)'
    BY <1>2, <2>1, <2>2 DEF Queue, Is, InConnections, pageSockets
  <2>5. QED BY <2>3, <2>4
<1>5. ASSUME NEW q \in Requests PROVE RequestOther(q)
  BY <1>2 DEF RequestOther, SameRequest, OtherRequestQueue, pageRequests, agentRequests
<1>6. QED BY <1>3, <1>4, <1>5, Kept

-----------------------------------------------------------------------------
(* The theorems.                                                            *)

LEMMA StepKeeps == ASSUME ProxyInv, Next PROVE ProxyInv'
<1>1. ASSUME NEW s \in Sockets, OpenSocket(s) \/ SendFrame(s) \/ CloseSocket(s) PROVE ProxyInv'
  BY <1>1, OpenSocketKeeps, SendFrameKeeps, CloseSocketKeeps
<1>2. ASSUME NEW q \in Requests, FetchDc(q) \/ FetchTimesOut(q) PROVE ProxyInv'
  BY <1>2, FetchKeeps
<1>3. CASE Disconnect \/ PageReceives
  BY <1>3, DisconnectKeeps, OpenAckKeeps, CloseEventKeeps, DataEventKeeps, ErrorEventKeeps,
     ResponseKeeps, FailureKeeps DEF PageReceives
<1>4. ASSUME NEW s \in Sockets, Opener(s) PROVE ProxyInv'
  BY <1>4, HandleOpenKeeps, DialFailsKeeps, DialedKeeps, SendAckKeeps DEF Opener
<1>5. ASSUME NEW s \in Sockets, Frames(s) PROVE ProxyInv'
  BY <1>5, WriteFrameKeeps, WriteFailsKeeps DEF Frames
<1>6. ASSUME NEW s \in Sockets, Closer(s) PROVE ProxyInv'
  BY <1>6, CloseFailedKeeps, PageClosesKeeps DEF Closer
<1>7. ASSUME NEW s \in Sockets, ReadWSLoop(s) PROVE ProxyInv'
  BY <1>7, ReadDataKeeps, ReadEndsKeeps, ReadReturnsKeeps DEF ReadWSLoop, ReadClose, ReadError
<1>8. ASSUME NEW q \in Requests, Answerer(q) PROVE ProxyInv'
  BY <1>8, HandleRequestKeeps, SendErrorKeeps, FetchedKeeps, SendChunkKeeps DEF Answerer
<1>9. CASE CleanupBegins \/ CleanupEnds \/ NextSession \/ LinkLost
  BY <1>9, CleanupBeginsKeeps, CleanupEndsKeeps, NextSessionKeeps, LinkLostKeeps
<1>10. QED BY <1>1, <1>2, <1>3, <1>4, <1>5, <1>6, <1>7, <1>8, <1>9 DEF Next

LEMMA StutterKeeps == ASSUME ProxyInv, UNCHANGED vars PROVE ProxyInv'
<1>1. /\ connected' = connected /\ UNCHANGED pageSockets /\ UNCHANGED pageRequests
      /\ UNCHANGED agentSockets /\ UNCHANGED agentRequests /\ UNCHANGED session
      /\ UNCHANGED <<toAgent, toPage, link>>
  BY DEF vars
<1>2. Types'
  BY <1>1 DEF ProxyInv, Types, TypeOK, pageSockets, pageRequests, agentSockets, agentRequests, session
<1>3. ASSUME NEW s \in Sockets PROVE SocketOther(s)
  BY <1>1 DEF SocketOther, SameSocket, SameWay, OtherSocketQueue, pageSockets, agentSockets
<1>4. ASSUME NEW q \in Requests PROVE RequestOther(q)
  BY <1>1 DEF RequestOther, SameRequest, OtherRequestQueue, pageRequests, agentRequests
<1>5. QED BY <1>2, <1>3, <1>4, Kept

LEMMA StartsWell == ASSUME Init PROVE ProxyInv
<1>1. \A q \in Requests : LastChunk(q) \in Nat
  BY LastChunkNat
<1>2. <<>> \in Seq(PageMessage) /\ <<>> \in Seq(ToPage) /\ <<>> \in Seq(1..MaxData)
      /\ Len(<<>>) = 0 /\ 1..Len(toPage) = {}
  BY DEF Init
<1>3. Types
  <2>1. got \in [Sockets -> Seq(1..MaxData)] /\ toPage \in Seq(PageMessage) /\ toPage \in Seq(ToPage)
    BY <1>2 DEF Init
  <2>2. /\ \A q \in Requests : chunks[q] \subseteq 0..LastChunk(q) /\ next[q] \in 0..LastChunk(q)
        /\ chunks \in [Requests -> SUBSET Nat] /\ next \in [Requests -> Nat]
    BY <1>1 DEF Init
  <2>3. frames \in [Sockets -> 0..MaxFrames] /\ read \in [Sockets -> 0..MaxData]
    BY WebProxyAssumption DEF Init
  <2>4. TypeOK
    BY <2>1, <2>2, <2>3 DEF TypeOK, Init
  <2>5. QED BY <2>1, <2>2, <2>4 DEF Types, Init
<1>4. ASSUME NEW s \in Sockets PROVE Life(s)
  <2>1. /\ got[s] = <<>> /\ read[s] = 0 /\ page[s] = "none" /\ opener[s] = "none" /\ reader[s] = "none"
        /\ conn[s] = "none" /\ wsConns = {} /\ toAgent = {} /\ ~opened[s]
    BY DEF Init
  <2>2. Len(got[s]) = 0 /\ 1..Len(got[s]) = {}
    BY <2>1
  <2>3. QED BY <2>1, <2>2 DEF Life
<1>5. \A s \in Sockets : Queue(s)
  BY <1>2 DEF Queue, Is, InConnections, Init
<1>6. \A q \in Requests : Answer(q)
  BY <1>2 DEF Answer, Is, Init
<1>7. QED BY <1>3, <1>4, <1>5, <1>6 DEF ProxyInv

\* What the two ends of every socket and every request know of each other, and what is on
\* its way between them, always fits together (controller.js handleWS*, main.go 1286-1582).
THEOREM ProxyAlways == Spec => []ProxyInv
<1>1. Init => ProxyInv
  BY StartsWell
<1>2. ProxyInv /\ [Next]_vars => ProxyInv'
  BY StepKeeps, StutterKeeps
<1>3. QED BY <1>1, <1>2, PTL DEF Spec

\* The type invariant, whatever the numbers of sockets, requests, frames and chunks.
THEOREM ProxyTypeCorrect == Spec => []TypeOK
<1>1. ProxyInv => TypeOK
  BY DEF ProxyInv, Types
<1>2. QED BY <1>1, ProxyAlways, PTL

\* No connection to a service is left open that no page has a socket for: open, dial and
\* close may overtake each other (main.go 953-960) and it is closed all the same.
THEOREM NoConnIsUnreachable == Spec => []NoUnreachableConn
<1>1. ASSUME ProxyInv PROVE NoUnreachableConn
  <2> SUFFICES ASSUME NEW s \in Sockets, SessionLasts, Handled(s), conn[s] = "open"
               PROVE  page[s] = "open"
    BY DEF NoUnreachableConn
  <2>1. Types /\ Life(s) /\ Queue(s)
    BY <1>1 DEF ProxyInv
  <2>2. connected /\ link = "up"
    BY DEF SessionLasts
  \* Its opener is done, so the reader was started and the acknowledgement sent.
  <2>3. opener[s] = "done" /\ reader[s] = "reading"
    BY <2>1 DEF Handled, Life, Types, TypeOK
  <2>4. page[s] \notin {"none", "closed", "gone"}
    BY <2>1, <2>2, <2>3 DEF Life
  <2>5. \A i \in 1..Len(toPage) : ~Is(i, "ack", s)
    <3>1. DOMAIN toPage = 1..Len(toPage)
      BY <2>1, LenProperties DEF Types
    <3>2. QED BY <3>1 DEF Handled, Is
  <2>6. <<"close", s, 0>> \notin toAgent
    <3>1. PICK m : m = <<"close", s, 0>>
      OBVIOUS
    <3>2. QED BY <3>1 DEF Handled
  <2>7. page[s] # "closing"
    BY <2>1, <2>2, <2>3, <2>5, <2>6 DEF Queue
  <2>8. page[s] # "connecting"
    <3>1. ASSUME page[s] = "connecting" PROVE FALSE
      <4>1. InConnections(s) /\ ~opened[s]
        BY <2>1, <3>1 DEF InConnections, Life
      <4>2. QED BY <2>1, <2>2, <2>3, <2>5, <4>1 DEF Queue
    <3>2. QED BY <3>1
  <2>9. QED BY <2>1, <2>4, <2>7, <2>8 DEF Types, TypeOK
<1>2. QED BY <1>1, ProxyAlways, PTL

\* A page sees of each socket what its service sent: nothing before the open event, nothing
\* out of order or missing, and everything before the close event (main.go 1370-1371,
\* 1409-1436).
THEOREM PageAlwaysSeesAStream == Spec => []PageSeesAStream
<1>1. ASSUME ProxyInv PROVE PageSeesAStream
  <2> SUFFICES ASSUME NEW s \in Sockets
               PROVE  /\ \A k \in DOMAIN got[s] : got[s][k] = k
                      /\ got[s] # <<>> => opened[s]
                      /\ page[s] = "closed" => Len(got[s]) = read[s]
    BY DEF PageSeesAStream
  <2>1. Types /\ Life(s)
    BY <1>1 DEF ProxyInv
  <2>2. DOMAIN got[s] = 1..Len(got[s])
    BY <2>1, LenProperties DEF Types, TypeOK
  <2>3. QED BY <2>1, <2>2 DEF Life
<1>2. QED BY <1>1, ProxyAlways, PTL

\* A response is given to the page's caller only when all its chunks are there (main.go
\* 1489-1524, controller.js handleHTTPResponse).
THEOREM ResponsesAreWhole == Spec => []ResponseWhole
<1>1. ProxyInv => ResponseWhole
  BY DEF ProxyInv, Answer, ResponseWhole
<1>2. QED BY <1>1, ProxyAlways, PTL

-----------------------------------------------------------------------------
(* Each socket is a WebSocket.  Events is what its steps need beyond Life   *)
(* and Queue: that nothing reaches a page of a socket before its open event *)
(* (but a refusal), and that it has that event once.                        *)

Opening(s) == opener[s] = "registered" \/ reader[s] # "none"
FramesSent(s) == \E n \in 1..MaxFrames : <<"data", s, n>> \in toAgent
AfterOpen == {"data", "close", "error"}

Events(s) ==
  /\ Opening(s) => conn[s] # "none"
  /\ opened[s] => reader[s] # "none"
  /\ page[s] = "open" => opened[s]
  /\ FramesSent(s) => opened[s]
  /\ \A i \in 1..Len(toPage) : Is(i, "ack", s) => ~opened[s]
  /\ \A i, j \in 1..Len(toPage) : Is(i, "ack", s) /\ Is(j, "ack", s) => i = j
  /\ \A i \in 1..Len(toPage) : Is(i, "error", s) => reader[s] # "none"
  /\ \A i \in 1..Len(toPage), type \in AfterOpen :
       Is(i, type, s) /\ InConnections(s) /\ ~opened[s] =>
         \E j \in 1..Len(toPage) : j < i /\ Is(j, "ack", s)

\* What any step may do to a socket, as far as Events goes.
Moves(s) ==
  /\ reader[s] # "none" => reader'[s] # "none"
  /\ conn[s] # "none" => conn'[s] # "none"
  /\ Opening(s)' => Opening(s) \/ conn'[s] # "none"
  /\ page'[s] = "open" => page[s] = "open" \/ opened'[s]
  /\ FramesSent(s)' => FramesSent(s) \/ page[s] = "open"
  /\ InConnections(s)' => InConnections(s) \/ page[s] = "none"

\* What is sent of a socket, and when.
Fits(m, s) ==
  /\ m[1] = "ack" => opener[s] = "registered"
  /\ m[1] \in AfterOpen => reader[s] # "none"

\* The socket has its open event when the acknowledgement is received, and only then.
Hears(s) ==
  \/ (toPage' = toPage \/ Loses) /\ opened'[s] = opened[s]
  \/ /\ Takes /\ (opened[s] => opened'[s])
     /\ ~opened[s] /\ opened'[s] => Is(1, "ack", s)
     /\ Is(1, "ack", s) /\ InConnections(s) => opened'[s]
  \/ link = "up" /\ opened'[s] = opened[s] /\ \E m : Adds(m) /\ (m[2] = s => Fits(m, s))

LEMMA EventsStay ==
  ASSUME NEW s \in Sockets, ProxyInv, Events(s), Moves(s), toPage' = toPage \/ Loses, opened'[s] = opened[s]
  PROVE  Events(s)'
<1>1. Life(s) /\ Queue(s)
  BY DEF ProxyInv
<1>2. reader[s] # "none" => page[s] # "none"
  BY <1>1 DEF Life
<1>3. CASE Loses
  <2>1. 1..Len(toPage') = {}
    BY <1>3 DEF Loses
  <2>2. \A i \in 1..Len(toPage') : FALSE
    BY <2>1
  <2>3. (Opening(s) => conn[s] # "none") /\ (opened[s] => reader[s] # "none") /\ (page[s] = "open" => opened[s])
        /\ (FramesSent(s) => opened[s])
    BY DEF Events
  <2>4. /\ Opening(s)' => conn'[s] # "none"
        /\ opened'[s] => reader'[s] # "none"
        /\ page'[s] = "open" => opened'[s]
        /\ FramesSent(s)' => opened'[s]
    BY <2>3 DEF Moves
  <2>5. QED BY <2>2, <2>4 DEF Events
<1>4. CASE toPage' = toPage
  <2>1. \A i, type : Is(i, type, s)' <=> Is(i, type, s)
    BY <1>4 DEF Is
  <2>2. (Opening(s) => conn[s] # "none") /\ (opened[s] => reader[s] # "none") /\ (page[s] = "open" => opened[s])
        /\ (FramesSent(s) => opened[s])
    BY DEF Events
  <2>3. /\ Opening(s)' => conn'[s] # "none"
        /\ opened'[s] => reader'[s] # "none"
        /\ page'[s] = "open" => opened'[s]
        /\ FramesSent(s)' => opened'[s]
    BY <2>2 DEF Moves
  <2>4. /\ \A i \in 1..Len(toPage') : Is(i, "ack", s)' => ~opened'[s]
        /\ \A i, j \in 1..Len(toPage') : Is(i, "ack", s)' /\ Is(j, "ack", s)' => i = j
        /\ \A i \in 1..Len(toPage') : Is(i, "error", s)' => reader'[s] # "none"
    BY <1>4, <2>1 DEF Events, Moves
  <2>5. ASSUME NEW i \in 1..Len(toPage'), NEW type \in AfterOpen, Is(i, type, s)', InConnections(s)', ~opened'[s]
        PROVE  \E j \in 1..Len(toPage') : j < i /\ Is(j, "ack", s)'
    <3>1. Is(i, type, s) /\ i \in 1..Len(toPage)
      BY <1>4, <2>1, <2>5
    <3>2. reader[s] # "none"
      BY <1>1, <3>1 DEF Queue, Events, AfterOpen
    <3>3. InConnections(s)
      BY <1>2, <2>5, <3>2 DEF Moves
    <3>4. \E j \in 1..Len(toPage) : j < i /\ Is(j, "ack", s)
      BY <2>5, <3>1, <3>3 DEF Events
    <3>5. QED BY <1>4, <2>1, <3>4
  <2>6. QED BY <2>3, <2>4, <2>5 DEF Events
<1>5. QED BY <1>3, <1>4

LEMMA EventsTake ==
  ASSUME NEW s \in Sockets, ProxyInv, Events(s), Moves(s), Takes, opened[s] => opened'[s],
         ~opened[s] /\ opened'[s] => Is(1, "ack", s),
         Is(1, "ack", s) /\ InConnections(s) => opened'[s]
  PROVE  Events(s)'
<1>1. Types /\ Life(s) /\ Queue(s)
  BY DEF ProxyInv
<1>2. reader[s] # "none" => page[s] # "none"
  BY <1>1 DEF Life
<1>3. /\ Head(toPage) = toPage[1] /\ 1 \in 1..Len(toPage) /\ Len(toPage) \in Nat /\ Len(toPage') = Len(toPage) - 1
      /\ \A k \in 1..Len(toPage') : k + 1 \in 1..Len(toPage) /\ toPage'[k] = toPage[k + 1]
      /\ \A k \in 1..Len(toPage) : k # 1 => k - 1 \in 1..Len(toPage') /\ toPage'[k - 1] = toPage[k]
  BY <1>1, TakenIs
<1>4. \A i \in 1..Len(toPage'), type \in {"ack"} \cup AfterOpen :
        Is(i, type, s)' => Is(i + 1, type, s) /\ i + 1 \in 1..Len(toPage) /\ i + 1 # 1
  BY <1>3 DEF Is
<1>5. /\ Opening(s) => conn[s] # "none"
      /\ opened[s] => reader[s] # "none"
      /\ page[s] = "open" => opened[s]
      /\ FramesSent(s) => opened[s]
      /\ \A i \in 1..Len(toPage) : Is(i, "ack", s) => ~opened[s] /\ reader[s] # "none"
      /\ \A i, j \in 1..Len(toPage) : Is(i, "ack", s) /\ Is(j, "ack", s) => i = j
      /\ \A i \in 1..Len(toPage) : Is(i, "error", s) => reader[s] # "none"
  BY <1>1 DEF Events, Queue
<1>6. /\ Opening(s)' => conn'[s] # "none"
      /\ page'[s] = "open" => opened'[s]
      /\ FramesSent(s)' => opened'[s]
  BY <1>5 DEF Moves
<1>7. opened'[s] => reader'[s] # "none"
  BY <1>3, <1>5 DEF Moves
<1>8. \A i \in 1..Len(toPage') : Is(i, "ack", s)' => ~opened'[s]
  <2> SUFFICES ASSUME NEW i \in 1..Len(toPage'), Is(i, "ack", s)', opened'[s] PROVE FALSE
    OBVIOUS
  <2>1. Is(i + 1, "ack", s) /\ i + 1 \in 1..Len(toPage) /\ i + 1 # 1
    BY <1>4
  <2>2. ~opened[s] /\ Is(1, "ack", s)
    BY <1>5, <2>1
  <2>3. QED BY <1>3, <1>5, <2>1, <2>2
<1>9. \A i, j \in 1..Len(toPage') : Is(i, "ack", s)' /\ Is(j, "ack", s)' => i = j
  <2> SUFFICES ASSUME NEW i \in 1..Len(toPage'), NEW j \in 1..Len(toPage'), Is(i, "ack", s)', Is(j, "ack", s)'
               PROVE  i = j
    OBVIOUS
  <2>1. i + 1 = j + 1
    BY <1>4, <1>5
  <2>2. QED BY <2>1
<1>10. \A i \in 1..Len(toPage') : Is(i, "error", s)' => reader'[s] # "none"
  BY <1>4, <1>5 DEF Moves, AfterOpen
<1>11. ASSUME NEW i \in 1..Len(toPage'), NEW type \in AfterOpen, Is(i, type, s)', InConnections(s)', ~opened'[s]
       PROVE  \E j \in 1..Len(toPage') : j < i /\ Is(j, "ack", s)'
  <2>1. Is(i + 1, type, s) /\ i + 1 \in 1..Len(toPage)
    BY <1>4, <1>11
  <2>2. reader[s] # "none"
    BY <1>1, <2>1 DEF Queue, Events, AfterOpen
  <2>3. InConnections(s) /\ ~opened[s]
    BY <1>2, <1>11, <2>2 DEF Moves
  <2>4. PICK j \in 1..Len(toPage) : j < i + 1 /\ Is(j, "ack", s)
    BY <2>1, <2>3 DEF Events
  \* It is not the one that the step takes: the socket would be open.
  <2>5. j # 1
    BY <1>11, <2>3, <2>4
  <2>6. j - 1 \in 1..Len(toPage') /\ toPage'[j - 1] = toPage[j] /\ j - 1 < i
    BY <1>3, <2>4, <2>5
  <2>7. Is(j - 1, "ack", s)'
    BY <2>4, <2>6 DEF Is
  <2>8. QED BY <2>6, <2>7
<1>12. QED BY <1>6, <1>7, <1>8, <1>9, <1>10, <1>11 DEF Events

LEMMA EventsAdd ==
  ASSUME NEW s \in Sockets, ProxyInv, Events(s), Moves(s), link = "up", opened'[s] = opened[s],
         NEW m, Adds(m), m[2] = s => Fits(m, s)
  PROVE  Events(s)'
<1>1. Types /\ Life(s) /\ Queue(s)
  BY DEF ProxyInv
<1>2. /\ reader[s] # "none" => page[s] # "none" /\ opener[s] = "done"
  BY <1>1 DEF Life
<1>3. /\ Len(toPage) \in Nat /\ Len(toPage') = Len(toPage) + 1
      /\ \A i \in 1..Len(toPage) : i \in 1..Len(toPage') /\ toPage'[i] = toPage[i]
      /\ toPage'[Len(toPage')] = m
      /\ \A i \in 1..Len(toPage') : i \in 1..Len(toPage) \/ i = Len(toPage')
  BY <1>1, AddedIs
<1>4. \A i \in 1..Len(toPage') : \A type \in {"ack"} \cup AfterOpen :
        Is(i, type, s)' => \/ Is(i, type, s) /\ i \in 1..Len(toPage)
                           \/ i = Len(toPage') /\ m[1] = type /\ m[2] = s
  BY <1>3 DEF Is
<1>5. \A j \in 1..Len(toPage) : Is(j, "ack", s) => Is(j, "ack", s)' /\ j \in 1..Len(toPage') /\ j < Len(toPage')
  BY <1>3 DEF Is
<1>6. /\ Opening(s) => conn[s] # "none"
      /\ opened[s] => reader[s] # "none"
      /\ page[s] = "open" => opened[s]
      /\ FramesSent(s) => opened[s]
      /\ \A i \in 1..Len(toPage) : Is(i, "ack", s) => ~opened[s] /\ reader[s] # "none"
      /\ \A i, j \in 1..Len(toPage) : Is(i, "ack", s) /\ Is(j, "ack", s) => i = j
      /\ \A i \in 1..Len(toPage) : Is(i, "error", s) => reader[s] # "none"
  BY <1>1 DEF Events, Queue
<1>7. /\ Opening(s)' => conn'[s] # "none"
      /\ opened'[s] => reader'[s] # "none"
      /\ page'[s] = "open" => opened'[s]
      /\ FramesSent(s)' => opened'[s]
  BY <1>6 DEF Moves
<1>8. m[1] = "ack" /\ m[2] = s => ~opened[s] /\ \A i \in 1..Len(toPage) : ~Is(i, "ack", s)
  BY <1>2, <1>6 DEF Fits
<1>9. \A i \in 1..Len(toPage') : Is(i, "ack", s)' => ~opened'[s]
  BY <1>4, <1>6, <1>8
<1>10. \A i, j \in 1..Len(toPage') : Is(i, "ack", s)' /\ Is(j, "ack", s)' => i = j
  BY <1>4, <1>6, <1>8
<1>11. \A i \in 1..Len(toPage') : Is(i, "error", s)' => reader'[s] # "none"
  BY <1>4, <1>6 DEF Moves, AfterOpen, Fits
<1>12. ASSUME NEW i \in 1..Len(toPage'), NEW type \in AfterOpen, Is(i, type, s)', InConnections(s)', ~opened'[s]
       PROVE  \E j \in 1..Len(toPage') : j < i /\ Is(j, "ack", s)'
  <2>1. \/ Is(i, type, s) /\ i \in 1..Len(toPage)
        \/ i = Len(toPage') /\ m[1] = type /\ m[2] = s
    BY <1>4, <1>12
  <2>2. reader[s] # "none"
    <3>1. CASE Is(i, type, s) /\ i \in 1..Len(toPage)
      BY <1>1, <1>6, <3>1 DEF Queue, AfterOpen
    <3>2. CASE i = Len(toPage') /\ m[1] = type /\ m[2] = s
      BY <3>2 DEF Fits
    <3>3. QED BY <2>1, <3>1, <3>2
  <2>3. InConnections(s) /\ ~opened[s]
    BY <1>2, <1>12, <2>2 DEF Moves
  <2>4. CASE Is(i, type, s) /\ i \in 1..Len(toPage)
    <3>1. PICK j \in 1..Len(toPage) : j < i /\ Is(j, "ack", s)
      BY <2>3, <2>4 DEF Events
    <3>2. QED BY <1>5, <3>1
  \* The acknowledgement was sent before the reader was started.
  <2>5. CASE i = Len(toPage')
    <3>1. PICK j \in 1..Len(toPage) : Is(j, "ack", s)
      BY <1>1, <2>2, <2>3 DEF Queue
    <3>2. QED BY <1>5, <2>5, <3>1
  <2>6. QED BY <2>1, <2>4, <2>5
<1>13. QED BY <1>7, <1>9, <1>10, <1>11, <1>12 DEF Events

LEMMA EventsKept ==
  ASSUME NEW s \in Sockets, ProxyInv, Events(s), Moves(s), Hears(s)
  PROVE  Events(s)'
BY EventsStay, EventsTake, EventsAdd DEF Hears

\* A step of WebProxy is one of the socket's, or leaves it alone.
Sees(s) == [SocketOf(s)!Next]_(SocketOf(s)!vars)
Goes(s) == Moves(s) /\ Hears(s) /\ Sees(s)

\* What the page and the service see of a socket.
SameSeen(s) ==
  /\ page'[s] = page[s] /\ frames'[s] = frames[s] /\ opened'[s] = opened[s]
  /\ got'[s] = got[s] /\ told'[s] = told[s] /\ conn'[s] = conn[s] /\ read'[s] = read[s]

LEMMA SameSees == ASSUME NEW s \in Sockets, SameSeen(s) PROVE Sees(s)
BY DEF SameSeen, Sees, SocketOf!vars, SocketOf!events

NoNewFrames == \A s, n : <<"data", s, n>> \in toAgent' => <<"data", s, n>> \in toAgent

LEMMA StillIs ==
  ASSUME NEW s \in Sockets, SameSeen(s), NoNewFrames, Opening(s)' => Opening(s), reader[s] # "none" => reader'[s] # "none"
  PROVE  Moves(s) /\ Sees(s)
BY SameSees DEF Moves, SameSeen, NoNewFrames, InConnections, FramesSent

LEMMA SendHears ==
  ASSUME Types, NEW type, NEW id, NEW n, Send(type, id, n), <<type, id, n>> \in PageMessage,
         link' = link, peer' = peer, opened' = opened,
         NEW s \in Sockets, s # id \/ type \in {"refused", "chunk", "failure"} \/ Fits(<<type, id, n>>, s)
  PROVE  Hears(s)
<1>1. PICK m : m = <<type, id, n>>
  OBVIOUS
<1>2. CASE link = "up"
  <2>1. Adds(m)
    BY <1>1, <1>2, SendIs
  <2>2. m[2] = s => Fits(m, s)
    BY <1>1 DEF Fits, AfterOpen
  <2>3. QED BY <1>2, <2>1, <2>2 DEF Hears
<1>3. CASE link # "up"
  BY <1>3, SendIs DEF Hears
<1>4. QED BY <1>2, <1>3

-----------------------------------------------------------------------------
(* The steps of the page.                                                   *)

LEMMA OpenSocketGoes ==
  ASSUME ProxyInv, NEW s \in Sockets, OpenSocket(s), NEW z \in Sockets PROVE Goes(z)
<1>1. Types
  BY DEF ProxyInv
<1>2. toAgent' \subseteq toAgent \cup {<<"open", s, 0>>}
  BY <1>1, PostIs DEF OpenSocket
<1>3. /\ page[s] = "none" /\ page'[s] = "connecting" /\ (z # s => page'[z] = page[z])
      /\ frames' = frames /\ opened' = opened /\ got' = got /\ told' = told
      /\ opener' = opener /\ conn' = conn /\ reader' = reader /\ read' = read /\ toPage' = toPage
  BY <1>1 DEF OpenSocket, agentSockets, Types, TypeOK
<1>4. NoNewFrames
  BY <1>2 DEF NoNewFrames
<1>5. Hears(z)
  BY <1>3 DEF Hears
<1>6. CASE z = s
  <2>1. SocketOf(z)!Create
    BY <1>3, <1>6 DEF SocketOf!Create, SocketOf!events
  <2>2. Moves(z)
    BY <1>3, <1>4, <1>6 DEF Moves, NoNewFrames, InConnections, FramesSent, Opening
  <2>3. QED BY <1>5, <2>1, <2>2 DEF Goes, Sees, SocketOf!Next
<1>7. CASE z # s
  <2>1. SameSeen(z)
    BY <1>3, <1>7 DEF SameSeen
  <2>2. QED BY <1>3, <1>4, <1>5, <2>1, StillIs DEF Goes, Opening
<1>8. QED BY <1>6, <1>7

LEMMA SendFrameGoes ==
  ASSUME ProxyInv, NEW s \in Sockets, Events(s), SendFrame(s), NEW z \in Sockets PROVE Goes(z)
<1>1. Types
  BY DEF ProxyInv
<1>2. PICK n : n = frames[s] + 1
  OBVIOUS
<1>3. toAgent' \subseteq toAgent \cup {<<"data", s, n>>}
  BY <1>1, <1>2, PostIs DEF SendFrame
<1>4. /\ page[s] = "open" /\ page' = page /\ frames' = [frames EXCEPT ![s] = n] /\ frames \in [Sockets -> Nat]
      /\ opened' = opened /\ got' = got /\ told' = told
      /\ opener' = opener /\ conn' = conn /\ reader' = reader /\ read' = read /\ toPage' = toPage
  <2>1. frames \in [Sockets -> 0..MaxFrames]
    BY <1>1 DEF Types, TypeOK
  <2>2. frames \in [Sockets -> Nat]
    BY <2>1, WebProxyAssumption
  <2>3. QED BY <1>2, <2>2 DEF SendFrame, agentSockets
<1>5. Hears(z)
  BY <1>4 DEF Hears
<1>6. \A k : <<"data", z, k>> \in toAgent' => <<"data", z, k>> \in toAgent \/ z = s
  BY <1>3
<1>7. Moves(z)
  BY <1>4, <1>6 DEF Moves, InConnections, FramesSent, Opening
<1>8. CASE z = s
  <2>1. SocketOf(z)!SendFrame
    BY <1>2, <1>4, <1>8 DEF SocketOf!SendFrame, SocketOf!events, Events
  <2>2. QED BY <1>5, <1>7, <2>1 DEF Goes, Sees, SocketOf!Next
<1>9. CASE z # s
  <2>1. SameSeen(z)
    BY <1>4, <1>9 DEF SameSeen
  <2>2. QED BY <1>5, <1>7, <2>1, SameSees DEF Goes
<1>10. QED BY <1>8, <1>9

LEMMA CloseSocketGoes ==
  ASSUME ProxyInv, NEW s \in Sockets, CloseSocket(s), NEW z \in Sockets PROVE Goes(z)
<1>1. Types
  BY DEF ProxyInv
<1>2. toAgent' \subseteq toAgent \cup {<<"close", s, 0>>}
  BY <1>1, PostIs DEF CloseSocket
<1>3. /\ InConnections(s) /\ page'[s] = "closing" /\ (z # s => page'[z] = page[z])
      /\ frames' = frames /\ opened' = opened /\ got' = got /\ told' = told
      /\ opener' = opener /\ conn' = conn /\ reader' = reader /\ read' = read /\ toPage' = toPage
  BY <1>1 DEF CloseSocket, agentSockets, Types, TypeOK
<1>4. NoNewFrames
  BY <1>2 DEF NoNewFrames
<1>5. Hears(z)
  BY <1>3 DEF Hears
<1>6. CASE z = s
  <2>1. SocketOf(z)!Close
    BY <1>3, <1>6 DEF SocketOf!Close, SocketOf!events, SocketOf!InUse, InConnections
  <2>2. Moves(z)
    BY <1>3, <1>4, <1>6 DEF Moves, NoNewFrames, InConnections, FramesSent, Opening
  <2>3. QED BY <1>5, <2>1, <2>2 DEF Goes, Sees, SocketOf!Next
<1>7. CASE z # s
  <2>1. SameSeen(z)
    BY <1>3, <1>7 DEF SameSeen
  <2>2. QED BY <1>3, <1>4, <1>5, <2>1, StillIs DEF Goes, Opening
<1>8. QED BY <1>6, <1>7

LEMMA DisconnectGoes == ASSUME ProxyInv, Disconnect, NEW z \in Sockets PROVE Goes(z)
<1>1. Types
  BY DEF ProxyInv
<1>2. toAgent' \subseteq toAgent \cup {<<"close", s, 0>> : s \in {t \in Sockets : InConnections(t)}}
  BY <1>1, PostIs DEF Disconnect
<1>3. /\ page' = [s \in Sockets |-> IF InConnections(s) THEN "gone" ELSE page[s]]
      /\ frames' = frames /\ opened' = opened /\ got' = got /\ told' = told
      /\ opener' = opener /\ conn' = conn /\ reader' = reader /\ read' = read /\ toPage' = toPage
  BY DEF Disconnect, agentSockets
<1>4. NoNewFrames
  BY <1>2 DEF NoNewFrames
<1>5. Hears(z)
  BY <1>3 DEF Hears
<1>6. CASE InConnections(z)
  <2>1. SocketOf(z)!Forget
    BY <1>3, <1>6 DEF SocketOf!Forget, SocketOf!events, SocketOf!InUse, InConnections
  <2>2. Moves(z)
    BY <1>3, <1>4, <1>6 DEF Moves, NoNewFrames, InConnections, FramesSent, Opening
  <2>3. QED BY <1>5, <2>1, <2>2 DEF Goes, Sees, SocketOf!Next
<1>7. CASE ~InConnections(z)
  <2>1. SameSeen(z)
    BY <1>3, <1>7 DEF SameSeen
  <2>2. QED BY <1>3, <1>4, <1>5, <2>1, StillIs DEF Goes, Opening
<1>8. QED BY <1>6, <1>7

\* The requests of the page are none of a socket's business.
LEMMA FetchGoes ==
  ASSUME ProxyInv, NEW q \in Requests, FetchDc(q) \/ FetchTimesOut(q), NEW z \in Sockets PROVE Goes(z)
<1>1. Types
  BY DEF ProxyInv
<1>2. toAgent' \subseteq toAgent \cup {<<"http", q, 0>>}
  BY <1>1, PostIs DEF FetchDc, FetchTimesOut
<1>3. /\ page' = page /\ frames' = frames /\ opened' = opened /\ got' = got /\ told' = told
      /\ opener' = opener /\ conn' = conn /\ reader' = reader /\ read' = read /\ toPage' = toPage
  BY DEF FetchDc, FetchTimesOut, pageSockets, agentSockets
<1>4. NoNewFrames
  BY <1>2 DEF NoNewFrames
<1>5. QED BY <1>3, <1>4, StillIs DEF Goes, Hears, SameSeen, Opening

-----------------------------------------------------------------------------
(* What the page receives.                                                  *)

LEMMA TakeHears ==
  ASSUME Types, NEW type, Arrives(type), type # "ack", opened' = opened, NEW s \in Sockets
  PROVE  Hears(s)
<1>1. Takes /\ Head(toPage) = toPage[1] /\ Head(toPage)[1] = type
  BY ArrivesIs
<1>2. ~Is(1, "ack", s)
  BY <1>1 DEF Is
<1>3. QED BY <1>1, <1>2 DEF Hears

LEMMA OpenAckGoes ==
  ASSUME ProxyInv, HandleWSOpenAck, NEW z \in Sockets, Events(z) PROVE Goes(z)
<1>1. Types /\ Queue(z) /\ Arrives("ack")
  BY DEF ProxyInv, HandleWSOpenAck
<1>2. PICK s : s = At
  OBVIOUS
<1>3. /\ Takes /\ Head(toPage) = toPage[1] /\ 1 \in 1..Len(toPage) /\ Head(toPage)[1] = "ack"
      /\ s = toPage[1][2]
  BY <1>1, <1>2, ArrivesIs DEF At
<1>4. Is(1, "ack", z) <=> z = s
  BY <1>3 DEF Is
<1>5. /\ frames' = frames /\ got' = got /\ told' = told /\ toAgent' = toAgent
      /\ opener' = opener /\ conn' = conn /\ reader' = reader /\ read' = read
  BY DEF HandleWSOpenAck, KeepRest, agentSockets
<1>6. CASE z = s /\ InConnections(z)
  <2>1. page'[z] = "open" /\ opened'[z]
    BY <1>1, <1>2, <1>6 DEF HandleWSOpenAck, Types, TypeOK
  <2>2. ~opened[z] /\ reader[z] # "none" /\ conn[z] # "none"
    BY <1>1, <1>3, <1>4, <1>6 DEF Queue, Events, Opening
  <2>3. page[z] \in {"connecting", "closing"}
    BY <1>6, <2>2 DEF InConnections, Events
  <2>4. opened'[z] = TRUE
    <3>1. opened' = [opened EXCEPT ![s] = TRUE] /\ opened \in [Sockets -> BOOLEAN]
      BY <1>1, <1>2, <1>6 DEF HandleWSOpenAck, Types, TypeOK
    <3>2. QED BY <1>6, <3>1
  <2>5. SocketOf(z)!Open
    BY <1>5, <2>1, <2>2, <2>3, <2>4 DEF SocketOf!Open
  <2>6. Hears(z)
    BY <1>3, <1>4, <1>6, <2>1 DEF Hears
  <2>7. Moves(z)
    BY <1>5, <1>6, <2>1 DEF Moves, InConnections, FramesSent, Opening
  <2>8. QED BY <2>5, <2>6, <2>7 DEF Goes, Sees, SocketOf!Next
<1>7. CASE ~(z = s /\ InConnections(z))
  <2>1. page'[z] = page[z] /\ opened'[z] = opened[z]
    BY <1>1, <1>2, <1>7 DEF HandleWSOpenAck, Types, TypeOK
  <2>2. SameSeen(z) /\ NoNewFrames
    BY <1>5, <2>1 DEF SameSeen, NoNewFrames
  <2>3. Hears(z)
    BY <1>3, <1>4, <1>7, <2>1 DEF Hears
  <2>4. QED BY <1>5, <2>2, <2>3, StillIs DEF Goes, Opening
<1>8. QED BY <1>6, <1>7

LEMMA CloseEventGoes ==
  ASSUME ProxyInv, ProxyInv', HandleWSClose, NEW z \in Sockets, Events(z) PROVE Goes(z)
<1>1. PICK type \in {"close", "refused"} : Arrives(type)
  BY DEF HandleWSClose
<1>2. Types /\ Queue(z) /\ Life(z) /\ Life(z)'
  BY DEF ProxyInv
<1>3. PICK s : s = At
  OBVIOUS
<1>4. /\ Takes /\ Head(toPage) = toPage[1] /\ 1 \in 1..Len(toPage) /\ Head(toPage)[1] = type
      /\ s = toPage[1][2]
  BY <1>1, <1>2, <1>3, ArrivesIs DEF At
<1>5. /\ frames' = frames /\ got' = got /\ opened' = opened /\ toAgent' = toAgent
      /\ opener' = opener /\ conn' = conn /\ reader' = reader /\ read' = read
  BY DEF HandleWSClose, KeepRest, agentSockets
<1>6. Hears(z)
  BY <1>1, <1>2, <1>5, TakeHears
<1>7. CASE z = s /\ InConnections(z)
  <2>1. page'[z] = "closed" /\ told'[z] = TRUE
    BY <1>2, <1>3, <1>7 DEF HandleWSClose, Types, TypeOK
  <2>2. Is(1, type, z)
    BY <1>4, <1>7 DEF Is
  <2>3. ASSUME type = "refused" PROVE SocketOf(z)!Next
    <3>1. conn[z] = "none" /\ ~opened[z]
      BY <1>2, <1>4, <2>2, <2>3 DEF Queue, Life, Events
    <3>2. page[z] \in {"connecting", "closing"}
      BY <1>7, <3>1 DEF InConnections, Events
    <3>3. QED BY <1>5, <2>1, <3>1, <3>2 DEF SocketOf!Closed, SocketOf!Next
  <2>4. ASSUME type = "close" PROVE SocketOf(z)!Next
    <3>1. opened[z]
      <4>1. ~opened[z] => \E j \in 1..Len(toPage) : j < 1 /\ Is(j, "ack", z)
        BY <1>4, <1>7, <2>2, <2>4 DEF Events, AfterOpen
      <4>2. QED BY <4>1
    <3>2. page[z] \in {"open", "closing"}
      BY <1>2, <1>7, <3>1 DEF InConnections, Life
    <3>3. Len(got[z]) = read[z]
      BY <1>2, <1>5, <2>1 DEF Life
    <3>4. QED BY <1>5, <2>1, <3>1, <3>2, <3>3 DEF SocketOf!Closed, SocketOf!Next
  <2>5. SocketOf(z)!Next
    BY <2>3, <2>4
  <2>6. Moves(z)
    BY <1>5, <1>7, <2>1 DEF Moves, InConnections, FramesSent, Opening
  <2>7. QED BY <1>6, <2>5, <2>6 DEF Goes, Sees
<1>8. CASE ~(z = s /\ InConnections(z))
  <2>1. page'[z] = page[z] /\ told'[z] = told[z]
    BY <1>2, <1>3, <1>8 DEF HandleWSClose, Types, TypeOK
  <2>2. SameSeen(z) /\ NoNewFrames
    BY <1>5, <2>1 DEF SameSeen, NoNewFrames
  <2>3. QED BY <1>5, <1>6, <2>2, StillIs DEF Goes, Opening
<1>9. QED BY <1>7, <1>8

LEMMA DataEventGoes ==
  ASSUME ProxyInv, ProxyInv', HandleWSData, NEW z \in Sockets, Events(z) PROVE Goes(z)
<1>1. Types /\ Types' /\ Life(z) /\ Life(z)' /\ Arrives("data")
  BY DEF ProxyInv, HandleWSData
<1>2. PICK s, n : s = At /\ n = Num
  OBVIOUS
<1>3. /\ Takes /\ Head(toPage) = toPage[1] /\ 1 \in 1..Len(toPage) /\ Head(toPage)[1] = "data"
      /\ s = toPage[1][2]
  BY <1>1, <1>2, ArrivesIs DEF At
<1>4. /\ page' = page /\ frames' = frames /\ told' = told /\ opened' = opened /\ toAgent' = toAgent
      /\ opener' = opener /\ conn' = conn /\ reader' = reader /\ read' = read
      /\ got' = IF InConnections(s) THEN [got EXCEPT ![s] = Append(@, n)] ELSE got
  BY <1>2 DEF HandleWSData, KeepRest, agentSockets
<1>5. Hears(z)
  BY <1>1, <1>4, TakeHears
<1>6. NoNewFrames /\ (Opening(z)' => Opening(z))
  BY <1>4 DEF NoNewFrames, Opening
<1>7. CASE z = s /\ InConnections(z)
  <2>1. got[z] \in Seq(1..MaxData) /\ n \in 1..MaxData
    BY <1>1, <1>2, ArrivesIs DEF Types, TypeOK
  <2>2. got'[z] = Append(got[z], n)
    BY <1>1, <1>4, <1>7 DEF Types, TypeOK
  <2>3. /\ Len(got[z]) \in Nat /\ Len(Append(got[z], n)) = Len(got[z]) + 1
        /\ Append(got[z], n)[Len(got[z]) + 1] = n
    BY <2>1, AppendIs
  <2>4. /\ Len(got'[z]) <= read'[z]
        /\ \A k \in 1..Len(got'[z]) : got'[z][k] = k
    BY <1>1 DEF Life
  \* The message is the next of those that the service sent.
  <2>5. n = Len(got[z]) + 1 /\ Len(got[z]) + 1 <= read[z]
    BY <1>4, <2>2, <2>3, <2>4
  <2>6. Len(got[z]) < read[z]
    BY <1>1, <2>5, SocketTypes
  <2>7. opened[z]
    <3>1. Is(1, "data", z)
      BY <1>3, <1>7 DEF Is
    <3>2. ~opened[z] => \E j \in 1..Len(toPage) : j < 1 /\ Is(j, "ack", z)
      BY <1>3, <1>7, <3>1 DEF Events, AfterOpen
    <3>3. QED BY <3>2
  <2>8. page[z] \in {"open", "closing"}
    BY <1>1, <1>7, <2>7 DEF InConnections, Life
  <2>9. SocketOf(z)!Message
    BY <1>4, <2>2, <2>5, <2>6, <2>7, <2>8 DEF SocketOf!Message
  <2>10. Moves(z)
    BY <1>4, <1>7 DEF Moves, InConnections, FramesSent, Opening
  <2>11. QED BY <1>5, <2>9, <2>10 DEF Goes, Sees, SocketOf!Next
<1>8. CASE ~(z = s /\ InConnections(z))
  <2>1. got'[z] = got[z]
    BY <1>1, <1>4, <1>8 DEF Types, TypeOK
  <2>2. SameSeen(z)
    BY <1>4, <2>1 DEF SameSeen
  <2>3. QED BY <1>4, <1>5, <1>6, <2>2, StillIs DEF Goes
<1>9. QED BY <1>7, <1>8

LEMMA ErrorEventGoes ==
  ASSUME ProxyInv, HandleWSError, NEW z \in Sockets, Events(z) PROVE Goes(z)
<1>1. Types /\ Life(z) /\ Arrives("error")
  BY DEF ProxyInv, HandleWSError
<1>2. PICK s : s = At
  OBVIOUS
<1>3. /\ Takes /\ Head(toPage) = toPage[1] /\ 1 \in 1..Len(toPage) /\ Head(toPage)[1] = "error"
      /\ s = toPage[1][2]
  BY <1>1, <1>2, ArrivesIs DEF At
<1>4. /\ page' = page /\ frames' = frames /\ got' = got /\ opened' = opened /\ toAgent' = toAgent
      /\ opener' = opener /\ conn' = conn /\ reader' = reader /\ read' = read
      /\ told' = IF InConnections(s) THEN [told EXCEPT ![s] = TRUE] ELSE told
  BY <1>2 DEF HandleWSError, KeepRest, agentSockets
<1>5. Hears(z)
  BY <1>1, <1>4, TakeHears
<1>6. NoNewFrames /\ (Opening(z)' => Opening(z))
  BY <1>4 DEF NoNewFrames, Opening
<1>7. CASE z = s /\ InConnections(z)
  <2>1. told'[z] = TRUE
    BY <1>1, <1>4, <1>7 DEF Types, TypeOK
  <2>2. opened[z]
    <3>1. Is(1, "error", z)
      BY <1>3, <1>7 DEF Is
    <3>2. ~opened[z] => \E j \in 1..Len(toPage) : j < 1 /\ Is(j, "ack", z)
      BY <1>3, <1>7, <3>1 DEF Events, AfterOpen
    <3>3. QED BY <3>2
  <2>3. page[z] \in {"open", "closing"}
    BY <1>1, <1>7, <2>2 DEF InConnections, Life
  <2>4. SocketOf(z)!Error
    BY <1>4, <2>1, <2>2, <2>3 DEF SocketOf!Error
  <2>5. Moves(z)
    BY <1>4, <1>7 DEF Moves, InConnections, FramesSent, Opening
  <2>6. QED BY <1>5, <2>4, <2>5 DEF Goes, Sees, SocketOf!Next
<1>8. CASE ~(z = s /\ InConnections(z))
  <2>1. told'[z] = told[z]
    BY <1>1, <1>4, <1>8 DEF Types, TypeOK
  <2>2. SameSeen(z)
    BY <1>4, <2>1 DEF SameSeen
  <2>3. QED BY <1>4, <1>5, <1>6, <2>2, StillIs DEF Goes
<1>9. QED BY <1>7, <1>8

LEMMA AnswerEventGoes ==
  ASSUME ProxyInv, HandleHTTPResponse \/ HandleHTTPFailure, NEW z \in Sockets PROVE Goes(z)
<1>1. PICK type \in {"chunk", "failure"} : Arrives(type)
  BY DEF HandleHTTPResponse, HandleHTTPFailure
<1>2. /\ page' = page /\ frames' = frames /\ opened' = opened /\ got' = got /\ told' = told
      /\ opener' = opener /\ conn' = conn /\ reader' = reader /\ read' = read /\ toAgent' = toAgent
  BY DEF HandleHTTPResponse, HandleHTTPFailure, pageSockets, agentSockets
<1>3. SameSeen(z) /\ NoNewFrames /\ (Opening(z)' => Opening(z))
  BY <1>2 DEF SameSeen, NoNewFrames, Opening
<1>4. Hears(z)
  BY <1>1, <1>2, TakeHears DEF ProxyInv
<1>5. QED BY <1>2, <1>3, <1>4, StillIs DEF Goes

-----------------------------------------------------------------------------
(* What the agent's goroutines do.                                          *)

LEMMA HandleOpenGoes ==
  ASSUME ProxyInv, NEW s \in Sockets, HandleWSOpen(s), NEW z \in Sockets PROVE Goes(z)
<1>1. opener \in [Sockets -> {"none", "dialing", "registered", "done"}]
  BY DEF ProxyInv, Types, TypeOK
<1>2. /\ page' = page /\ frames' = frames /\ opened' = opened /\ got' = got /\ told' = told
      /\ opener' = [opener EXCEPT ![s] = "dialing"]
      /\ conn' = conn /\ reader' = reader /\ read' = read /\ toPage' = toPage /\ toAgent' \subseteq toAgent
  BY DEF HandleWSOpen, Handles, KeepPage, pageSockets
<1>3. SameSeen(z) /\ NoNewFrames /\ Hears(z)
  BY <1>2 DEF SameSeen, NoNewFrames, Hears
<1>4. Opening(z)' => Opening(z)
  BY <1>1, <1>2 DEF Opening
<1>5. QED BY <1>2, <1>3, <1>4, StillIs DEF Goes

LEMMA DialFailsGoes ==
  ASSUME ProxyInv, NEW s \in Sockets, DialFails(s), NEW z \in Sockets PROVE Goes(z)
<1>1. Types /\ opener \in [Sockets -> {"none", "dialing", "registered", "done"}]
  BY DEF ProxyInv, Types, TypeOK
<1>2. /\ page' = page /\ frames' = frames /\ opened' = opened /\ got' = got /\ told' = told
      /\ opener' = [opener EXCEPT ![s] = "done"] /\ toAgent' = toAgent /\ link' = link /\ peer' = peer
      /\ conn' = conn /\ reader' = reader /\ read' = read /\ Send("refused", s, 0)
  BY DEF DialFails, KeepPage, pageSockets, session
<1>3. <<"refused", s, 0>> \in PageMessage
  <2>1. "refused" \in {"ack", "refused", "close", "error"}
    OBVIOUS
  <2>2. QED BY <2>1, MessageIs
<1>4. Hears(z)
  BY <1>1, <1>2, <1>3, SendHears
<1>5. SameSeen(z) /\ NoNewFrames /\ (Opening(z)' => Opening(z))
  BY <1>1, <1>2 DEF SameSeen, NoNewFrames, Opening
<1>6. QED BY <1>2, <1>4, <1>5, StillIs DEF Goes

LEMMA DialedGoes ==
  ASSUME ProxyInv, NEW s \in Sockets, Dialed(s), NEW z \in Sockets PROVE Goes(z)
<1>1. Types /\ Life(s) /\ opener \in [Sockets -> {"none", "dialing", "registered", "done"}]
      /\ conn \in [Sockets -> {"none", "open", "closed"}]
  BY DEF ProxyInv, Types, TypeOK
<1>2. /\ page' = page /\ frames' = frames /\ opened' = opened /\ got' = got /\ told' = told
      /\ opener[s] = "dialing" /\ opener' = [opener EXCEPT ![s] = "registered"] /\ toAgent' = toAgent
      /\ conn' = [conn EXCEPT ![s] = "open"] /\ reader' = reader /\ read' = read /\ toPage' = toPage
  BY DEF Dialed, KeepPage, pageSockets
<1>3. Hears(z) /\ NoNewFrames
  BY <1>2 DEF Hears, NoNewFrames
<1>4. CASE z = s
  <2>1. conn[z] = "none" /\ conn'[z] = "open" /\ page[z] \notin {"none", "closed"}
    BY <1>1, <1>2, <1>4 DEF Life
  <2>2. SocketOf(z)!Dial
    BY <1>2, <2>1 DEF SocketOf!Dial, SocketOf!events
  <2>3. Moves(z)
    BY <1>2, <2>1 DEF Moves, InConnections, FramesSent, Opening
  <2>4. QED BY <1>3, <2>2, <2>3 DEF Goes, Sees, SocketOf!Next
<1>5. CASE z # s
  <2>1. SameSeen(z) /\ (Opening(z)' => Opening(z))
    BY <1>1, <1>2, <1>5 DEF SameSeen, Opening
  <2>2. QED BY <1>2, <1>3, <2>1, StillIs DEF Goes
<1>6. QED BY <1>4, <1>5

\* The reader is started for a connection that is there since the dial.
LEMMA SendAckGoes ==
  ASSUME ProxyInv, NEW s \in Sockets, SendWSOpenAck(s), NEW z \in Sockets PROVE Goes(z)
<1>1. Types /\ opener \in [Sockets -> {"none", "dialing", "registered", "done"}]
      /\ reader \in [Sockets -> {"none", "reading", "ending", "done"}]
  BY DEF ProxyInv, Types, TypeOK
<1>2. /\ page' = page /\ frames' = frames /\ opened' = opened /\ got' = got /\ told' = told
      /\ opener[s] = "registered" /\ opener' = [opener EXCEPT ![s] = "done"]
      /\ reader' = [reader EXCEPT ![s] = "reading"]
      /\ toAgent' = toAgent /\ link' = link /\ peer' = peer
      /\ conn' = conn /\ read' = read /\ Send("ack", s, 0)
  BY DEF SendWSOpenAck, KeepPage, pageSockets, session
<1>3. <<"ack", s, 0>> \in PageMessage
  <2>1. "ack" \in {"ack", "refused", "close", "error"}
    OBVIOUS
  <2>2. QED BY <2>1, MessageIs
<1>4. z # s \/ Fits(<<"ack", s, 0>>, z)
  BY <1>2 DEF Fits, AfterOpen
<1>5. Hears(z)
  BY <1>1, <1>2, <1>3, <1>4, SendHears
<1>6. SameSeen(z) /\ NoNewFrames /\ (Opening(z)' => Opening(z)) /\ (reader[z] # "none" => reader'[z] # "none")
  BY <1>1, <1>2 DEF SameSeen, NoNewFrames, Opening
<1>7. QED BY <1>5, <1>6, StillIs DEF Goes

LEMMA WriteFrameGoes ==
  ASSUME NEW s \in Sockets, NEW n, WriteFrame(s, n), NEW z \in Sockets PROVE Goes(z)
<1>1. /\ page' = page /\ frames' = frames /\ opened' = opened /\ got' = got /\ told' = told
      /\ opener' = opener /\ conn' = conn /\ reader' = reader /\ read' = read
      /\ toPage' = toPage /\ toAgent' \subseteq toAgent
  BY DEF WriteFrame, Handles, KeepPage, pageSockets, agentSockets
<1>2. SameSeen(z) /\ NoNewFrames /\ Hears(z) /\ (Opening(z)' => Opening(z))
  BY <1>1 DEF SameSeen, NoNewFrames, Hears, Opening
<1>3. QED BY <1>1, <1>2, StillIs DEF Goes

\* A frame was sent after the open event, so the page may be told that it failed.
LEMMA WriteFailsGoes ==
  ASSUME ProxyInv, NEW s \in Sockets, Events(s), NEW n \in 1..MaxFrames, WriteFails(s, n), NEW z \in Sockets
  PROVE  Goes(z)
<1>1. Types
  BY DEF ProxyInv
<1>2. /\ page' = page /\ frames' = frames /\ opened' = opened /\ got' = got /\ told' = told
      /\ opener' = opener /\ conn' = conn /\ reader' = reader /\ read' = read
      /\ <<"data", s, n>> \in toAgent /\ toAgent' \subseteq toAgent /\ link' = link /\ peer' = peer
      /\ Send("error", s, 0)
  BY DEF WriteFails, Handles, KeepPage, pageSockets, session
<1>3. <<"error", s, 0>> \in PageMessage
  <2>1. "error" \in {"ack", "refused", "close", "error"}
    OBVIOUS
  <2>2. QED BY <2>1, MessageIs
<1>4. reader[s] # "none"
  BY <1>2 DEF Events, FramesSent
<1>5. z # s \/ Fits(<<"error", s, 0>>, z)
  BY <1>4 DEF Fits
<1>6. Hears(z)
  BY <1>1, <1>2, <1>3, <1>5, SendHears
<1>7. SameSeen(z) /\ NoNewFrames /\ (Opening(z)' => Opening(z))
  BY <1>2 DEF SameSeen, NoNewFrames, Opening
<1>8. QED BY <1>2, <1>6, <1>7, StillIs DEF Goes

\* A connection that is closed at the agent has ended.
LEMMA ClosingGoes ==
  ASSUME NEW z \in Sockets, Hears(z), NoNewFrames, Opening(z)' => Opening(z), reader[z] # "none" => reader'[z] # "none",
         page' = page, frames' = frames, opened' = opened, got' = got, told' = told, read' = read,
         conn'[z] = conn[z] \/ (conn[z] = "open" /\ conn'[z] = "closed")
  PROVE  Goes(z)
<1>1. CASE conn'[z] = conn[z]
  <2>1. SameSeen(z)
    BY <1>1 DEF SameSeen
  <2>2. QED BY <2>1, StillIs DEF Goes
<1>2. CASE conn[z] = "open" /\ conn'[z] = "closed"
  <2>1. SocketOf(z)!ServiceEnds
    BY <1>2 DEF SocketOf!ServiceEnds, SocketOf!events
  <2>2. Moves(z)
    BY <1>2 DEF Moves, NoNewFrames, InConnections, FramesSent
  <2>3. QED BY <2>1, <2>2 DEF Goes, Sees, SocketOf!Next
<1>3. QED BY <1>1, <1>2

LEMMA CloseConnGoes ==
  ASSUME ProxyInv, NEW s \in Sockets, CloseFailed(s) \/ PageCloses(s) \/ ReadLoopReturns(s), NEW z \in Sockets
  PROVE  Goes(z)
<1>1. Types /\ Life(s) /\ reader \in [Sockets -> {"none", "reading", "ending", "done"}]
  BY DEF ProxyInv, Types, TypeOK
<1>2. /\ page' = page /\ frames' = frames /\ opened' = opened /\ got' = got /\ told' = told
      /\ opener' = opener /\ read' = read /\ toPage' = toPage /\ toAgent' \subseteq toAgent
      /\ reader' = reader \/ (reader[s] = "ending" /\ reader' = [reader EXCEPT ![s] = "done"])
      /\ CloseWSConn(s)
  BY DEF CloseFailed, PageCloses, ReadLoopReturns, Handles, KeepPage, pageSockets
<1>3. conn'[z] = conn[z] \/ (conn[z] = "open" /\ conn'[z] = "closed")
  BY <1>1, <1>2, CloseConnIs
<1>4. Hears(z) /\ NoNewFrames
  BY <1>2 DEF Hears, NoNewFrames
<1>5. (Opening(z)' => Opening(z)) /\ (reader[z] # "none" => reader'[z] # "none")
  BY <1>1, <1>2 DEF Opening
<1>6. QED BY <1>2, <1>3, <1>4, <1>5, ClosingGoes

LEMMA ReadDataGoes ==
  ASSUME ProxyInv, NEW s \in Sockets, Events(s), ReadData(s), NEW z \in Sockets PROVE Goes(z)
<1>1. Types /\ Life(s) /\ reader \in [Sockets -> {"none", "reading", "ending", "done"}]
      /\ read \in [Sockets -> 0..MaxData]
  BY DEF ProxyInv, Types, TypeOK
<1>2. PICK n : n = read[s] + 1
  OBVIOUS
<1>3. /\ page' = page /\ frames' = frames /\ opened' = opened /\ got' = got /\ told' = told
      /\ opener' = opener /\ conn' = conn /\ read[s] < MaxData /\ read' = [read EXCEPT ![s] = n]
      /\ toAgent' = toAgent /\ link' = link /\ peer' = peer
      /\ reader[s] = "reading" /\ (reader' = reader \/ reader' = [reader EXCEPT ![s] = "ending"])
      /\ Send("data", s, n)
  BY <1>2 DEF ReadData, KeepPage, pageSockets, session
<1>4. n \in 1..MaxData
  BY <1>1, <1>2, <1>3, WebProxyAssumption
<1>5. <<"data", s, n>> \in PageMessage
  BY <1>4, MessageIs
<1>6. z # s \/ Fits(<<"data", s, n>>, z)
  BY <1>3 DEF Fits
<1>7. Hears(z)
  BY <1>1, <1>3, <1>5, <1>6, SendHears
<1>8. NoNewFrames /\ (Opening(z)' => Opening(z)) /\ (reader[z] # "none" => reader'[z] # "none")
  BY <1>1, <1>3 DEF NoNewFrames, Opening
<1>9. CASE z = s
  <2>1. conn[z] # "none" /\ page[z] # "closed"
    BY <1>1, <1>3, <1>9 DEF Events, Opening, Life
  <2>2. read'[z] = read[z] + 1
    BY <1>1, <1>2, <1>3, <1>9
  <2>3. SocketOf(z)!Read
    BY <1>3, <2>1, <2>2 DEF SocketOf!Read, SocketOf!events
  <2>4. Moves(z)
    BY <1>3, <1>8 DEF Moves, NoNewFrames, InConnections, FramesSent
  <2>5. QED BY <1>7, <2>3, <2>4 DEF Goes, Sees, SocketOf!Next
<1>10. CASE z # s
  <2>1. SameSeen(z)
    BY <1>1, <1>3, <1>10 DEF SameSeen
  <2>2. QED BY <1>7, <1>8, <2>1, StillIs DEF Goes
<1>11. QED BY <1>9, <1>10

LEMMA ReadEndsGoes ==
  ASSUME ProxyInv, NEW s \in Sockets, NEW type \in {"close", "error"}, ReadEnds(s, type), NEW z \in Sockets
  PROVE  Goes(z)
<1>1. Types /\ reader \in [Sockets -> {"none", "reading", "ending", "done"}]
  BY DEF ProxyInv, Types, TypeOK
<1>2. /\ page' = page /\ frames' = frames /\ opened' = opened /\ got' = got /\ told' = told
      /\ opener' = opener /\ conn' = conn /\ read' = read
      /\ toAgent' = toAgent /\ link' = link /\ peer' = peer
      /\ reader[s] = "reading" /\ reader' = [reader EXCEPT ![s] = "ending"]
      /\ Send(type, s, 0)
  BY DEF ReadEnds, KeepPage, pageSockets, session
<1>3. <<type, s, 0>> \in PageMessage
  BY MessageIs
<1>4. z # s \/ Fits(<<type, s, 0>>, z)
  BY <1>2 DEF Fits
<1>5. Hears(z)
  BY <1>1, <1>2, <1>3, <1>4, SendHears
<1>6. SameSeen(z) /\ NoNewFrames /\ (Opening(z)' => Opening(z)) /\ (reader[z] # "none" => reader'[z] # "none")
  BY <1>1, <1>2 DEF SameSeen, NoNewFrames, Opening
<1>7. QED BY <1>5, <1>6, StillIs DEF Goes

\* The agent's answers to requests, which no socket hears.
LEMMA AnswererGoes ==
  ASSUME ProxyInv, NEW q \in Requests, Answerer(q), NEW z \in Sockets PROVE Goes(z)
<1>1. Types
  BY DEF ProxyInv
<1>2. /\ page' = page /\ frames' = frames /\ opened' = opened /\ got' = got /\ told' = told
      /\ opener' = opener /\ conn' = conn /\ reader' = reader /\ read' = read
      /\ toAgent' \subseteq toAgent /\ link' = link /\ peer' = peer
  BY DEF Answerer, HandleHTTPRequest, SendHTTPError, Fetched, SendChunk, Handles, KeepPage, pageSockets,
         agentSockets, session
<1>3. SameSeen(z) /\ NoNewFrames /\ (Opening(z)' => Opening(z))
  BY <1>2 DEF SameSeen, NoNewFrames, Opening
<1>4. Hears(z)
  <2>1. CASE HandleHTTPRequest(q) \/ Fetched(q)
    BY <1>2, <2>1 DEF Hears, HandleHTTPRequest, Fetched
  <2>2. CASE SendHTTPError(q)
    <3>1. <<"failure", q, 0>> \in PageMessage /\ Send("failure", q, 0)
      BY <2>2, MessageIs DEF SendHTTPError
    <3>2. QED BY <1>1, <1>2, <3>1, SendHears
  <2>3. CASE SendChunk(q)
    <3>1. PICK n : n = next[q]
      OBVIOUS
    <3>2. n \in 0..LastChunk(q) /\ Send("chunk", q, n)
      BY <1>1, <2>3, <3>1 DEF SendChunk, Types, TypeOK
    <3>3. <<"chunk", q, n>> \in PageMessage
      BY <3>2, MessageIs
    <3>4. QED BY <1>1, <1>2, <3>2, <3>3, SendHears
  <2>4. QED BY <2>1, <2>2, <2>3 DEF Answerer
<1>5. QED BY <1>2, <1>3, <1>4, StillIs DEF Goes

-----------------------------------------------------------------------------
(* The session.                                                             *)

LEMMA SessionGoes ==
  ASSUME ProxyInv, CleanupBegins \/ CleanupEnds \/ NextSession \/ LinkLost \/ UNCHANGED vars, NEW z \in Sockets
  PROVE  Goes(z)
<1>1. Types /\ Life(z)
  BY DEF ProxyInv
<1>2. /\ page' = page /\ frames' = frames /\ opened' = opened /\ got' = got /\ told' = told
      /\ opener' = opener /\ reader' = reader /\ read' = read
  BY DEF CleanupBegins, CleanupEnds, NextSession, LinkLost, KeepPage, pageSockets, agentSockets, vars
<1>3. (toPage' = toPage /\ toAgent' = toAgent) \/ LosesLink
  BY DEF CleanupBegins, CleanupEnds, NextSession, LinkLost, vars
<1>4. Hears(z) /\ NoNewFrames /\ (Opening(z)' => Opening(z))
  BY <1>2, <1>3 DEF Hears, Loses, LosesLink, NoNewFrames, Opening
<1>5. conn'[z] = conn[z] \/ (conn[z] = "open" /\ conn'[z] = "closed")
  <2>1. CASE CleanupBegins
    BY <1>1, <2>1 DEF CleanupBegins, Life
  <2>2. CASE ~CleanupBegins
    BY <2>2 DEF CleanupEnds, NextSession, LinkLost, agentSockets, vars
  <2>3. QED BY <2>1, <2>2
<1>6. QED BY <1>2, <1>4, <1>5, ClosingGoes

-----------------------------------------------------------------------------
(* The refinement.                                                          *)

SocketInv == ProxyInv /\ \A s \in Sockets : Events(s)

LEMMA StepGoes == ASSUME SocketInv, ProxyInv', [Next]_vars, NEW z \in Sockets PROVE Goes(z)
<1>1. ProxyInv /\ \A s \in Sockets : Events(s)
  BY DEF SocketInv
<1>2. ASSUME NEW s \in Sockets, OpenSocket(s) \/ SendFrame(s) \/ CloseSocket(s) PROVE Goes(z)
  BY <1>1, <1>2, OpenSocketGoes, SendFrameGoes, CloseSocketGoes
<1>3. ASSUME NEW q \in Requests, FetchDc(q) \/ FetchTimesOut(q) PROVE Goes(z)
  BY <1>1, <1>3, FetchGoes
<1>4. CASE Disconnect
  BY <1>1, <1>4, DisconnectGoes
<1>5. CASE PageReceives
  BY <1>1, <1>5, OpenAckGoes, CloseEventGoes, DataEventGoes, ErrorEventGoes, AnswerEventGoes DEF PageReceives
<1>6. ASSUME NEW s \in Sockets, Opener(s) PROVE Goes(z)
  BY <1>1, <1>6, HandleOpenGoes, DialFailsGoes, DialedGoes, SendAckGoes DEF Opener
<1>7. ASSUME NEW s \in Sockets, Frames(s) PROVE Goes(z)
  <2>1. PICK n \in 1..MaxFrames : WriteFrame(s, n) \/ WriteFails(s, n)
    BY <1>7 DEF Frames
  <2>2. QED BY <1>1, <1>7, <2>1, WriteFrameGoes, WriteFailsGoes
<1>8. ASSUME NEW s \in Sockets, Closer(s) PROVE Goes(z)
  BY <1>1, <1>8, CloseConnGoes DEF Closer
<1>9. ASSUME NEW s \in Sockets, ReadWSLoop(s) PROVE Goes(z)
  BY <1>1, <1>9, ReadDataGoes, ReadEndsGoes, CloseConnGoes DEF ReadWSLoop, ReadClose, ReadError
<1>10. ASSUME NEW q \in Requests, Answerer(q) PROVE Goes(z)
  BY <1>1, <1>10, AnswererGoes
<1>11. CASE CleanupBegins \/ CleanupEnds \/ NextSession \/ LinkLost \/ UNCHANGED vars
  BY <1>1, <1>11, SessionGoes
<1>12. QED BY <1>2, <1>3, <1>4, <1>5, <1>6, <1>7, <1>8, <1>9, <1>10, <1>11 DEF Next

LEMMA SocketStep == SocketInv /\ [Next]_vars => SocketInv' /\ [\A s \in Sockets : Sees(s)]_vars
<1> SUFFICES ASSUME SocketInv, [Next]_vars PROVE SocketInv' /\ \A s \in Sockets : Sees(s)
  OBVIOUS
<1>1. ProxyInv /\ \A s \in Sockets : Events(s)
  BY DEF SocketInv
<1>2. ProxyInv'
  BY <1>1, StepKeeps, StutterKeeps
<1>3. \A s \in Sockets : Goes(s)
  BY <1>2, StepGoes
<1>4. \A s \in Sockets : Events(s)'
  BY <1>1, <1>3, EventsKept DEF Goes
<1>5. QED BY <1>2, <1>3, <1>4 DEF SocketInv, Goes

LEMMA SocketInit == Init => SocketInv /\ \A s \in Sockets : SocketOf(s)!Init
<1> SUFFICES ASSUME Init PROVE SocketInv /\ \A s \in Sockets : SocketOf(s)!Init
  OBVIOUS
<1>1. \A s \in Sockets : SocketOf(s)!Init
  BY DEF Init, SocketOf!Init
<1>2. 1..Len(toPage) = {}
  BY DEF Init
<1>3. ASSUME NEW s \in Sockets PROVE Events(s)
  BY <1>2 DEF Init, Events, Opening, FramesSent
<1>4. QED BY <1>1, <1>3, StartsWell DEF SocketInv

\* Every socket of a page is a WebSocket to its service by itself (Socket), whatever the
\* other sockets, the requests and the session do meanwhile: opened once and before all
\* else, then the service's messages in order and whole, then at most one close event
\* (controller.js 2289-2449, main.go 1335-1436).
THEOREM EachSocketIsASocket == Spec => EachIsASocket
<1>1. Init => SocketInv /\ \A s \in Sockets : SocketOf(s)!Init
  BY SocketInit
<1>2. SocketInv /\ [Next]_vars => SocketInv' /\ [\A s \in Sockets : Sees(s)]_vars
  BY SocketStep
<1>3. Spec => (\A s \in Sockets : SocketOf(s)!Init) /\ [][\A s \in Sockets : Sees(s)]_vars
  BY <1>1, <1>2, PTL DEF Spec
<1>4. QED BY <1>3 DEF EachIsASocket, Sees
=============================================================================
