---------------------------- MODULE TunnelProofs ----------------------------
(***************************************************************************)
(* Proofs about Tunnel, for any number of connections, streams and chunks. *)
(***************************************************************************)
EXTENDS Tunnel, SequenceTheorems, TLAPS

-----------------------------------------------------------------------------
(* Data on its way.                                                         *)

\* The places of c's data in the queue q, and what is true of them while both ends hold
\* the stream: of `last` chunks sent, those after the first `got` are in it, in order.
DataAt(q, c) == {k \in 1..Len(q) : q[k].type = "Data" /\ q[k].conn = c}
InFlight(q, c, got, last) ==
  /\ got <= last
  /\ \A k \in DataAt(q, c) : got < q[k].chunk /\ q[k].chunk <= last
  /\ \A k, l \in DataAt(q, c) : k < l => q[k].chunk < q[l].chunk
  /\ \A n \in Nat : got < n /\ n <= last => \E k \in DataAt(q, c) : q[k].chunk = n

IsDataOf(m, c) == m.type = "Data" /\ m.conn = c

LEMMA MessageIs ==
  ASSUME NEW type \in {"ConnectReq", "ConnectResp", "Data", "HalfCloseStream", "CloseStream"},
         NEW i \in Ids, NEW c \in Conns \cup {Nil}, NEW n \in Nat
  PROVE  /\ Message(type, i, c, n) \in Messages
         /\ Message(type, i, c, n).type = type /\ Message(type, i, c, n).sid = i
         /\ Message(type, i, c, n).conn = c /\ Message(type, i, c, n).chunk = n
BY DEF Message, Messages

LEMMA MessageHas ==
  ASSUME NEW q \in Seq(Messages), NEW k \in 1..Len(q)
  PROVE  /\ q[k] \in Messages /\ q[k].chunk \in Nat /\ q[k].sid \in Ids
         /\ q[k].conn \in Conns \cup {Nil}
<1>1. q[k] \in Messages
  BY ElementOfSeq
<1>2. QED BY <1>1 DEF Messages

LEMMA AppendIs ==
  ASSUME NEW q \in Seq(Messages), NEW m \in Messages
  PROVE  /\ Append(q, m) \in Seq(Messages)
         /\ Len(Append(q, m)) = Len(q) + 1 /\ Len(q) \in Nat
         /\ Append(q, m)[Len(q) + 1] = m
         /\ \A k \in 1..Len(q) : Append(q, m)[k] = q[k]
         /\ \A k \in 1..Len(Append(q, m)) : k \in 1..Len(q) \/ k = Len(q) + 1
<1>1. /\ Append(q, m) \in Seq(Messages) /\ Len(Append(q, m)) = Len(q) + 1
      /\ \A k \in 1..Len(q) : Append(q, m)[k] = q[k]
      /\ Append(q, m)[Len(q) + 1] = m
  BY AppendProperties
<1>2. Len(q) \in Nat
  BY LenProperties
<1>3. \A k \in 1..Len(Append(q, m)) : k \in 1..Len(q) \/ k = Len(q) + 1
  BY <1>1, <1>2
<1>4. QED BY <1>1, <1>2, <1>3

LEMMA TailIs ==
  ASSUME NEW q \in Seq(Messages), q # <<>>
  PROVE  /\ Tail(q) \in Seq(Messages) /\ Head(q) \in Messages /\ Head(q) = q[1]
         /\ 1 \in 1..Len(q) /\ Len(q) \in Nat /\ Len(Tail(q)) = Len(q) - 1
         /\ \A k \in 1..Len(Tail(q)) : k + 1 \in 1..Len(q) /\ Tail(q)[k] = q[k + 1]
         /\ \A k \in 1..Len(q) : k # 1 => k - 1 \in 1..Len(Tail(q)) /\ Tail(q)[k - 1] = q[k]
<1>1. /\ Tail(q) \in Seq(Messages) /\ Head(q) \in Messages /\ Len(Tail(q)) = Len(q) - 1
      /\ \A k \in 1..Len(Tail(q)) : Tail(q)[k] = q[k + 1]
  BY HeadTailProperties
<1>2. Len(q) \in Nat /\ Len(q) >= 1 /\ Head(q) = q[1]
  BY EmptySeq, LenProperties
<1>3. \A k \in 1..Len(q) : k # 1 => k - 1 \in 1..Len(Tail(q)) /\ Tail(q)[k - 1] = q[k]
  <2> SUFFICES ASSUME NEW k \in 1..Len(q), k # 1
               PROVE  k - 1 \in 1..Len(Tail(q)) /\ Tail(q)[k - 1] = q[k]
    OBVIOUS
  <2>1. k - 1 \in 1..Len(Tail(q)) /\ (k - 1) + 1 = k
    BY <1>1, <1>2
  <2>2. QED BY <1>1, <2>1
<1>4. QED BY <1>1, <1>2, <1>3

\* Another message is sent, or taken.
LEMMA SendsOther ==
  ASSUME NEW q \in Seq(Messages), NEW m \in Messages, NEW c, NEW got, NEW last,
         InFlight(q, c, got, last), ~IsDataOf(m, c)
  PROVE  InFlight(Append(q, m), c, got, last)
<1>1. \A k : k \in DataAt(Append(q, m), c) <=> k \in DataAt(q, c)
  BY AppendIs DEF DataAt, IsDataOf
<1>2. \A k \in DataAt(q, c) : Append(q, m)[k] = q[k]
  BY AppendIs DEF DataAt
<1>3. QED BY <1>1, <1>2 DEF InFlight

LEMMA TakesOther ==
  ASSUME NEW q \in Seq(Messages), q # <<>>, NEW c, NEW got, NEW last,
         InFlight(q, c, got, last), ~IsDataOf(Head(q), c)
  PROVE  InFlight(Tail(q), c, got, last)
<1> DEFINE t == Tail(q)
<1>1. \A k \in DataAt(t, c) : k \in Int /\ k + 1 \in DataAt(q, c) /\ t[k] = q[k + 1]
  BY TailIs DEF DataAt
<1>2. \A k \in DataAt(q, c) : k - 1 \in DataAt(t, c) /\ t[k - 1] = q[k]
  BY TailIs DEF DataAt, IsDataOf
<1> HIDE DEF t
<1>3. \A k \in DataAt(t, c) : got < t[k].chunk /\ t[k].chunk <= last
  BY <1>1 DEF InFlight
<1>4. \A k, l \in DataAt(t, c) : k < l => t[k].chunk < t[l].chunk
  <2> SUFFICES ASSUME NEW k \in DataAt(t, c), NEW l \in DataAt(t, c), k < l
               PROVE  t[k].chunk < t[l].chunk
    OBVIOUS
  <2>1. k + 1 < l + 1
    BY <1>1
  <2>2. QED BY <1>1, <2>1 DEF InFlight
<1>5. \A n \in Nat : got < n /\ n <= last => \E k \in DataAt(t, c) : t[k].chunk = n
  BY <1>2 DEF InFlight
<1>6. QED BY <1>3, <1>4, <1>5 DEF InFlight, t

\* The next chunk is sent, or taken.
LEMMA SendsData ==
  ASSUME NEW q \in Seq(Messages), NEW m \in Messages, NEW c, NEW got \in Nat, NEW last \in Nat,
         InFlight(q, c, got, last), IsDataOf(m, c), m.chunk = last + 1
  PROVE  InFlight(Append(q, m), c, got, last + 1)
<1> DEFINE a == Append(q, m)
<1>1. /\ \A k \in DataAt(a, c) : (k \in DataAt(q, c) /\ a[k] = q[k]) \/ a[k] = m
      /\ \A k \in DataAt(q, c) : k \in DataAt(a, c) /\ a[k] = q[k]
      /\ \A k, l \in DataAt(a, c) : k < l => k \in DataAt(q, c) /\ a[k] = q[k]
      /\ \E k \in DataAt(a, c) : a[k] = m
  BY AppendIs DEF DataAt, IsDataOf
<1>2. \A k \in DataAt(q, c) : q[k].chunk \in Nat
  BY MessageHas DEF DataAt
<1> HIDE DEF a
<1>3. got <= last /\ \A k \in DataAt(q, c) : got < q[k].chunk /\ q[k].chunk <= last
  BY DEF InFlight
<1>4. got <= last + 1 /\ \A k \in DataAt(a, c) : got < a[k].chunk /\ a[k].chunk <= last + 1
  BY <1>1, <1>2, <1>3
<1>5. \A k, l \in DataAt(a, c) : k < l => a[k].chunk < a[l].chunk
  <2> SUFFICES ASSUME NEW k \in DataAt(a, c), NEW l \in DataAt(a, c), k < l
               PROVE  a[k].chunk < a[l].chunk
    OBVIOUS
  <2>1. k \in DataAt(q, c) /\ a[k] = q[k] /\ a[k].chunk \in Nat /\ a[k].chunk <= last
    BY <1>1, <1>2, <1>3
  <2>2. CASE a[l] = m
    BY <2>1, <2>2
  <2>3. CASE l \in DataAt(q, c) /\ a[l] = q[l]
    BY <2>1, <2>3 DEF InFlight
  <2>4. QED BY <1>1, <2>2, <2>3
<1>6. \A n \in Nat : got < n /\ n <= last + 1 => \E k \in DataAt(a, c) : a[k].chunk = n
  <2> SUFFICES ASSUME NEW n \in Nat, got < n, n <= last + 1
               PROVE  \E k \in DataAt(a, c) : a[k].chunk = n
    OBVIOUS
  <2>1. CASE n = last + 1
    BY <1>1, <2>1
  <2>2. CASE n # last + 1
    <3>1. n <= last
      BY <2>2
    <3>2. PICK k \in DataAt(q, c) : q[k].chunk = n
      BY <3>1 DEF InFlight
    <3>3. QED BY <1>1, <3>2
  <2>3. QED BY <2>1, <2>2
<1>7. QED BY <1>4, <1>5, <1>6 DEF InFlight, a

LEMMA TakesData ==
  ASSUME NEW q \in Seq(Messages), q # <<>>, NEW c, NEW got \in Nat, NEW last \in Nat,
         InFlight(q, c, got, last), IsDataOf(Head(q), c)
  PROVE  /\ Head(q).chunk = got + 1
         /\ InFlight(Tail(q), c, got + 1, last)
<1> DEFINE t == Tail(q)
           x == q[1].chunk
<1>1. \A k \in DataAt(t, c) : k \in Int /\ 1 < k + 1 /\ k + 1 \in DataAt(q, c) /\ t[k] = q[k + 1]
  BY TailIs DEF DataAt
<1>2. \A k \in DataAt(q, c) : k \in Nat /\ (k = 1 \/ (1 < k /\ k - 1 \in DataAt(t, c) /\ t[k - 1] = q[k]))
  BY TailIs DEF DataAt
<1>3. 1 \in DataAt(q, c) /\ Head(q) = q[1]
  BY TailIs DEF DataAt, IsDataOf
<1>4. \A k \in DataAt(q, c) : q[k].chunk \in Nat
  BY MessageHas DEF DataAt
<1> HIDE DEF t
<1>5. x \in Nat /\ got < x /\ x <= last
  BY <1>3, <1>4 DEF InFlight
<1>6. \A k \in DataAt(q, c) : k # 1 => x < q[k].chunk
  BY <1>2, <1>3 DEF InFlight
<1>7. x = got + 1
  <2>1. PICK k \in DataAt(q, c) : q[k].chunk = got + 1
    BY <1>5 DEF InFlight
  <2> HIDE DEF x
  <2>2. x <= q[k].chunk
    BY <1>5, <1>6, <1>4 DEF x
  <2>3. QED BY <1>5, <2>1, <2>2
<1> HIDE DEF x
<1>8. \A k \in DataAt(t, c) : got + 1 < t[k].chunk /\ t[k].chunk <= last
  <2> SUFFICES ASSUME NEW k \in DataAt(t, c)
               PROVE  got + 1 < t[k].chunk /\ t[k].chunk <= last
    OBVIOUS
  <2>1. k + 1 \in DataAt(q, c) /\ k + 1 # 1 /\ t[k] = q[k + 1]
    BY <1>1
  <2>2. QED BY <1>6, <1>7, <2>1 DEF InFlight
<1>9. \A k, l \in DataAt(t, c) : k < l => t[k].chunk < t[l].chunk
  <2> SUFFICES ASSUME NEW k \in DataAt(t, c), NEW l \in DataAt(t, c), k < l
               PROVE  t[k].chunk < t[l].chunk
    OBVIOUS
  <2>1. k + 1 < l + 1
    BY <1>1
  <2>2. QED BY <1>1, <2>1 DEF InFlight
<1>10. \A n \in Nat : got + 1 < n /\ n <= last => \E k \in DataAt(t, c) : t[k].chunk = n
  <2> SUFFICES ASSUME NEW n \in Nat, got + 1 < n, n <= last
               PROVE  \E k \in DataAt(t, c) : t[k].chunk = n
    OBVIOUS
  <2>1. PICK k \in DataAt(q, c) : q[k].chunk = n
    BY DEF InFlight
  <2>2. k # 1
    BY <1>7, <2>1 DEF x
  <2>3. QED BY <1>2, <2>1, <2>2
<1>11. QED BY <1>3, <1>5, <1>7, <1>8, <1>9, <1>10 DEF InFlight, t, x

-----------------------------------------------------------------------------
(* Who is meant by an id.                                                   *)

Early == {"none", "registered", "mapped"}   \* handleLocalConn has not asked for its stream

\* A message that is about a connection carries the id of that connection.
Named(m) ==
  IF m.type \in {"Data", "ConnectReq"} THEN m.conn \in Conns /\ m.sid = sid[m.conn]
  ELSE m.conn = Nil

Names ==
  /\ \A c \in Conns : sid[c] <= value /\ (sid[c] = 0 <=> accepted[c] = "none")
  /\ \A c, d \in Conns : sid[c] # 0 /\ sid[c] = sid[d] => c = d
  /\ \A i \in Ids : /\ streams[i] # Nil => sid[streams[i]] = i
                    /\ remotes[i] # Nil => sid[remotes[i]] = i
  /\ \A k \in 1..Len(toAgent) : Named(toAgent[k])
  /\ \A k \in 1..Len(toClient) : Named(toClient[k])
  /\ dialing # Nil => Named(dialing) /\ dialing.type = "ConnectReq"

\* Each request is sent once, before any data of its connection, and dialed once.
Requests ==
  /\ \A c \in Conns : accepted[c] \in Early =>
       reading[c] = "none" /\ \A k \in 1..Len(toAgent) : toAgent[k].conn # c
  /\ dialing # Nil =>
       /\ reading[dialing.conn] = "none" /\ accepted[dialing.conn] \notin Early
       /\ \A k \in 1..Len(toAgent) :
            toAgent[k].type = "ConnectReq" => toAgent[k].conn # dialing.conn
  /\ \A k \in 1..Len(toAgent) : toAgent[k].type = "ConnectReq" =>
       /\ reading[toAgent[k].conn] = "none"
       /\ \A j \in 1..Len(toAgent) : j < k => toAgent[j].conn # toAgent[k].conn

\* How the queue q may become r in one step.
Moves(q, r) ==
  \/ r = q \/ r = <<>>
  \/ q # <<>> /\ r = Tail(q)
  \/ \E m \in Messages : Named(m) /\ r = Append(q, m)

LEMMA MovesTyped ==
  ASSUME NEW q \in Seq(Messages), NEW r, Moves(q, r)
  PROVE  r \in Seq(Messages)
<1>1. \A m \in Messages : Append(q, m) \in Seq(Messages)
  BY AppendIs
<1>2. q # <<>> => Tail(q) \in Seq(Messages)
  BY TailIs
<1>3. <<>> \in Seq(Messages)
  BY EmptySeq
<1>4. QED BY <1>1, <1>2, <1>3 DEF Moves

LEMMA MovesNamed ==
  ASSUME NEW q \in Seq(Messages), NEW r, Moves(q, r), \A k \in 1..Len(q) : Named(q[k])
  PROVE  \A k \in 1..Len(r) : Named(r[k])
<1>1. CASE r = q
  BY <1>1
<1>2. CASE r = <<>>
  <2>1. Len(r) = 0 /\ 1..0 = {}
    BY <1>2, EmptySeq
  <2>2. QED BY <2>1
<1>3. CASE q # <<>> /\ r = Tail(q)
  BY <1>3, TailIs
<1>4. ASSUME NEW m \in Messages, Named(m), r = Append(q, m)
      PROVE  \A k \in 1..Len(r) : Named(r[k])
  BY <1>4, AppendIs
<1>5. QED BY <1>1, <1>2, <1>3, <1>4 DEF Moves

\* What closing a stream does to the other end's queue.
LEMMA CloseLocalMoves ==
  ASSUME TypeOK, NEW i \in Ids, NEW notify \in BOOLEAN, CloseLocal(i, notify)
  PROVE  /\ Moves(toAgent, toAgent')
         /\ \/ toAgent' = toAgent
            \/ \E m \in Messages : m.type = "CloseStream" /\ m.conn = Nil /\ toAgent' = Append(toAgent, m)
         /\ streams' = [streams EXCEPT ![i] = Nil]
         /\ connMap' \in [Ids -> Conns \cup {Nil}]
         /\ local' \in [Conns -> {"none", "open", "closed"}]
<1> DEFINE m == Message("CloseStream", i, Nil, 0)
<1>1. m \in Messages /\ m.type = "CloseStream" /\ m.conn = Nil
  BY MessageIs
<1>2. Named(m)
  BY <1>1 DEF Named
<1> HIDE DEF m
<1>3. toAgent' = toAgent \/ toAgent' = Append(toAgent, m)
  BY DEF CloseLocal, Carried, m
<1>4. QED BY <1>1, <1>2, <1>3 DEF Moves, CloseLocal, TypeOK, ClientTypes

LEMMA CloseRemoteMoves ==
  ASSUME TypeOK, NEW i \in Ids, NEW notify \in BOOLEAN,
         NEW why \in {"eof", "error", "request"}, CloseRemote(i, notify, why)
  PROVE  /\ Moves(toClient, toClient')
         /\ \/ toClient' = toClient
            \/ \E m \in Messages : m.type = "CloseStream" /\ m.conn = Nil /\ toClient' = Append(toClient, m)
         /\ remotes' = [remotes EXCEPT ![i] = Nil]
         /\ remote' \in [Conns -> {"none", "open", "wclosed", "closed"}]
         /\ endedBy' \in [Conns -> {"none", "eof", "error", "request"}]
<1> DEFINE m == Message("CloseStream", i, Nil, 0)
<1>1. m \in Messages /\ m.type = "CloseStream" /\ m.conn = Nil
  BY MessageIs
<1>2. Named(m)
  BY <1>1 DEF Named
<1> HIDE DEF m
<1>3. toClient' = toClient \/ toClient' = Append(toClient, m)
  BY DEF CloseRemote, Carried, m
<1>4. QED BY <1>1, <1>2, <1>3 DEF Moves, CloseRemote, TypeOK, AgentTypes

LEMMA SidIsId ==
  ASSUME TypeOK, Names, NEW c \in Conns, accepted[c] # "none"
  PROVE  sid[c] \in Ids
BY TunnelAssumption DEF TypeOK, ClientTypes, Names, Ids

\* The three messages of handleLocalConn.
LEMMA ItsMessages ==
  ASSUME TypeOK, Names, NEW c \in Conns, accepted[c] # "none"
  PROVE  LET req  == Message("ConnectReq", sid[c], c, 0)
             data == Message("Data", sid[c], c, up[c])
             half == Message("HalfCloseStream", sid[c], Nil, 0)
         IN /\ req \in Messages /\ Named(req) /\ req.type = "ConnectReq" /\ req.conn = c
            /\ data \in Messages /\ Named(data) /\ IsDataOf(data, c) /\ data.chunk = up[c]
            /\ half \in Messages /\ Named(half) /\ half.type = "HalfCloseStream" /\ half.conn = Nil
<1>1. sid[c] \in Ids /\ up[c] \in Nat
  BY SidIsId DEF TypeOK, ClientTypes
<1>2. QED BY <1>1, MessageIs DEF Named, IsDataOf

LEMMA SendOrCloseIs ==
  ASSUME TypeOK, Names, NEW c \in Conns, NEW from, from # "none", NEW then,
         NEW m \in Messages, Named(m), SendOrClose(c, from, m, then)
  PROVE  /\ Moves(toAgent, toAgent') /\ UNCHANGED toClient
         /\ IF clientOpen
            THEN /\ toAgent' = Carried(toAgent, m)
                 /\ UNCHANGED <<streams, connMap, local>>
            ELSE toAgent' = toAgent /\ streams' = [streams EXCEPT ![sid[c]] = Nil]
         /\ connMap' \in [Ids -> Conns \cup {Nil}]
         /\ local' \in [Conns -> {"none", "open", "closed"}]
         /\ accepted[c] = from
         /\ accepted' = [accepted EXCEPT ![c] = IF clientOpen THEN then ELSE "done"]
<1>1. sid[c] \in Ids
  BY SidIsId DEF SendOrClose
<1>2. CASE clientOpen
  BY <1>2 DEF SendOrClose, Moves, Carried, KeepStreams, TypeOK, ClientTypes
<1>3. CASE ~clientOpen
  <2>1. CloseLocal(sid[c], TRUE)
    BY <1>3 DEF SendOrClose
  <2>2. toAgent' = toAgent
    BY <1>3, <2>1 DEF CloseLocal
  <2>3. QED BY <1>1, <1>3, <2>1, <2>2, CloseLocalMoves DEF SendOrClose, Moves
<1>4. QED BY <1>2, <1>3

LEMMA ItSends ==
  ASSUME TypeOK, Names, NEW c \in Conns, SendConnectReq(c) \/ SendLocalData(c) \/ SendHalfClose(c)
  PROVE  \E from \in {"mapped", "send", "eof"}, then \in {"read", "done"}, m \in Messages :
           Named(m) /\ SendOrClose(c, from, m, then)
<1>1. accepted[c] # "none"
  BY DEF SendConnectReq, SendLocalData, SendHalfClose, SendOrClose
<1>2. CASE SendConnectReq(c)
  BY <1>1, <1>2, ItsMessages DEF SendConnectReq
<1>3. CASE SendLocalData(c)
  BY <1>1, <1>3, ItsMessages DEF SendLocalData
<1>4. CASE SendHalfClose(c)
  BY <1>1, <1>4, ItsMessages DEF SendHalfClose
<1>5. QED BY <1>2, <1>3, <1>4

LEMMA QueuesMove ==
  ASSUME TypeOK, Names, Requests, Next
  PROVE  Moves(toAgent, toAgent') /\ Moves(toClient, toClient')
<1> DEFINE Goal == Moves(toAgent, toAgent') /\ Moves(toClient, toClient')
<1>1. \A c \in Conns : accepted[c] # "none" => sid[c] \in Ids
  BY SidIsId
<1>2. \A c \in Conns : reading[c] # "none" => accepted[c] # "none"
  BY DEF Requests, Early
<1>3. \A q : Moves(q, q)
  BY DEF Moves
<1>4. ASSUME NEW c \in Conns, HandleLocalConn(c) PROVE Goal
  <2>1. CASE EnterConnMap(c)
    BY <1>3, <2>1 DEF EnterConnMap, linkVars
  <2>2. CASE ~EnterConnMap(c)
    <3>1. PICK from \in {"mapped", "send", "eof"}, then \in {"read", "done"}, m \in Messages :
            Named(m) /\ SendOrClose(c, from, m, then)
      BY <1>4, <2>2, ItSends DEF HandleLocalConn
    <3>2. from # "none"
      OBVIOUS
    <3>3. QED BY <1>3, <3>1, <3>2, SendOrCloseIs
  <2>3. QED BY <2>1, <2>2
<1>5. ASSUME NEW c \in Conns, Accept(c) \/ ReadLocal(c) \/ ReadLocalEOF(c) \/ ReadRemote(c) PROVE Goal
  BY <1>3, <1>5 DEF Accept, ReadLocal, ReadLocalEOF, ReadRemote, linkVars
<1>6. ASSUME NEW c \in Conns, ReadLocalError(c) PROVE Goal
  <2>1. sid[c] \in Ids
    BY <1>1, <1>6 DEF ReadLocalError, At
  <2>2. CloseLocal(sid[c], TRUE) /\ UNCHANGED toClient
    BY <1>6 DEF ReadLocalError
  <2>3. QED BY <1>3, <2>1, <2>2, CloseLocalMoves
<1>7. ASSUME NEW c \in Conns, ReadRemoteEOF(c) \/ ReadRemoteError(c) \/ SendRemoteFails(c) PROVE Goal
  <2>1. reading[c] # "none"
    BY <1>7 DEF ReadRemoteEOF, ReadRemoteError, SendRemoteFails
  <2>2. PICK why \in {"eof", "error", "request"} : CloseRemote(sid[c], TRUE, why) /\ UNCHANGED toAgent
    BY <1>7 DEF ReadRemoteEOF, ReadRemoteError, SendRemoteFails, ReadLoopEnds
  <2>3. QED BY <1>1, <1>2, <1>3, <2>1, <2>2, CloseRemoteMoves
<1>8. ASSUME NEW c \in Conns, SendRemoteData(c) PROVE Goal
  <2>1. accepted[c] # "none" /\ down[c] \in Nat
    BY <1>2, <1>8 DEF SendRemoteData, TypeOK, AgentTypes
  <2> DEFINE m == Message("Data", sid[c], c, down[c])
  <2>2. m \in Messages /\ Named(m)
    BY <1>1, <2>1, MessageIs DEF Named
  <2> HIDE DEF m
  <2>3. UNCHANGED toAgent /\ (toClient' = toClient \/ toClient' = Append(toClient, m))
    BY <1>8 DEF SendRemoteData, Carried, m
  <2>4. QED BY <1>3, <2>2, <2>3 DEF Moves
<1>9. CASE ClientMessage
  <2>1. toClient # <<>> /\ toClient' = Tail(toClient) /\ Head(toClient).sid \in Ids
    <3>1. toClient # <<>> /\ toClient' = Tail(toClient)
      BY <1>9 DEF ClientMessage, LocalData, LocalDataFails, ConnectFailed, LocalCloseStream, FromAgent
    <3>2. Head(toClient).sid \in Ids
      BY <3>1, TailIs, MessageHas DEF TypeOK, LinkTypes
    <3>3. QED BY <3>1, <3>2
  <2>2. \/ UNCHANGED toAgent
        \/ \E n \in BOOLEAN : CloseLocal(Head(toClient).sid, n)
    BY <1>9 DEF ClientMessage, LocalData, LocalDataFails, ConnectFailed, LocalCloseStream
  <2>3. QED BY <1>3, <2>1, <2>2, CloseLocalMoves DEF Moves
<1>10. CASE AgentMessage
  <2>1. toAgent # <<>> /\ toAgent' = Tail(toAgent) /\ Head(toAgent).sid \in Ids
    <3>1. toAgent # <<>> /\ toAgent' = Tail(toAgent)
      BY <1>10 DEF AgentMessage, HandleConnectRequest, RemoteData, RemoteDataFails, RemoteHalfClose,
                   RemoteCloseStream, FromClient
    <3>2. Head(toAgent).sid \in Ids
      BY <3>1, TailIs, MessageHas DEF TypeOK, LinkTypes
    <3>3. QED BY <3>1, <3>2
  <2>2. \/ UNCHANGED toClient
        \/ \E n \in BOOLEAN, why \in {"eof", "error", "request"} : CloseRemote(Head(toAgent).sid, n, why)
    BY <1>10 DEF AgentMessage, HandleConnectRequest, RemoteData, RemoteDataFails, RemoteHalfClose,
                 RemoteCloseStream
  <2>3. QED BY <1>3, <2>1, <2>2, CloseRemoteMoves DEF Moves
<1>11. CASE Dialed
  <2>1. CASE Connected
    BY <1>3, <2>1 DEF Connected, linkVars
  <2>2. CASE ConnectRefused
    <3> DEFINE m == Message("ConnectResp", dialing.sid, Nil, 0)
    <3>1. dialing.sid \in Ids
      BY <2>2 DEF ConnectRefused, TypeOK, AgentTypes, Messages
    <3>2. m \in Messages /\ Named(m)
      BY <3>1, MessageIs DEF Named
    <3> HIDE DEF m
    <3>3. UNCHANGED toAgent /\ (toClient' = toClient \/ toClient' = Append(toClient, m))
      BY <2>2 DEF ConnectRefused, Carried, m
    <3>4. QED BY <1>3, <3>2, <3>3 DEF Moves
  <2>3. QED BY <1>11, <2>1, <2>2 DEF Dialed
<1>12. CASE CloseAll
  <2>1. CASE AgentClosesPeer
    BY <2>1 DEF AgentClosesPeer, LosesLink, Moves
  <2>2. ASSUME NEW i \in Ids, CloseAllNext(i) PROVE Goal
    BY <1>3, <2>2, CloseRemoteMoves DEF CloseAllNext
  <2>3. QED BY <1>12, <2>1, <2>2 DEF CloseAll
<1>13. CASE RemoveMap \/ CleanupBegins \/ ClientNotices
  BY <1>3, <1>13 DEF RemoveMap, CleanupBegins, ClientNotices, linkVars
<1>14. CASE ClientClosesPeer \/ LinkLost
  BY <1>14 DEF ClientClosesPeer, LinkLost, LosesLink, Moves
<1>15. QED
  BY <1>4, <1>5, <1>6, <1>7, <1>8, <1>9, <1>10, <1>11, <1>12, <1>13, <1>14
     DEF Next, ClientReads, AgentReads, AgentSends

-----------------------------------------------------------------------------
(* Types.                                                                   *)

LEMMA AfterTake ==
  ASSUME NEW q \in Seq(Messages), q # <<>>
  PROVE  Head(q).sid \in Ids /\ Head(q).conn \in Conns \cup {Nil} /\ Head(q).chunk \in Nat
BY TailIs, MessageHas

\* What is written to a connection is data that names one.
LEMMA WrittenTyped ==
  ASSUME NEW got \in [Conns -> Seq(Conns \X Nat)], NEW c \in Conns,
         NEW q \in Seq(Messages), q # <<>>, Head(q).type = "Data", Named(q[1])
  PROVE  /\ Head(q).conn \in Conns /\ Head(q).sid = sid[Head(q).conn]
         /\ [got EXCEPT ![c] = Append(@, <<Head(q).conn, Head(q).chunk>>)] \in [Conns -> Seq(Conns \X Nat)]
<1>1. Head(q) = q[1] /\ Head(q).chunk \in Nat
  BY TailIs, AfterTake
<1>2. Head(q).conn \in Conns /\ Head(q).sid = sid[Head(q).conn]
  BY <1>1 DEF Named
<1>3. Append(got[c], <<Head(q).conn, Head(q).chunk>>) \in Seq(Conns \X Nat)
  BY <1>1, <1>2, AppendProperties
<1>4. QED BY <1>2, <1>3

LEMMA ClientTypesStep == TypeOK /\ Names /\ Requests /\ Next => ClientTypes'
<1> SUFFICES ASSUME TypeOK, Names, Requests, Next PROVE ClientTypes'
  OBVIOUS
<1>1. ClientTypes
  BY DEF TypeOK
<1>2. ASSUME NEW c \in Conns, Accept(c) PROVE ClientTypes'
  <2>1. NextId \in Ids /\ NextId \in 0..MaxStreams
    BY <1>1, <1>2, TunnelAssumption DEF ClientTypes, Accept, NextId, Ids
  <2>2. QED BY <1>1, <1>2, <2>1 DEF ClientTypes, Accept, At
<1>3. ASSUME NEW c \in Conns, HandleLocalConn(c) PROVE ClientTypes'
  <2>1. CASE EnterConnMap(c)
    BY <1>1, <2>1 DEF ClientTypes, EnterConnMap, At
  <2>2. CASE ~EnterConnMap(c)
    <3>1. PICK from \in {"mapped", "send", "eof"}, then \in {"read", "done"}, m \in Messages :
            Named(m) /\ SendOrClose(c, from, m, then)
      BY <1>3, <2>2, ItSends DEF HandleLocalConn
    <3>2. /\ streams' \in [Ids -> Conns \cup {Nil}] /\ connMap' \in [Ids -> Conns \cup {Nil}]
          /\ local' \in [Conns -> {"none", "open", "closed"}]
          /\ accepted' \in [Conns -> {"none", "registered", "mapped", "read", "send", "eof", "done"}]
      <4>1. from # "none"
        OBVIOUS
      <4>2. /\ streams' = streams \/ streams' = [streams EXCEPT ![sid[c]] = Nil]
            /\ connMap' \in [Ids -> Conns \cup {Nil}]
            /\ local' \in [Conns -> {"none", "open", "closed"}]
            /\ accepted' = [accepted EXCEPT ![c] = then] \/ accepted' = [accepted EXCEPT ![c] = "done"]
        BY <3>1, <4>1, SendOrCloseIs
      <4>3. QED BY <1>1, <4>2 DEF ClientTypes
    <3>3. UNCHANGED <<value, mapped, sid, up, localGot>>
      BY <3>1 DEF SendOrClose
    <3>4. QED BY <1>1, <3>2, <3>3 DEF ClientTypes
  <2>3. QED BY <2>1, <2>2
<1>4. ASSUME NEW c \in Conns, ReadLocal(c) \/ ReadLocalEOF(c) PROVE ClientTypes'
  <2>1. CASE ReadLocal(c)
    BY <1>1, <2>1 DEF ClientTypes, ReadLocal, At
  <2>2. CASE ReadLocalEOF(c)
    BY <1>1, <2>2 DEF ClientTypes, ReadLocalEOF, At
  <2>3. QED BY <1>4, <2>1, <2>2
<1>5. ASSUME NEW c \in Conns, ReadLocalError(c) PROVE ClientTypes'
  <2>1. sid[c] \in Ids
    BY <1>5, SidIsId DEF ReadLocalError, At
  <2>2. QED BY <1>1, <1>5, <2>1, CloseLocalMoves DEF ClientTypes, ReadLocalError, At
<1>6. CASE LocalData
  <2> DEFINE c == streams[Head(toClient).sid]
  <2>1. UNCHANGED <<value, mapped, sid, accepted, up, streams, connMap, local>>
    BY <1>6 DEF LocalData, KeepStreams, KeepClientLoop
  <2>2. toClient # <<>> /\ Head(toClient).type = "Data" /\ toClient \in Seq(Messages)
    BY <1>6 DEF LocalData, FromAgent, TypeOK, LinkTypes
  <2>3. Named(toClient[1]) /\ c \in Conns \cup {Nil}
    BY <1>1, <2>2, TailIs, AfterTake DEF Names, ClientTypes
  <2>4. localGot' \in [Conns -> Seq(Conns \X Nat)]
    BY <1>1, <1>6, <2>2, <2>3, WrittenTyped DEF LocalData, ClientTypes
  <2>5. QED BY <1>1, <2>1, <2>4 DEF ClientTypes
<1>7. CASE LocalDataFails \/ ConnectFailed \/ LocalCloseStream
  <2>1. Head(toClient).sid \in Ids
    BY <1>7, AfterTake DEF LocalDataFails, ConnectFailed, LocalCloseStream, FromAgent, TypeOK, LinkTypes
  <2>2. UNCHANGED <<value, mapped, sid, accepted, up, localGot>>
    BY <1>7 DEF LocalDataFails, ConnectFailed, LocalCloseStream, KeepClientLoop
  <2>3. PICK n \in BOOLEAN : CloseLocal(Head(toClient).sid, n)
    BY <1>7 DEF LocalDataFails, ConnectFailed, LocalCloseStream
  <2>4. QED BY <1>1, <2>1, <2>2, <2>3, CloseLocalMoves DEF ClientTypes
<1>8. CASE RemoveMap
  BY <1>1, <1>8 DEF RemoveMap, ClientTypes
<1>9. CASE UNCHANGED clientVars
  BY <1>1, <1>9 DEF clientVars, ClientTypes
<1>10. ASSUME NEW c \in Conns, AgentReads(c) \/ AgentSends(c) PROVE UNCHANGED clientVars
  BY <1>10 DEF AgentReads, AgentSends, ReadRemote, ReadRemoteEOF, ReadRemoteError, SendRemoteData,
               SendRemoteFails, ReadLoopEnds
<1>11. ClientClosesPeer \/ AgentMessage \/ Dialed => UNCHANGED clientVars
  BY DEF ClientClosesPeer, AgentMessage, HandleConnectRequest, RemoteData, RemoteDataFails,
         RemoteHalfClose, RemoteCloseStream, Dialed, Connected, ConnectRefused
<1>12. CleanupBegins \/ CloseAll \/ LinkLost \/ ClientNotices => UNCHANGED clientVars
  BY DEF CleanupBegins, CloseAll, CloseAllNext, AgentClosesPeer, LinkLost, ClientNotices
<1>13. QED
  BY <1>2, <1>3, <1>4, <1>5, <1>6, <1>7, <1>8, <1>9, <1>10, <1>11, <1>12
     DEF Next, ClientReads, ClientMessage

LEMMA AgentTypesStep == TypeOK /\ Names /\ Requests /\ Next => AgentTypes'
<1> SUFFICES ASSUME TypeOK, Names, Requests, Next PROVE AgentTypes'
  OBVIOUS
<1>1. AgentTypes
  BY DEF TypeOK
<1>2. ASSUME NEW c \in Conns, ReadRemote(c) \/ SendRemoteData(c) PROVE AgentTypes'
  <2>1. CASE ReadRemote(c)
    BY <1>1, <2>1 DEF ReadRemote, AgentTypes
  <2>2. CASE SendRemoteData(c)
    BY <1>1, <2>2 DEF SendRemoteData, AgentTypes
  <2>3. QED BY <1>2, <2>1, <2>2
<1>3. ASSUME NEW c \in Conns, ReadRemoteEOF(c) \/ ReadRemoteError(c) \/ SendRemoteFails(c)
      PROVE  AgentTypes'
  <2>1. PICK why \in {"eof", "error", "request"} : ReadLoopEnds(c, why)
    BY <1>3 DEF ReadRemoteEOF, ReadRemoteError, SendRemoteFails
  <2>2. accepted[c] # "none"
    BY <1>3 DEF ReadRemoteEOF, ReadRemoteError, SendRemoteFails, Requests, Early
  <2>3. QED BY <1>1, <2>1, <2>2, SidIsId, CloseRemoteMoves DEF ReadLoopEnds, AgentTypes
<1>4. CASE HandleConnectRequest
  BY <1>1, <1>4, TailIs DEF HandleConnectRequest, FromClient, AgentTypes, TypeOK, LinkTypes
<1>5. CASE RemoteData
  <2> DEFINE c == remotes[Head(toAgent).sid]
  <2>1. UNCHANGED <<dialing, remotes, remote, reading, down, endedBy>>
    BY <1>5 DEF RemoteData
  <2>2. toAgent # <<>> /\ Head(toAgent).type = "Data" /\ toAgent \in Seq(Messages)
    BY <1>5 DEF RemoteData, FromClient, TypeOK, LinkTypes
  <2>3. Named(toAgent[1]) /\ c \in Conns \cup {Nil}
    BY <1>1, <2>2, TailIs, AfterTake DEF Names, AgentTypes
  <2>4. remoteGot' \in [Conns -> Seq(Conns \X Nat)]
    BY <1>1, <1>5, <2>2, <2>3, WrittenTyped DEF RemoteData, AgentTypes
  <2>5. QED BY <1>1, <2>1, <2>4 DEF AgentTypes
<1>6. CASE RemoteDataFails \/ RemoteCloseStream
  <2>1. Head(toAgent).sid \in Ids
    BY <1>6, AfterTake DEF RemoteDataFails, RemoteCloseStream, FromClient, TypeOK, LinkTypes
  <2>2. PICK n \in BOOLEAN, why \in {"eof", "error", "request"} : CloseRemote(Head(toAgent).sid, n, why)
    BY <1>6 DEF RemoteDataFails, RemoteCloseStream
  <2>3. UNCHANGED <<dialing, reading, down, remoteGot>>
    BY <1>6 DEF RemoteDataFails, RemoteCloseStream
  <2>4. QED BY <1>1, <2>1, <2>2, <2>3, CloseRemoteMoves DEF AgentTypes
<1>7. CASE RemoteHalfClose
  BY <1>1, <1>7 DEF RemoteHalfClose, AgentTypes
<1>8. CASE Connected
  <2>1. dialing.conn \in Conns
    BY <1>8 DEF Connected, Names, Named
  <2>2. QED BY <1>1, <1>8, <2>1 DEF Connected, AgentTypes
<1>9. CASE ConnectRefused
  BY <1>1, <1>9 DEF ConnectRefused, AgentTypes
<1>10. ASSUME NEW i \in Ids, CloseAllNext(i) PROVE AgentTypes'
  BY <1>1, <1>10, CloseRemoteMoves DEF CloseAllNext, AgentTypes
<1>11. CASE UNCHANGED agentVars
  BY <1>1, <1>11 DEF agentVars, AgentTypes
<1>12. ASSUME NEW c \in Conns, Accept(c) \/ HandleLocalConn(c) \/ ClientReads(c) PROVE UNCHANGED agentVars
  BY <1>12 DEF Accept, HandleLocalConn, EnterConnMap, SendConnectReq, SendLocalData, SendHalfClose,
               SendOrClose, ClientReads, ReadLocal, ReadLocalEOF, ReadLocalError
<1>13. ClientMessage \/ RemoveMap \/ ClientClosesPeer => UNCHANGED agentVars
  BY DEF ClientMessage, LocalData, LocalDataFails, ConnectFailed, LocalCloseStream, RemoveMap,
         ClientClosesPeer
<1>14. CleanupBegins \/ AgentClosesPeer \/ LinkLost \/ ClientNotices => UNCHANGED agentVars
  BY DEF CleanupBegins, AgentClosesPeer, LinkLost, ClientNotices
<1>15. QED
  BY <1>2, <1>3, <1>4, <1>5, <1>6, <1>7, <1>8, <1>9, <1>10, <1>11, <1>12, <1>13, <1>14
     DEF Next, AgentReads, AgentSends, AgentMessage, Dialed, CloseAll

LEMMA LinkTypesStep == TypeOK /\ Names /\ Requests /\ Next => LinkTypes'
<1> SUFFICES ASSUME TypeOK, Names, Requests, Next PROVE LinkTypes'
  OBVIOUS
<1>1. LinkTypes
  BY DEF TypeOK
<1>2. toAgent' \in Seq(Messages) /\ toClient' \in Seq(Messages)
  BY <1>1, QueuesMove, MovesTyped DEF LinkTypes
<1> DEFINE rest == <<link, clientOpen, agentOpen, cleanup, closing>>
<1>3. CASE UNCHANGED rest
  BY <1>1, <1>2, <1>3 DEF LinkTypes
<1>4. ASSUME NEW c \in Conns, Accept(c) \/ HandleLocalConn(c) \/ ClientReads(c) PROVE UNCHANGED rest
  BY <1>4 DEF Accept, HandleLocalConn, EnterConnMap, SendConnectReq, SendLocalData, SendHalfClose,
              SendOrClose, ClientReads, ReadLocal, ReadLocalEOF, ReadLocalError, linkVars
<1>5. ASSUME NEW c \in Conns, AgentReads(c) \/ AgentSends(c) PROVE UNCHANGED rest
  BY <1>5 DEF AgentReads, AgentSends, ReadRemote, ReadRemoteEOF, ReadRemoteError, SendRemoteData,
              SendRemoteFails, ReadLoopEnds, KeepLink, linkVars
<1>6. ClientMessage \/ RemoveMap \/ AgentMessage \/ Dialed => UNCHANGED rest
  BY DEF ClientMessage, LocalData, LocalDataFails, ConnectFailed, LocalCloseStream, RemoveMap,
         AgentMessage, HandleConnectRequest, RemoteData, RemoteDataFails, RemoteHalfClose,
         RemoteCloseStream, Dialed, Connected, ConnectRefused, KeepLink, linkVars
<1>7. ClientClosesPeer \/ CleanupBegins \/ LinkLost \/ ClientNotices => LinkTypes'
  BY <1>1, <1>2 DEF ClientClosesPeer, CleanupBegins, LinkLost, ClientNotices, LosesLink, LinkTypes
<1>8. CloseAll => LinkTypes'
  BY <1>1, <1>2 DEF CloseAll, CloseAllNext, AgentClosesPeer, LosesLink, LinkTypes
<1>9. QED BY <1>3, <1>4, <1>5, <1>6, <1>7, <1>8 DEF Next

-----------------------------------------------------------------------------
(* Ids keep naming one connection each.                                     *)

LEMMA NamesKept ==
  ASSUME TypeOK, Names, Moves(toAgent, toAgent'), Moves(toClient, toClient'),
         UNCHANGED <<value, sid>>,
         \A c \in Conns : accepted'[c] = "none" <=> accepted[c] = "none",
         \A i \in Ids : streams'[i] = Nil \/ streams'[i] = streams[i],
         \A i \in Ids : remotes'[i] # Nil => sid[remotes'[i]] = i,
         dialing' # Nil => Named(dialing') /\ dialing'.type = "ConnectReq"
  PROVE  Names'
<1>1. toAgent \in Seq(Messages) /\ toClient \in Seq(Messages)
  BY DEF TypeOK, LinkTypes
<1>2. /\ \A k \in 1..Len(toAgent') : Named(toAgent'[k])
      /\ \A k \in 1..Len(toClient') : Named(toClient'[k])
  BY <1>1, MovesNamed DEF Names
<1>3. QED BY <1>2 DEF Names, Named

LEMMA NamesAccept ==
  ASSUME TypeOK, Names, NEW c \in Conns, Accept(c)
  PROVE  Names'
<1>1. /\ value \in Nat /\ accepted[c] = "none" /\ sid[c] = 0
      /\ value' = value + 1 /\ sid' = [sid EXCEPT ![c] = value + 1]
      /\ streams' = [streams EXCEPT ![value + 1] = c]
      /\ accepted' = [accepted EXCEPT ![c] = "registered"]
      /\ UNCHANGED <<remotes, dialing, toAgent, toClient>>
  BY DEF TypeOK, ClientTypes, Names, Accept, At, NextId, agentVars, linkVars
<1>2. /\ sid \in [Conns -> 0..MaxStreams] /\ MaxStreams \in Nat
      /\ accepted \in [Conns -> {"none", "registered", "mapped", "read", "send", "eof", "done"}]
      /\ streams \in [Ids -> Conns \cup {Nil}] /\ remotes \in [Ids -> Conns \cup {Nil}]
  BY TunnelAssumption DEF TypeOK, ClientTypes, AgentTypes
<1>3. \A d \in Conns : sid[d] <= value /\ (sid[d] = 0 <=> accepted[d] = "none")
  BY DEF Names
<1>4. \A d \in Conns : sid'[d] <= value' /\ (sid'[d] = 0 <=> accepted'[d] = "none")
  <2> SUFFICES ASSUME NEW d \in Conns
               PROVE  sid'[d] <= value' /\ (sid'[d] = 0 <=> accepted'[d] = "none")
    OBVIOUS
  <2>1. CASE d = c
    <3>1. sid'[d] = value + 1 /\ accepted'[d] = "registered"
      BY <1>1, <1>2, <2>1
    <3>2. QED BY <1>1, <3>1
  <2>2. CASE d # c
    <3>1. sid'[d] = sid[d] /\ accepted'[d] = accepted[d]
      BY <1>1, <1>2, <2>2
    <3>2. QED BY <1>1, <1>2, <1>3, <3>1
  <2>3. QED BY <2>1, <2>2
<1>5. \A d, e \in Conns : sid'[d] # 0 /\ sid'[d] = sid'[e] => d = e
  BY <1>1, <1>2, <1>3 DEF Names
<1>6. \A i \in Ids : i # 0
  BY DEF Ids
<1>7. \A i \in Ids : streams[i] # Nil => sid[streams[i]] = i /\ streams[i] \in Conns /\ streams[i] # c
  BY <1>1, <1>2, <1>6 DEF Names
<1>8. \A i \in Ids : streams'[i] # Nil => sid'[streams'[i]] = i
  <2> SUFFICES ASSUME NEW i \in Ids, streams'[i] # Nil PROVE sid'[streams'[i]] = i
    OBVIOUS
  <2>1. CASE i = value + 1
    BY <1>1, <1>2, <2>1
  <2>2. CASE i # value + 1
    BY <1>1, <1>2, <1>7, <2>2
  <2>3. QED BY <2>1, <2>2
<1>9. \A i \in Ids : remotes'[i] # Nil => sid'[remotes'[i]] = i
  BY <1>1, <1>2, <1>6 DEF Names
<1>10. ASSUME NEW m \in Messages, Named(m) PROVE Named(m)'
  <2>1. m.sid # 0
    BY <1>6 DEF Messages
  <2>2. CASE m.type \in {"Data", "ConnectReq"}
    BY <1>1, <1>2, <1>10, <2>1, <2>2 DEF Named
  <2>3. CASE m.type \notin {"Data", "ConnectReq"}
    BY <1>10, <2>3 DEF Named
  <2>4. QED BY <2>2, <2>3
<1>11. /\ \A k \in 1..Len(toAgent) : toAgent[k] \in Messages
       /\ \A k \in 1..Len(toClient) : toClient[k] \in Messages
       /\ dialing # Nil => dialing \in Messages
  BY ElementOfSeq DEF TypeOK, LinkTypes, AgentTypes
<1>12. /\ \A k \in 1..Len(toAgent') : Named(toAgent[k])'
       /\ \A k \in 1..Len(toClient') : Named(toClient[k])'
       /\ dialing' # Nil => Named(dialing)' /\ dialing'.type = "ConnectReq"
  BY <1>1, <1>10, <1>11 DEF Names
<1>13. QED BY <1>4, <1>5, <1>8, <1>9, <1>12 DEF Names

LEMMA NamesStep == TypeOK /\ Names /\ Requests /\ Next => Names'
<1> SUFFICES ASSUME TypeOK, Names, Requests, Next PROVE Names'
  OBVIOUS
<1>1. /\ Moves(toAgent, toAgent') /\ Moves(toClient, toClient')
      /\ \A i \in Ids : remotes[i] # Nil => sid[remotes[i]] = i
      /\ dialing # Nil => Named(dialing) /\ dialing.type = "ConnectReq"
      /\ streams \in [Ids -> Conns \cup {Nil}] /\ remotes \in [Ids -> Conns \cup {Nil}]
      /\ accepted \in [Conns -> {"none", "registered", "mapped", "read", "send", "eof", "done"}]
  BY QueuesMove DEF Names, TypeOK, ClientTypes, AgentTypes
<1>2. ASSUME NEW c \in Conns, HandleLocalConn(c) \/ ClientReads(c)
      PROVE  /\ UNCHANGED <<value, sid, remotes, dialing>>
             /\ \A d \in Conns : accepted'[d] = "none" <=> accepted[d] = "none"
             /\ \A i \in Ids : streams'[i] = Nil \/ streams'[i] = streams[i]
  <2>1. CASE EnterConnMap(c) \/ ReadLocal(c) \/ ReadLocalEOF(c)
    <3>1. UNCHANGED <<value, sid, remotes, dialing, streams>>
      BY <2>1 DEF EnterConnMap, ReadLocal, ReadLocalEOF, agentVars
    <3>2. \E to \in {"mapped", "send", "eof"} :
            accepted[c] # "none" /\ accepted' = [accepted EXCEPT ![c] = to]
      BY <2>1 DEF EnterConnMap, ReadLocal, ReadLocalEOF, At
    <3>3. QED BY <1>1, <3>1, <3>2
  <2>2. CASE ReadLocalError(c)
    BY <1>1, <2>2 DEF ReadLocalError, At, CloseLocal, agentVars
  <2>3. CASE SendConnectReq(c) \/ SendLocalData(c) \/ SendHalfClose(c)
    <3>1. PICK from \in {"mapped", "send", "eof"}, then \in {"read", "done"}, m \in Messages :
            Named(m) /\ SendOrClose(c, from, m, then)
      BY <2>3, ItSends
    <3>2. UNCHANGED <<value, sid, remotes, dialing>>
      BY <3>1 DEF SendOrClose, agentVars
    <3>3. from # "none"
      OBVIOUS
    <3>4. /\ streams' = streams \/ streams' = [streams EXCEPT ![sid[c]] = Nil]
          /\ accepted[c] # "none"
          /\ accepted' = [accepted EXCEPT ![c] = then] \/ accepted' = [accepted EXCEPT ![c] = "done"]
      BY <3>1, <3>3, SendOrCloseIs
    <3>5. QED BY <1>1, <3>2, <3>4
  <2>4. QED BY <1>2, <2>1, <2>2, <2>3 DEF HandleLocalConn, ClientReads
<1>3. ASSUME ClientMessage \/ RemoveMap \/ ClientClosesPeer
      PROVE  /\ UNCHANGED <<value, sid, remotes, dialing, accepted>>
             /\ \A i \in Ids : streams'[i] = Nil \/ streams'[i] = streams[i]
  <2>1. UNCHANGED <<value, sid, remotes, dialing, accepted>>
    BY <1>3 DEF ClientMessage, LocalData, LocalDataFails, ConnectFailed, LocalCloseStream, KeepClientLoop,
                RemoveMap, ClientClosesPeer, clientVars, agentVars
  <2>2. CASE RemoveMap
    <3>1. streams' = [i \in Ids |-> IF i \in {j \in Ids : connMap[j] # Nil} THEN Nil ELSE streams[i]]
      BY <2>2 DEF RemoveMap
    <3>2. QED BY <2>1, <3>1
  <2>3. CASE ~RemoveMap
    <3>1. streams' = streams \/ streams' = [streams EXCEPT ![Head(toClient).sid] = Nil]
      BY <1>3, <2>3 DEF ClientMessage, LocalData, LocalDataFails, ConnectFailed, LocalCloseStream,
                        CloseLocal, KeepStreams, ClientClosesPeer, clientVars
    <3>2. QED BY <1>1, <2>1, <3>1
  <2>4. QED BY <2>1, <2>2, <2>3
<1>4. ASSUME NEW c \in Conns, AgentReads(c) \/ AgentSends(c)
      PROVE  /\ UNCHANGED <<value, sid, accepted, streams, dialing>>
             /\ \A i \in Ids : remotes'[i] = Nil \/ remotes'[i] = remotes[i]
  <2>1. UNCHANGED <<value, sid, accepted, streams, dialing>>
    BY <1>4 DEF AgentReads, AgentSends, ReadRemote, ReadRemoteEOF, ReadRemoteError, SendRemoteData,
                SendRemoteFails, ReadLoopEnds, clientVars
  <2>2. remotes' = remotes \/ remotes' = [remotes EXCEPT ![sid[c]] = Nil]
    BY <1>4 DEF AgentReads, AgentSends, ReadRemote, ReadRemoteEOF, ReadRemoteError, SendRemoteData,
                SendRemoteFails, ReadLoopEnds, CloseRemote, clientVars
  <2>3. QED BY <1>1, <2>1, <2>2
<1>5. ASSUME AgentMessage \/ Dialed
      PROVE  /\ UNCHANGED <<value, sid, accepted, streams>>
             /\ \A i \in Ids : remotes'[i] # Nil => sid[remotes'[i]] = i
             /\ dialing' # Nil => Named(dialing') /\ dialing'.type = "ConnectReq"
  <2>1. UNCHANGED <<value, sid, accepted, streams>>
    BY <1>5 DEF AgentMessage, HandleConnectRequest, RemoteData, RemoteDataFails, RemoteHalfClose,
                RemoteCloseStream, Dialed, Connected, ConnectRefused, clientVars
  <2>2. CASE HandleConnectRequest
    <3>1. Named(Head(toAgent)) /\ Head(toAgent).type = "ConnectReq"
      BY <2>2, TailIs DEF HandleConnectRequest, FromClient, Names, TypeOK, LinkTypes
    <3>2. QED BY <1>1, <2>1, <2>2, <3>1 DEF HandleConnectRequest
  <2>3. CASE Connected
    <3>1. /\ dialing' = Nil /\ dialing.conn \in Conns /\ dialing.sid = sid[dialing.conn]
          /\ remotes' = remotes \/ remotes' = [remotes EXCEPT ![dialing.sid] = dialing.conn]
      BY <1>1, <2>3 DEF Connected, Named
    <3>2. QED BY <1>1, <2>1, <3>1
  <2>4. CASE ConnectRefused \/ RemoteData \/ RemoteDataFails \/ RemoteHalfClose \/ RemoteCloseStream
    <3>1. /\ dialing' = Nil \/ dialing' = dialing
          /\ remotes' = remotes \/ remotes' = [remotes EXCEPT ![Head(toAgent).sid] = Nil]
      BY <2>4 DEF ConnectRefused, RemoteData, RemoteDataFails, RemoteHalfClose, RemoteCloseStream, CloseRemote
    <3>2. QED BY <1>1, <2>1, <3>1
  <2>5. QED BY <1>5, <2>2, <2>3, <2>4 DEF AgentMessage, Dialed
<1>6. ASSUME CleanupBegins \/ CloseAll \/ LinkLost \/ ClientNotices
      PROVE  /\ UNCHANGED <<value, sid, accepted, streams, dialing>>
             /\ \A i \in Ids : remotes'[i] = Nil \/ remotes'[i] = remotes[i]
  <2>1. CASE \E i \in Ids : CloseAllNext(i)
    BY <1>1, <2>1 DEF CloseAllNext, CloseRemote, clientVars
  <2>2. CASE CleanupBegins \/ AgentClosesPeer \/ LinkLost \/ ClientNotices
    BY <2>2 DEF CleanupBegins, AgentClosesPeer, LinkLost, ClientNotices, clientVars, agentVars
  <2>3. QED BY <1>6, <2>1, <2>2 DEF CloseAll
<1>7. ASSUME NEW c \in Conns, HandleLocalConn(c) \/ ClientReads(c) PROVE Names'
  BY <1>1, <1>2, <1>7, NamesKept
<1>8. ASSUME ClientMessage \/ RemoveMap \/ ClientClosesPeer PROVE Names'
  BY <1>1, <1>3, <1>8, NamesKept
<1>9. ASSUME NEW c \in Conns, AgentReads(c) \/ AgentSends(c) PROVE Names'
  BY <1>1, <1>4, <1>9, NamesKept
<1>10. ASSUME AgentMessage \/ Dialed PROVE Names'
  BY <1>1, <1>5, <1>10, NamesKept
<1>11. ASSUME CleanupBegins \/ CloseAll \/ LinkLost \/ ClientNotices PROVE Names'
  BY <1>1, <1>6, <1>11, NamesKept
<1>12. QED BY <1>7, <1>8, <1>9, <1>10, <1>11, NamesAccept DEF Next

-----------------------------------------------------------------------------
(* Requests stay single.                                                    *)

\* The queue to the agent moves without a new request.
QuietMove(r) ==
  \/ r = toAgent \/ r = <<>>
  \/ toAgent # <<>> /\ r = Tail(toAgent)
  \/ \E m \in Messages : /\ m.type # "ConnectReq"
                         /\ m.conn # Nil => m.conn \in Conns /\ accepted[m.conn] \notin Early
                         /\ r = Append(toAgent, m)

NoneOf(q, c) == \A k \in 1..Len(q) : q[k].conn # c
NoRequestOf(q, c) == \A k \in 1..Len(q) : q[k].type = "ConnectReq" => q[k].conn # c
RequestFirst(q) ==
  \A k \in 1..Len(q) : q[k].type = "ConnectReq" =>
    reading[q[k].conn] = "none" /\ \A j \in 1..Len(q) : j < k => q[j].conn # q[k].conn

LEMMA QuietQueue ==
  ASSUME TypeOK, Names, RequestFirst(toAgent), NEW r, QuietMove(r)
  PROVE  /\ \A c \in Conns : accepted[c] \in Early /\ NoneOf(toAgent, c) => NoneOf(r, c)
         /\ \A c \in Conns : NoRequestOf(toAgent, c) => NoRequestOf(r, c)
         /\ RequestFirst(r)
<1>1. toAgent \in Seq(Messages) /\ \A c \in Conns : c # Nil
  BY TunnelAssumption DEF TypeOK, LinkTypes
<1>2. CASE r = toAgent
  BY <1>2
<1>3. CASE r = <<>>
  <2>1. Len(r) = 0 /\ 1..0 = {}
    BY <1>3, EmptySeq
  <2>2. QED BY <2>1 DEF NoneOf, NoRequestOf, RequestFirst
<1>4. CASE toAgent # <<>> /\ r = Tail(toAgent)
  <2>1. \A k \in 1..Len(r) : k \in Int /\ k + 1 \in 1..Len(toAgent) /\ r[k] = toAgent[k + 1]
    BY <1>1, <1>4, TailIs
  <2>2. ASSUME NEW k \in 1..Len(r), NEW j \in 1..Len(r), r[k].type = "ConnectReq", j < k
        PROVE  r[j].conn # r[k].conn
    <3>1. j + 1 < k + 1
      BY <2>1, <2>2
    <3>2. QED BY <2>1, <2>2, <3>1 DEF RequestFirst
  <2>3. RequestFirst(r)
    BY <2>1, <2>2 DEF RequestFirst
  <2>4. QED BY <2>1, <2>3 DEF NoneOf, NoRequestOf
<1>5. ASSUME NEW m \in Messages, m.type # "ConnectReq", r = Append(toAgent, m),
             m.conn # Nil => m.conn \in Conns /\ accepted[m.conn] \notin Early
      PROVE  /\ \A c \in Conns : accepted[c] \in Early /\ NoneOf(toAgent, c) => NoneOf(r, c)
             /\ \A c \in Conns : NoRequestOf(toAgent, c) => NoRequestOf(r, c)
             /\ RequestFirst(r)
  <2>1. /\ Len(toAgent) \in Nat /\ r[Len(toAgent) + 1] = m
        /\ \A k \in 1..Len(toAgent) : r[k] = toAgent[k]
        /\ \A k \in 1..Len(r) : k \in 1..Len(toAgent) \/ k = Len(toAgent) + 1
    BY <1>1, <1>5, AppendIs
  <2>2. ASSUME NEW k \in 1..Len(r), r[k].type = "ConnectReq"
        PROVE  reading[r[k].conn] = "none" /\ \A j \in 1..Len(r) : j < k => r[j].conn # r[k].conn
    <3>1. k \in 1..Len(toAgent) /\ r[k] = toAgent[k]
      BY <1>5, <2>1, <2>2
    <3>2. \A j \in 1..Len(r) : j < k => j \in 1..Len(toAgent) /\ r[j] = toAgent[j]
      BY <2>1, <3>1
    <3>3. QED BY <2>2, <3>1, <3>2 DEF RequestFirst
  <2>3. \A c \in Conns : accepted[c] \in Early => m.conn # c
    BY <1>1, <1>5
  <2>4. QED BY <1>5, <2>1, <2>2, <2>3 DEF NoneOf, NoRequestOf, RequestFirst
<1>6. QED BY <1>2, <1>3, <1>4, <1>5 DEF QuietMove

LEMMA RequestsIs ==
  Requests <=>
    /\ \A c \in Conns : accepted[c] \in Early => reading[c] = "none" /\ NoneOf(toAgent, c)
    /\ dialing # Nil => /\ reading[dialing.conn] = "none" /\ accepted[dialing.conn] \notin Early
                        /\ NoRequestOf(toAgent, dialing.conn)
    /\ RequestFirst(toAgent)
BY DEF Requests, NoneOf, NoRequestOf, RequestFirst

LEMMA RequestsKept ==
  ASSUME TypeOK, Names, Requests, QuietMove(toAgent'),
         \A c \in Conns : accepted'[c] \in Early => accepted[c] \in Early,
         \A c \in Conns : reading[c] = "none" => reading'[c] = "none",
         dialing' = Nil \/ dialing' = dialing, Names'
  PROVE  Requests'
<1>1. /\ \A c \in Conns : accepted[c] \in Early /\ NoneOf(toAgent, c) => NoneOf(toAgent', c)
      /\ \A c \in Conns : NoRequestOf(toAgent, c) => NoRequestOf(toAgent', c)
      /\ RequestFirst(toAgent')
  BY QuietQueue, RequestsIs
<1>2. \A c \in Conns : accepted'[c] \in Early => reading'[c] = "none" /\ NoneOf(toAgent', c)
  BY <1>1, RequestsIs
<1>3. dialing # Nil => dialing.conn \in Conns
  BY DEF Names, Named
<1>4. dialing' # Nil => /\ reading'[dialing'.conn] = "none" /\ accepted'[dialing'.conn] \notin Early
                        /\ NoRequestOf(toAgent', dialing'.conn)
  BY <1>1, <1>3, RequestsIs
<1>5. ASSUME NEW k \in 1..Len(toAgent'), toAgent'[k].type = "ConnectReq"
      PROVE  /\ reading'[toAgent'[k].conn] = "none"
             /\ \A j \in 1..Len(toAgent') : j < k => toAgent'[j].conn # toAgent'[k].conn
  <2>1. toAgent'[k].conn \in Conns
    BY <1>5 DEF Names, Named
  <2>2. QED BY <1>1, <1>5, <2>1 DEF RequestFirst
<1>6. QED BY <1>2, <1>4, <1>5 DEF Requests, NoneOf, NoRequestOf

LEMMA RequestsStep == TypeOK /\ Names /\ Requests /\ Next => Requests'
<1> SUFFICES ASSUME TypeOK, Names, Requests, Next PROVE Requests'
  OBVIOUS
<1>1. /\ Names'
      /\ toAgent \in Seq(Messages) /\ dialing \in Messages \cup {Nil} /\ Nil \notin Conns
      /\ reading \in [Conns -> {"none", "read", "send", "done"}]
      /\ accepted \in [Conns -> {"none", "registered", "mapped", "read", "send", "eof", "done"}]
      /\ dialing # Nil => dialing.conn \in Conns
  BY NamesStep, TunnelAssumption DEF TypeOK, LinkTypes, AgentTypes, ClientTypes, Names, Named
<1> DEFINE Quiet2 == /\ QuietMove(toAgent')
                     /\ \A c \in Conns : accepted'[c] \in Early => accepted[c] \in Early
                     /\ \A c \in Conns : reading[c] = "none" => reading'[c] = "none"
                     /\ dialing' = Nil \/ dialing' = dialing
<1>2. Quiet2 => Requests'
  BY <1>1, RequestsKept
<1>3. \A i \in Ids, n \in BOOLEAN : CloseLocal(i, n) => QuietMove(toAgent')
  BY CloseLocalMoves DEF QuietMove
<1>4. ASSUME NEW c \in Conns, Accept(c) \/ EnterConnMap(c) \/ ReadLocal(c) \/ ReadLocalEOF(c) PROVE Quiet2
  <2>1. UNCHANGED <<toAgent, reading, dialing>>
    BY <1>4 DEF Accept, EnterConnMap, ReadLocal, ReadLocalEOF, agentVars, linkVars
  <2>2. \E to \in {"registered", "mapped", "send", "eof"} :
          accepted' = [accepted EXCEPT ![c] = to] /\ (to \in Early => accepted[c] \in Early)
    BY <1>4 DEF Accept, EnterConnMap, ReadLocal, ReadLocalEOF, At, Early
  <2>3. QED BY <1>1, <2>1, <2>2 DEF QuietMove
<1>5. ASSUME NEW c \in Conns, ReadLocalError(c) PROVE Quiet2
  <2>1. QuietMove(toAgent')
    BY <1>3, <1>5, SidIsId DEF ReadLocalError, At
  <2>2. accepted' = [accepted EXCEPT ![c] = "done"] /\ UNCHANGED <<reading, dialing>>
    BY <1>5 DEF ReadLocalError, At, agentVars
  <2>3. QED BY <1>1, <2>1, <2>2 DEF Early
<1>6. ASSUME NEW c \in Conns, SendLocalData(c) \/ SendHalfClose(c) PROVE Quiet2
  <2>1. PICK from \in {"send", "eof"}, then \in {"read", "done"}, m \in Messages :
          /\ Named(m) /\ SendOrClose(c, from, m, then)
          /\ m.type # "ConnectReq" /\ m.conn \in {c, Nil}
    BY <1>6, ItsMessages DEF SendLocalData, SendHalfClose, SendOrClose, IsDataOf
  <2>2. from # "none" /\ UNCHANGED <<reading, dialing>>
    BY <2>1 DEF SendOrClose, agentVars
  <2>3. /\ toAgent' = toAgent \/ toAgent' = Append(toAgent, m)
        /\ accepted[c] = from
        /\ accepted' = [accepted EXCEPT ![c] = then] \/ accepted' = [accepted EXCEPT ![c] = "done"]
    BY <2>1, <2>2, SendOrCloseIs DEF Carried
  <2>4. QuietMove(toAgent')
    BY <2>1, <2>3 DEF QuietMove, Early
  <2>5. QED BY <1>1, <2>2, <2>3, <2>4 DEF Early
<1>7. ASSUME NEW c \in Conns, SendConnectReq(c) PROVE Requests'
  <2> DEFINE m == Message("ConnectReq", sid[c], c, 0)
  <2>1. m \in Messages /\ Named(m) /\ m.type = "ConnectReq" /\ m.conn = c
    BY <1>7, ItsMessages DEF SendConnectReq, SendOrClose
  <2>2. SendOrClose(c, "mapped", m, "read") /\ UNCHANGED <<reading, dialing>>
    BY <1>7 DEF SendConnectReq, SendOrClose, agentVars
  <2> HIDE DEF m
  <2>3. /\ toAgent' = toAgent \/ toAgent' = Append(toAgent, m)
        /\ accepted[c] = "mapped"
        /\ accepted' = [accepted EXCEPT ![c] = "read"] \/ accepted' = [accepted EXCEPT ![c] = "done"]
    BY <2>1, <2>2, SendOrCloseIs DEF Carried
  <2>4. reading[c] = "none" /\ NoneOf(toAgent, c) /\ (dialing # Nil => dialing.conn # c)
    BY <2>3, RequestsIs DEF Early
  <2>5. \A d \in Conns : accepted'[d] \in Early => accepted[d] \in Early /\ d # c
    BY <1>1, <2>3 DEF Early
  <2>6. CASE toAgent' = toAgent
    BY <1>2, <2>2, <2>5, <2>6 DEF QuietMove
  <2>7. CASE toAgent' = Append(toAgent, m)
    <3>1. /\ Len(toAgent) \in Nat /\ toAgent'[Len(toAgent) + 1] = m
          /\ \A k \in 1..Len(toAgent) : toAgent'[k] = toAgent[k]
          /\ \A k \in 1..Len(toAgent') : k \in 1..Len(toAgent) \/ k = Len(toAgent) + 1
      BY <1>1, <2>1, <2>7, AppendIs
    <3>2. \A d \in Conns : accepted'[d] \in Early => reading'[d] = "none" /\ NoneOf(toAgent', d)
      BY <2>1, <2>2, <2>5, <3>1, RequestsIs DEF NoneOf
    <3>3. dialing' # Nil => /\ reading'[dialing'.conn] = "none" /\ accepted'[dialing'.conn] \notin Early
                            /\ NoRequestOf(toAgent', dialing'.conn)
      BY <1>1, <2>1, <2>2, <2>4, <2>5, <3>1, RequestsIs DEF NoRequestOf
    <3>4. ASSUME NEW k \in 1..Len(toAgent'), toAgent'[k].type = "ConnectReq"
          PROVE  /\ reading'[toAgent'[k].conn] = "none"
                 /\ \A j \in 1..Len(toAgent') : j < k => toAgent'[j].conn # toAgent'[k].conn
      <4>1. CASE k = Len(toAgent) + 1
        BY <2>1, <2>2, <2>4, <3>1, <4>1 DEF NoneOf
      <4>2. CASE k \in 1..Len(toAgent)
        <5>1. \A j \in 1..Len(toAgent') : j < k => j \in 1..Len(toAgent) /\ toAgent'[j] = toAgent[j]
          BY <3>1, <4>2
        <5>2. QED BY <2>2, <3>1, <3>4, <4>2, <5>1, RequestsIs DEF RequestFirst
      <4>3. QED BY <3>1, <4>1, <4>2
    <3>5. QED BY <3>2, <3>3, <3>4 DEF Requests, NoneOf, NoRequestOf
  <2>8. QED BY <2>3, <2>6, <2>7
<1>8. ASSUME ClientMessage \/ RemoveMap \/ ClientClosesPeer PROVE Quiet2
  <2>1. UNCHANGED <<accepted, reading, dialing>>
    BY <1>8 DEF ClientMessage, LocalData, LocalDataFails, ConnectFailed, LocalCloseStream, KeepClientLoop,
                RemoveMap, ClientClosesPeer, clientVars, agentVars
  <2>2. CASE LocalDataFails \/ ConnectFailed \/ LocalCloseStream
    <3>1. toClient # <<>> /\ toClient \in Seq(Messages)
      BY <2>2 DEF LocalDataFails, ConnectFailed, LocalCloseStream, FromAgent, TypeOK, LinkTypes
    <3>2. Head(toClient).sid \in Ids
      BY <3>1, AfterTake
    <3>3. \E n \in BOOLEAN : CloseLocal(Head(toClient).sid, n)
      BY <2>2 DEF LocalDataFails, ConnectFailed, LocalCloseStream
    <3>4. QED BY <1>3, <2>1, <3>2, <3>3
  <2>3. CASE LocalData \/ RemoveMap \/ ClientClosesPeer
    BY <2>1, <2>3 DEF LocalData, RemoveMap, ClientClosesPeer, LosesLink, linkVars, QuietMove
  <2>4. QED BY <1>8, <2>2, <2>3 DEF ClientMessage
<1>9. ASSUME NEW c \in Conns, AgentReads(c) \/ AgentSends(c) PROVE Quiet2
  <2>1. UNCHANGED <<accepted, dialing, toAgent>> /\ reading[c] # "none"
    BY <1>9 DEF AgentReads, AgentSends, ReadRemote, ReadRemoteEOF, ReadRemoteError, SendRemoteData,
                SendRemoteFails, ReadLoopEnds, clientVars, linkVars
  <2>2. \E to : reading' = [reading EXCEPT ![c] = to]
    BY <1>9 DEF AgentReads, AgentSends, ReadRemote, ReadRemoteEOF, ReadRemoteError, SendRemoteData,
                SendRemoteFails, ReadLoopEnds
  <2>3. QED BY <1>1, <2>1, <2>2 DEF QuietMove
<1>10. CASE HandleConnectRequest
  <2>1. /\ dialing = Nil /\ toAgent # <<>> /\ Head(toAgent).type = "ConnectReq"
        /\ toAgent' = Tail(toAgent) /\ dialing' = Head(toAgent) /\ UNCHANGED <<accepted, reading>>
    BY <1>10 DEF HandleConnectRequest, FromClient, HandlerIdle, clientVars
  <2>2. /\ Head(toAgent) = toAgent[1] /\ 1 \in 1..Len(toAgent)
        /\ \A k \in 1..Len(toAgent') : k \in Int /\ 1 < k + 1 /\ k + 1 \in 1..Len(toAgent) /\ toAgent'[k] = toAgent[k + 1]
    BY <1>1, <2>1, TailIs
  <2>3. Named(toAgent[1]) /\ toAgent[1].conn \in Conns
    BY <2>1, <2>2 DEF Names, Named
  <2>4. reading[toAgent[1].conn] = "none" /\ accepted[toAgent[1].conn] \notin Early
    BY <2>1, <2>2, <2>3 DEF Requests
  <2>5. NoRequestOf(toAgent', toAgent[1].conn)
    BY <2>1, <2>2 DEF Requests, NoRequestOf
  <2>6. /\ \A c \in Conns : accepted[c] \in Early /\ NoneOf(toAgent, c) => NoneOf(toAgent', c)
        /\ RequestFirst(toAgent')
    BY <2>1, QuietQueue, RequestsIs DEF QuietMove
  <2>7. QED BY <2>1, <2>2, <2>4, <2>5, <2>6, RequestsIs DEF Requests, NoneOf, NoRequestOf, RequestFirst
<1>11. CASE Connected
  <2>1. /\ dialing # Nil /\ dialing' = Nil /\ UNCHANGED <<accepted, toAgent>>
        /\ reading' = reading \/ reading' = [reading EXCEPT ![dialing.conn] = "read"]
    BY <1>11 DEF Connected, clientVars, linkVars
  <2>2. accepted[dialing.conn] \notin Early /\ NoRequestOf(toAgent, dialing.conn)
    BY <2>1, RequestsIs
  <2>3. \A c \in Conns : c # dialing.conn => reading'[c] = reading[c]
    BY <1>1, <2>1
  <2>4. \A c \in Conns : accepted'[c] \in Early => reading'[c] = "none" /\ NoneOf(toAgent', c)
    BY <2>1, <2>2, <2>3, RequestsIs
  <2>5. \A k \in 1..Len(toAgent) : toAgent[k].type = "ConnectReq" => toAgent[k].conn \in Conns
    BY DEF Names, Named
  <2>6. RequestFirst(toAgent)'
    BY <2>1, <2>2, <2>3, <2>5, RequestsIs DEF RequestFirst, NoRequestOf
  <2>7. QED BY <2>1, <2>4, <2>6 DEF Requests, NoneOf, NoRequestOf, RequestFirst
<1>12. ASSUME \/ ConnectRefused \/ RemoteData \/ RemoteDataFails \/ RemoteHalfClose \/ RemoteCloseStream
       PROVE  Quiet2
  <2>1. UNCHANGED <<accepted, reading>> /\ (dialing' = Nil \/ dialing' = dialing)
    BY <1>12 DEF ConnectRefused, RemoteData, RemoteDataFails, RemoteHalfClose, RemoteCloseStream, clientVars
  <2>2. QuietMove(toAgent')
    BY <1>12 DEF ConnectRefused, RemoteData, RemoteDataFails, RemoteHalfClose, RemoteCloseStream,
                 FromClient, QuietMove
  <2>3. QED BY <2>1, <2>2
<1>13. ASSUME CleanupBegins \/ CloseAll \/ LinkLost \/ ClientNotices PROVE Quiet2
  <2>1. UNCHANGED <<accepted, reading, dialing>>
    BY <1>13 DEF CleanupBegins, CloseAll, CloseAllNext, AgentClosesPeer, LinkLost, ClientNotices,
                 clientVars, agentVars
  <2>2. toAgent' = toAgent \/ toAgent' = <<>>
    BY <1>13 DEF CleanupBegins, CloseAll, CloseAllNext, AgentClosesPeer, LinkLost, ClientNotices, LosesLink
  <2>3. QED BY <2>1, <2>2 DEF QuietMove
<1>14. QED
  BY <1>2, <1>4, <1>5, <1>6, <1>7, <1>8, <1>9, <1>10, <1>11, <1>12, <1>13
     DEF Next, HandleLocalConn, ClientReads, AgentMessage, Dialed

-----------------------------------------------------------------------------
(* What is under way.                                                       *)

\* A lost link carries nothing, and an end is closed only once it is lost.
LinkInv ==
  /\ (~clientOpen \/ ~agentOpen) => link = "lost"
  /\ link = "lost" => toAgent = <<>> /\ toClient = <<>>

\* A chunk that is to be sent was read.
Counted ==
  \A c \in Conns : (accepted[c] = "send" => up[c] >= 1) /\ (reading[c] = "send" => down[c] >= 1)

\* The chunks of c handed to the link, while the end that reads them goes on.
LastUp(c) == IF accepted[c] = "send" THEN up[c] - 1 ELSE up[c]
LastDown(c) == IF reading[c] = "send" THEN down[c] - 1 ELSE down[c]

\* The agent will dial c or has it open; the client will accept c or has it open.
Requested(q, c) == \E k \in 1..Len(q) : q[k].type = "ConnectReq" /\ q[k].conn = c
UpAlive(c) ==
  \/ accepted[c] \in Early \/ (dialing # Nil /\ dialing.conn = c) \/ Requested(toAgent, c)
  \/ \E i \in Ids : remotes[i] = c
DownAlive(c) == accepted[c] = "none" \/ \E i \in Ids : streams[i] = c

UpInv ==
  link = "up" =>
    \A c \in Conns : UpAlive(c) => InFlight(toAgent, c, Len(remoteGot[c]), LastUp(c))
DownInv ==
  link = "up" =>
    \A c \in Conns : DownAlive(c) => InFlight(toClient, c, Len(localGot[c]), LastDown(c))

TunnelInv == TypeOK /\ Names /\ Requests /\ LinkInv /\ Counted

LEMMA LinkStep == TunnelInv /\ Next => LinkInv' /\ (link = "lost" => link' = "lost")
<1> SUFFICES ASSUME TunnelInv, Next PROVE LinkInv' /\ (link = "lost" => link' = "lost")
  OBVIOUS
<1> USE DEF LinkInv
<1>1. LinkInv /\ link \in {"up", "lost"}
  BY DEF TunnelInv, TypeOK, LinkTypes
<1> DEFINE Goal == LinkInv' /\ (link = "lost" => link' = "lost")
           Kept == UNCHANGED <<link, clientOpen, agentOpen>>
           Still == link = "lost" => toAgent' = toAgent /\ toClient' = toClient
<1>2. Kept /\ Still => Goal
  BY <1>1
<1>3. ASSUME NEW c \in Conns, Accept(c) \/ EnterConnMap(c) \/ ClientReads(c) PROVE Goal
  <2>1. Kept
    BY <1>3 DEF Accept, EnterConnMap, ClientReads, ReadLocal, ReadLocalEOF, ReadLocalError, linkVars
  <2>2. Still
    BY <1>3 DEF Accept, EnterConnMap, ClientReads, ReadLocal, ReadLocalEOF, ReadLocalError, CloseLocal,
                Carried, linkVars
  <2>3. QED BY <1>2, <2>1, <2>2
<1>4. ASSUME NEW c \in Conns, SendConnectReq(c) \/ SendLocalData(c) \/ SendHalfClose(c) PROVE Goal
  <2>1. PICK from \in {"mapped", "send", "eof"}, then \in {"read", "done"}, m \in Messages :
          Named(m) /\ SendOrClose(c, from, m, then)
    BY <1>4, ItSends DEF TunnelInv
  <2>2. Kept /\ Still
    BY <2>1 DEF SendOrClose, CloseLocal, Carried
  <2>3. QED BY <1>2, <2>2
<1>5. ASSUME NEW c \in Conns, AgentReads(c) \/ AgentSends(c) PROVE Goal
  <2>1. Kept
    BY <1>5 DEF AgentReads, AgentSends, ReadRemote, ReadRemoteEOF, ReadRemoteError, SendRemoteData,
                SendRemoteFails, ReadLoopEnds, KeepLink, linkVars
  <2>2. Still
    BY <1>5 DEF AgentReads, AgentSends, ReadRemote, ReadRemoteEOF, ReadRemoteError, SendRemoteData,
                SendRemoteFails, ReadLoopEnds, CloseRemote, Carried, linkVars
  <2>3. QED BY <1>2, <2>1, <2>2
<1>6. CASE ClientMessage
  <2>1. Kept /\ toClient # <<>>
    BY <1>6 DEF ClientMessage, LocalData, LocalDataFails, ConnectFailed, LocalCloseStream, FromAgent, KeepLink
  <2>2. QED BY <1>1, <2>1
<1>7. CASE AgentMessage
  <2>1. Kept /\ toAgent # <<>>
    BY <1>7 DEF AgentMessage, HandleConnectRequest, RemoteData, RemoteDataFails, RemoteHalfClose,
                RemoteCloseStream, FromClient, KeepLink
  <2>2. QED BY <1>1, <2>1
<1>8. CASE Dialed \/ RemoveMap \/ CleanupBegins
  <2>1. Kept /\ Still
    BY <1>8 DEF Dialed, Connected, ConnectRefused, RemoveMap, CleanupBegins, Carried, KeepLink, linkVars
  <2>2. QED BY <1>2, <2>1
<1>9. CASE \E i \in Ids : CloseAllNext(i)
  <2>1. Kept /\ Still
    BY <1>9 DEF CloseAllNext, CloseRemote, Carried
  <2>2. QED BY <1>2, <2>1
<1>10. CASE LinkLost \/ ClientNotices \/ ClientClosesPeer \/ AgentClosesPeer
  BY <1>1, <1>10 DEF LinkLost, ClientNotices, ClientClosesPeer, AgentClosesPeer, LosesLink
<1>11. QED
  BY <1>3, <1>4, <1>5, <1>6, <1>7, <1>8, <1>9, <1>10 DEF Next, HandleLocalConn, CloseAll

LEMMA CountedStep == TunnelInv /\ Next => Counted'
<1> SUFFICES ASSUME TunnelInv, Next PROVE Counted'
  OBVIOUS
<1>1. /\ Counted
      /\ accepted \in [Conns -> {"none", "registered", "mapped", "read", "send", "eof", "done"}]
      /\ reading \in [Conns -> {"none", "read", "send", "done"}]
      /\ up \in [Conns -> Nat] /\ down \in [Conns -> Nat]
  BY DEF TunnelInv, TypeOK, ClientTypes, AgentTypes
<1>2. UNCHANGED <<accepted, up, reading, down>> => Counted'
  BY <1>1 DEF Counted
<1>3. ASSUME NEW c \in Conns, Accept(c) \/ EnterConnMap(c) \/ ReadLocalEOF(c) \/ ReadLocalError(c)
      PROVE  Counted'
  <2>1. UNCHANGED <<up, reading, down>>
    BY <1>3 DEF Accept, EnterConnMap, ReadLocalEOF, ReadLocalError, agentVars
  <2>2. \E to : to # "send" /\ accepted' = [accepted EXCEPT ![c] = to]
    BY <1>3 DEF Accept, EnterConnMap, ReadLocalEOF, ReadLocalError, At
  <2>3. QED BY <1>1, <2>1, <2>2 DEF Counted
<1>4. ASSUME NEW c \in Conns, ReadLocal(c) PROVE Counted'
  BY <1>1, <1>4 DEF ReadLocal, At, agentVars, Counted
<1>5. ASSUME NEW c \in Conns, SendConnectReq(c) \/ SendLocalData(c) \/ SendHalfClose(c) PROVE Counted'
  <2>1. PICK from \in {"mapped", "send", "eof"}, then \in {"read", "done"}, m \in Messages :
          Named(m) /\ SendOrClose(c, from, m, then)
    BY <1>5, ItSends DEF TunnelInv
  <2>2. UNCHANGED <<up, reading, down>>
    BY <2>1 DEF SendOrClose, agentVars
  <2>3. accepted' = [accepted EXCEPT ![c] = then] \/ accepted' = [accepted EXCEPT ![c] = "done"]
    BY <2>1 DEF SendOrClose
  <2>4. \E to : to # "send" /\ accepted' = [accepted EXCEPT ![c] = to]
    BY <2>3
  <2>5. QED BY <1>1, <2>2, <2>4 DEF Counted
<1>6. ASSUME NEW c \in Conns, ReadRemote(c) PROVE Counted'
  BY <1>1, <1>6 DEF ReadRemote, clientVars, Counted
<1>7. ASSUME NEW c \in Conns, ReadRemoteEOF(c) \/ ReadRemoteError(c) \/ AgentSends(c) PROVE Counted'
  <2>1. UNCHANGED <<up, accepted, down>>
    BY <1>7 DEF ReadRemoteEOF, ReadRemoteError, AgentSends, SendRemoteData, SendRemoteFails, ReadLoopEnds, clientVars
  <2>2. \E to : to # "send" /\ reading' = [reading EXCEPT ![c] = to]
    BY <1>7 DEF ReadRemoteEOF, ReadRemoteError, AgentSends, SendRemoteData, SendRemoteFails, ReadLoopEnds
  <2>3. QED BY <1>1, <2>1, <2>2 DEF Counted
<1>8. CASE Connected
  <2>1. UNCHANGED <<up, accepted, down>>
    BY <1>8 DEF Connected, clientVars
  <2>2. reading' = reading \/ reading' = [reading EXCEPT ![dialing.conn] = "read"]
    BY <1>8 DEF Connected
  <2>3. QED BY <1>1, <2>1, <2>2 DEF Counted
<1>9. ClientMessage \/ RemoveMap \/ ClientClosesPeer \/ ConnectRefused => UNCHANGED <<accepted, up, reading, down>>
  BY DEF ClientMessage, LocalData, LocalDataFails, ConnectFailed, LocalCloseStream, KeepClientLoop,
         RemoveMap, ClientClosesPeer, ConnectRefused, clientVars, agentVars
<1>10. AgentMessage => UNCHANGED <<accepted, up, reading, down>>
  BY DEF AgentMessage, HandleConnectRequest, RemoteData, RemoteDataFails, RemoteHalfClose,
         RemoteCloseStream, clientVars
<1>11. CleanupBegins \/ CloseAll \/ LinkLost \/ ClientNotices => UNCHANGED <<accepted, up, reading, down>>
  BY DEF CleanupBegins, CloseAll, CloseAllNext, AgentClosesPeer, LinkLost, ClientNotices, clientVars, agentVars
<1>12. QED
  BY <1>2, <1>3, <1>4, <1>5, <1>6, <1>7, <1>8, <1>9, <1>10, <1>11
     DEF Next, HandleLocalConn, ClientReads, AgentReads, Dialed

-----------------------------------------------------------------------------
(* Data stays in order on its way to the agent.                             *)

\* The queue moves without a chunk.
DataFree(q, r) ==
  \/ r = q
  \/ q # <<>> /\ r = Tail(q) /\ Head(q).type # "Data"
  \/ \E m \in Messages : m.type # "Data" /\ r = Append(q, m)

LEMMA DataFreeKeeps ==
  ASSUME NEW q \in Seq(Messages), NEW r, DataFree(q, r), NEW c, NEW got, NEW last,
         InFlight(q, c, got, last)
  PROVE  InFlight(r, c, got, last)
BY SendsOther, TakesOther DEF DataFree, IsDataOf

LEMMA RequestedKept ==
  ASSUME NEW q \in Seq(Messages), NEW r, NEW c,
         \/ r = q \/ r = <<>>
         \/ q # <<>> /\ r = Tail(q)
         \/ \E m \in Messages : (m.type = "ConnectReq" => m.conn # c) /\ r = Append(q, m),
         Requested(r, c)
  PROVE  Requested(q, c)
<1>1. CASE r = q
  BY <1>1
<1>2. CASE r = <<>>
  <2>1. Len(r) = 0 /\ 1..0 = {}
    BY <1>2, EmptySeq
  <2>2. QED BY <2>1 DEF Requested
<1>3. CASE q # <<>> /\ r = Tail(q)
  BY <1>3, TailIs DEF Requested
<1>4. ASSUME NEW m \in Messages, m.type = "ConnectReq" => m.conn # c, r = Append(q, m)
      PROVE  Requested(q, c)
  BY <1>4, AppendIs DEF Requested
<1>5. QED BY <1>1, <1>2, <1>3, <1>4

LEMMA UpKept ==
  ASSUME TunnelInv, UpInv, link = "lost" => link' = "lost", LinkInv',
         link' = "up" => \A c \in Conns : UpAlive(c)' => UpAlive(c),
         UNCHANGED remoteGot, \A c \in Conns : LastUp(c)' = LastUp(c),
         link' = "up" => DataFree(toAgent, toAgent')
  PROVE  UpInv'
<1> SUFFICES ASSUME link' = "up", NEW c \in Conns, UpAlive(c)'
             PROVE  InFlight(toAgent', c, Len(remoteGot'[c]), LastUp(c)')
  BY DEF UpInv
<1>1. link = "up" /\ toAgent \in Seq(Messages)
  BY DEF TunnelInv, TypeOK, LinkTypes
<1>2. InFlight(toAgent, c, Len(remoteGot[c]), LastUp(c))
  BY <1>1 DEF UpInv
<1>3. InFlight(toAgent', c, Len(remoteGot[c]), LastUp(c))
  BY <1>1, <1>2, DataFreeKeeps
<1>4. QED BY <1>3

LEMMA UpStep == TunnelInv /\ UpInv /\ Next => UpInv'
<1> SUFFICES ASSUME TunnelInv, UpInv, Next PROVE UpInv'
  OBVIOUS
<1>1. /\ LinkInv' /\ (link = "lost" => link' = "lost") /\ link \in {"up", "lost"}
      /\ toAgent \in Seq(Messages) /\ Nil \notin Conns
      /\ accepted \in [Conns -> {"none", "registered", "mapped", "read", "send", "eof", "done"}]
      /\ up \in [Conns -> Nat] /\ remotes \in [Ids -> Conns \cup {Nil}]
      /\ Names /\ Requests /\ TypeOK /\ LinkInv
  BY LinkStep, TunnelAssumption DEF TunnelInv, TypeOK, LinkTypes, ClientTypes, AgentTypes
<1>2. link' # "up" => UpInv'
  BY DEF UpInv
<1>3. ASSUME NEW c \in Conns, UNCHANGED agentVars, NEW to,
             accepted' = [accepted EXCEPT ![c] = to], to \in Early => accepted[c] \in Early,
             \/ toAgent' = toAgent
             \/ \E m \in Messages : (m.type = "ConnectReq" => m.conn = c /\ accepted[c] \in Early) /\ toAgent' = Append(toAgent, m)
      PROVE  \A d \in Conns : UpAlive(d)' => UpAlive(d)
  <2> SUFFICES ASSUME NEW d \in Conns, UpAlive(d)' PROVE UpAlive(d)
    OBVIOUS
  <2>1. CASE d = c /\ accepted[c] \in Early
    BY <2>1 DEF UpAlive
  <2>2. CASE ~(d = c /\ accepted[c] \in Early)
    <3>1. accepted'[d] \in Early => accepted[d] \in Early
      BY <1>1, <1>3
    <3>2. Requested(toAgent', d) => Requested(toAgent, d)
      BY <1>1, <1>3, <2>2, RequestedKept
    <3>3. UNCHANGED <<dialing, remotes>>
      BY <1>3 DEF agentVars
    <3>4. QED BY <3>1, <3>2, <3>3 DEF UpAlive
  <2>3. QED BY <2>1, <2>2
<1>4. ASSUME NEW c \in Conns, Accept(c) \/ EnterConnMap(c) \/ ReadLocal(c) \/ ReadLocalEOF(c) PROVE UpInv'
  <2>1. UNCHANGED <<toAgent, agentVars>>
    BY <1>4 DEF Accept, EnterConnMap, ReadLocal, ReadLocalEOF, linkVars
  <2>2. \E to \in {"registered", "mapped", "send", "eof"} :
          accepted' = [accepted EXCEPT ![c] = to] /\ (to \in Early => accepted[c] \in Early)
    BY <1>4 DEF Accept, EnterConnMap, ReadLocal, ReadLocalEOF, At, Early
  <2>3. \A d \in Conns : UpAlive(d)' => UpAlive(d)
    BY <1>3, <2>1, <2>2
  <2>4. CASE ReadLocal(c)
    <3>1. accepted[c] = "read" /\ accepted' = [accepted EXCEPT ![c] = "send"] /\ up' = [up EXCEPT ![c] = @ + 1]
      BY <2>4 DEF ReadLocal, At
    <3>2. \A d \in Conns : LastUp(d)' = LastUp(d)
      BY <1>1, <3>1 DEF LastUp
    <3>3. QED BY <1>1, <2>1, <2>3, <3>2, UpKept DEF agentVars, DataFree
  <2>5. CASE Accept(c) \/ EnterConnMap(c) \/ ReadLocalEOF(c)
    <3>1. /\ up' = up /\ accepted[c] # "send"
          /\ \E to : to # "send" /\ accepted' = [accepted EXCEPT ![c] = to]
      BY <2>5 DEF Accept, EnterConnMap, ReadLocalEOF, At
    <3>2. \A d \in Conns : LastUp(d)' = LastUp(d)
      BY <1>1, <3>1 DEF LastUp
    <3>3. QED BY <1>1, <2>1, <2>3, <3>2, UpKept DEF agentVars, DataFree
  <2>6. QED BY <1>4, <2>4, <2>5
<1>5. ASSUME NEW c \in Conns, ReadLocalError(c) PROVE UpInv'
  <2>1. /\ accepted[c] = "read" /\ accepted' = [accepted EXCEPT ![c] = "done"]
        /\ UNCHANGED <<up, agentVars>> /\ CloseLocal(sid[c], TRUE)
    BY <1>5 DEF ReadLocalError, At
  <2>2. \/ toAgent' = toAgent
        \/ \E m \in Messages : m.type = "CloseStream" /\ toAgent' = Append(toAgent, m)
    BY <1>1, <2>1, SidIsId, CloseLocalMoves
  <2>3. \A d \in Conns : UpAlive(d)' => UpAlive(d)
    BY <1>3, <2>1, <2>2 DEF Early
  <2>4. \A d \in Conns : LastUp(d)' = LastUp(d)
    BY <1>1, <2>1 DEF LastUp
  <2>5. DataFree(toAgent, toAgent') /\ UNCHANGED remoteGot
    BY <2>1, <2>2 DEF DataFree, agentVars
  <2>6. QED BY <1>1, <2>3, <2>4, <2>5, UpKept
<1>6. ASSUME NEW c \in Conns, SendConnectReq(c) \/ SendHalfClose(c) PROVE UpInv'
  <2>1. PICK from \in {"mapped", "eof"}, then \in {"read", "done"}, m \in Messages :
          /\ Named(m) /\ SendOrClose(c, from, m, then) /\ m.type # "Data"
          /\ m.type = "ConnectReq" => m.conn = c /\ from = "mapped"
    BY <1>1, <1>6, ItsMessages DEF SendConnectReq, SendHalfClose, SendOrClose
  <2>2. from # "none" /\ UNCHANGED <<up, agentVars>>
    BY <2>1 DEF SendOrClose
  <2>3. CASE ~clientOpen
    BY <1>1, <1>2, <2>3 DEF LinkInv
  <2>4. CASE clientOpen
    <3>1. /\ toAgent' = toAgent \/ toAgent' = Append(toAgent, m)
          /\ accepted[c] = from /\ accepted' = [accepted EXCEPT ![c] = then]
      <4>1. TypeOK /\ Names
        BY <1>1
      <4>2. /\ toAgent' = Carried(toAgent, m) /\ accepted[c] = from
            /\ accepted' = [accepted EXCEPT ![c] = IF clientOpen THEN then ELSE "done"]
        BY <2>1, <2>2, <2>4, <4>1, SendOrCloseIs
      <4>3. QED BY <2>4, <4>2 DEF Carried
    <3>2. \A d \in Conns : UpAlive(d)' => UpAlive(d)
      BY <1>3, <2>1, <2>2, <3>1 DEF Early
    <3>3. \A d \in Conns : LastUp(d)' = LastUp(d)
      BY <1>1, <2>2, <3>1 DEF LastUp
    <3>4. DataFree(toAgent, toAgent') /\ UNCHANGED remoteGot
      BY <2>1, <2>2, <3>1 DEF DataFree, agentVars
    <3>5. QED BY <1>1, <3>2, <3>3, <3>4, UpKept
  <2>5. QED BY <2>3, <2>4
<1>7. ASSUME NEW c \in Conns, SendLocalData(c) PROVE UpInv'
  <2> DEFINE m == Message("Data", sid[c], c, up[c])
  <2>1. m \in Messages /\ Named(m) /\ IsDataOf(m, c) /\ m.chunk = up[c] /\ m.type = "Data"
    BY <1>1, <1>7, ItsMessages DEF SendLocalData, SendOrClose, IsDataOf
  <2>2. SendOrClose(c, "send", m, "read") /\ UNCHANGED <<up, agentVars, link>>
    BY <1>7 DEF SendLocalData, SendOrClose
  <2> HIDE DEF m
  <2>3. CASE ~clientOpen
    BY <1>1, <1>2, <2>3 DEF LinkInv
  <2>4. CASE clientOpen /\ link = "up"
    <3>1. toAgent' = Append(toAgent, m) /\ accepted[c] = "send" /\ accepted' = [accepted EXCEPT ![c] = "read"]
      BY <1>1, <2>1, <2>2, <2>4, SendOrCloseIs DEF Carried
    <3>2. \A d \in Conns : UpAlive(d)' => UpAlive(d)
      BY <1>3, <2>1, <2>2, <3>1 DEF Early
    <3>3. /\ LastUp(c)' = LastUp(c) + 1 /\ m.chunk = LastUp(c) + 1 /\ LastUp(c) \in Nat
          /\ \A d \in Conns : d # c => LastUp(d)' = LastUp(d)
      <4>1. up[c] \in Nat /\ up[c] >= 1
        BY <1>1, <3>1 DEF TunnelInv, Counted
      <4>2. QED BY <1>1, <2>1, <2>2, <3>1, <4>1 DEF LastUp
    <3>4. ASSUME NEW d \in Conns, UpAlive(d)' PROVE InFlight(toAgent', d, Len(remoteGot'[d]), LastUp(d)')
      <4>1. InFlight(toAgent, d, Len(remoteGot[d]), LastUp(d)) /\ remoteGot' = remoteGot /\ Len(remoteGot[d]) \in Nat
        BY <1>1, <2>2, <2>4, <3>2, <3>4, LenProperties DEF UpInv, agentVars, AgentTypes, TypeOK
      <4>2. CASE d = c
        BY <1>1, <2>1, <3>1, <3>3, <4>1, <4>2, SendsData
      <4>3. CASE d # c
        BY <1>1, <2>1, <3>1, <3>3, <4>1, <4>3, SendsOther DEF IsDataOf
      <4>4. QED BY <4>2, <4>3
    <3>5. QED BY <3>4 DEF UpInv
  <2>5. QED BY <1>1, <1>2, <2>3, <2>4
<1>8. ASSUME UNCHANGED <<accepted, up>>,
             link' = "up" => /\ DataFree(toAgent, toAgent') /\ UNCHANGED remoteGot
                             /\ \A d \in Conns : UpAlive(d)' => UpAlive(d)
      PROVE  UpInv'
  <2>1. \A d \in Conns : LastUp(d)' = LastUp(d)
    BY <1>8 DEF LastUp
  <2>2. QED BY <1>1, <1>2, <1>8, <2>1, UpKept
<1>9. ASSUME UNCHANGED <<accepted, dialing>>, QuietMove(toAgent'),
             \A i \in Ids : remotes'[i] = Nil \/ remotes'[i] = remotes[i]
      PROVE  \A d \in Conns : UpAlive(d)' => UpAlive(d)
  <2> SUFFICES ASSUME NEW d \in Conns, UpAlive(d)' PROVE UpAlive(d)
    OBVIOUS
  <2>1. Requested(toAgent', d) => Requested(toAgent, d)
    BY <1>1, <1>9, RequestedKept DEF QuietMove
  <2>2. QED BY <1>1, <1>9, <2>1 DEF UpAlive
<1>10. CASE ClientMessage \/ RemoveMap \/ ClientClosesPeer
  <2>1. UNCHANGED <<accepted, up, agentVars>>
    BY <1>10 DEF ClientMessage, LocalData, LocalDataFails, ConnectFailed, LocalCloseStream, KeepClientLoop,
                RemoveMap, ClientClosesPeer, clientVars
  <2>2. CASE LocalDataFails \/ ConnectFailed \/ LocalCloseStream
    <3>1. toClient # <<>> /\ toClient \in Seq(Messages)
      BY <2>2 DEF LocalDataFails, ConnectFailed, LocalCloseStream, FromAgent, TunnelInv, TypeOK, LinkTypes
    <3>2. Head(toClient).sid \in Ids
      BY <3>1, AfterTake
    <3>3. \E n \in BOOLEAN : CloseLocal(Head(toClient).sid, n)
      BY <2>2 DEF LocalDataFails, ConnectFailed, LocalCloseStream
    <3>4. \/ toAgent' = toAgent
          \/ \E m \in Messages : m.type = "CloseStream" /\ m.conn = Nil /\ toAgent' = Append(toAgent, m)
      BY <1>1, <3>2, <3>3, CloseLocalMoves
    <3>5. DataFree(toAgent, toAgent') /\ QuietMove(toAgent')
      BY <3>4 DEF DataFree, QuietMove
    <3>6. QED BY <1>8, <1>9, <2>1, <3>5 DEF agentVars
  <2>3. CASE LocalData \/ RemoveMap
    <3>1. toAgent' = toAgent
      BY <2>3 DEF LocalData, RemoveMap, linkVars
    <3>2. QED BY <1>8, <1>9, <2>1, <3>1 DEF agentVars, DataFree, QuietMove
  <2>4. CASE ClientClosesPeer
    BY <1>2, <2>4 DEF ClientClosesPeer, LosesLink
  <2>5. QED BY <1>10, <2>2, <2>3, <2>4 DEF ClientMessage
<1>11. ASSUME NEW c \in Conns, AgentReads(c) \/ AgentSends(c) PROVE UpInv'
  <2>1. UNCHANGED <<accepted, up, dialing, toAgent, remoteGot>>
    BY <1>11 DEF AgentReads, AgentSends, ReadRemote, ReadRemoteEOF, ReadRemoteError, SendRemoteData,
                SendRemoteFails, ReadLoopEnds, clientVars, linkVars
  <2>2. remotes' = remotes \/ remotes' = [remotes EXCEPT ![sid[c]] = Nil]
    BY <1>11 DEF AgentReads, AgentSends, ReadRemote, ReadRemoteEOF, ReadRemoteError, SendRemoteData,
                SendRemoteFails, ReadLoopEnds, CloseRemote
  <2>3. \A i \in Ids : remotes'[i] = Nil \/ remotes'[i] = remotes[i]
    BY <1>1, <2>2
  <2>4. QED BY <1>8, <1>9, <2>1, <2>3 DEF DataFree, QuietMove
<1>12. CASE HandleConnectRequest
  <2>1. /\ dialing = Nil /\ toAgent # <<>> /\ Head(toAgent).type = "ConnectReq"
        /\ toAgent' = Tail(toAgent) /\ dialing' = Head(toAgent)
        /\ UNCHANGED <<accepted, up, remotes, remoteGot>>
    BY <1>12 DEF HandleConnectRequest, FromClient, HandlerIdle, clientVars
  <2>2. Requested(toAgent, Head(toAgent).conn)
    BY <1>1, <2>1, TailIs DEF Requested
  <2>3. \A d \in Conns : UpAlive(d)' => UpAlive(d)
    BY <1>1, <2>1, <2>2, RequestedKept DEF UpAlive
  <2>4. QED BY <1>8, <2>1, <2>3 DEF DataFree
<1>13. CASE Connected
  <2>1. /\ dialing # Nil /\ dialing' = Nil /\ UNCHANGED <<accepted, up, toAgent, remoteGot>>
        /\ remotes' = remotes \/ remotes' = [remotes EXCEPT ![dialing.sid] = dialing.conn]
    BY <1>13 DEF Connected, clientVars, linkVars
  <2>2. \A d \in Conns : UpAlive(d)' => UpAlive(d)
    BY <1>1, <2>1 DEF UpAlive
  <2>3. QED BY <1>8, <2>1, <2>2 DEF DataFree
<1>14. CASE ConnectRefused
  <2>1. dialing' = Nil /\ UNCHANGED <<accepted, up, toAgent, remoteGot, remotes>>
    BY <1>14 DEF ConnectRefused, clientVars
  <2>2. \A d \in Conns : UpAlive(d)' => UpAlive(d)
    BY <2>1 DEF UpAlive
  <2>3. QED BY <1>8, <2>1, <2>2 DEF DataFree
<1>15. ASSUME UNCHANGED <<accepted, up, dialing>>, dialing = Nil, toAgent # <<>>, toAgent' = Tail(toAgent),
              \A i \in Ids : remotes'[i] = Nil \/ remotes'[i] = remotes[i],
              Head(toAgent).type = "Data",
              IF remotes[Head(toAgent).sid] # Nil /\ remotes'[Head(toAgent).sid] # Nil
              THEN remoteGot' = [remoteGot EXCEPT ![remotes[Head(toAgent).sid]] =
                                   Append(@, <<Head(toAgent).conn, Head(toAgent).chunk>>)]
              ELSE UNCHANGED remoteGot /\ remotes'[Head(toAgent).sid] = Nil
       PROVE  UpInv'
  <2> DEFINE c == Head(toAgent).conn
             i == Head(toAgent).sid
  <2>1. /\ Head(toAgent) = toAgent[1] /\ 1 \in 1..Len(toAgent) /\ c \in Conns /\ i = sid[c] /\ i \in Ids
        /\ IsDataOf(Head(toAgent), c)
    <3>1. Head(toAgent) = toAgent[1] /\ 1 \in 1..Len(toAgent) /\ i \in Ids /\ toAgent[1].type = "Data"
      BY <1>1, <1>15, TailIs, AfterTake
    <3>2. Named(toAgent[1])
      BY <1>1, <3>1 DEF Names
    <3>3. QED BY <3>1, <3>2 DEF Named, IsDataOf
  <2>2. accepted[c] \notin Early /\ ~Requested(toAgent, c)
    <3>1. accepted[c] \notin Early
      BY <1>1, <2>1 DEF Requests
    <3>2. \A k \in 1..Len(toAgent) : k = 1 \/ 1 < k
      OBVIOUS
    <3>3. ~Requested(toAgent, c)
      BY <1>1, <1>15, <2>1, <3>2 DEF Requested, Requests
    <3>4. QED BY <3>1, <3>3
  <2>3. \A j \in Ids : remotes[j] = c => j = i
    BY <1>1, <2>1 DEF Names
  <2>4. remotes[i] # Nil => remotes[i] = c
    <3>1. sid[c] # 0 /\ remotes[i] \in Conns \cup {Nil}
      BY <1>1, <2>1 DEF Ids
    <3>2. remotes[i] # Nil => sid[remotes[i]] = sid[c]
      BY <1>1, <2>1 DEF Names
    <3>3. QED BY <1>1, <2>1, <3>1, <3>2 DEF Names
  <2> HIDE DEF c, i
  <2>5. QuietMove(toAgent')
    BY <1>15 DEF QuietMove
  <2>6. \A d \in Conns : UpAlive(d)' => UpAlive(d)
    BY <1>9, <1>15, <2>5
  <2>7. \A d \in Conns : LastUp(d)' = LastUp(d)
    BY <1>15 DEF LastUp
  <2>8. ASSUME link' = "up", NEW d \in Conns, UpAlive(d)'
        PROVE  InFlight(toAgent', d, Len(remoteGot'[d]), LastUp(d)')
    <3>1. /\ InFlight(toAgent, d, Len(remoteGot[d]), LastUp(d)) /\ LastUp(d) \in Nat
          /\ remoteGot \in [Conns -> Seq(Conns \X Nat)] /\ Len(remoteGot[d]) \in Nat
      <4>1. remoteGot \in [Conns -> Seq(Conns \X Nat)]
        BY <1>1 DEF AgentTypes, TypeOK
      <4>2. LastUp(d) \in Nat
        <5>1. up[d] \in Nat /\ (accepted[d] = "send" => up[d] >= 1)
          BY <1>1 DEF TunnelInv, Counted
        <5>2. QED BY <5>1 DEF LastUp
      <4>3. QED BY <1>1, <2>6, <2>8, <4>1, <4>2, LenProperties DEF UpInv
    <3>2. CASE d = c
      <4>1. remotes'[i] = c /\ remotes[i] = c
        <5>1. \E j \in Ids : remotes'[j] = c
          BY <1>1, <1>15, <2>2, <2>8, <3>2, RequestedKept DEF UpAlive
        <5>2. QED BY <1>1, <1>15, <2>1, <2>3, <5>1
      <4>2. remoteGot' = [remoteGot EXCEPT ![c] = Append(@, <<c, Head(toAgent).chunk>>)]
        BY <1>1, <1>15, <2>1, <4>1 DEF c, i
      <4>3. Len(remoteGot'[c]) = Len(remoteGot[c]) + 1
        <5>1. Head(toAgent).chunk \in Nat
          BY <1>1, <1>15, AfterTake
        <5>2. Len(Append(remoteGot[c], <<c, Head(toAgent).chunk>>)) = Len(remoteGot[c]) + 1
          BY <2>1, <3>1, <5>1, AppendProperties
        <5>3. QED BY <2>1, <3>1, <4>2, <5>2
      <4>4. QED BY <1>1, <1>15, <2>1, <2>7, <3>1, <3>2, <4>3, TakesData
    <3>3. CASE d # c
      <4>1. remoteGot'[d] = remoteGot[d]
        BY <1>15, <2>4, <3>1, <3>3 DEF c, i
      <4>2. ~IsDataOf(Head(toAgent), d)
        BY <3>3 DEF IsDataOf, c
      <4>3. QED BY <1>1, <1>15, <2>7, <3>1, <4>1, <4>2, TakesOther
    <3>4. QED BY <3>2, <3>3
  <2>9. QED BY <2>8 DEF UpInv
<1>16. CASE RemoteData
  <2>1. /\ UNCHANGED <<accepted, up, dialing, remotes>> /\ dialing = Nil /\ toAgent # <<>>
        /\ toAgent' = Tail(toAgent) /\ Head(toAgent).type = "Data"
        /\ remoteGot' = IF remotes[Head(toAgent).sid] = Nil THEN remoteGot
                        ELSE [remoteGot EXCEPT ![remotes[Head(toAgent).sid]] =
                                Append(@, <<Head(toAgent).conn, Head(toAgent).chunk>>)]
    BY <1>16 DEF RemoteData, FromClient, HandlerIdle, clientVars
  <2>2. QED BY <1>15, <2>1
<1>17. CASE RemoteDataFails
  <2>1. /\ UNCHANGED <<accepted, up, dialing, remoteGot>> /\ dialing = Nil /\ toAgent # <<>>
        /\ toAgent' = Tail(toAgent) /\ Head(toAgent).type = "Data"
        /\ remotes' = [remotes EXCEPT ![Head(toAgent).sid] = Nil]
    BY <1>17 DEF RemoteDataFails, CloseRemote, FromClient, HandlerIdle, clientVars
  <2>2. Head(toAgent).sid \in Ids
    BY <1>1, <2>1, AfterTake
  <2>3. /\ \A i \in Ids : remotes'[i] = Nil \/ remotes'[i] = remotes[i]
        /\ remotes'[Head(toAgent).sid] = Nil
    BY <1>1, <2>1, <2>2
  <2>4. QED BY <1>15, <2>1, <2>3
<1>18. CASE RemoteHalfClose \/ RemoteCloseStream
  <2>1. /\ UNCHANGED <<accepted, up, dialing, remoteGot>> /\ toAgent # <<>>
        /\ toAgent' = Tail(toAgent) /\ Head(toAgent).type # "Data"
        /\ remotes' = remotes \/ remotes' = [remotes EXCEPT ![Head(toAgent).sid] = Nil]
    BY <1>18 DEF RemoteHalfClose, RemoteCloseStream, CloseRemote, FromClient, clientVars
  <2>2. \A i \in Ids : remotes'[i] = Nil \/ remotes'[i] = remotes[i]
    BY <1>1, <2>1
  <2>3. QED BY <1>8, <1>9, <2>1, <2>2 DEF DataFree, QuietMove
<1>19. CASE CleanupBegins \/ ClientNotices
  <2>1. UNCHANGED <<accepted, up, dialing, remoteGot, remotes, toAgent>>
    BY <1>19 DEF CleanupBegins, ClientNotices, clientVars, agentVars
  <2>2. QED BY <1>8, <1>9, <2>1 DEF DataFree, QuietMove
<1>20. CASE LinkLost \/ AgentClosesPeer
  BY <1>2, <1>20 DEF LinkLost, AgentClosesPeer, LosesLink
<1>21. ASSUME NEW i \in Ids, CloseAllNext(i) PROVE UpInv'
  <2>1. /\ UNCHANGED <<accepted, up, dialing, remoteGot, toAgent>>
        /\ remotes' = [remotes EXCEPT ![i] = Nil]
    BY <1>21 DEF CloseAllNext, CloseRemote, clientVars
  <2>2. \A j \in Ids : remotes'[j] = Nil \/ remotes'[j] = remotes[j]
    BY <1>1, <2>1
  <2>3. QED BY <1>8, <1>9, <2>1, <2>2 DEF DataFree, QuietMove
<1>22. QED
  BY <1>4, <1>5, <1>6, <1>7, <1>10, <1>11, <1>12, <1>13, <1>14, <1>16, <1>17, <1>18, <1>19, <1>20, <1>21
     DEF Next, HandleLocalConn, ClientReads, AgentMessage, Dialed, CloseAll

-----------------------------------------------------------------------------
(* ... and on its way back.                                                 *)

LEMMA DownKept ==
  ASSUME TunnelInv, DownInv, link = "lost" => link' = "lost", LinkInv',
         link' = "up" => /\ \A c \in Conns : DownAlive(c)' => DownAlive(c)
                         /\ \A c \in Conns : LastDown(c)' = LastDown(c)
                         /\ UNCHANGED localGot /\ DataFree(toClient, toClient')
  PROVE  DownInv'
<1> SUFFICES ASSUME link' = "up", NEW c \in Conns, DownAlive(c)'
             PROVE  InFlight(toClient', c, Len(localGot'[c]), LastDown(c)')
  BY DEF DownInv
<1>1. link = "up" /\ toClient \in Seq(Messages)
  BY DEF TunnelInv, TypeOK, LinkTypes
<1>2. InFlight(toClient, c, Len(localGot[c]), LastDown(c))
  BY <1>1 DEF DownInv
<1>3. InFlight(toClient', c, Len(localGot[c]), LastDown(c))
  BY <1>1, <1>2, DataFreeKeeps
<1>4. QED BY <1>3

LEMMA DownStep == TunnelInv /\ DownInv /\ Next => DownInv'
<1> SUFFICES ASSUME TunnelInv, DownInv, Next PROVE DownInv'
  OBVIOUS
<1>1. /\ LinkInv' /\ (link = "lost" => link' = "lost") /\ link \in {"up", "lost"}
      /\ toClient \in Seq(Messages) /\ Nil \notin Conns
      /\ accepted \in [Conns -> {"none", "registered", "mapped", "read", "send", "eof", "done"}]
      /\ reading \in [Conns -> {"none", "read", "send", "done"}]
      /\ down \in [Conns -> Nat] /\ streams \in [Ids -> Conns \cup {Nil}]
      /\ Names /\ Requests /\ TypeOK /\ LinkInv
  BY LinkStep, TunnelAssumption DEF TunnelInv, TypeOK, LinkTypes, ClientTypes, AgentTypes
<1>2. link' # "up" => DownInv'
  BY DEF DownInv
<1> DEFINE Shrinks == /\ \A d \in Conns : accepted'[d] = "none" => accepted[d] = "none"
                      /\ \A i \in Ids : streams'[i] = Nil \/ streams'[i] = streams[i]
           Alive == \A d \in Conns : DownAlive(d)' => DownAlive(d)
           Last == \A d \in Conns : LastDown(d)' = LastDown(d)
<1>3. Shrinks => Alive
  BY <1>1 DEF DownAlive
<1>4. UNCHANGED <<reading, down>> => Last
  BY DEF LastDown
<1>5. (link' = "up" => Alive /\ Last /\ UNCHANGED localGot /\ DataFree(toClient, toClient')) => DownInv'
  BY <1>1, DownKept
<1> HIDE DEF Alive, Last
<1>6. ASSUME NEW c \in Conns, Accept(c) PROVE DownInv'
  <2>1. /\ UNCHANGED <<toClient, localGot, reading, down>>
        /\ streams' = [streams EXCEPT ![NextId] = c] /\ accepted[c] = "none"
        /\ accepted' = [accepted EXCEPT ![c] = "registered"]
    BY <1>6 DEF Accept, At, linkVars, agentVars
  <2>2. Alive
    BY <1>1, <2>1 DEF DownAlive, Alive
  <2>3. QED BY <1>4, <1>5, <2>1, <2>2 DEF DataFree
<1>7. ASSUME NEW c \in Conns, HandleLocalConn(c) \/ ClientReads(c) PROVE DownInv'
  <2>1. CASE EnterConnMap(c) \/ ClientReads(c)
    <3>1. UNCHANGED <<toClient, localGot, reading, down>>
      BY <2>1 DEF EnterConnMap, ClientReads, ReadLocal, ReadLocalEOF, ReadLocalError, linkVars, agentVars
    <3>2. \E to : to # "none" /\ accepted' = [accepted EXCEPT ![c] = to]
      BY <2>1 DEF EnterConnMap, ClientReads, ReadLocal, ReadLocalEOF, ReadLocalError, At
    <3>3. streams' = streams \/ streams' = [streams EXCEPT ![sid[c]] = Nil]
      BY <2>1 DEF EnterConnMap, ClientReads, ReadLocal, ReadLocalEOF, ReadLocalError, CloseLocal
    <3>4. Shrinks
      BY <1>1, <3>2, <3>3
    <3>5. QED BY <1>3, <1>4, <1>5, <3>1, <3>4 DEF DataFree
  <2>2. CASE SendConnectReq(c) \/ SendLocalData(c) \/ SendHalfClose(c)
    <3>1. PICK from \in {"mapped", "send", "eof"}, then \in {"read", "done"}, m \in Messages :
            Named(m) /\ SendOrClose(c, from, m, then)
      BY <1>1, <2>2, ItSends
    <3>2. UNCHANGED <<toClient, localGot, reading, down>>
      BY <3>1 DEF SendOrClose, agentVars
    <3>3. streams' = streams \/ streams' = [streams EXCEPT ![sid[c]] = Nil]
      BY <3>1 DEF SendOrClose, KeepStreams, CloseLocal
    <3>4. accepted' = [accepted EXCEPT ![c] = then] \/ accepted' = [accepted EXCEPT ![c] = "done"]
      BY <3>1 DEF SendOrClose
    <3>5. \E to : to # "none" /\ accepted' = [accepted EXCEPT ![c] = to]
      BY <3>4
    <3>6. Shrinks
      BY <1>1, <3>3, <3>5
    <3>7. QED BY <1>3, <1>4, <1>5, <3>2, <3>6 DEF DataFree
  <2>3. QED BY <1>7, <2>1, <2>2 DEF HandleLocalConn
<1>8. CASE RemoveMap
  <2>1. UNCHANGED <<toClient, localGot, reading, down, accepted>>
    BY <1>8 DEF RemoveMap, linkVars, agentVars
  <2>2. streams' = [i \in Ids |-> IF i \in {j \in Ids : connMap[j] # Nil} THEN Nil ELSE streams[i]]
    BY <1>8 DEF RemoveMap
  <2>3. Shrinks
    BY <2>1, <2>2
  <2>4. QED BY <1>3, <1>4, <1>5, <2>1, <2>3 DEF DataFree
<1>9. CASE ConnectFailed \/ LocalCloseStream
  <2>1. /\ UNCHANGED <<localGot, reading, down, accepted>>
        /\ toClient # <<>> /\ toClient' = Tail(toClient) /\ Head(toClient).type # "Data"
        /\ streams' = [streams EXCEPT ![Head(toClient).sid] = Nil]
    BY <1>9 DEF ConnectFailed, LocalCloseStream, FromAgent, CloseLocal, KeepClientLoop, agentVars
  <2>2. Shrinks
    BY <1>1, <2>1
  <2>3. QED BY <1>3, <1>4, <1>5, <2>1, <2>2 DEF DataFree
<1>10. ASSUME UNCHANGED <<accepted, reading, down>>, toClient # <<>>, toClient' = Tail(toClient),
              \A i \in Ids : streams'[i] = Nil \/ streams'[i] = streams[i],
              Head(toClient).type = "Data",
              IF streams[Head(toClient).sid] # Nil /\ streams'[Head(toClient).sid] # Nil
              THEN localGot' = [localGot EXCEPT ![streams[Head(toClient).sid]] =
                                  Append(@, <<Head(toClient).conn, Head(toClient).chunk>>)]
              ELSE UNCHANGED localGot /\ streams'[Head(toClient).sid] = Nil
       PROVE  DownInv'
  <2> DEFINE c == Head(toClient).conn
             i == Head(toClient).sid
  <2>1. /\ Head(toClient) = toClient[1] /\ 1 \in 1..Len(toClient) /\ c \in Conns /\ i = sid[c] /\ i \in Ids
        /\ IsDataOf(Head(toClient), c)
    <3>1. Head(toClient) = toClient[1] /\ 1 \in 1..Len(toClient) /\ i \in Ids /\ toClient[1].type = "Data"
      BY <1>1, <1>10, TailIs, AfterTake
    <3>2. Named(toClient[1])
      BY <1>1, <3>1 DEF Names
    <3>3. QED BY <3>1, <3>2 DEF Named, IsDataOf
  <2>2. accepted[c] # "none" /\ sid[c] # 0
    BY <1>1, <2>1 DEF Names, Ids
  <2>3. \A j \in Ids : streams[j] = c => j = i
    BY <1>1, <2>1 DEF Names
  <2>4. streams[i] # Nil => streams[i] = c
    <3>1. streams[i] \in Conns \cup {Nil}
      BY <1>1, <2>1
    <3>2. streams[i] # Nil => sid[streams[i]] = sid[c]
      BY <1>1, <2>1 DEF Names
    <3>3. QED BY <1>1, <2>1, <2>2, <3>1, <3>2 DEF Names
  <2> HIDE DEF c, i
  <2>5. \A d \in Conns : DownAlive(d)' => DownAlive(d)
    BY <1>3, <1>10 DEF Alive
  <2>6. \A d \in Conns : LastDown(d)' = LastDown(d)
    BY <1>10 DEF LastDown
  <2>7. ASSUME link' = "up", NEW d \in Conns, DownAlive(d)'
        PROVE  InFlight(toClient', d, Len(localGot'[d]), LastDown(d)')
    <3>1. /\ InFlight(toClient, d, Len(localGot[d]), LastDown(d)) /\ LastDown(d) \in Nat
          /\ localGot \in [Conns -> Seq(Conns \X Nat)] /\ Len(localGot[d]) \in Nat
      <4>1. localGot \in [Conns -> Seq(Conns \X Nat)]
        BY <1>1 DEF ClientTypes, TypeOK
      <4>2. LastDown(d) \in Nat
        <5>1. down[d] \in Nat /\ (reading[d] = "send" => down[d] >= 1)
          BY <1>1 DEF TunnelInv, Counted
        <5>2. QED BY <5>1 DEF LastDown
      <4>3. QED BY <1>1, <2>5, <2>7, <4>1, <4>2, LenProperties DEF DownInv
    <3>2. CASE d = c
      <4>1. streams'[i] = c /\ streams[i] = c
        <5>1. \E j \in Ids : streams'[j] = c
          BY <1>10, <2>2, <2>7, <3>2 DEF DownAlive
        <5>2. QED BY <1>1, <1>10, <2>1, <2>3, <5>1
      <4>2. localGot' = [localGot EXCEPT ![c] = Append(@, <<c, Head(toClient).chunk>>)]
        BY <1>1, <1>10, <2>1, <4>1 DEF c, i
      <4>3. Len(localGot'[c]) = Len(localGot[c]) + 1
        <5>1. Head(toClient).chunk \in Nat
          BY <1>1, <1>10, AfterTake
        <5>2. Len(Append(localGot[c], <<c, Head(toClient).chunk>>)) = Len(localGot[c]) + 1
          BY <2>1, <3>1, <5>1, AppendProperties
        <5>3. QED BY <2>1, <3>1, <4>2, <5>2
      <4>4. QED BY <1>1, <1>10, <2>1, <2>6, <3>1, <3>2, <4>3, TakesData
    <3>3. CASE d # c
      <4>1. localGot'[d] = localGot[d]
        BY <1>10, <2>4, <3>1, <3>3 DEF c, i
      <4>2. ~IsDataOf(Head(toClient), d)
        BY <3>3 DEF IsDataOf, c
      <4>3. QED BY <1>1, <1>10, <2>6, <3>1, <4>1, <4>2, TakesOther
    <3>4. QED BY <3>2, <3>3
  <2>8. QED BY <2>7 DEF DownInv
<1>11. CASE LocalData
  <2>1. /\ UNCHANGED <<accepted, reading, down, streams>> /\ toClient # <<>>
        /\ toClient' = Tail(toClient) /\ Head(toClient).type = "Data"
        /\ localGot' = IF streams[Head(toClient).sid] = Nil THEN localGot
                       ELSE [localGot EXCEPT ![streams[Head(toClient).sid]] =
                               Append(@, <<Head(toClient).conn, Head(toClient).chunk>>)]
    BY <1>11 DEF LocalData, FromAgent, KeepStreams, KeepClientLoop, agentVars
  <2>2. QED BY <1>10, <2>1
<1>12. CASE LocalDataFails
  <2>1. /\ UNCHANGED <<accepted, reading, down, localGot>> /\ toClient # <<>>
        /\ toClient' = Tail(toClient) /\ Head(toClient).type = "Data"
        /\ streams' = [streams EXCEPT ![Head(toClient).sid] = Nil]
    BY <1>12 DEF LocalDataFails, CloseLocal, FromAgent, KeepClientLoop, agentVars
  <2>2. Head(toClient).sid \in Ids
    BY <1>1, <2>1, AfterTake
  <2>3. /\ \A i \in Ids : streams'[i] = Nil \/ streams'[i] = streams[i]
        /\ streams'[Head(toClient).sid] = Nil
    BY <1>1, <2>1, <2>2
  <2>4. QED BY <1>10, <2>1, <2>3
<1>13. ClientClosesPeer \/ AgentClosesPeer \/ LinkLost => DownInv'
  BY <1>2 DEF ClientClosesPeer, AgentClosesPeer, LinkLost, LosesLink
<1>14. ASSUME UNCHANGED clientVars, Last,
              \/ toClient' = toClient
              \/ \E m \in Messages : m.type # "Data" /\ toClient' = Append(toClient, m)
       PROVE  DownInv'
  <2>1. Alive /\ UNCHANGED localGot
    BY <1>3, <1>14 DEF clientVars
  <2>2. DataFree(toClient, toClient')
    BY <1>14 DEF DataFree
  <2>3. QED BY <1>5, <1>14, <2>1, <2>2
<1>15. ASSUME NEW c \in Conns, ReadRemote(c) PROVE DownInv'
  <2>1. /\ UNCHANGED clientVars /\ toClient' = toClient /\ reading[c] = "read"
        /\ reading' = [reading EXCEPT ![c] = "send"] /\ down' = [down EXCEPT ![c] = @ + 1]
    BY <1>15 DEF ReadRemote, linkVars
  <2>2. Last
    BY <1>1, <2>1 DEF Last, LastDown
  <2>3. QED BY <1>14, <2>1, <2>2
<1>16. ASSUME NEW i \in Ids, NEW n \in BOOLEAN, NEW why \in {"eof", "error", "request"}, CloseRemote(i, n, why)
       PROVE  \/ toClient' = toClient
              \/ \E m \in Messages : m.type # "Data" /\ toClient' = Append(toClient, m)
  <2>1. \/ toClient' = toClient
        \/ \E m \in Messages : m.type = "CloseStream" /\ m.conn = Nil /\ toClient' = Append(toClient, m)
    BY <1>1, <1>16, CloseRemoteMoves
  <2>2. QED BY <2>1
<1>17. ASSUME NEW c \in Conns, ReadRemoteEOF(c) \/ ReadRemoteError(c) \/ SendRemoteFails(c) PROVE DownInv'
  <2>1. PICK why \in {"eof", "error", "request"} : ReadLoopEnds(c, why)
    BY <1>17 DEF ReadRemoteEOF, ReadRemoteError, SendRemoteFails
  <2>2. UNCHANGED <<clientVars, down>> /\ reading' = [reading EXCEPT ![c] = "done"] /\ CloseRemote(sid[c], TRUE, why)
    BY <2>1 DEF ReadLoopEnds
  <2>3. sid[c] \in Ids
    <3>1. reading[c] # "none"
      BY <1>17 DEF ReadRemoteEOF, ReadRemoteError, SendRemoteFails
    <3>2. QED BY <1>1, <3>1, SidIsId DEF Requests, Early
  <2>4. CASE reading[c] = "read"
    <3>1. Last
      BY <1>1, <2>2, <2>4 DEF Last, LastDown
    <3>2. QED BY <1>14, <1>16, <2>2, <2>3, <3>1
  <2>5. CASE ~agentOpen
    BY <1>1, <1>2, <2>5 DEF LinkInv
  <2>6. QED BY <1>17, <2>4, <2>5 DEF ReadRemoteEOF, ReadRemoteError, SendRemoteFails
<1>18. ASSUME NEW c \in Conns, SendRemoteData(c) PROVE DownInv'
  <2> DEFINE m == Message("Data", sid[c], c, down[c])
  <2>1. reading[c] = "send" /\ down[c] \in Nat /\ down[c] >= 1 /\ sid[c] \in Ids
    <3>1. reading[c] = "send" /\ accepted[c] # "none"
      BY <1>1, <1>18 DEF SendRemoteData, Requests, Early
    <3>2. QED BY <1>1, <3>1, SidIsId DEF TunnelInv, Counted
  <2>2. m \in Messages /\ IsDataOf(m, c) /\ m.chunk = down[c]
    BY <2>1, MessageIs DEF IsDataOf
  <2>3. /\ UNCHANGED <<clientVars, down, link>> /\ reading' = [reading EXCEPT ![c] = "read"]
        /\ toClient' = Carried(toClient, m)
    BY <1>18 DEF SendRemoteData, KeepLink
  <2> HIDE DEF m
  <2>4. CASE link = "lost"
    BY <1>1, <1>2, <2>4
  <2>5. CASE link = "up"
    <3>1. toClient' = Append(toClient, m)
      BY <2>3, <2>5 DEF Carried
    <3>2. \A d \in Conns : DownAlive(d)' => DownAlive(d)
      BY <1>3, <2>3 DEF Alive, clientVars
    <3>3. /\ LastDown(c)' = LastDown(c) + 1 /\ m.chunk = LastDown(c) + 1 /\ LastDown(c) \in Nat
          /\ \A d \in Conns : d # c => LastDown(d)' = LastDown(d)
      <4>1. /\ reading'[c] = "read" /\ down' = down
            /\ \A d \in Conns : d # c => reading'[d] = reading[d]
        BY <1>1, <2>3
      <4>2. LastDown(c)' = down[c] /\ LastDown(c) = down[c] - 1
        BY <2>1, <4>1 DEF LastDown
      <4>3. \A d \in Conns : d # c => LastDown(d)' = LastDown(d)
        BY <4>1 DEF LastDown
      <4>4. QED BY <2>1, <2>2, <4>2, <4>3
    <3>4. ASSUME NEW d \in Conns, DownAlive(d)' PROVE InFlight(toClient', d, Len(localGot'[d]), LastDown(d)')
      <4>1. InFlight(toClient, d, Len(localGot[d]), LastDown(d)) /\ localGot' = localGot /\ Len(localGot[d]) \in Nat
        <5>1. localGot' = localGot
          BY <2>3 DEF clientVars
        <5>2. localGot \in [Conns -> Seq(Conns \X Nat)]
          BY <1>1 DEF TypeOK, ClientTypes
        <5>3. QED BY <2>5, <3>2, <3>4, <5>1, <5>2, LenProperties DEF DownInv
      <4>2. CASE d = c
        BY <1>1, <2>2, <3>1, <3>3, <4>1, <4>2, SendsData
      <4>3. CASE d # c
        BY <1>1, <2>2, <3>1, <3>3, <4>1, <4>3, SendsOther DEF IsDataOf
      <4>4. QED BY <4>2, <4>3
    <3>5. QED BY <3>4 DEF DownInv
  <2>6. QED BY <1>1, <2>4, <2>5
<1>19. CASE HandleConnectRequest \/ RemoteData \/ RemoteHalfClose
  <2>1. UNCHANGED <<clientVars, reading, down, toClient>>
    BY <1>19 DEF HandleConnectRequest, RemoteData, RemoteHalfClose
  <2>2. QED BY <1>4, <1>14, <2>1
<1>20. CASE RemoteDataFails \/ RemoteCloseStream
  <2>1. UNCHANGED <<clientVars, reading, down>>
    BY <1>20 DEF RemoteDataFails, RemoteCloseStream
  <2>2. Head(toAgent).sid \in Ids
    BY <1>1, <1>20, AfterTake DEF RemoteDataFails, RemoteCloseStream, FromClient, TypeOK, LinkTypes
  <2>3. \E n \in BOOLEAN, why \in {"eof", "error", "request"} : CloseRemote(Head(toAgent).sid, n, why)
    BY <1>20 DEF RemoteDataFails, RemoteCloseStream
  <2>4. QED BY <1>4, <1>14, <1>16, <2>1, <2>2, <2>3
<1>21. CASE Connected
  <2>1. /\ UNCHANGED <<clientVars, down, toClient>>
        /\ reading' = reading \/ reading' = [reading EXCEPT ![dialing.conn] = "read"]
        /\ dialing # Nil
    BY <1>21 DEF Connected, linkVars
  <2>2. reading[dialing.conn] = "none"
    BY <1>1, <2>1 DEF Requests
  <2>3. Last
    BY <1>1, <2>1, <2>2 DEF Last, LastDown
  <2>4. QED BY <1>14, <2>1, <2>3
<1>22. CASE ConnectRefused
  <2> DEFINE m == Message("ConnectResp", dialing.sid, Nil, 0)
  <2>1. dialing.sid \in Ids
    BY <1>1, <1>22 DEF ConnectRefused, TypeOK, AgentTypes, Messages
  <2>2. m \in Messages /\ m.type # "Data"
    BY <2>1, MessageIs
  <2> HIDE DEF m
  <2>3. UNCHANGED <<clientVars, reading, down>> /\ (toClient' = toClient \/ toClient' = Append(toClient, m))
    BY <1>22 DEF ConnectRefused, Carried, m
  <2>4. QED BY <1>4, <1>14, <2>2, <2>3
<1>23. CASE CleanupBegins \/ ClientNotices
  <2>1. UNCHANGED <<clientVars, reading, down, toClient>>
    BY <1>23 DEF CleanupBegins, ClientNotices, agentVars
  <2>2. QED BY <1>4, <1>14, <2>1
<1>24. ASSUME NEW i \in Ids, CloseAllNext(i) PROVE DownInv'
  <2>1. UNCHANGED <<clientVars, reading, down>> /\ CloseRemote(i, TRUE, "request")
    BY <1>24 DEF CloseAllNext
  <2>2. QED BY <1>4, <1>14, <1>16, <2>1
<1>25. QED
  BY <1>6, <1>7, <1>8, <1>9, <1>11, <1>12, <1>13, <1>15, <1>17, <1>18, <1>19, <1>20, <1>21, <1>22, <1>23, <1>24
     DEF Next, ClientMessage, AgentReads, AgentSends, AgentMessage, Dialed, CloseAll

-----------------------------------------------------------------------------
(* What arrives is in order.                                                *)

LEMMA WrittenInOrder ==
  ASSUME NEW got \in [Conns -> Seq(Conns \X Nat)], InOrder(got),
         NEW c \in Conns, NEW n \in Nat, n = Len(got[c]) + 1
  PROVE  InOrder([got EXCEPT ![c] = Append(@, <<c, n>>)])
<1> DEFINE r == Append(got[c], <<c, n>>)
           g == [got EXCEPT ![c] = Append(@, <<c, n>>)]
<1>1. /\ r \in Seq(Conns \X Nat) /\ Len(r) = Len(got[c]) + 1 /\ Len(got[c]) \in Nat
      /\ \A k \in 1..Len(got[c]) : r[k] = got[c][k]
      /\ r[Len(got[c]) + 1] = <<c, n>>
  BY AppendProperties, LenProperties
<1>2. g[c] = r /\ \A d \in Conns : d # c => g[d] = got[d]
  OBVIOUS
<1>3. DOMAIN r = 1..Len(r) /\ DOMAIN got[c] = 1..Len(got[c])
  BY <1>1, LenProperties
<1> HIDE DEF r, g
<1>4. \A k \in DOMAIN r : r[k] = <<c, k>>
  <2> SUFFICES ASSUME NEW k \in DOMAIN r PROVE r[k] = <<c, k>>
    OBVIOUS
  <2>1. k \in DOMAIN got[c] \/ k = Len(got[c]) + 1
    BY <1>1, <1>3
  <2>2. QED BY <1>1, <1>3, <2>1 DEF InOrder
<1>5. \A d \in Conns : \A k \in DOMAIN g[d] : g[d][k] = <<d, k>>
  BY <1>2, <1>4 DEF InOrder
<1>6. QED BY <1>5 DEF InOrder, g

\* The chunk at the head of the queue is the next one of its connection.
LEMMA NextUp ==
  ASSUME TunnelInv, UpInv, toAgent # <<>>, Head(toAgent).type = "Data",
         remotes[Head(toAgent).sid] # Nil
  PROVE  LET c == remotes[Head(toAgent).sid] IN
         /\ c \in Conns /\ Head(toAgent).conn = c /\ Head(toAgent).chunk \in Nat
         /\ Head(toAgent).chunk = Len(remoteGot[c]) + 1
<1> DEFINE c == remotes[Head(toAgent).sid]
<1>1. /\ toAgent \in Seq(Messages) /\ remotes \in [Ids -> Conns \cup {Nil}]
      /\ remoteGot \in [Conns -> Seq(Conns \X Nat)] /\ up \in [Conns -> Nat]
      /\ link = "up" /\ Names /\ Counted
  BY DEF TunnelInv, TypeOK, LinkTypes, AgentTypes, ClientTypes, LinkInv
<1>2. Head(toAgent) = toAgent[1] /\ 1 \in 1..Len(toAgent) /\ Head(toAgent).sid \in Ids /\ Head(toAgent).chunk \in Nat
  BY <1>1, TailIs, AfterTake
<1>3. Named(toAgent[1])
  BY <1>1, <1>2 DEF Names
<1>4. Head(toAgent).conn \in Conns /\ Head(toAgent).sid = sid[Head(toAgent).conn]
  BY <1>2, <1>3 DEF Named
<1>5. c \in Conns /\ sid[c] = Head(toAgent).sid /\ sid[c] # 0
  BY <1>1, <1>2 DEF Names, Ids
<1>6. Head(toAgent).conn = c
  BY <1>1, <1>4, <1>5 DEF Names
<1>7. UpAlive(c)
  BY <1>2, <1>5 DEF UpAlive
<1>8. LastUp(c) \in Nat /\ Len(remoteGot[c]) \in Nat
  <2>1. up[c] \in Nat /\ (accepted[c] = "send" => up[c] >= 1)
    BY <1>1, <1>5 DEF Counted
  <2>2. QED BY <1>1, <1>5, <2>1, LenProperties DEF LastUp
<1>9. InFlight(toAgent, c, Len(remoteGot[c]), LastUp(c))
  BY <1>1, <1>5, <1>7 DEF UpInv
<1> HIDE DEF c
<1>10. Head(toAgent).chunk = Len(remoteGot[c]) + 1
  BY <1>1, <1>6, <1>8, <1>9, TakesData DEF IsDataOf
<1>11. QED BY <1>2, <1>5, <1>6, <1>10 DEF c

LEMMA NextDown ==
  ASSUME TunnelInv, DownInv, toClient # <<>>, Head(toClient).type = "Data",
         streams[Head(toClient).sid] # Nil
  PROVE  LET c == streams[Head(toClient).sid] IN
         /\ c \in Conns /\ Head(toClient).conn = c /\ Head(toClient).chunk \in Nat
         /\ Head(toClient).chunk = Len(localGot[c]) + 1
<1> DEFINE c == streams[Head(toClient).sid]
<1>1. /\ toClient \in Seq(Messages) /\ streams \in [Ids -> Conns \cup {Nil}]
      /\ localGot \in [Conns -> Seq(Conns \X Nat)] /\ down \in [Conns -> Nat]
      /\ link = "up" /\ Names /\ Counted
  BY DEF TunnelInv, TypeOK, LinkTypes, AgentTypes, ClientTypes, LinkInv
<1>2. Head(toClient) = toClient[1] /\ 1 \in 1..Len(toClient) /\ Head(toClient).sid \in Ids /\ Head(toClient).chunk \in Nat
  BY <1>1, TailIs, AfterTake
<1>3. Named(toClient[1])
  BY <1>1, <1>2 DEF Names
<1>4. Head(toClient).conn \in Conns /\ Head(toClient).sid = sid[Head(toClient).conn]
  BY <1>2, <1>3 DEF Named
<1>5. c \in Conns /\ sid[c] = Head(toClient).sid /\ sid[c] # 0
  BY <1>1, <1>2 DEF Names, Ids
<1>6. Head(toClient).conn = c
  BY <1>1, <1>4, <1>5 DEF Names
<1>7. DownAlive(c)
  BY <1>2, <1>5 DEF DownAlive
<1>8. LastDown(c) \in Nat /\ Len(localGot[c]) \in Nat
  <2>1. down[c] \in Nat /\ (reading[c] = "send" => down[c] >= 1)
    BY <1>1, <1>5 DEF Counted
  <2>2. QED BY <1>1, <1>5, <2>1, LenProperties DEF LastDown
<1>9. InFlight(toClient, c, Len(localGot[c]), LastDown(c))
  BY <1>1, <1>5, <1>7 DEF DownInv
<1> HIDE DEF c
<1>10. Head(toClient).chunk = Len(localGot[c]) + 1
  BY <1>1, <1>6, <1>8, <1>9, TakesData DEF IsDataOf
<1>11. QED BY <1>2, <1>5, <1>6, <1>10 DEF c

LEMMA BytesStep == TunnelInv /\ UpInv /\ DownInv /\ BytesInOrder /\ Next => BytesInOrder'
<1> SUFFICES ASSUME TunnelInv, UpInv, DownInv, BytesInOrder, Next PROVE BytesInOrder'
  OBVIOUS
<1>1. /\ InOrder(localGot) /\ InOrder(remoteGot)
      /\ localGot \in [Conns -> Seq(Conns \X Nat)] /\ remoteGot \in [Conns -> Seq(Conns \X Nat)]
  BY DEF BytesInOrder, TunnelInv, TypeOK, ClientTypes, AgentTypes
<1>2. UNCHANGED <<localGot, remoteGot>> => BytesInOrder'
  BY <1>1 DEF BytesInOrder, InOrder
<1>3. CASE LocalData
  <2>1. /\ toClient # <<>> /\ Head(toClient).type = "Data" /\ remoteGot' = remoteGot
        /\ localGot' = IF streams[Head(toClient).sid] = Nil THEN localGot
                       ELSE [localGot EXCEPT ![streams[Head(toClient).sid]] =
                               Append(@, <<Head(toClient).conn, Head(toClient).chunk>>)]
    BY <1>3 DEF LocalData, FromAgent, agentVars
  <2>2. InOrder(localGot')
    <3>1. CASE streams[Head(toClient).sid] = Nil
      BY <1>1, <2>1, <3>1
    <3>2. CASE streams[Head(toClient).sid] # Nil
      BY <1>1, <2>1, <3>2, NextDown, WrittenInOrder
    <3>3. QED BY <3>1, <3>2
  <2>3. QED BY <1>1, <2>1, <2>2 DEF BytesInOrder, InOrder
<1>4. CASE RemoteData
  <2>1. /\ toAgent # <<>> /\ Head(toAgent).type = "Data" /\ localGot' = localGot
        /\ remoteGot' = IF remotes[Head(toAgent).sid] = Nil THEN remoteGot
                        ELSE [remoteGot EXCEPT ![remotes[Head(toAgent).sid]] =
                                Append(@, <<Head(toAgent).conn, Head(toAgent).chunk>>)]
    BY <1>4 DEF RemoteData, FromClient, clientVars
  <2>2. InOrder(remoteGot')
    <3>1. CASE remotes[Head(toAgent).sid] = Nil
      BY <1>1, <2>1, <3>1
    <3>2. CASE remotes[Head(toAgent).sid] # Nil
      BY <1>1, <2>1, <3>2, NextUp, WrittenInOrder
    <3>3. QED BY <3>1, <3>2
  <2>3. QED BY <1>1, <2>1, <2>2 DEF BytesInOrder, InOrder
<1>5. ASSUME NEW c \in Conns, Accept(c) \/ HandleLocalConn(c) \/ ClientReads(c) \/ AgentReads(c) \/ AgentSends(c)
      PROVE  UNCHANGED <<localGot, remoteGot>>
  <2>1. CASE Accept(c) \/ HandleLocalConn(c) \/ ClientReads(c)
    BY <2>1 DEF Accept, HandleLocalConn, EnterConnMap, SendConnectReq, SendLocalData, SendHalfClose,
                SendOrClose, ClientReads, ReadLocal, ReadLocalEOF, ReadLocalError, agentVars
  <2>2. CASE AgentReads(c) \/ AgentSends(c)
    BY <2>2 DEF AgentReads, AgentSends, ReadRemote, ReadRemoteEOF, ReadRemoteError, SendRemoteData,
                SendRemoteFails, ReadLoopEnds, clientVars
  <2>3. QED BY <1>5, <2>1, <2>2
<1>6. LocalDataFails \/ ConnectFailed \/ LocalCloseStream \/ RemoveMap \/ ClientClosesPeer => UNCHANGED <<localGot, remoteGot>>
  BY DEF LocalDataFails, ConnectFailed, LocalCloseStream, RemoveMap, ClientClosesPeer, clientVars, agentVars
<1>7. HandleConnectRequest \/ RemoteDataFails \/ RemoteHalfClose \/ RemoteCloseStream \/ Dialed => UNCHANGED <<localGot, remoteGot>>
  BY DEF HandleConnectRequest, RemoteDataFails, RemoteHalfClose, RemoteCloseStream, Dialed, Connected,
         ConnectRefused, clientVars
<1>8. CleanupBegins \/ CloseAll \/ LinkLost \/ ClientNotices => UNCHANGED <<localGot, remoteGot>>
  BY DEF CleanupBegins, CloseAll, CloseAllNext, AgentClosesPeer, LinkLost, ClientNotices, clientVars, agentVars
<1>9. QED
  BY <1>2, <1>3, <1>4, <1>5, <1>6, <1>7, <1>8 DEF Next, ClientMessage, AgentMessage

-----------------------------------------------------------------------------
(* The invariant of the whole tunnel.                                      *)

TunnelIInv == TunnelInv /\ UpInv /\ DownInv /\ BytesInOrder

LEMMA InitTunnel == Init => TunnelIInv
<1> SUFFICES ASSUME Init PROVE TunnelIInv
  OBVIOUS
<1> USE TunnelAssumption
<1>1. <<>> \in Seq(Messages) /\ <<>> \in Seq(Conns \X Nat) /\ Len(<<>>) = 0 /\ 1..0 = {}
  BY EmptySeq
<1>2. TypeOK
  BY <1>1 DEF Init, TypeOK, ClientTypes, AgentTypes, LinkTypes
<1>3. Names /\ Requests /\ LinkInv /\ Counted
  BY <1>1 DEF Init, Names, Requests, LinkInv, Counted
<1>4. \A c \in Conns : InFlight(<<>>, c, 0, 0)
  <2>1. \A c : DataAt(<<>>, c) = {}
    BY <1>1 DEF DataAt
  <2>2. QED BY <2>1 DEF InFlight
<1>5. UpInv /\ DownInv
  BY <1>1, <1>4 DEF Init, UpInv, DownInv, LastUp, LastDown
<1>6. BytesInOrder
  <2>1. DOMAIN <<>> = {}
    OBVIOUS
  <2>2. QED BY <2>1 DEF Init, BytesInOrder, InOrder
<1>7. QED BY <1>2, <1>3, <1>5, <1>6 DEF TunnelIInv, TunnelInv

LEMMA StepTunnel == TunnelIInv /\ [Next]_vars => TunnelIInv'
<1> SUFFICES ASSUME TunnelIInv, [Next]_vars PROVE TunnelIInv'
  OBVIOUS
<1>1. CASE Next
  <2>1. TypeOK'
    BY <1>1, ClientTypesStep, AgentTypesStep, LinkTypesStep DEF TunnelIInv, TunnelInv, TypeOK
  <2>2. Names' /\ Requests' /\ LinkInv' /\ Counted'
    BY <1>1, NamesStep, RequestsStep, LinkStep, CountedStep DEF TunnelIInv, TunnelInv
  <2>3. UpInv' /\ DownInv' /\ BytesInOrder'
    BY <1>1, UpStep, DownStep, BytesStep DEF TunnelIInv
  <2>4. QED BY <2>1, <2>2, <2>3 DEF TunnelIInv, TunnelInv
<1>2. CASE UNCHANGED vars
  <2>1. UNCHANGED clientVars /\ UNCHANGED agentVars /\ UNCHANGED linkVars
    BY <1>2 DEF vars
  <2>2. TypeOK'
    BY <2>1 DEF clientVars, agentVars, linkVars, TunnelIInv, TunnelInv, TypeOK, ClientTypes, AgentTypes, LinkTypes
  <2>3. Names' /\ Requests'
    BY <2>1 DEF clientVars, agentVars, linkVars, TunnelIInv, TunnelInv, Names, Named, Requests
  <2>4. LinkInv' /\ Counted' /\ BytesInOrder'
    BY <2>1 DEF clientVars, agentVars, linkVars, TunnelIInv, TunnelInv, LinkInv, Counted, BytesInOrder, InOrder
  <2>5. UpInv'
    BY <2>1 DEF clientVars, agentVars, linkVars, TunnelIInv, UpInv, UpAlive, Requested, LastUp
  <2>6. DownInv'
    BY <2>1 DEF clientVars, agentVars, linkVars, TunnelIInv, DownInv, DownAlive, LastDown
  <2>7. QED BY <2>2, <2>3, <2>4, <2>5, <2>6 DEF TunnelIInv, TunnelInv
<1>3. QED BY <1>1, <1>2

\* The invariant of the whole tunnel: ids name one connection each, a request is sent
\* once and before its data, and the chunks under way are those between what was
\* written at one end and what was handed to the link at the other.
THEOREM TunnelAlways == Spec => []TunnelIInv
<1>1. QED BY InitTunnel, StepTunnel, PTL DEF Spec

\* Every state of the tunnel is well typed: ids stay in their range, and both maps of
\* streams hold connections or nothing (manager.go, client.go).
THEOREM TunnelTypeCorrect == Spec => []TypeOK
<1>1. TunnelIInv => TypeOK
  BY DEF TunnelIInv, TunnelInv
<1>2. QED BY <1>1, TunnelAlways, PTL

\* However many connections are mapped at once, what HandleDataMessage writes to a
\* connection, at either end, is what was read at the other end of the same stream, in
\* order and without a gap, whatever closes, fails or is refused beside it.
THEOREM BytesArriveInOrder == Spec => []BytesInOrder
<1>1. TunnelIInv => BytesInOrder
  BY DEF TunnelIInv
<1>2. QED BY <1>1, TunnelAlways, PTL

-----------------------------------------------------------------------------
(* An end of file comes after the data.                                     *)

\* All data of c in the queue q is before the place k.
Barrier(q, k, c) == \A l \in DataAt(q, c) : l < k

\* A queue goes on to another when a step may send the messages of S, or is lost.
Continues(q, r, S) ==
  \/ r = q
  \/ q # <<>> /\ r = Tail(q)
  \/ \E m \in S : r = Append(q, m)
Follows(q, r, S) == r = <<>> \/ Continues(q, r, S)
NoData(S, c) == \A m \in S : ~IsDataOf(m, c)

\* A message is new, or was in the queue, with the same data before it.
LEMMA BarrierKept ==
  ASSUME NEW q \in Seq(Messages), NEW S \in SUBSET Messages, NEW r, Follows(q, r, S),
         NEW k \in 1..Len(r)
  PROVE  \/ \E j \in 1..Len(q) :
               r[k] = q[j] /\ \A c : Barrier(q, j, c) /\ NoData(S, c) => Barrier(r, k, c)
         \/ r[k] \in S /\ r = Append(q, r[k]) /\ \A c : NoData(S, c) => Barrier(r, k, c)
<1> DEFINE Old(j) == r[k] = q[j] /\ \A c : Barrier(q, j, c) /\ NoData(S, c) => Barrier(r, k, c)
           New == r[k] \in S /\ r = Append(q, r[k]) /\ \A c : NoData(S, c) => Barrier(r, k, c)
           Goal == (\E j \in 1..Len(q) : Old(j)) \/ New
<1>1. CASE r = q
  BY <1>1
<1>2. CASE r = <<>>
  <2>1. Len(r) = 0 /\ 1..0 = {}
    BY <1>2, EmptySeq
  <2>2. QED BY <2>1
<1>3. CASE q # <<>> /\ r = Tail(q)
  <2>1. k + 1 \in 1..Len(q) /\ r[k] = q[k + 1]
    BY <1>3, TailIs
  <2>2. ASSUME NEW c, Barrier(q, k + 1, c) PROVE Barrier(r, k, c)
    <3>1. \A l \in DataAt(r, c) : l \in Int /\ l + 1 \in DataAt(q, c)
      BY <1>3, TailIs DEF DataAt
    <3>2. \A l \in DataAt(r, c) : l + 1 < k + 1
      BY <2>2, <3>1 DEF Barrier
    <3>3. QED BY <3>1, <3>2 DEF Barrier
  <2>3. Old(k + 1)
    BY <2>1, <2>2
  <2>4. QED BY <2>1, <2>3
<1>4. ASSUME NEW m \in S, r = Append(q, m) PROVE Goal
  <2>1. /\ Len(q) \in Nat /\ r[Len(q) + 1] = m
        /\ \A j \in 1..Len(q) : r[j] = q[j]
        /\ \A j \in 1..Len(r) : j \in 1..Len(q) \/ j = Len(q) + 1
    BY <1>4, AppendIs
  <2>2. \A c : NoData(S, c) => \A l \in DataAt(r, c) : l \in 1..Len(q) /\ l \in DataAt(q, c)
    BY <1>4, <2>1 DEF DataAt, NoData, IsDataOf
  <2>3. CASE k \in 1..Len(q)
    <3>1. Old(k)
      BY <2>1, <2>2, <2>3 DEF Barrier
    <3>2. QED BY <2>3, <3>1
  <2>4. CASE k = Len(q) + 1
    <3>1. \A c : NoData(S, c) => Barrier(r, k, c)
      BY <2>1, <2>2, <2>4 DEF Barrier
    <3>2. New
      BY <1>4, <2>1, <2>4, <3>1
    <3>3. QED BY <3>2
  <2>5. QED BY <2>1, <2>3, <2>4
<1>5. QED BY <1>1, <1>2, <1>3, <1>4 DEF Follows, Continues

LEMMA NoDataKept ==
  ASSUME NEW q \in Seq(Messages), NEW S \in SUBSET Messages, NEW r, Follows(q, r, S),
         NEW c, NoData(S, c), DataAt(q, c) = {}
  PROVE  DataAt(r, c) = {}
<1>1. Len(<<>>) = 0 /\ 1..0 = {}
  BY EmptySeq
<1>2. CASE r = q \/ r = <<>>
  BY <1>1, <1>2 DEF DataAt
<1>3. CASE q # <<>> /\ r = Tail(q)
  BY <1>3, TailIs DEF DataAt
<1>4. ASSUME NEW m \in S, r = Append(q, m) PROVE DataAt(r, c) = {}
  BY <1>4, AppendIs DEF DataAt, NoData, IsDataOf
<1>5. QED BY <1>2, <1>3, <1>4 DEF Follows, Continues

\* What handleLocalConn keeps: its id, and, once it is done, the chunks it read.
LEMMA DoneStays ==
  ASSUME TunnelInv, Next, NEW c \in Conns
  PROVE  /\ sid[c] # 0 => sid'[c] = sid[c]
         /\ accepted[c] = "done" => accepted'[c] = "done" /\ up'[c] = up[c]
<1> DEFINE Goal == /\ sid[c] # 0 => sid'[c] = sid[c]
                   /\ accepted[c] = "done" => accepted'[c] = "done" /\ up'[c] = up[c]
<1>1. /\ sid \in [Conns -> 0..MaxStreams] /\ up \in [Conns -> Nat]
      /\ accepted \in [Conns -> {"none", "registered", "mapped", "read", "send", "eof", "done"}]
      /\ Names /\ TypeOK
  BY DEF TunnelInv, TypeOK, ClientTypes
<1>2. UNCHANGED <<sid, accepted, up>> => Goal
  OBVIOUS
<1>3. ASSUME NEW d \in Conns, Accept(d) PROVE Goal
  <2>1. /\ accepted[d] = "none" /\ accepted' = [accepted EXCEPT ![d] = "registered"]
        /\ sid' = [sid EXCEPT ![d] = NextId] /\ up' = up
    BY <1>3 DEF Accept, At
  <2>2. sid[d] = 0
    BY <1>1, <2>1 DEF Names
  <2>3. QED BY <1>1, <2>1, <2>2
<1>4. ASSUME NEW d \in Conns, EnterConnMap(d) \/ ReadLocalEOF(d) \/ ReadLocalError(d) PROVE Goal
  <2>1. UNCHANGED <<sid, up>>
    BY <1>4 DEF EnterConnMap, ReadLocalEOF, ReadLocalError
  <2>2. accepted[d] # "done" /\ \E to : accepted' = [accepted EXCEPT ![d] = to]
    BY <1>4 DEF EnterConnMap, ReadLocalEOF, ReadLocalError, At
  <2>3. QED BY <1>1, <2>1, <2>2
<1>5. ASSUME NEW d \in Conns, ReadLocal(d) PROVE Goal
  <2>1. /\ accepted[d] = "read" /\ accepted' = [accepted EXCEPT ![d] = "send"]
        /\ up' = [up EXCEPT ![d] = @ + 1] /\ sid' = sid
    BY <1>5 DEF ReadLocal, At
  <2>2. QED BY <1>1, <2>1
<1>6. ASSUME NEW d \in Conns, SendConnectReq(d) \/ SendLocalData(d) \/ SendHalfClose(d) PROVE Goal
  <2>1. PICK from \in {"mapped", "send", "eof"}, then \in {"read", "done"}, m \in Messages :
          Named(m) /\ SendOrClose(d, from, m, then)
    BY <1>1, <1>6, ItSends
  <2>2. /\ UNCHANGED <<sid, up>> /\ accepted[d] # "done"
        /\ \E to : accepted' = [accepted EXCEPT ![d] = to]
    BY <2>1 DEF SendOrClose
  <2>3. QED BY <1>1, <2>2
<1>7. ClientMessage \/ RemoveMap \/ ClientClosesPeer => UNCHANGED <<sid, accepted, up>>
  BY DEF ClientMessage, LocalData, LocalDataFails, ConnectFailed, LocalCloseStream, KeepClientLoop,
         RemoveMap, ClientClosesPeer, clientVars
<1>8. \A d \in Conns : AgentReads(d) \/ AgentSends(d) => UNCHANGED <<sid, accepted, up>>
  BY DEF AgentReads, AgentSends, ReadRemote, ReadRemoteEOF, ReadRemoteError, SendRemoteData,
         SendRemoteFails, ReadLoopEnds, clientVars
<1>9. AgentMessage \/ Dialed => UNCHANGED <<sid, accepted, up>>
  BY DEF AgentMessage, HandleConnectRequest, RemoteData, RemoteDataFails, RemoteHalfClose,
         RemoteCloseStream, Dialed, Connected, ConnectRefused, clientVars
<1>10. CleanupBegins \/ CloseAll \/ LinkLost \/ ClientNotices => UNCHANGED <<sid, accepted, up>>
  BY DEF CleanupBegins, CloseAll, CloseAllNext, AgentClosesPeer, LinkLost, ClientNotices, clientVars
<1>11. QED
  BY <1>2, <1>3, <1>4, <1>5, <1>6, <1>7, <1>8, <1>9, <1>10 DEF Next, HandleLocalConn, ClientReads

\* What a step may send to the agent: the request of a stream that was mapped, data a
\* reader has read, the end of file of one that is done, the end of a stream that was open.
SentUp ==
  {m \in Messages :
     /\ m.type = "ConnectReq" => m.conn \in Conns /\ accepted[m.conn] = "mapped"
     /\ m.type = "Data" => m.conn \in Conns /\ accepted[m.conn] = "send"
     /\ m.type = "HalfCloseStream" =>
          \E c \in Conns : sid[c] = m.sid /\ accepted[c] = "eof" /\ accepted'[c] = "done"
     /\ m.type = "CloseStream" => streams[m.sid] # Nil /\ streams'[m.sid] = Nil}

LEMMA UpMoves ==
  ASSUME TunnelInv, Next
  PROVE  /\ Follows(toAgent, toAgent', SentUp)
         /\ link' = "up" => Continues(toAgent, toAgent', SentUp)
<1> DEFINE Goal == \/ link' = "lost" /\ toAgent' = <<>>
                   \/ Continues(toAgent, toAgent', SentUp)
<1>1. /\ TypeOK /\ Names /\ toClient \in Seq(Messages) /\ streams \in [Ids -> Conns \cup {Nil}]
      /\ sid \in [Conns -> 0..MaxStreams]
      /\ accepted \in [Conns -> {"none", "registered", "mapped", "read", "send", "eof", "done"}]
  BY DEF TunnelInv, TypeOK, LinkTypes, ClientTypes
<1>0. /\ toAgent' = toAgent => Goal
      /\ toAgent # <<>> /\ toAgent' = Tail(toAgent) => Goal
      /\ \A m \in SentUp : toAgent' = Append(toAgent, m) => Goal
  BY DEF Continues
<1> SUFFICES Goal
  BY DEF Follows
<1> HIDE DEF Goal
<1>2. ASSUME NEW i \in Ids, NEW notify, CloseLocal(i, notify) PROVE Goal
  <2> DEFINE m == Message("CloseStream", i, Nil, 0)
  <2>1. m \in Messages /\ m.type = "CloseStream" /\ m.sid = i
    BY MessageIs
  <2> HIDE DEF m
  <2>2. streams'[i] = Nil
    BY <1>1, <1>2 DEF CloseLocal
  <2>3. \/ toAgent' = toAgent
        \/ streams[i] # Nil /\ toAgent' = Append(toAgent, m)
    BY <1>2 DEF CloseLocal, Carried, m
  <2>4. streams[i] # Nil => m \in SentUp
    BY <2>1, <2>2 DEF SentUp
  <2>5. QED BY <1>0, <2>3, <2>4
<1>3. ASSUME NEW c \in Conns, SendConnectReq(c) \/ SendLocalData(c) \/ SendHalfClose(c) PROVE Goal
  <2>1. PICK from \in {"mapped", "send", "eof"}, then \in {"read", "done"}, m \in Messages :
          /\ Named(m) /\ SendOrClose(c, from, m, then)
          /\ m.type = "ConnectReq" => m.conn = c /\ from = "mapped"
          /\ m.type = "Data" => m.conn = c /\ from = "send"
          /\ m.type = "HalfCloseStream" => m.sid = sid[c] /\ from = "eof" /\ then = "done"
          /\ m.type # "CloseStream"
    <3>1. accepted[c] # "none"
      BY <1>3 DEF SendConnectReq, SendLocalData, SendHalfClose, SendOrClose
    <3>2. Message("HalfCloseStream", sid[c], Nil, 0).sid = sid[c]
      BY DEF Message
    <3>3. CASE SendConnectReq(c)
      BY <1>1, <3>1, <3>3, ItsMessages DEF SendConnectReq
    <3>4. CASE SendLocalData(c)
      BY <1>1, <3>1, <3>4, ItsMessages DEF SendLocalData, IsDataOf
    <3>5. CASE SendHalfClose(c)
      BY <1>1, <3>1, <3>2, <3>5, ItsMessages DEF SendHalfClose
    <3>6. QED BY <1>3, <3>3, <3>4, <3>5
  <2>2. from # "none"
    OBVIOUS
  <2>3. /\ accepted[c] = from /\ accepted' = [accepted EXCEPT ![c] = IF clientOpen THEN then ELSE "done"]
        /\ toAgent' = toAgent \/ toAgent' = Append(toAgent, m)
    <3>1. TypeOK /\ Names
      BY <1>1
    <3>2. IF clientOpen THEN toAgent' = Carried(toAgent, m) ELSE toAgent' = toAgent
      BY <2>1, <2>2, <3>1, SendOrCloseIs
    <3>3. QED BY <2>1, <3>2 DEF Carried, SendOrClose
  <2>4. m \in SentUp
    BY <1>1, <2>1, <2>3 DEF SentUp
  <2>5. QED BY <1>0, <2>3, <2>4
<1>4. ASSUME NEW c \in Conns, ReadLocalError(c) PROVE Goal
  <2>1. sid[c] \in Ids /\ CloseLocal(sid[c], TRUE)
    BY <1>1, <1>4, SidIsId DEF ReadLocalError, At
  <2>2. QED BY <1>2, <2>1
<1>5. CASE LocalDataFails \/ ConnectFailed \/ LocalCloseStream
  <2>1. toClient # <<>>
    BY <1>5 DEF LocalDataFails, ConnectFailed, LocalCloseStream, FromAgent
  <2>2. Head(toClient).sid \in Ids
    BY <1>1, <2>1, AfterTake
  <2>3. \E n \in BOOLEAN : CloseLocal(Head(toClient).sid, n)
    BY <1>5 DEF LocalDataFails, ConnectFailed, LocalCloseStream
  <2>4. QED BY <1>2, <2>2, <2>3
<1>6. ASSUME NEW c \in Conns, \/ Accept(c) \/ EnterConnMap(c) \/ ReadLocal(c) \/ ReadLocalEOF(c)
                              \/ AgentReads(c) \/ AgentSends(c)
      PROVE  toAgent' = toAgent
  BY <1>6 DEF Accept, EnterConnMap, ReadLocal, ReadLocalEOF, AgentReads, AgentSends, ReadRemote,
              ReadRemoteEOF, ReadRemoteError, SendRemoteData, SendRemoteFails, ReadLoopEnds, linkVars
<1>7. LocalData \/ RemoveMap \/ Dialed \/ CleanupBegins \/ ClientNotices => toAgent' = toAgent
  BY DEF LocalData, RemoveMap, Dialed, Connected, ConnectRefused, CleanupBegins, ClientNotices, linkVars
<1>8. AgentMessage => toAgent # <<>> /\ toAgent' = Tail(toAgent)
  BY DEF AgentMessage, HandleConnectRequest, RemoteData, RemoteDataFails, RemoteHalfClose,
         RemoteCloseStream, FromClient
<1>9. (\E i \in Ids : CloseAllNext(i)) => toAgent' = toAgent
  BY DEF CloseAllNext
<1>10. AgentClosesPeer \/ LinkLost \/ ClientClosesPeer => Goal
  BY DEF AgentClosesPeer, LinkLost, ClientClosesPeer, LosesLink, Goal
<1>11. QED
  BY <1>0, <1>3, <1>4, <1>5, <1>6, <1>7, <1>8, <1>9, <1>10
     DEF Next, HandleLocalConn, ClientReads, ClientMessage, CloseAll

\* The end of file of a connection comes once, when its reader is done, after its data.
HalfCloseLast ==
  \A k \in 1..Len(toAgent) : toAgent[k].type = "HalfCloseStream" =>
    \E c \in Conns : sid[c] = toAgent[k].sid /\ accepted[c] = "done" /\ Barrier(toAgent, k, c)

LEMMA HalfCloseLastStep == TunnelInv /\ HalfCloseLast /\ Next => HalfCloseLast'
<1> SUFFICES ASSUME TunnelInv, HalfCloseLast, Next, NEW k \in 1..Len(toAgent'),
                    toAgent'[k].type = "HalfCloseStream"
             PROVE  \E c \in Conns : /\ sid'[c] = toAgent'[k].sid /\ accepted'[c] = "done"
                                     /\ Barrier(toAgent', k, c)
  BY DEF HalfCloseLast, Barrier, DataAt
<1>1. toAgent \in Seq(Messages) /\ (\A i \in Ids : i # 0) /\ SentUp \in SUBSET Messages
  BY DEF TunnelInv, TypeOK, LinkTypes, Ids, SentUp
<1>2. \A c \in Conns : accepted[c] # "send" => NoData(SentUp, c)
  BY DEF SentUp, NoData, IsDataOf
<1>3. Follows(toAgent, toAgent', SentUp)
  BY UpMoves
<1>4. ASSUME NEW j \in 1..Len(toAgent), toAgent'[k] = toAgent[j],
             \A c : Barrier(toAgent, j, c) /\ NoData(SentUp, c) => Barrier(toAgent', k, c)
      PROVE  \E c \in Conns : /\ sid'[c] = toAgent'[k].sid /\ accepted'[c] = "done"
                              /\ Barrier(toAgent', k, c)
  <2>1. PICK c \in Conns : sid[c] = toAgent[j].sid /\ accepted[c] = "done" /\ Barrier(toAgent, j, c)
    BY <1>4 DEF HalfCloseLast
  <2>2. sid[c] # 0
    BY <1>1, <2>1, MessageHas
  <2>3. sid'[c] = sid[c] /\ accepted'[c] = "done"
    BY <2>1, <2>2, DoneStays
  <2>4. QED BY <1>2, <1>4, <2>1, <2>3
<1>5. ASSUME toAgent'[k] \in SentUp, \A c : NoData(SentUp, c) => Barrier(toAgent', k, c)
      PROVE  \E c \in Conns : /\ sid'[c] = toAgent'[k].sid /\ accepted'[c] = "done"
                              /\ Barrier(toAgent', k, c)
  <2>1. PICK c \in Conns : sid[c] = toAgent'[k].sid /\ accepted[c] = "eof" /\ accepted'[c] = "done"
    BY <1>5 DEF SentUp
  <2>2. sid[c] # 0
    BY <1>1, <1>5, <2>1 DEF SentUp, Messages
  <2>3. sid'[c] = sid[c]
    BY <2>2, DoneStays
  <2>4. QED BY <1>2, <1>5, <2>1, <2>3
<1>6. QED BY <1>1, <1>3, <1>4, <1>5, BarrierKept

\* What closing the stream i changes at the agent.
LEMMA CloseRemoteIs ==
  ASSUME TypeOK, Names, NEW i \in Ids, NEW notify, NEW why, CloseRemote(i, notify, why)
  PROVE  /\ \A j \in Ids : remotes'[j] \in {remotes[j], Nil}
         /\ remotes'[i] = Nil
         /\ \A c \in Conns : /\ remote'[c] \in {remote[c], "closed"}
                             /\ endedBy'[c] = endedBy[c] \/ (endedBy'[c] = why /\ remotes[i] = c /\ sid[c] = i)
<1>1. /\ remotes \in [Ids -> Conns \cup {Nil}] /\ remote \in [Conns -> {"none", "open", "wclosed", "closed"}]
      /\ endedBy \in [Conns -> {"none", "eof", "error", "request"}]
  BY DEF TypeOK, AgentTypes
<1>2. remotes' = [remotes EXCEPT ![i] = Nil]
  BY DEF CloseRemote
<1>3. remote' = remote \/ remote' = [remote EXCEPT ![remotes[i]] = "closed"]
  BY DEF CloseRemote
<1>4. \/ endedBy' = endedBy
      \/ remotes[i] # Nil /\ endedBy' = [endedBy EXCEPT ![remotes[i]] = why]
  BY DEF CloseRemote
<1>5. remotes[i] # Nil => sid[remotes[i]] = i
  BY DEF Names
<1>6. QED BY <1>1, <1>2, <1>3, <1>4, <1>5

\* A reader that started stays so, and one that is done reads no more.
LEMMA ReadersMove ==
  ASSUME TunnelInv, Next, NEW c \in Conns
  PROVE  /\ reading[c] # "none" => reading'[c] # "none"
         /\ reading[c] = "done" => reading'[c] = "done" /\ down'[c] = down[c]
<1> DEFINE Goal == /\ reading[c] # "none" => reading'[c] # "none"
                   /\ reading[c] = "done" => reading'[c] = "done" /\ down'[c] = down[c]
<1>1. /\ reading \in [Conns -> {"none", "read", "send", "done"}] /\ down \in [Conns -> Nat] /\ Requests
  BY DEF TunnelInv, TypeOK, AgentTypes
<1>2. UNCHANGED <<reading, down>> => Goal
  OBVIOUS
<1>3. ASSUME NEW d \in Conns, ReadRemote(d) PROVE Goal
  <2>1. /\ reading[d] = "read" /\ reading' = [reading EXCEPT ![d] = "send"]
        /\ down' = [down EXCEPT ![d] = @ + 1]
    BY <1>3 DEF ReadRemote
  <2>2. QED BY <1>1, <2>1
<1>4. ASSUME NEW d \in Conns, ReadRemoteEOF(d) \/ ReadRemoteError(d) \/ AgentSends(d) PROVE Goal
  <2>1. /\ reading[d] \in {"read", "send"} /\ down' = down
        /\ \E to \in {"read", "done"} : reading' = [reading EXCEPT ![d] = to]
    BY <1>4 DEF ReadRemoteEOF, ReadRemoteError, AgentSends, SendRemoteData, SendRemoteFails, ReadLoopEnds
  <2>2. QED BY <1>1, <2>1
<1>5. CASE Connected
  <2>1. /\ dialing # Nil /\ down' = down
        /\ reading' = reading \/ reading' = [reading EXCEPT ![dialing.conn] = "read"]
    BY <1>5 DEF Connected
  <2>2. reading[dialing.conn] = "none"
    BY <1>1, <2>1 DEF Requests
  <2>3. QED BY <1>1, <2>1, <2>2
<1>6. \A d \in Conns : Accept(d) \/ HandleLocalConn(d) \/ ClientReads(d) => UNCHANGED <<reading, down>>
  BY DEF Accept, HandleLocalConn, EnterConnMap, SendConnectReq, SendLocalData, SendHalfClose,
         SendOrClose, ClientReads, ReadLocal, ReadLocalEOF, ReadLocalError, agentVars
<1>7. ClientMessage \/ RemoveMap \/ ClientClosesPeer \/ ConnectRefused => UNCHANGED <<reading, down>>
  BY DEF ClientMessage, LocalData, LocalDataFails, ConnectFailed, LocalCloseStream,
         RemoveMap, ClientClosesPeer, ConnectRefused, agentVars
<1>8. AgentMessage => UNCHANGED <<reading, down>>
  BY DEF AgentMessage, HandleConnectRequest, RemoteData, RemoteDataFails, RemoteHalfClose, RemoteCloseStream
<1>9. CleanupBegins \/ CloseAll \/ LinkLost \/ ClientNotices => UNCHANGED <<reading, down>>
  BY DEF CleanupBegins, CloseAll, CloseAllNext, AgentClosesPeer, LinkLost, ClientNotices, agentVars
<1>10. QED
  BY <1>2, <1>3, <1>4, <1>5, <1>6, <1>7, <1>8, <1>9 DEF Next, AgentReads, Dialed

\* What one step may do to the streams of the agent.
LEMMA RemotesMove ==
  ASSUME TunnelInv, Next
  PROVE  /\ \A i \in Ids : \/ remotes'[i] \in {remotes[i], Nil}
                           \/ /\ dialing # Nil /\ dialing.sid = i /\ remotes'[i] = dialing.conn
                              /\ reading'[dialing.conn] # "none"
         /\ \A c \in Conns : remote'[c] = "wclosed" =>
              remote[c] = "wclosed" \/ (RemoteHalfClose /\ remotes[Head(toAgent).sid] = c)
         /\ \A c \in Conns : endedBy'[c] = "eof" =>
              \/ endedBy[c] = "eof"
              \/ /\ sid[c] \in Ids /\ remotes[sid[c]] = c /\ remotes'[sid[c]] = Nil
                 /\ reading'[c] = "done"
<1> DEFINE Opened(i) == /\ dialing # Nil /\ dialing.sid = i /\ remotes'[i] = dialing.conn
                        /\ reading'[dialing.conn] # "none"
           Halved(c) == RemoteHalfClose /\ remotes[Head(toAgent).sid] = c
           Ended(c) == /\ sid[c] \in Ids /\ remotes[sid[c]] = c /\ remotes'[sid[c]] = Nil
                       /\ reading'[c] = "done"
           Goal == /\ \A i \in Ids : remotes'[i] \in {remotes[i], Nil} \/ Opened(i)
                   /\ \A c \in Conns : remote'[c] = "wclosed" => remote[c] = "wclosed" \/ Halved(c)
                   /\ \A c \in Conns : endedBy'[c] = "eof" => endedBy[c] = "eof" \/ Ended(c)
<1>1. /\ remotes \in [Ids -> Conns \cup {Nil}] /\ remote \in [Conns -> {"none", "open", "wclosed", "closed"}]
      /\ endedBy \in [Conns -> {"none", "eof", "error", "request"}]
      /\ reading \in [Conns -> {"none", "read", "send", "done"}]
      /\ toAgent \in Seq(Messages) /\ TypeOK /\ Names /\ Requests /\ Nil \notin Conns
  BY TunnelAssumption DEF TunnelInv, TypeOK, AgentTypes, LinkTypes
<1>2. UNCHANGED <<remotes, remote, endedBy>> => Goal
  OBVIOUS
<1>3. ASSUME NEW i \in Ids, NEW notify, NEW why, why # "eof", CloseRemote(i, notify, why) PROVE Goal
  <2>1. /\ \A j \in Ids : remotes'[j] \in {remotes[j], Nil}
        /\ \A c \in Conns : /\ remote'[c] \in {remote[c], "closed"}
                            /\ endedBy'[c] \in {endedBy[c], why}
    BY <1>1, <1>3, CloseRemoteIs
  <2>2. QED BY <1>3, <2>1
<1>4. ASSUME NEW d \in Conns, ReadRemoteEOF(d) \/ ReadRemoteError(d) \/ SendRemoteFails(d) PROVE Goal
  <2>1. PICK why \in {"eof", "error"} : ReadLoopEnds(d, why) /\ reading[d] # "none"
    BY <1>4 DEF ReadRemoteEOF, ReadRemoteError, SendRemoteFails
  <2>2. sid[d] \in Ids
    <3>1. accepted[d] # "none"
      BY <1>1, <2>1 DEF Requests, Early
    <3>2. QED BY <1>1, <3>1, SidIsId
  <2>3. CloseRemote(sid[d], TRUE, why) /\ reading'[d] = "done"
    BY <1>1, <2>1 DEF ReadLoopEnds
  <2>4. /\ \A j \in Ids : remotes'[j] \in {remotes[j], Nil}
        /\ remotes'[sid[d]] = Nil
        /\ \A c \in Conns : /\ remote'[c] \in {remote[c], "closed"}
                            /\ \/ endedBy'[c] = endedBy[c]
                               \/ endedBy'[c] = why /\ remotes[sid[d]] = c /\ sid[c] = sid[d]
    BY <1>1, <2>2, <2>3, CloseRemoteIs
  <2>5. \A c \in Conns : sid[c] = sid[d] => c = d
    BY <1>1, <2>2 DEF Names, Ids
  <2>6. QED BY <2>2, <2>3, <2>4, <2>5
<1>5. CASE Connected
  <2>1. /\ dialing # Nil
        /\ dialing.conn \in Conns /\ dialing.sid \in Ids
        /\ \/ /\ remotes' = [remotes EXCEPT ![dialing.sid] = dialing.conn]
              /\ reading' = [reading EXCEPT ![dialing.conn] = "read"]
              /\ remote' = [remote EXCEPT ![dialing.conn] = "open"]
              /\ endedBy' = endedBy
           \/ /\ remotes' = remotes
              /\ remote' = [remote EXCEPT ![dialing.conn] = "closed"]
              /\ endedBy' = [endedBy EXCEPT ![dialing.conn] = "request"]
    BY <1>1, <1>5 DEF Connected, Names, Named, TypeOK, AgentTypes, Messages
  <2>2. QED BY <1>1, <2>1
<1>6. CASE RemoteHalfClose
  <2>1. /\ toAgent # <<>> /\ UNCHANGED <<remotes, endedBy>>
        /\ \/ remote' = remote
           \/ remotes[Head(toAgent).sid] # Nil /\ remote' = [remote EXCEPT ![remotes[Head(toAgent).sid]] = "wclosed"]
    BY <1>6 DEF RemoteHalfClose, FromClient
  <2>2. QED BY <1>1, <1>6, <2>1
<1>7. CASE RemoteDataFails \/ RemoteCloseStream
  <2>1. Head(toAgent).sid \in Ids
    BY <1>1, <1>7, AfterTake DEF RemoteDataFails, RemoteCloseStream, FromClient
  <2>2. \E n \in BOOLEAN, why \in {"error", "request"} : CloseRemote(Head(toAgent).sid, n, why)
    BY <1>7 DEF RemoteDataFails, RemoteCloseStream
  <2>3. QED BY <1>3, <2>1, <2>2
<1>8. CASE \E i \in Ids : CloseAllNext(i)
  BY <1>3, <1>8 DEF CloseAllNext
<1>9. \A d \in Conns : Accept(d) \/ HandleLocalConn(d) \/ ClientReads(d) => UNCHANGED <<remotes, remote, endedBy>>
  BY DEF Accept, HandleLocalConn, EnterConnMap, SendConnectReq, SendLocalData, SendHalfClose,
         SendOrClose, ClientReads, ReadLocal, ReadLocalEOF, ReadLocalError, agentVars
<1>10. \A d \in Conns : ReadRemote(d) \/ SendRemoteData(d) => UNCHANGED <<remotes, remote, endedBy>>
  BY DEF ReadRemote, SendRemoteData
<1>11. ClientMessage \/ RemoveMap \/ ClientClosesPeer \/ ConnectRefused => UNCHANGED <<remotes, remote, endedBy>>
  BY DEF ClientMessage, LocalData, LocalDataFails, ConnectFailed, LocalCloseStream,
         RemoveMap, ClientClosesPeer, ConnectRefused, agentVars
<1>12. HandleConnectRequest \/ RemoteData => UNCHANGED <<remotes, remote, endedBy>>
  BY DEF HandleConnectRequest, RemoteData
<1>13. CleanupBegins \/ AgentClosesPeer \/ LinkLost \/ ClientNotices => UNCHANGED <<remotes, remote, endedBy>>
  BY DEF CleanupBegins, AgentClosesPeer, LinkLost, ClientNotices, agentVars
<1>14. QED
  BY <1>2, <1>4, <1>5, <1>6, <1>7, <1>8, <1>9, <1>10, <1>11, <1>12, <1>13
     DEF Next, AgentReads, AgentSends, AgentMessage, Dialed, CloseAll

LEMMA OnlyRemoteDataWrites == Next /\ ~RemoteData => UNCHANGED remoteGot
<1> SUFFICES ASSUME Next, ~RemoteData PROVE UNCHANGED remoteGot
  OBVIOUS
<1>1. \A c \in Conns : Accept(c) \/ HandleLocalConn(c) \/ ClientReads(c) => UNCHANGED remoteGot
  BY DEF Accept, HandleLocalConn, EnterConnMap, SendConnectReq, SendLocalData, SendHalfClose,
         SendOrClose, ClientReads, ReadLocal, ReadLocalEOF, ReadLocalError, agentVars
<1>2. \A c \in Conns : AgentReads(c) \/ AgentSends(c) => UNCHANGED remoteGot
  BY DEF AgentReads, AgentSends, ReadRemote, ReadRemoteEOF, ReadRemoteError, SendRemoteData,
         SendRemoteFails, ReadLoopEnds
<1>3. ClientMessage \/ RemoveMap \/ ClientClosesPeer \/ Dialed => UNCHANGED remoteGot
  BY DEF ClientMessage, LocalData, LocalDataFails, ConnectFailed, LocalCloseStream,
         RemoveMap, ClientClosesPeer, Dialed, Connected, ConnectRefused, agentVars
<1>4. AgentMessage => UNCHANGED remoteGot
  BY DEF AgentMessage, HandleConnectRequest, RemoteDataFails, RemoteHalfClose, RemoteCloseStream
<1>5. CleanupBegins \/ CloseAll \/ LinkLost \/ ClientNotices => UNCHANGED remoteGot
  BY DEF CleanupBegins, CloseAll, CloseAllNext, AgentClosesPeer, LinkLost, ClientNotices, agentVars
<1>6. QED BY <1>1, <1>2, <1>3, <1>4, <1>5 DEF Next

\* A connection whose write side was ended was written all that was read for it.
WriteSideEnds ==
  \A c \in Conns : remote[c] = "wclosed" =>
    accepted[c] = "done" /\ DataAt(toAgent, c) = {} /\ Len(remoteGot[c]) = up[c]

LEMMA WriteSideEndsStep ==
  TunnelInv /\ UpInv /\ HalfCloseLast /\ WriteSideEnds /\ Next => WriteSideEnds'
<1> SUFFICES ASSUME TunnelInv, UpInv, HalfCloseLast, WriteSideEnds, Next, NEW c \in Conns,
                    remote'[c] = "wclosed"
             PROVE  /\ accepted'[c] = "done" /\ DataAt(toAgent', c) = {}
                    /\ Len(remoteGot'[c]) = up'[c]
  BY DEF WriteSideEnds, DataAt
<1>1. /\ toAgent \in Seq(Messages) /\ SentUp \in SUBSET Messages /\ Nil \notin Conns
      /\ remotes \in [Ids -> Conns \cup {Nil}] /\ up \in [Conns -> Nat]
      /\ remoteGot \in [Conns -> Seq(Conns \X Nat)] /\ Names
  BY TunnelAssumption DEF TunnelInv, TypeOK, LinkTypes, AgentTypes, ClientTypes, SentUp
<1>2. accepted[c] = "done" /\ DataAt(toAgent, c) = {} => DataAt(toAgent', c) = {}
  <2>1. accepted[c] = "done" => NoData(SentUp, c)
    BY DEF SentUp, NoData, IsDataOf
  <2>2. QED BY <1>1, <2>1, UpMoves, NoDataKept
<1>3. CASE remote[c] = "wclosed"
  <2>1. accepted[c] = "done" /\ DataAt(toAgent, c) = {} /\ Len(remoteGot[c]) = up[c]
    BY <1>3 DEF WriteSideEnds
  <2>2. remoteGot'[c] = remoteGot[c]
    <3>1. CASE RemoteData /\ remotes[Head(toAgent).sid] = c
      <4>1. toAgent # <<>> /\ Head(toAgent).type = "Data" /\ Head(toAgent).conn = c
        BY <1>1, <3>1, NextUp DEF RemoteData, FromClient
      <4>2. 1 \in DataAt(toAgent, c)
        BY <1>1, <4>1, TailIs DEF DataAt
      <4>3. QED BY <2>1, <4>2
    <3>2. CASE RemoteData /\ remotes[Head(toAgent).sid] # c
      BY <1>1, <3>2 DEF RemoteData
    <3>3. CASE ~RemoteData
      BY <3>3, OnlyRemoteDataWrites
    <3>4. QED BY <3>1, <3>2, <3>3
  <2>3. QED BY <1>2, <2>1, <2>2, DoneStays
<1>4. CASE RemoteHalfClose /\ remotes[Head(toAgent).sid] = c
  <2>1. /\ toAgent # <<>> /\ Head(toAgent).type = "HalfCloseStream" /\ UNCHANGED remoteGot
        /\ Head(toAgent) = toAgent[1] /\ 1 \in 1..Len(toAgent) /\ Head(toAgent).sid \in Ids
    BY <1>1, <1>4, TailIs, AfterTake DEF RemoteHalfClose, FromClient
  <2>2. PICK d \in Conns : sid[d] = toAgent[1].sid /\ accepted[d] = "done" /\ Barrier(toAgent, 1, d)
    BY <2>1 DEF HalfCloseLast
  <2>3. d = c
    <3>1. sid[c] = Head(toAgent).sid /\ sid[c] # 0
      BY <1>1, <1>4, <2>1 DEF Names, Ids
    <3>2. QED BY <1>1, <2>1, <2>2, <3>1 DEF Names
  <2>4. DataAt(toAgent, c) = {}
    <3>1. \A l \in DataAt(toAgent, c) : l \in 1..Len(toAgent) /\ l < 1
      BY <2>2, <2>3 DEF Barrier, DataAt
    <3>2. QED BY <3>1
  <2>5. Len(remoteGot[c]) = up[c]
    <3>1. link = "up"
      BY <2>1 DEF TunnelInv, LinkInv, TypeOK, LinkTypes
    <3>2. UpAlive(c)
      BY <1>4, <2>1 DEF UpAlive
    <3>3. LastUp(c) = up[c] /\ up[c] \in Nat /\ Len(remoteGot[c]) \in Nat
      BY <1>1, <2>2, <2>3, LenProperties DEF LastUp
    <3>4. InFlight(toAgent, c, Len(remoteGot[c]), up[c])
      BY <3>1, <3>2, <3>3 DEF UpInv
    <3>5. QED BY <2>4, <3>3, <3>4 DEF InFlight
  <2>6. QED BY <1>2, <2>1, <2>2, <2>3, <2>4, <2>5, DoneStays
<1>5. QED BY <1>3, <1>4, RemotesMove

\* What a step may send to the client: the answer to the request that was dialed, data a
\* reader has read, or the end of a stream that was open.
SentDown ==
  {m \in Messages :
     /\ m.type \in {"ConnectResp", "Data", "CloseStream"}
     /\ m.type = "ConnectResp" => dialing # Nil /\ m.sid = dialing.sid
     /\ m.type = "Data" => m.conn \in Conns /\ reading[m.conn] = "send" /\ reading'[m.conn] = "read"
     /\ m.type = "CloseStream" => remotes[m.sid] # Nil /\ remotes'[m.sid] = Nil}

LEMMA DownMoves ==
  ASSUME TunnelInv, Next
  PROVE  /\ Follows(toClient, toClient', SentDown)
         /\ link' = "up" => Continues(toClient, toClient', SentDown)
<1> DEFINE Goal == \/ link' = "lost" /\ toClient' = <<>>
                   \/ Continues(toClient, toClient', SentDown)
<1>1. /\ TypeOK /\ Names /\ Requests /\ toAgent \in Seq(Messages)
      /\ remotes \in [Ids -> Conns \cup {Nil}] /\ down \in [Conns -> Nat]
      /\ reading \in [Conns -> {"none", "read", "send", "done"}]
  BY DEF TunnelInv, TypeOK, LinkTypes, AgentTypes
<1>0. /\ toClient' = toClient => Goal
      /\ toClient # <<>> /\ toClient' = Tail(toClient) => Goal
      /\ \A m \in SentDown : toClient' = Append(toClient, m) => Goal
  BY DEF Continues
<1> SUFFICES Goal
  BY DEF Follows
<1> HIDE DEF Goal
<1>2. \A c \in Conns : reading[c] # "none" => sid[c] \in Ids
  BY <1>1, SidIsId DEF Requests, Early
<1>3. ASSUME NEW i \in Ids, NEW notify, NEW why, CloseRemote(i, notify, why) PROVE Goal
  <2> DEFINE m == Message("CloseStream", i, Nil, 0)
  <2>1. m \in Messages /\ m.type = "CloseStream" /\ m.sid = i
    BY MessageIs
  <2> HIDE DEF m
  <2>2. remotes'[i] = Nil
    BY <1>1, <1>3 DEF CloseRemote
  <2>3. \/ toClient' = toClient
        \/ remotes[i] # Nil /\ toClient' = Append(toClient, m)
    BY <1>3 DEF CloseRemote, Carried, m
  <2>4. remotes[i] # Nil => m \in SentDown
    BY <2>1, <2>2 DEF SentDown
  <2>5. QED BY <1>0, <2>3, <2>4
<1>4. ASSUME NEW c \in Conns, SendRemoteData(c) PROVE Goal
  <2> DEFINE m == Message("Data", sid[c], c, down[c])
  <2>1. reading[c] = "send" /\ reading'[c] = "read"
    BY <1>1, <1>4 DEF SendRemoteData
  <2>2. sid[c] \in Ids /\ down[c] \in Nat
    BY <1>1, <1>2, <2>1
  <2>3. m \in Messages /\ m.type = "Data" /\ m.conn = c
    BY <2>2, MessageIs
  <2> HIDE DEF m
  <2>4. m \in SentDown
    BY <2>1, <2>3 DEF SentDown
  <2>5. toClient' = toClient \/ toClient' = Append(toClient, m)
    BY <1>4 DEF SendRemoteData, Carried, m
  <2>6. QED BY <1>0, <2>4, <2>5
<1>5. ASSUME NEW c \in Conns, ReadRemoteEOF(c) \/ ReadRemoteError(c) \/ SendRemoteFails(c) PROVE Goal
  <2>1. reading[c] # "none" /\ \E why \in {"eof", "error"} : CloseRemote(sid[c], TRUE, why)
    BY <1>5 DEF ReadRemoteEOF, ReadRemoteError, SendRemoteFails, ReadLoopEnds
  <2>2. QED BY <1>2, <1>3, <2>1
<1>6. CASE RemoteDataFails \/ RemoteCloseStream
  <2>1. Head(toAgent).sid \in Ids
    BY <1>1, <1>6, AfterTake DEF RemoteDataFails, RemoteCloseStream, FromClient
  <2>2. \E n \in BOOLEAN, why \in {"error", "request"} : CloseRemote(Head(toAgent).sid, n, why)
    BY <1>6 DEF RemoteDataFails, RemoteCloseStream
  <2>3. QED BY <1>3, <2>1, <2>2
<1>7. CASE ConnectRefused
  <2> DEFINE m == Message("ConnectResp", dialing.sid, Nil, 0)
  <2>1. dialing.sid \in Ids
    BY <1>7 DEF ConnectRefused, TunnelInv, TypeOK, AgentTypes, Messages
  <2>2. m \in Messages /\ m.type = "ConnectResp" /\ m.sid = dialing.sid /\ dialing # Nil
    BY <1>7, <2>1, MessageIs DEF ConnectRefused
  <2> HIDE DEF m
  <2>3. m \in SentDown
    BY <2>2 DEF SentDown
  <2>4. toClient' = toClient \/ toClient' = Append(toClient, m)
    BY <1>7 DEF ConnectRefused, Carried, m
  <2>5. QED BY <1>0, <2>3, <2>4
<1>8. CASE \E i \in Ids : CloseAllNext(i)
  BY <1>3, <1>8 DEF CloseAllNext
<1>9. ASSUME NEW c \in Conns, Accept(c) \/ HandleLocalConn(c) \/ ClientReads(c) \/ ReadRemote(c)
      PROVE  toClient' = toClient
  BY <1>9 DEF Accept, HandleLocalConn, EnterConnMap, SendConnectReq, SendLocalData, SendHalfClose,
              SendOrClose, ClientReads, ReadLocal, ReadLocalEOF, ReadLocalError, ReadRemote, linkVars
<1>10. HandleConnectRequest \/ RemoteData \/ RemoteHalfClose \/ Connected \/ RemoveMap
       \/ CleanupBegins \/ ClientNotices => toClient' = toClient
  BY DEF HandleConnectRequest, RemoteData, RemoteHalfClose, Connected, RemoveMap,
         CleanupBegins, ClientNotices, linkVars
<1>11. ClientMessage => toClient # <<>> /\ toClient' = Tail(toClient)
  BY DEF ClientMessage, LocalData, LocalDataFails, ConnectFailed, LocalCloseStream, FromAgent
<1>12. AgentClosesPeer \/ LinkLost \/ ClientClosesPeer => Goal
  BY DEF AgentClosesPeer, LinkLost, ClientClosesPeer, LosesLink, Goal
<1>13. QED
  BY <1>0, <1>4, <1>5, <1>6, <1>7, <1>8, <1>9, <1>10, <1>11, <1>12
     DEF Next, AgentReads, AgentSends, AgentMessage, Dialed, CloseAll

\* The agent tells of a stream it closed after its reader started, and opens it no more.
ClosedOnce ==
  /\ \A i \in Ids : remotes[i] # Nil => reading[remotes[i]] # "none"
  /\ \A k \in 1..Len(toClient) : toClient[k].type = "CloseStream" =>
       \E c \in Conns : sid[c] = toClient[k].sid /\ reading[c] # "none" /\ remotes[sid[c]] = Nil

LEMMA ClosedOnceStep == TunnelInv /\ ClosedOnce /\ Next => ClosedOnce'
<1> SUFFICES ASSUME TunnelInv, ClosedOnce, Next PROVE ClosedOnce'
  OBVIOUS
<1>1. /\ toClient \in Seq(Messages) /\ SentDown \in SUBSET Messages /\ (\A i \in Ids : i # 0)
      /\ remotes \in [Ids -> Conns \cup {Nil}] /\ Names /\ Requests /\ Nil \notin Conns
      /\ sid \in [Conns -> 0..MaxStreams]
  BY TunnelAssumption DEF TunnelInv, TypeOK, LinkTypes, AgentTypes, ClientTypes, Ids, SentDown
<1>2. dialing # Nil => dialing.conn \in Conns /\ reading[dialing.conn] = "none" /\ dialing.sid = sid[dialing.conn]
  BY <1>1 DEF Names, Named, Requests
<1>3. \A i \in Ids : remotes'[i] # Nil => reading'[remotes'[i]] # "none"
  <2> SUFFICES ASSUME NEW i \in Ids, remotes'[i] # Nil PROVE reading'[remotes'[i]] # "none"
    OBVIOUS
  <2>1. CASE remotes'[i] = remotes[i]
    BY <1>1, <2>1, ReadersMove DEF ClosedOnce
  <2>2. QED BY <2>1, RemotesMove
<1>4. \A c \in Conns : sid[c] \in Ids /\ reading[c] # "none" /\ remotes[sid[c]] = Nil =>
        sid'[c] = sid[c] /\ reading'[c] # "none" /\ remotes'[sid[c]] = Nil
  <2> SUFFICES ASSUME NEW c \in Conns, sid[c] \in Ids, reading[c] # "none", remotes[sid[c]] = Nil
               PROVE  sid'[c] = sid[c] /\ reading'[c] # "none" /\ remotes'[sid[c]] = Nil
    OBVIOUS
  <2>1. sid'[c] = sid[c] /\ reading'[c] # "none"
    BY <1>1, DoneStays, ReadersMove
  <2>2. ~(dialing # Nil /\ dialing.sid = sid[c])
    BY <1>1, <1>2 DEF Names
  <2>3. QED BY <2>1, <2>2, RemotesMove
<1>5. ASSUME NEW k \in 1..Len(toClient'), toClient'[k].type = "CloseStream"
      PROVE  \E c \in Conns : /\ sid'[c] = toClient'[k].sid /\ reading'[c] # "none"
                              /\ remotes'[sid'[c]] = Nil
  <2>1. Follows(toClient, toClient', SentDown)
    BY DownMoves
  <2>2. ASSUME NEW j \in 1..Len(toClient), toClient'[k] = toClient[j]
        PROVE  \E c \in Conns : /\ sid'[c] = toClient'[k].sid /\ reading'[c] # "none"
                                /\ remotes'[sid'[c]] = Nil
    <3>1. PICK c \in Conns : sid[c] = toClient[j].sid /\ reading[c] # "none" /\ remotes[sid[c]] = Nil
      BY <1>5, <2>2 DEF ClosedOnce
    <3>2. toClient[j].sid \in Ids
      BY <1>1, MessageHas
    <3>3. QED BY <1>4, <2>2, <3>1, <3>2
  <2>3. ASSUME toClient'[k] \in SentDown
        PROVE  \E c \in Conns : /\ sid'[c] = toClient'[k].sid /\ reading'[c] # "none"
                                /\ remotes'[sid'[c]] = Nil
    <3>1. PICK i \in Ids : i = toClient'[k].sid /\ remotes[i] # Nil /\ remotes'[i] = Nil
      BY <1>5, <2>3 DEF SentDown, Messages
    <3>2. PICK c \in Conns : c = remotes[i]
      BY <1>1, <3>1
    <3>3. sid[c] = i /\ reading[c] # "none"
      BY <1>1, <3>1, <3>2 DEF Names, ClosedOnce
    <3>4. sid'[c] = i /\ reading'[c] # "none"
      BY <1>1, <3>3, DoneStays, ReadersMove
    <3>5. QED BY <3>1, <3>4
  <2>4. QED BY <1>1, <2>1, <2>2, <2>3, BarrierKept
<1>6. QED BY <1>3, <1>5 DEF ClosedOnce

\* The end of a stream that the service ended comes when its reader is done, after its data.
CloseLast ==
  \A c \in Conns : endedBy[c] = "eof" =>
    /\ reading[c] = "done"
    /\ \A k \in 1..Len(toClient) :
         toClient[k].type = "CloseStream" /\ toClient[k].sid = sid[c] => Barrier(toClient, k, c)

LEMMA CloseLastStep == TunnelInv /\ ClosedOnce /\ CloseLast /\ Next => CloseLast'
<1> SUFFICES ASSUME TunnelInv, ClosedOnce, CloseLast, Next, NEW c \in Conns, endedBy'[c] = "eof"
             PROVE  /\ reading'[c] = "done"
                    /\ \A k \in 1..Len(toClient') :
                         toClient'[k].type = "CloseStream" /\ toClient'[k].sid = sid'[c] =>
                           Barrier(toClient', k, c)
  BY DEF CloseLast, Barrier, DataAt
<1>1. /\ toClient \in Seq(Messages) /\ SentDown \in SUBSET Messages /\ (\A i \in Ids : i # 0)
      /\ Names /\ Requests /\ sid \in [Conns -> 0..MaxStreams]
      /\ remotes \in [Ids -> Conns \cup {Nil}] /\ Nil \notin Conns
  BY TunnelAssumption DEF TunnelInv, TypeOK, LinkTypes, AgentTypes, ClientTypes, Ids, SentDown
<1>2. /\ reading'[c] = "done"
      /\ endedBy[c] # "eof" => sid[c] \in Ids /\ remotes[sid[c]] = c
  BY RemotesMove, ReadersMove DEF CloseLast
<1>3. sid'[c] = sid[c]
  <2>1. sid[c] # 0
    <3>1. CASE endedBy[c] # "eof"
      BY <1>1, <1>2, <3>1
    <3>2. CASE endedBy[c] = "eof"
      BY <1>1, <3>2 DEF CloseLast, Names, Requests, Early
    <3>3. QED BY <3>1, <3>2
  <2>2. QED BY <2>1, DoneStays
<1>4. NoData(SentDown, c)
  BY <1>2 DEF SentDown, NoData, IsDataOf
<1>5. \A j \in 1..Len(toClient) :
        toClient[j].type = "CloseStream" /\ toClient[j].sid = sid[c] => Barrier(toClient, j, c)
  <2>1. CASE endedBy[c] = "eof"
    BY <2>1 DEF CloseLast
  <2>2. CASE endedBy[c] # "eof"
    BY <1>1, <1>2, <2>2 DEF ClosedOnce
  <2>3. QED BY <2>1, <2>2
<1>6. ASSUME NEW k \in 1..Len(toClient'), toClient'[k].type = "CloseStream", toClient'[k].sid = sid'[c]
      PROVE  Barrier(toClient', k, c)
  BY <1>1, <1>3, <1>4, <1>5, <1>6, DownMoves, BarrierKept
<1>7. QED BY <1>2, <1>6

\* A local connection is open as long as its stream is in the client's map.
OpenIsMapped == \A c \in Conns : local[c] = "open" => sid[c] \in Ids /\ streams[sid[c]] = c

LEMMA OpenIsMappedStep == TunnelInv /\ OpenIsMapped /\ Next => OpenIsMapped'
<1> SUFFICES ASSUME TunnelInv, OpenIsMapped, Next PROVE OpenIsMapped'
  OBVIOUS
<1>1. /\ streams \in [Ids -> Conns \cup {Nil}] /\ local \in [Conns -> {"none", "open", "closed"}]
      /\ sid \in [Conns -> 0..MaxStreams] /\ TypeOK /\ Names /\ Nil \notin Conns
      /\ toClient \in Seq(Messages) /\ value \in 0..MaxStreams
  BY TunnelAssumption DEF TunnelInv, TypeOK, ClientTypes, LinkTypes
<1>2. UNCHANGED <<streams, local, sid>> => OpenIsMapped'
  BY DEF OpenIsMapped
<1>3. ASSUME NEW i \in Ids, NEW notify, CloseLocal(i, notify), UNCHANGED sid PROVE OpenIsMapped'
  <2>1. /\ streams' = [streams EXCEPT ![i] = Nil]
        /\ IF streams[i] = Nil THEN local' = local ELSE local' = [local EXCEPT ![streams[i]] = "closed"]
    BY <1>3 DEF CloseLocal
  <2>2. ASSUME NEW c \in Conns, local'[c] = "open" PROVE sid[c] \in Ids /\ streams'[sid[c]] = c
    <3>1. local[c] = "open" /\ streams[i] # c
      BY <1>1, <2>1, <2>2
    <3>2. sid[c] \in Ids /\ streams[sid[c]] = c
      BY <3>1 DEF OpenIsMapped
    <3>3. QED BY <1>1, <2>1, <3>1, <3>2
  <2>3. QED BY <1>3, <2>2 DEF OpenIsMapped
<1>4. ASSUME NEW d \in Conns, Accept(d) PROVE OpenIsMapped'
  <2>1. /\ sid' = [sid EXCEPT ![d] = NextId] /\ streams' = [streams EXCEPT ![NextId] = d]
        /\ local' = [local EXCEPT ![d] = "open"] /\ value < MaxStreams
    BY <1>4 DEF Accept
  <2>2. NextId \in Ids /\ \A c \in Conns : sid[c] # NextId
    BY <1>1, <2>1, TunnelAssumption DEF NextId, Ids, Names
  <2>3. QED BY <1>1, <2>1, <2>2 DEF OpenIsMapped
<1>5. ASSUME NEW d \in Conns, SendConnectReq(d) \/ SendLocalData(d) \/ SendHalfClose(d) PROVE OpenIsMapped'
  <2>1. PICK from \in {"mapped", "send", "eof"}, then \in {"read", "done"}, m \in Messages :
          Named(m) /\ SendOrClose(d, from, m, then)
    BY <1>1, <1>5, ItSends
  <2>2. accepted[d] # "none" /\ UNCHANGED sid
    BY <2>1 DEF SendOrClose
  <2>3. sid[d] \in Ids
    BY <1>1, <2>2, SidIsId
  <2>4. CASE clientOpen
    BY <1>2, <2>1, <2>2, <2>4 DEF SendOrClose, KeepStreams
  <2>5. CASE ~clientOpen
    BY <1>3, <2>1, <2>2, <2>3, <2>5 DEF SendOrClose
  <2>6. QED BY <2>4, <2>5
<1>6. ASSUME NEW d \in Conns, ReadLocalError(d) PROVE OpenIsMapped'
  <2>1. sid[d] \in Ids
    BY <1>1, <1>6, SidIsId DEF ReadLocalError, At
  <2>2. CloseLocal(sid[d], TRUE) /\ UNCHANGED sid
    BY <1>6 DEF ReadLocalError
  <2>3. QED BY <1>3, <2>1, <2>2
<1>7. CASE LocalDataFails \/ ConnectFailed \/ LocalCloseStream
  <2>1. Head(toClient).sid \in Ids
    BY <1>1, <1>7, AfterTake DEF LocalDataFails, ConnectFailed, LocalCloseStream, FromAgent
  <2>2. UNCHANGED sid /\ \E n \in BOOLEAN : CloseLocal(Head(toClient).sid, n)
    BY <1>7 DEF LocalDataFails, ConnectFailed, LocalCloseStream, KeepClientLoop
  <2>3. QED BY <1>3, <2>1, <2>2
<1>8. CASE RemoveMap
  <2> DEFINE gone == {i \in Ids : connMap[i] # Nil}
  <2>1. /\ streams' = [i \in Ids |-> IF i \in gone THEN Nil ELSE streams[i]]
        /\ local' = [c \in Conns |-> IF \E i \in gone : c \in {connMap[i], streams[i]}
                                     THEN "closed" ELSE local[c]]
        /\ sid' = sid
    BY <1>8 DEF RemoveMap
  <2> HIDE DEF gone
  <2>2. ASSUME NEW c \in Conns, local'[c] = "open" PROVE sid[c] \in Ids /\ streams'[sid[c]] = c
    <3>1. local[c] = "open" /\ ~\E i \in gone : c \in {connMap[i], streams[i]}
      BY <2>1, <2>2
    <3>2. sid[c] \in Ids /\ streams[sid[c]] = c
      BY <3>1 DEF OpenIsMapped
    <3>3. QED BY <2>1, <3>1, <3>2
  <2>3. QED BY <2>1, <2>2 DEF OpenIsMapped
<1>9. ASSUME NEW d \in Conns, EnterConnMap(d) \/ ReadLocal(d) \/ ReadLocalEOF(d) \/ AgentReads(d) \/ AgentSends(d)
      PROVE  UNCHANGED <<streams, local, sid>>
  BY <1>9 DEF EnterConnMap, ReadLocal, ReadLocalEOF, AgentReads, AgentSends, ReadRemote, ReadRemoteEOF,
              ReadRemoteError, SendRemoteData, SendRemoteFails, ReadLoopEnds, clientVars
<1>10. LocalData \/ ClientClosesPeer \/ Dialed => UNCHANGED <<streams, local, sid>>
  BY DEF LocalData, KeepStreams, KeepClientLoop, ClientClosesPeer, Dialed, Connected, ConnectRefused, clientVars
<1>11. AgentMessage => UNCHANGED <<streams, local, sid>>
  BY DEF AgentMessage, HandleConnectRequest, RemoteData, RemoteDataFails, RemoteHalfClose,
         RemoteCloseStream, clientVars
<1>12. CleanupBegins \/ CloseAll \/ LinkLost \/ ClientNotices => UNCHANGED <<streams, local, sid>>
  BY DEF CleanupBegins, CloseAll, CloseAllNext, AgentClosesPeer, LinkLost, ClientNotices, clientVars
<1>13. QED
  BY <1>2, <1>4, <1>5, <1>6, <1>7, <1>8, <1>9, <1>10, <1>11, <1>12
     DEF Next, HandleLocalConn, ClientReads, ClientMessage

EndInv == HalfCloseLast /\ WriteSideEnds /\ ClosedOnce /\ CloseLast /\ OpenIsMapped

LEMMA EndsAreComplete == TunnelIInv /\ EndInv => EndIsComplete
<1> SUFFICES ASSUME TunnelIInv, EndInv, NEW c \in Conns
             PROVE  /\ remote[c] = "wclosed" => Len(remoteGot[c]) = up[c]
                    /\ (endedBy[c] = "eof" /\ local[c] = "open" /\ ToldToClose(c)) =>
                         Len(localGot[c]) = down[c]
  BY DEF EndIsComplete
<1>1. remote[c] = "wclosed" => Len(remoteGot[c]) = up[c]
  BY DEF EndInv, WriteSideEnds
<1>2. ASSUME endedBy[c] = "eof", local[c] = "open", ToldToClose(c)
      PROVE  Len(localGot[c]) = down[c]
  <2>1. /\ toClient \in Seq(Messages) /\ link \in {"up", "lost"} /\ LinkInv
        /\ localGot \in [Conns -> Seq(Conns \X Nat)] /\ down \in [Conns -> Nat]
    BY DEF TunnelIInv, TunnelInv, TypeOK, LinkTypes, ClientTypes, AgentTypes
  <2>2. link = "up" /\ 1 \in 1..Len(toClient) /\ Head(toClient) = toClient[1]
    BY <1>2, <2>1, TailIs DEF ToldToClose, LinkInv
  <2>3. Barrier(toClient, 1, c) /\ LastDown(c) = down[c]
    BY <1>2, <2>2 DEF EndInv, CloseLast, ToldToClose, LastDown
  <2>4. DataAt(toClient, c) = {}
    <3>1. \A l \in DataAt(toClient, c) : l \in 1..Len(toClient) /\ l < 1
      BY <2>3 DEF Barrier, DataAt
    <3>2. QED BY <3>1
  <2>5. DownAlive(c)
    BY <1>2 DEF EndInv, OpenIsMapped, DownAlive
  <2>6. InFlight(toClient, c, Len(localGot[c]), down[c])
    BY <2>2, <2>3, <2>5 DEF TunnelIInv, DownInv
  <2>7. QED BY <2>1, <2>4, <2>6, LenProperties DEF InFlight
<1>3. QED BY <1>1, <1>2

LEMMA InitEnd == Init => EndInv
<1> SUFFICES ASSUME Init PROVE EndInv
  OBVIOUS
<1>1. Len(<<>>) = 0 /\ 1..0 = {}
  BY EmptySeq
<1>2. QED
  BY <1>1 DEF Init, EndInv, HalfCloseLast, WriteSideEnds, ClosedOnce, CloseLast, OpenIsMapped

LEMMA StepEnd == TunnelIInv /\ EndInv /\ [Next]_vars => EndInv'
<1> SUFFICES ASSUME TunnelIInv, EndInv, [Next]_vars PROVE EndInv'
  OBVIOUS
<1>1. CASE Next
  BY <1>1, HalfCloseLastStep, WriteSideEndsStep, ClosedOnceStep, CloseLastStep, OpenIsMappedStep
     DEF TunnelIInv, EndInv
<1>2. CASE UNCHANGED vars
  <2>1. UNCHANGED clientVars /\ UNCHANGED agentVars /\ UNCHANGED linkVars
    BY <1>2 DEF vars
  <2>2. HalfCloseLast' /\ WriteSideEnds'
    BY <2>1 DEF clientVars, agentVars, linkVars, EndInv, HalfCloseLast, WriteSideEnds, Barrier, DataAt
  <2>3. ClosedOnce' /\ CloseLast' /\ OpenIsMapped'
    BY <2>1 DEF clientVars, agentVars, linkVars, EndInv, ClosedOnce, CloseLast, OpenIsMapped, Barrier, DataAt
  <2>4. QED BY <2>2, <2>3 DEF EndInv
<1>3. QED BY <1>1, <1>2

\* A half close, and the close of a stream that the service ended, reach the other end only
\* after every byte before them: the service sees the end of what it was sent when it was
\* written all of it, and so does the local application, however the messages of several
\* streams interleave on the channel (manager.go, client.go).
THEOREM EndsAreCompleteAlways == Spec => []EndIsComplete
<1>1. Init => TunnelIInv /\ EndInv
  BY InitTunnel, InitEnd
<1>2. TunnelIInv /\ EndInv /\ [Next]_vars => TunnelIInv' /\ EndInv'
  BY StepTunnel, StepEnd
<1>3. TunnelIInv /\ EndInv => EndIsComplete
  BY EndsAreComplete
<1>4. QED BY <1>1, <1>2, <1>3, PTL DEF Spec

-----------------------------------------------------------------------------
(* Both ends agree on the streams.                                          *)

\* What one step may do to handleLocalConn.
LEMMA AcceptMoves ==
  ASSUME TunnelInv, Next, NEW c \in Conns
  PROVE  /\ accepted[c] \notin Early => accepted'[c] \notin Early
         /\ accepted'[c] \notin Early => accepted[c] \notin Early \/ SendConnectReq(c)
         /\ accepted'[c] \in {"registered", "mapped"} =>
              accepted[c] \in {"registered", "mapped"} \/ Accept(c)
<1> DEFINE Goal == /\ accepted[c] \notin Early => accepted'[c] \notin Early
                   /\ accepted'[c] \notin Early => accepted[c] \notin Early \/ SendConnectReq(c)
                   /\ accepted'[c] \in {"registered", "mapped"} =>
                        accepted[c] \in {"registered", "mapped"} \/ Accept(c)
<1> USE DEF Early
<1>1. /\ accepted \in [Conns -> {"none", "registered", "mapped", "read", "send", "eof", "done"}]
      /\ Names /\ TypeOK
  BY DEF TunnelInv, TypeOK, ClientTypes
<1>2. UNCHANGED accepted => Goal
  OBVIOUS
<1>3. ASSUME NEW d \in Conns, Accept(d) PROVE Goal
  <2>1. accepted[d] = "none" /\ accepted' = [accepted EXCEPT ![d] = "registered"]
    BY <1>3 DEF Accept, At
  <2>2. QED BY <1>1, <1>3, <2>1
<1>4. ASSUME NEW d \in Conns, EnterConnMap(d) PROVE Goal
  <2>1. accepted[d] = "registered" /\ accepted' = [accepted EXCEPT ![d] = "mapped"]
    BY <1>4 DEF EnterConnMap, At
  <2>2. QED BY <1>1, <2>1
<1>5. ASSUME NEW d \in Conns, ReadLocal(d) \/ ReadLocalEOF(d) \/ ReadLocalError(d) PROVE Goal
  <2>1. accepted[d] = "read" /\ \E to \in {"send", "eof", "done"} : accepted' = [accepted EXCEPT ![d] = to]
    BY <1>5 DEF ReadLocal, ReadLocalEOF, ReadLocalError, At
  <2>2. QED BY <1>1, <2>1
<1>6. ASSUME NEW d \in Conns, SendConnectReq(d) PROVE Goal
  <2>1. accepted[d] = "mapped" /\ \E to \in {"read", "done"} : accepted' = [accepted EXCEPT ![d] = to]
    BY <1>6 DEF SendConnectReq, SendOrClose
  <2>2. QED BY <1>1, <1>6, <2>1
<1>7. ASSUME NEW d \in Conns, SendLocalData(d) \/ SendHalfClose(d) PROVE Goal
  <2>1. accepted[d] \in {"send", "eof"} /\ \E to \in {"read", "done"} : accepted' = [accepted EXCEPT ![d] = to]
    BY <1>7 DEF SendLocalData, SendHalfClose, SendOrClose
  <2>2. QED BY <1>1, <2>1
<1>8. ClientMessage \/ RemoveMap \/ ClientClosesPeer => UNCHANGED accepted
  BY DEF ClientMessage, LocalData, LocalDataFails, ConnectFailed, LocalCloseStream, KeepClientLoop,
         RemoveMap, ClientClosesPeer, clientVars
<1>9. \A d \in Conns : AgentReads(d) \/ AgentSends(d) => UNCHANGED accepted
  BY DEF AgentReads, AgentSends, ReadRemote, ReadRemoteEOF, ReadRemoteError, SendRemoteData,
         SendRemoteFails, ReadLoopEnds, clientVars
<1>10. AgentMessage \/ Dialed => UNCHANGED accepted
  BY DEF AgentMessage, HandleConnectRequest, RemoteData, RemoteDataFails, RemoteHalfClose,
         RemoteCloseStream, Dialed, Connected, ConnectRefused, clientVars
<1>11. CleanupBegins \/ CloseAll \/ LinkLost \/ ClientNotices => UNCHANGED accepted
  BY DEF CleanupBegins, CloseAll, CloseAllNext, AgentClosesPeer, LinkLost, ClientNotices, clientVars
<1>12. QED
  BY <1>2, <1>3, <1>4, <1>5, <1>6, <1>7, <1>8, <1>9, <1>10, <1>11 DEF Next, HandleLocalConn, ClientReads

\* A message is sent last, and in the queue.
Sends(q, r, type, i) == \E m \in Messages : m.type = type /\ m.sid = i /\ r = Append(q, m)

\* What one step may do to a stream of the client: while the link is up and the map is
\* there, a stream that is closed was closed by the agent or the agent is told.
LEMMA StreamsMove ==
  ASSUME TunnelInv, Next, NEW i \in Ids
  PROVE  /\ streams'[i] \in {streams[i], Nil} \/ (i = NextId /\ value' = NextId)
         /\ value' >= value
         /\ (streams[i] # Nil /\ streams'[i] = Nil /\ link' = "up" /\ mapped') =>
              /\ Sends(toAgent, toAgent', "CloseStream", i) \/ (LocalCloseStream /\ Head(toClient).sid = i)
              /\ \/ ClientMessage /\ Head(toClient).sid = i
                 \/ \E c \in Conns : sid[c] = i /\ accepted[c] = "read"
<1> DEFINE Cause(j) == \/ ClientMessage /\ Head(toClient).sid = j
                       \/ \E c \in Conns : sid[c] = j /\ accepted[c] = "read"
           Told == Sends(toAgent, toAgent', "CloseStream", i) \/ (LocalCloseStream /\ Head(toClient).sid = i)
           Goal == /\ streams'[i] \in {streams[i], Nil} \/ (i = NextId /\ value' = NextId)
                   /\ value' >= value
                   /\ (streams[i] # Nil /\ streams'[i] = Nil /\ link' = "up" /\ mapped') => Told /\ Cause(i)
<1>1. /\ streams \in [Ids -> Conns \cup {Nil}] /\ toClient \in Seq(Messages) /\ value \in Nat
      /\ TypeOK /\ Names /\ LinkInv
  BY TunnelAssumption DEF TunnelInv, TypeOK, ClientTypes, LinkTypes
<1> SUFFICES Goal
  BY DEF Goal
<1> HIDE DEF Goal, Cause
<1>2. UNCHANGED <<streams, value>> => Goal
  BY <1>1 DEF Goal
<1>3. ASSUME NEW j \in Ids, CloseLocal(j, TRUE), UNCHANGED <<value, link>>,
             Cause(j) \/ ~clientOpen
      PROVE  Goal
  <2> DEFINE m == Message("CloseStream", j, Nil, 0)
  <2>1. m \in Messages /\ m.type = "CloseStream" /\ m.sid = j
    BY MessageIs
  <2> HIDE DEF m
  <2>2. streams' = [streams EXCEPT ![j] = Nil]
    BY <1>3 DEF CloseLocal
  <2>3. streams[j] # Nil /\ link' = "up" => toAgent' = Append(toAgent, m)
    BY <1>1, <1>3 DEF CloseLocal, Carried, LinkInv, m
  <2>4. i # j => streams'[i] = streams[i]
    BY <1>1, <2>2
  <2>5. i = j => streams'[i] = Nil
    BY <1>1, <2>2
  <2>6. link' = "up" => Cause(j)
    BY <1>1, <1>3 DEF LinkInv
  <2>7. QED BY <1>1, <1>3, <2>1, <2>3, <2>4, <2>5, <2>6 DEF Goal, Sends
<1>4. ASSUME NEW d \in Conns, Accept(d) PROVE Goal
  <2>1. streams' = [streams EXCEPT ![NextId] = d] /\ value' = NextId /\ NextId = value + 1
    BY <1>4 DEF Accept, NextId
  <2>2. i # NextId => streams'[i] = streams[i]
    BY <1>1, <2>1
  <2>3. i = NextId => streams[i] = Nil
    BY <1>1, <2>1 DEF Names
  <2>4. QED BY <1>1, <2>1, <2>2, <2>3 DEF Goal
<1>5. ASSUME NEW d \in Conns, SendConnectReq(d) \/ SendLocalData(d) \/ SendHalfClose(d) PROVE Goal
  <2>1. PICK from \in {"mapped", "send", "eof"}, then \in {"read", "done"}, m \in Messages :
          Named(m) /\ SendOrClose(d, from, m, then)
    BY <1>1, <1>5, ItSends
  <2>2. accepted[d] # "none" /\ UNCHANGED <<value, link>>
    BY <2>1 DEF SendOrClose
  <2>3. sid[d] \in Ids
    BY <1>1, <2>2, SidIsId
  <2>4. CASE clientOpen
    BY <1>2, <2>1, <2>2, <2>4 DEF SendOrClose, KeepStreams
  <2>5. CASE ~clientOpen
    BY <1>3, <2>1, <2>2, <2>3, <2>5 DEF SendOrClose
  <2>6. QED BY <2>4, <2>5
<1>6. ASSUME NEW d \in Conns, ReadLocalError(d) PROVE Goal
  <2>1. sid[d] \in Ids
    BY <1>1, <1>6, SidIsId DEF ReadLocalError, At
  <2>2. CloseLocal(sid[d], TRUE) /\ UNCHANGED <<value, link>> /\ Cause(sid[d])
    BY <1>6 DEF ReadLocalError, At, Cause
  <2>3. QED BY <1>3, <2>1, <2>2
<1>7. CASE LocalDataFails \/ ConnectFailed
  <2>1. Head(toClient).sid \in Ids
    BY <1>1, <1>7, AfterTake DEF LocalDataFails, ConnectFailed, FromAgent
  <2>2. CloseLocal(Head(toClient).sid, TRUE) /\ UNCHANGED <<value, link>> /\ Cause(Head(toClient).sid)
    BY <1>7 DEF LocalDataFails, ConnectFailed, KeepClientLoop, KeepLink, ClientMessage, Cause
  <2>3. QED BY <1>3, <2>1, <2>2
<1>8. CASE LocalCloseStream
  <2>1. streams' = [streams EXCEPT ![Head(toClient).sid] = Nil] /\ value' = value
    BY <1>8 DEF LocalCloseStream, CloseLocal, KeepClientLoop
  <2>2. i # Head(toClient).sid => streams'[i] = streams[i]
    BY <1>1, <2>1
  <2>3. i = Head(toClient).sid => streams'[i] = Nil
    BY <1>1, <2>1
  <2>4. i = Head(toClient).sid => Cause(i)
    BY <1>8 DEF ClientMessage, Cause
  <2>5. QED BY <1>1, <1>8, <2>1, <2>2, <2>3, <2>4 DEF Goal
<1>9. CASE RemoveMap
  <2>1. ~mapped' /\ value' = value /\ streams'[i] \in {streams[i], Nil}
    BY <1>9 DEF RemoveMap
  <2>2. QED BY <1>1, <2>1 DEF Goal
<1>10. ASSUME NEW d \in Conns, EnterConnMap(d) \/ ReadLocal(d) \/ ReadLocalEOF(d) \/ AgentReads(d) \/ AgentSends(d)
      PROVE  UNCHANGED <<streams, value>>
  BY <1>10 DEF EnterConnMap, ReadLocal, ReadLocalEOF, AgentReads, AgentSends, ReadRemote, ReadRemoteEOF,
              ReadRemoteError, SendRemoteData, SendRemoteFails, ReadLoopEnds, clientVars
<1>11. LocalData \/ ClientClosesPeer \/ Dialed => UNCHANGED <<streams, value>>
  BY DEF LocalData, KeepStreams, KeepClientLoop, ClientClosesPeer, Dialed, Connected, ConnectRefused, clientVars
<1>12. AgentMessage => UNCHANGED <<streams, value>>
  BY DEF AgentMessage, HandleConnectRequest, RemoteData, RemoteDataFails, RemoteHalfClose,
         RemoteCloseStream, clientVars
<1>13. CleanupBegins \/ CloseAll \/ LinkLost \/ ClientNotices => UNCHANGED <<streams, value>>
  BY DEF CleanupBegins, CloseAll, CloseAllNext, AgentClosesPeer, LinkLost, ClientNotices, clientVars
<1>14. QED
  BY <1>2, <1>4, <1>5, <1>6, <1>7, <1>8, <1>9, <1>10, <1>11, <1>12, <1>13
     DEF Next, HandleLocalConn, ClientReads, ClientMessage

\* A stream of the agent that is closed was closed by the client, or the client is told.
LEMMA RemotesTold ==
  ASSUME TunnelInv, Next, NEW i \in Ids, remotes[i] # Nil, remotes'[i] = Nil, link' = "up"
  PROVE  Sends(toClient, toClient', "CloseStream", i) \/ (RemoteCloseStream /\ Head(toAgent).sid = i)
<1> DEFINE Goal == Sends(toClient, toClient', "CloseStream", i) \/ (RemoteCloseStream /\ Head(toAgent).sid = i)
<1>1. /\ remotes \in [Ids -> Conns \cup {Nil}] /\ toAgent \in Seq(Messages)
      /\ TypeOK /\ Names /\ Requests /\ LinkInv /\ Nil \notin Conns
  BY TunnelAssumption DEF TunnelInv, TypeOK, AgentTypes, LinkTypes
<1> HIDE DEF Goal
<1>2. UNCHANGED remotes => Goal
  OBVIOUS
<1>3. ASSUME NEW j \in Ids, NEW why, CloseRemote(j, TRUE, why), link' = link PROVE Goal
  <2> DEFINE m == Message("CloseStream", j, Nil, 0)
  <2>1. m \in Messages /\ m.type = "CloseStream" /\ m.sid = j
    BY MessageIs
  <2> HIDE DEF m
  <2>2. remotes' = [remotes EXCEPT ![j] = Nil]
    BY <1>3 DEF CloseRemote
  <2>3. remotes[j] # Nil => toClient' = Append(toClient, m)
    BY <1>1, <1>3 DEF CloseRemote, Carried, LinkInv, m
  <2>4. i = j
    BY <1>1, <2>2
  <2>5. QED BY <2>1, <2>3, <2>4 DEF Goal, Sends
<1>4. ASSUME NEW c \in Conns, ReadRemoteEOF(c) \/ ReadRemoteError(c) \/ SendRemoteFails(c) PROVE Goal
  <2>1. /\ reading[c] # "none" /\ link' = link
        /\ \E why \in {"eof", "error"} : CloseRemote(sid[c], TRUE, why)
    BY <1>4 DEF ReadRemoteEOF, ReadRemoteError, SendRemoteFails, ReadLoopEnds, KeepLink
  <2>2. sid[c] \in Ids
    BY <1>1, <2>1, SidIsId DEF Requests, Early
  <2>3. QED BY <1>3, <2>1, <2>2
<1>5. ASSUME RemoteDataFails PROVE Goal
  <2>1. Head(toAgent).sid \in Ids
    BY <1>1, <1>5, AfterTake DEF RemoteDataFails, FromClient
  <2>2. CloseRemote(Head(toAgent).sid, TRUE, "error") /\ link' = link
    BY <1>5 DEF RemoteDataFails, KeepLink
  <2>3. QED BY <1>3, <2>1, <2>2
<1>6. ASSUME RemoteCloseStream PROVE Goal
  <2>1. remotes' = [remotes EXCEPT ![Head(toAgent).sid] = Nil]
    BY <1>6 DEF RemoteCloseStream, CloseRemote
  <2>2. QED BY <1>1, <1>6, <2>1 DEF Goal
<1>7. ASSUME Connected PROVE Goal
  <2>1. remotes' = remotes \/ remotes' = [remotes EXCEPT ![dialing.sid] = dialing.conn]
    BY <1>7 DEF Connected
  <2>2. dialing.conn # Nil
    BY <1>1, <1>7 DEF Connected, Names, Named
  <2>3. QED BY <1>1, <1>2, <2>1, <2>2
<1>8. ASSUME NEW j \in Ids, CloseAllNext(j) PROVE Goal
  BY <1>3, <1>8 DEF CloseAllNext
<1>9. \A d \in Conns : Accept(d) \/ HandleLocalConn(d) \/ ClientReads(d) => UNCHANGED remotes
  BY DEF Accept, HandleLocalConn, EnterConnMap, SendConnectReq, SendLocalData, SendHalfClose,
         SendOrClose, ClientReads, ReadLocal, ReadLocalEOF, ReadLocalError, agentVars
<1>10. \A d \in Conns : ReadRemote(d) \/ SendRemoteData(d) => UNCHANGED remotes
  BY DEF ReadRemote, SendRemoteData
<1>11. ClientMessage \/ RemoveMap \/ ClientClosesPeer \/ ConnectRefused => UNCHANGED remotes
  BY DEF ClientMessage, LocalData, LocalDataFails, ConnectFailed, LocalCloseStream,
         RemoveMap, ClientClosesPeer, ConnectRefused, agentVars
<1>12. HandleConnectRequest \/ RemoteData \/ RemoteHalfClose => UNCHANGED remotes
  BY DEF HandleConnectRequest, RemoteData, RemoteHalfClose
<1>13. CleanupBegins \/ AgentClosesPeer \/ LinkLost \/ ClientNotices => UNCHANGED remotes
  BY DEF CleanupBegins, AgentClosesPeer, LinkLost, ClientNotices, agentVars
<1>14. Goal
  BY <1>2, <1>4, <1>5, <1>6, <1>7, <1>8, <1>9, <1>10, <1>11, <1>12, <1>13
     DEF Next, AgentReads, AgentSends, AgentMessage, Dialed, CloseAll
<1>15. QED BY <1>14 DEF Goal

\* A queue that nobody takes from keeps what is in it.
Grows(q, r) == \A k \in 1..Len(q) : k \in 1..Len(r) /\ r[k] = q[k]

LEMMA AppendGrows ==
  ASSUME NEW q \in Seq(Messages), NEW m \in Messages
  PROVE  Grows(q, q) /\ Grows(q, Append(q, m))
BY AppendIs DEF Grows

LEMMA UpGrows ==
  ASSUME TunnelInv, Next, ~AgentMessage, link' = "up"
  PROVE  Grows(toAgent, toAgent')
<1> DEFINE Goal == Grows(toAgent, toAgent')
<1>1. /\ TypeOK /\ Names /\ toClient \in Seq(Messages) /\ toAgent \in Seq(Messages)
  BY DEF TunnelInv, TypeOK, LinkTypes
<1>2. toAgent' = toAgent => Goal
  BY DEF Grows
<1>3. \A m \in Messages : toAgent' = Append(toAgent, m) => Goal
  BY <1>1, AppendGrows
<1> HIDE DEF Goal
<1> SUFFICES Goal
  BY DEF Goal
<1>4. ASSUME NEW i \in Ids, NEW n \in BOOLEAN, CloseLocal(i, n) PROVE Goal
  BY <1>1, <1>2, <1>3, <1>4, CloseLocalMoves
<1>5. ASSUME NEW c \in Conns, SendConnectReq(c) \/ SendLocalData(c) \/ SendHalfClose(c) PROVE Goal
  <2>1. PICK from \in {"mapped", "send", "eof"}, then \in {"read", "done"}, m \in Messages :
          Named(m) /\ SendOrClose(c, from, m, then)
    BY <1>1, <1>5, ItSends
  <2>2. from # "none"
    OBVIOUS
  <2>3. toAgent' = toAgent \/ toAgent' = Append(toAgent, m)
    <3>1. IF clientOpen THEN toAgent' = Carried(toAgent, m) ELSE toAgent' = toAgent
      BY <1>1, <2>1, <2>2, SendOrCloseIs
    <3>2. QED BY <3>1 DEF Carried
  <2>4. QED BY <1>2, <1>3, <2>3
<1>6. ASSUME NEW c \in Conns, ReadLocalError(c) PROVE Goal
  <2>1. sid[c] \in Ids /\ CloseLocal(sid[c], TRUE)
    BY <1>1, <1>6, SidIsId DEF ReadLocalError, At
  <2>2. QED BY <1>4, <2>1
<1>7. ASSUME LocalDataFails \/ ConnectFailed \/ LocalCloseStream PROVE Goal
  <2>1. Head(toClient).sid \in Ids
    BY <1>1, <1>7, AfterTake DEF LocalDataFails, ConnectFailed, LocalCloseStream, FromAgent
  <2>2. \E n \in BOOLEAN : CloseLocal(Head(toClient).sid, n)
    BY <1>7 DEF LocalDataFails, ConnectFailed, LocalCloseStream
  <2>3. QED BY <1>4, <2>1, <2>2
<1>8. ASSUME NEW c \in Conns, \/ Accept(c) \/ EnterConnMap(c) \/ ReadLocal(c) \/ ReadLocalEOF(c)
                              \/ AgentReads(c) \/ AgentSends(c)
      PROVE  toAgent' = toAgent
  BY <1>8 DEF Accept, EnterConnMap, ReadLocal, ReadLocalEOF, AgentReads, AgentSends, ReadRemote,
         ReadRemoteEOF, ReadRemoteError, SendRemoteData, SendRemoteFails, ReadLoopEnds, linkVars
<1>9. LocalData \/ RemoveMap \/ Dialed \/ CleanupBegins \/ ClientNotices => toAgent' = toAgent
  BY DEF LocalData, RemoveMap, Dialed, Connected, ConnectRefused, CleanupBegins, ClientNotices, linkVars
<1>10. \A i \in Ids : CloseAllNext(i) => toAgent' = toAgent
  BY DEF CloseAllNext
<1>11. AgentClosesPeer \/ LinkLost \/ ClientClosesPeer => Goal
  BY DEF AgentClosesPeer, LinkLost, ClientClosesPeer, LosesLink
<1>12. QED
  BY <1>2, <1>5, <1>6, <1>7, <1>8, <1>9, <1>10, <1>11
     DEF Next, HandleLocalConn, ClientReads, ClientMessage, CloseAll

LEMMA DownGrows ==
  ASSUME TunnelInv, Next, ~ClientMessage, link' = "up"
  PROVE  Grows(toClient, toClient')
<1> DEFINE Goal == Grows(toClient, toClient')
<1>1. /\ TypeOK /\ Names /\ Requests /\ toClient \in Seq(Messages) /\ toAgent \in Seq(Messages)
  BY DEF TunnelInv, TypeOK, LinkTypes
<1>2. toClient' = toClient => Goal
  BY DEF Grows
<1>3. \A m \in Messages : toClient' = Append(toClient, m) => Goal
  BY <1>1, AppendGrows
<1>4. \A c \in Conns : reading[c] # "none" => sid[c] \in Ids
  BY <1>1, SidIsId DEF Requests, Early
<1> HIDE DEF Goal
<1> SUFFICES Goal
  BY DEF Goal
<1>5. ASSUME NEW i \in Ids, NEW n \in BOOLEAN, NEW why \in {"eof", "error", "request"}, CloseRemote(i, n, why)
      PROVE  Goal
  BY <1>1, <1>2, <1>3, <1>5, CloseRemoteMoves
<1>6. ASSUME NEW c \in Conns, SendRemoteData(c) PROVE Goal
  <2> DEFINE m == Message("Data", sid[c], c, down[c])
  <2>1. sid[c] \in Ids /\ down[c] \in Nat
    BY <1>4, <1>6 DEF SendRemoteData, TunnelInv, TypeOK, AgentTypes
  <2>2. m \in Messages
    BY <2>1, MessageIs
  <2> HIDE DEF m
  <2>3. toClient' = toClient \/ toClient' = Append(toClient, m)
    BY <1>6 DEF SendRemoteData, Carried, m
  <2>4. QED BY <1>2, <1>3, <2>2, <2>3
<1>7. ASSUME NEW c \in Conns, ReadRemoteEOF(c) \/ ReadRemoteError(c) \/ SendRemoteFails(c) PROVE Goal
  <2>1. reading[c] # "none" /\ \E why \in {"eof", "error"} : CloseRemote(sid[c], TRUE, why)
    BY <1>7 DEF ReadRemoteEOF, ReadRemoteError, SendRemoteFails, ReadLoopEnds
  <2>2. QED BY <1>4, <1>5, <2>1
<1>8. ASSUME RemoteDataFails \/ RemoteCloseStream PROVE Goal
  <2>1. Head(toAgent).sid \in Ids
    BY <1>1, <1>8, AfterTake DEF RemoteDataFails, RemoteCloseStream, FromClient
  <2>2. \E n \in BOOLEAN, why \in {"error", "request"} : CloseRemote(Head(toAgent).sid, n, why)
    BY <1>8 DEF RemoteDataFails, RemoteCloseStream
  <2>3. QED BY <1>5, <2>1, <2>2
<1>9. ASSUME ConnectRefused PROVE Goal
  <2> DEFINE m == Message("ConnectResp", dialing.sid, Nil, 0)
  <2>1. dialing.sid \in Ids
    BY <1>9 DEF ConnectRefused, TunnelInv, TypeOK, AgentTypes, Messages
  <2>2. m \in Messages
    BY <2>1, MessageIs
  <2> HIDE DEF m
  <2>3. toClient' = toClient \/ toClient' = Append(toClient, m)
    BY <1>9 DEF ConnectRefused, Carried, m
  <2>4. QED BY <1>2, <1>3, <2>2, <2>3
<1>10. ASSUME NEW i \in Ids, CloseAllNext(i) PROVE Goal
  BY <1>5, <1>10 DEF CloseAllNext
<1>11. \A c \in Conns : Accept(c) \/ HandleLocalConn(c) \/ ClientReads(c) \/ ReadRemote(c) => toClient' = toClient
  BY DEF Accept, HandleLocalConn, EnterConnMap, SendConnectReq, SendLocalData, SendHalfClose,
         SendOrClose, ClientReads, ReadLocal, ReadLocalEOF, ReadLocalError, ReadRemote, linkVars
<1>12. HandleConnectRequest \/ RemoteData \/ RemoteHalfClose \/ Connected \/ RemoveMap
       \/ CleanupBegins \/ ClientNotices => toClient' = toClient
  BY DEF HandleConnectRequest, RemoteData, RemoteHalfClose, Connected, RemoveMap,
         CleanupBegins, ClientNotices, linkVars
<1>13. AgentClosesPeer \/ LinkLost \/ ClientClosesPeer => Goal
  BY DEF AgentClosesPeer, LinkLost, ClientClosesPeer, LosesLink
<1>14. QED
  BY <1>2, <1>6, <1>7, <1>8, <1>9, <1>10, <1>11, <1>12, <1>13
     DEF Next, AgentReads, AgentSends, AgentMessage, Dialed, CloseAll

\* A request that is being dialed stays until Dial returns; the callback waits for it.
LEMMA DialingMoves ==
  ASSUME TunnelInv, Next
  PROVE  /\ dialing # Nil /\ ~Dialed => dialing' = dialing
         /\ dialing' # Nil => dialing' = dialing \/ HandleConnectRequest
         /\ AgentMessage => dialing = Nil
<1>1. AgentMessage => dialing = Nil
  BY DEF AgentMessage, HandleConnectRequest, RemoteData, RemoteDataFails, RemoteHalfClose,
         RemoteCloseStream, FromClient, HandlerIdle
<1>2. Dialed => dialing' = Nil
  BY DEF Dialed, Connected, ConnectRefused
<1>3. \A c \in Conns : Accept(c) \/ HandleLocalConn(c) \/ ClientReads(c) => dialing' = dialing
  BY DEF Accept, HandleLocalConn, EnterConnMap, SendConnectReq, SendLocalData, SendHalfClose,
         SendOrClose, ClientReads, ReadLocal, ReadLocalEOF, ReadLocalError, agentVars
<1>4. \A c \in Conns : AgentReads(c) \/ AgentSends(c) => dialing' = dialing
  BY DEF AgentReads, AgentSends, ReadRemote, ReadRemoteEOF, ReadRemoteError, SendRemoteData,
         SendRemoteFails, ReadLoopEnds
<1>5. ClientMessage \/ RemoveMap \/ ClientClosesPeer => dialing' = dialing
  BY DEF ClientMessage, LocalData, LocalDataFails, ConnectFailed, LocalCloseStream,
         RemoveMap, ClientClosesPeer, agentVars
<1>6. RemoteData \/ RemoteDataFails \/ RemoteHalfClose \/ RemoteCloseStream => dialing' = dialing
  BY DEF RemoteData, RemoteDataFails, RemoteHalfClose, RemoteCloseStream
<1>7. CleanupBegins \/ CloseAll \/ LinkLost \/ ClientNotices => dialing' = dialing
  BY DEF CleanupBegins, CloseAll, CloseAllNext, AgentClosesPeer, LinkLost, ClientNotices, agentVars
<1>8. QED BY <1>1, <1>2, <1>3, <1>4, <1>5, <1>6, <1>7 DEF Next, AgentMessage

LEMMA MappedMoves == TunnelInv /\ Next /\ mapped' => mapped
BY DEF Next, Accept, HandleLocalConn, EnterConnMap, SendConnectReq, SendLocalData, SendHalfClose,
       SendOrClose, ClientReads, ReadLocal, ReadLocalEOF, ReadLocalError, ClientMessage, LocalData,
       LocalDataFails, ConnectFailed, LocalCloseStream, KeepClientLoop, RemoveMap, ClientClosesPeer,
       AgentReads, AgentSends, ReadRemote, ReadRemoteEOF, ReadRemoteError, SendRemoteData,
       SendRemoteFails, ReadLoopEnds, AgentMessage, HandleConnectRequest, RemoteData, RemoteDataFails,
       RemoteHalfClose, RemoteCloseStream, Dialed, Connected, ConnectRefused, CleanupBegins, CloseAll,
       CloseAllNext, AgentClosesPeer, LinkLost, ClientNotices, clientVars

\* What is in flight about a stream.
Has(q, type, i) == \E k \in 1..Len(q) : q[k].type = type /\ q[k].sid = i
HasAfter(q, k, type, i) == \E j \in 1..Len(q) : k < j /\ q[j].type = type /\ q[j].sid = i

\* The ids that messages name: one that the client closed is free for good, and the
\* agent speaks only of streams it was asked for.
GoneInv ==
  \A k \in 1..Len(toAgent) : toAgent[k].type = "CloseStream" =>
    toAgent[k].sid <= value /\ streams[toAgent[k].sid] = Nil
AskedInv ==
  \A k \in 1..Len(toClient) : \E c \in Conns : sid[c] = toClient[k].sid /\ accepted[c] \notin Early

LEMMA GoneStep == TunnelInv /\ GoneInv /\ Next => GoneInv'
<1> SUFFICES ASSUME TunnelInv, GoneInv, Next, NEW k \in 1..Len(toAgent'), toAgent'[k].type = "CloseStream"
             PROVE  toAgent'[k].sid <= value' /\ streams'[toAgent'[k].sid] = Nil
  BY DEF GoneInv
<1>1. /\ toAgent \in Seq(Messages) /\ SentUp \in SUBSET Messages /\ value \in Nat /\ value' \in Nat
      /\ streams \in [Ids -> Conns \cup {Nil}] /\ Names /\ Ids \subseteq Nat
      /\ sid \in [Conns -> 0..MaxStreams]
  <2>1. TypeOK'
    BY ClientTypesStep, AgentTypesStep, LinkTypesStep DEF TunnelInv, TypeOK
  <2>2. QED BY <2>1, TunnelAssumption DEF TunnelInv, TypeOK, ClientTypes, LinkTypes, SentUp, Ids
<1>2. ASSUME NEW i \in Ids, i <= value, streams[i] = Nil PROVE i <= value' /\ streams'[i] = Nil
  BY <1>1, <1>2, StreamsMove DEF NextId
<1>3. ASSUME NEW j \in 1..Len(toAgent), toAgent'[k] = toAgent[j]
      PROVE  toAgent'[k].sid <= value' /\ streams'[toAgent'[k].sid] = Nil
  BY <1>1, <1>2, <1>3, MessageHas DEF GoneInv
<1>4. ASSUME toAgent'[k] \in SentUp
      PROVE  toAgent'[k].sid <= value' /\ streams'[toAgent'[k].sid] = Nil
  <2>1. PICK i \in Ids : i = toAgent'[k].sid /\ streams[i] # Nil /\ streams'[i] = Nil
    BY <1>4 DEF SentUp, Messages
  <2>2. streams[i] \in Conns /\ sid[streams[i]] = i /\ sid[streams[i]] <= value
    BY <1>1, <2>1 DEF Names
  <2>3. value' >= value
    BY <2>1, StreamsMove
  <2>4. i <= value
    BY <2>2
  <2>5. QED BY <1>1, <2>1, <2>3, <2>4
<1>5. QED BY <1>1, <1>3, <1>4, UpMoves, BarrierKept

LEMMA AskedStep == TunnelInv /\ ClosedOnce /\ AskedInv /\ Next => AskedInv'
<1> SUFFICES ASSUME TunnelInv, ClosedOnce, AskedInv, Next, NEW k \in 1..Len(toClient')
             PROVE  \E c \in Conns : sid'[c] = toClient'[k].sid /\ accepted'[c] \notin Early
  BY DEF AskedInv
<1>1. /\ toClient \in Seq(Messages) /\ SentDown \in SUBSET Messages /\ (\A i \in Ids : i # 0)
      /\ Names /\ Names' /\ Requests /\ remotes \in [Ids -> Conns \cup {Nil}]
      /\ toClient' \in Seq(Messages)
  <2>1. TypeOK' /\ Names'
    BY ClientTypesStep, AgentTypesStep, LinkTypesStep, NamesStep DEF TunnelInv, TypeOK
  <2>2. QED BY <2>1 DEF TunnelInv, TypeOK, LinkTypes, AgentTypes, Ids, SentDown
<1>2. \A c \in Conns : sid[c] \in Ids /\ accepted[c] \notin Early => sid'[c] = sid[c] /\ accepted'[c] \notin Early
  BY <1>1, DoneStays, AcceptMoves
<1>3. ASSUME NEW j \in 1..Len(toClient), toClient'[k] = toClient[j]
      PROVE  \E c \in Conns : sid'[c] = toClient'[k].sid /\ accepted'[c] \notin Early
  BY <1>1, <1>2, <1>3, MessageHas DEF AskedInv
<1>4. ASSUME toClient'[k] \in SentDown
      PROVE  \E c \in Conns : sid'[c] = toClient'[k].sid /\ accepted'[c] \notin Early
  <2>1. toClient'[k].sid \in Ids
    BY <1>4 DEF SentDown, Messages
  <2>2. CASE toClient'[k].type = "ConnectResp"
    <3>1. dialing # Nil /\ toClient'[k].sid = dialing.sid
      BY <1>4, <2>2 DEF SentDown
    <3>2. dialing.conn \in Conns /\ sid[dialing.conn] = dialing.sid /\ accepted[dialing.conn] \notin Early
      BY <1>1, <3>1 DEF Names, Named, Requests
    <3>3. QED BY <1>2, <2>1, <3>1, <3>2
  <2>3. CASE toClient'[k].type = "Data"
    <3>1. PICK c \in Conns : c = toClient'[k].conn /\ reading[c] = "send"
      BY <1>4, <2>3 DEF SentDown
    <3>2. accepted[c] \notin Early
      BY <1>1, <3>1 DEF Requests
    <3>3. sid'[c] = toClient'[k].sid
      BY <1>1, <2>3, <3>1 DEF Names, Named
    <3>4. QED BY <3>2, <3>3, AcceptMoves
  <2>4. CASE toClient'[k].type = "CloseStream"
    <3>1. PICK i \in Ids : i = toClient'[k].sid /\ remotes[i] # Nil
      BY <1>4, <2>1, <2>4 DEF SentDown
    <3>2. PICK c \in Conns : c = remotes[i]
      BY <1>1, <3>1
    <3>3. sid[c] = i /\ reading[c] # "none"
      BY <1>1, <3>1, <3>2 DEF Names, ClosedOnce
    <3>4. accepted[c] \notin Early
      BY <1>1, <3>3 DEF Requests
    <3>5. QED BY <1>2, <3>1, <3>3, <3>4
  <2>5. QED BY <1>4, <2>2, <2>3, <2>4 DEF SentDown
<1>5. QED BY <1>1, <1>3, <1>4, DownMoves, BarrierKept

\* Until it asked for its stream, handleLocalConn has it in the map.
Live == link = "up" /\ mapped
EarlyInv == Live => \A c \in Conns : accepted[c] \in {"registered", "mapped"} => streams[sid[c]] = c

LEMMA LiveBefore == TunnelInv /\ Next /\ Live' => Live /\ link' = "up" /\ mapped'
<1> SUFFICES ASSUME TunnelInv, Next, Live' PROVE Live /\ link' = "up" /\ mapped'
  OBVIOUS
<1>1. link' = "up" /\ mapped'
  BY DEF Live
<1>2. link = "up"
  BY <1>1, LinkStep DEF TunnelInv, TypeOK, LinkTypes
<1>3. mapped
  BY <1>1, MappedMoves
<1>4. QED BY <1>1, <1>2, <1>3 DEF Live

LEMMA EarlyStays ==
  ASSUME TunnelInv, AskedInv, EarlyInv, Next, Live', NEW c \in Conns,
         accepted[c] \in {"registered", "mapped"}
  PROVE  sid[c] \in Ids /\ sid'[c] = sid[c] /\ streams'[sid[c]] = c
<1>1. Live /\ link' = "up" /\ mapped'
  BY LiveBefore
<1>2. /\ toClient \in Seq(Messages) /\ Names /\ TypeOK
      /\ streams \in [Ids -> Conns \cup {Nil}] /\ sid \in [Conns -> 0..MaxStreams] /\ Nil \notin Conns
      /\ value \in Nat
  BY TunnelAssumption DEF TunnelInv, TypeOK, ClientTypes, LinkTypes
<1>3. streams[sid[c]] = c /\ sid[c] \in Ids /\ sid[c] <= value
  BY <1>1, <1>2, SidIsId DEF EarlyInv, Names
<1>4. sid'[c] = sid[c]
  BY <1>3, DoneStays DEF Ids
<1>5. streams'[sid[c]] \in {c, Nil}
  BY <1>2, <1>3, StreamsMove DEF NextId
<1>6. streams'[sid[c]] # Nil
  <2> SUFFICES ASSUME streams'[sid[c]] = Nil PROVE FALSE
    OBVIOUS
  <2>1. \/ ClientMessage /\ Head(toClient).sid = sid[c]
        \/ \E d \in Conns : sid[d] = sid[c] /\ accepted[d] = "read"
    BY <1>1, <1>2, <1>3, StreamsMove
  <2>2. ~(ClientMessage /\ Head(toClient).sid = sid[c])
    <3>1. ClientMessage => toClient # <<>>
      BY DEF ClientMessage, LocalData, LocalDataFails, ConnectFailed, LocalCloseStream, FromAgent
    <3>2. toClient # <<>> => Head(toClient) = toClient[1] /\ 1 \in 1..Len(toClient)
      BY <1>2, TailIs
    <3>3. toClient # <<>> => Head(toClient).sid # sid[c]
      <4> SUFFICES ASSUME toClient # <<>>, Head(toClient).sid = sid[c] PROVE FALSE
        OBVIOUS
      <4>1. PICK d \in Conns : sid[d] = sid[c] /\ accepted[d] \notin Early
        BY <3>2 DEF AskedInv
      <4>2. d = c
        BY <1>2, <1>3, <4>1 DEF Names, Ids
      <4>3. QED BY <4>1, <4>2 DEF Early
    <3>4. QED BY <3>1, <3>3
  <2>3. PICK d \in Conns : sid[d] = sid[c] /\ accepted[d] = "read"
    BY <2>1, <2>2
  <2>4. d = c
    BY <1>2, <1>3, <2>3 DEF Names, Ids
  <2>5. QED BY <2>3, <2>4
<1>7. QED BY <1>3, <1>4, <1>5, <1>6

LEMMA EarlyStep == TunnelInv /\ AskedInv /\ EarlyInv /\ Next => EarlyInv'
<1> SUFFICES ASSUME TunnelInv, AskedInv, EarlyInv, Next, Live', NEW c \in Conns,
                    accepted'[c] \in {"registered", "mapped"}
             PROVE  streams'[sid'[c]] = c
  BY DEF EarlyInv
<1>0. Live /\ link' = "up" /\ mapped'
  BY LiveBefore
<1>1. /\ toClient \in Seq(Messages) /\ Names /\ TypeOK
      /\ streams \in [Ids -> Conns \cup {Nil}] /\ sid \in [Conns -> 0..MaxStreams] /\ Nil \notin Conns
      /\ value \in Nat
  BY TunnelAssumption DEF TunnelInv, TypeOK, ClientTypes, LinkTypes
<1>2. CASE Accept(c)
  <2>1. sid' = [sid EXCEPT ![c] = NextId] /\ streams' = [streams EXCEPT ![NextId] = c] /\ value < MaxStreams
    BY <1>2 DEF Accept
  <2>2. NextId \in Ids
    BY <1>1, <2>1, TunnelAssumption DEF NextId, Ids
  <2>3. QED BY <1>1, <2>1, <2>2
<1>3. CASE accepted[c] \in {"registered", "mapped"}
  BY <1>3, EarlyStays
<1>4. QED BY <1>2, <1>3, AcceptMoves

\* A stream that the client has open, once it asked for it, is being asked for, is dialed
\* or open at the agent, or the client is going to be told that it is not.
Dials(c) == dialing # Nil /\ dialing.conn = c
AnsweredInv ==
  Live => \A c \in Conns : accepted[c] \notin Early /\ streams[sid[c]] = c =>
    \/ Requested(toAgent, c) \/ Dials(c) \/ remotes[sid[c]] = c
    \/ Has(toClient, "ConnectResp", sid[c]) \/ Has(toClient, "CloseStream", sid[c])

LEMMA SentHas ==
  ASSUME NEW q \in Seq(Messages), NEW r, NEW type, NEW i, Sends(q, r, type, i)
  PROVE  /\ Has(r, type, i)
         /\ \A k \in 0..Len(q) : HasAfter(r, k, type, i)
<1>1. PICK m \in Messages : m.type = type /\ m.sid = i /\ r = Append(q, m)
  BY DEF Sends
<1>2. Len(q) \in Nat /\ Len(r) = Len(q) + 1 /\ r[Len(q) + 1] = m
  BY <1>1, AppendIs
<1>3. Len(q) + 1 \in 1..Len(r) /\ \A k \in 0..Len(q) : k < Len(q) + 1
  BY <1>2
<1>4. QED BY <1>1, <1>2, <1>3 DEF Has, HasAfter

LEMMA TailHas ==
  ASSUME NEW q \in Seq(Messages), q # <<>>, NEW k \in 1..Len(q)
  PROVE  k = 1 \/ (k - 1 \in 1..Len(Tail(q)) /\ Tail(q)[k - 1] = q[k])
BY TailIs

LEMMA AnsweredStep ==
  TunnelInv /\ GoneInv /\ AnsweredInv /\ Next => AnsweredInv'
<1> SUFFICES ASSUME TunnelInv, GoneInv, AnsweredInv, Next, Live', NEW c \in Conns,
                    accepted'[c] \notin Early, streams'[sid'[c]] = c
             PROVE  \/ Requested(toAgent', c) \/ Dials(c)' \/ remotes'[sid'[c]] = c
                    \/ Has(toClient', "ConnectResp", sid'[c]) \/ Has(toClient', "CloseStream", sid'[c])
  BY DEF AnsweredInv, Requested, Has
<1> DEFINE Goal == \/ Requested(toAgent', c) \/ Dials(c)' \/ remotes'[sid'[c]] = c
                   \/ Has(toClient', "ConnectResp", sid'[c]) \/ Has(toClient', "CloseStream", sid'[c])
<1>0. Live /\ link' = "up" /\ mapped' /\ link = "up"
  BY LiveBefore DEF Live
<1>a. /\ Names /\ LinkInv /\ TypeOK
  BY DEF TunnelInv
<1>b. /\ toAgent \in Seq(Messages) /\ toClient \in Seq(Messages)
      /\ streams \in [Ids -> Conns \cup {Nil}] /\ sid \in [Conns -> 0..MaxStreams]
      /\ remotes \in [Ids -> Conns \cup {Nil}] /\ value \in Nat
  BY <1>a, TunnelAssumption DEF TypeOK, ClientTypes, LinkTypes, AgentTypes
<1>c. clientOpen /\ agentOpen
  BY <1>0, <1>a DEF LinkInv, TypeOK, LinkTypes
<1>d. Nil \notin Messages /\ Nil \notin Conns
  BY TunnelAssumption, NilAssumption
<1>1. /\ toAgent \in Seq(Messages) /\ toClient \in Seq(Messages) /\ Names /\ TypeOK
      /\ streams \in [Ids -> Conns \cup {Nil}] /\ sid \in [Conns -> 0..MaxStreams] /\ Nil \notin Conns
      /\ remotes \in [Ids -> Conns \cup {Nil}] /\ value \in Nat /\ Nil \notin Messages
      /\ clientOpen /\ agentOpen
  BY <1>a, <1>b, <1>c, <1>d
<1>2. CASE SendConnectReq(c)
  <2> DEFINE m == Message("ConnectReq", sid[c], c, 0)
  <2>1. m \in Messages /\ Named(m) /\ m.type = "ConnectReq" /\ m.conn = c
    BY <1>1, <1>2, ItsMessages DEF SendConnectReq, SendOrClose
  <2>2. toAgent' = Append(toAgent, m)
    BY <1>0, <1>1, <1>2 DEF SendConnectReq, SendOrClose, Carried
  <2> HIDE DEF m
  <2>3. Requested(toAgent', c)
    <3>1. /\ Len(toAgent) \in Nat /\ Len(toAgent') = Len(toAgent) + 1
          /\ toAgent'[Len(toAgent) + 1] = m
      BY <1>1, <2>1, <2>2, AppendIs
    <3>2. Len(toAgent) + 1 \in 1..Len(toAgent')
      BY <3>1
    <3>3. QED BY <2>1, <3>1, <3>2 DEF Requested
  <2>4. QED BY <2>3
<1>3. CASE ~SendConnectReq(c)
  <2>1. accepted[c] \notin Early
    BY <1>3, AcceptMoves
  <2>2. sid[c] \in Ids /\ sid[c] <= value /\ sid[c] # 0
    BY <1>1, <2>1, SidIsId DEF Early, Names, Ids
  <2>3. sid'[c] = sid[c]
    BY <2>2, DoneStays
  <2>4. streams[sid[c]] = c
    BY <1>1, <2>2, <2>3, StreamsMove DEF NextId
  <2>5. CASE Requested(toAgent, c)
    <3>1. PICK k \in 1..Len(toAgent) : toAgent[k].type = "ConnectReq" /\ toAgent[k].conn = c
      BY <2>5 DEF Requested
    <3>2. CASE ~AgentMessage
      BY <1>0, <3>1, <3>2, UpGrows DEF Grows, Requested
    <3>3. CASE AgentMessage
      <4>1. toAgent # <<>> /\ toAgent' = Tail(toAgent)
        BY <3>3 DEF AgentMessage, HandleConnectRequest, RemoteData, RemoteDataFails, RemoteHalfClose,
                    RemoteCloseStream, FromClient
      <4>2. CASE k = 1
        <5>1. Head(toAgent) = toAgent[1] /\ Head(toAgent) \in Messages
          BY <1>1, <4>1, TailIs
        <5>2. HandleConnectRequest
          BY <3>1, <3>3, <4>2, <5>1 DEF AgentMessage, RemoteData, RemoteDataFails, RemoteHalfClose,
                    RemoteCloseStream, FromClient
        <5>3. dialing' = Head(toAgent)
          BY <5>2 DEF HandleConnectRequest
        <5>4. QED BY <1>1, <3>1, <4>2, <5>1, <5>3 DEF Dials
      <4>3. CASE k # 1
        <5>1. k - 1 \in 1..Len(toAgent') /\ toAgent'[k - 1] = toAgent[k]
          BY <1>1, <4>1, <4>3, TailHas
        <5>2. Requested(toAgent', c)
          BY <3>1, <5>1 DEF Requested
        <5>3. QED BY <5>2
      <4>4. QED BY <4>2, <4>3
    <3>4. QED BY <3>2, <3>3
  <2>6. CASE Dials(c)
    <3>1. dialing.sid = sid[c]
      BY <1>1, <2>6 DEF Dials, Names, Named
    <3>2. CASE Connected
      <4>1. remotes' = [remotes EXCEPT ![sid[c]] = c]
        BY <1>1, <2>6, <3>1, <3>2 DEF Connected, Dials
      <4>2. QED BY <1>1, <2>2, <2>3, <4>1
    <3>3. CASE ConnectRefused
      <4> DEFINE m == Message("ConnectResp", sid[c], Nil, 0)
      <4>1. m \in Messages /\ m.type = "ConnectResp" /\ m.sid = sid[c]
        BY <2>2 DEF Message, Messages
      <4>2. toClient' = Append(toClient, m)
        BY <1>0, <1>1, <3>1, <3>3 DEF ConnectRefused, Carried
      <4> HIDE DEF m
      <4>3. /\ Len(toClient) \in Nat /\ Len(toClient') = Len(toClient) + 1
            /\ toClient'[Len(toClient) + 1] = m
        BY <1>1, <4>1, <4>2, AppendIs
      <4>4. Len(toClient) + 1 \in 1..Len(toClient')
        BY <4>3
      <4>5. Has(toClient', "ConnectResp", sid'[c])
        BY <2>3, <4>1, <4>3, <4>4 DEF Has
      <4>6. QED BY <4>5
    <3>4. CASE ~Dialed
      BY <2>6, <3>4, DialingMoves DEF Dials
    <3>5. QED BY <3>2, <3>3, <3>4 DEF Dialed
  <2>7. CASE remotes[sid[c]] = c
    <3>1. CASE remotes'[sid[c]] = c
      BY <2>3, <3>1
    <3>2. CASE remotes'[sid[c]] # c
      <4>1. remotes'[sid[c]] = Nil
        <5>1. dialing # Nil /\ dialing.sid = sid[c] => dialing.conn = c
          BY <1>1, <2>2 DEF Names, Named
        <5>2. QED BY <2>2, <2>7, <3>2, <5>1, RemotesMove
      <4>2. ~(RemoteCloseStream /\ Head(toAgent).sid = sid[c])
        <5> SUFFICES ASSUME RemoteCloseStream, Head(toAgent).sid = sid[c] PROVE FALSE
          OBVIOUS
        <5>1. toAgent # <<>> /\ Head(toAgent).type = "CloseStream"
          BY DEF RemoteCloseStream, FromClient
        <5>2. Head(toAgent) = toAgent[1] /\ 1 \in 1..Len(toAgent)
          BY <1>1, <5>1, TailIs
        <5>3. QED BY <1>1, <2>4, <5>1, <5>2 DEF GoneInv
      <4>3. Sends(toClient, toClient', "CloseStream", sid[c])
        BY <1>0, <1>1, <2>2, <2>7, <4>1, <4>2, RemotesTold
      <4>4. QED BY <1>1, <2>3, <4>3, SentHas
    <3>3. QED BY <3>1, <3>2
  <2>8. ASSUME NEW type \in {"ConnectResp", "CloseStream"}, Has(toClient, type, sid[c])
        PROVE  Has(toClient', type, sid[c])
    <3>1. PICK k \in 1..Len(toClient) : toClient[k].type = type /\ toClient[k].sid = sid[c]
      BY <2>8 DEF Has
    <3>2. CASE ~ClientMessage
      BY <1>0, <3>1, <3>2, DownGrows DEF Grows, Has
    <3>3. CASE ClientMessage
      <4>1. toClient # <<>> /\ toClient' = Tail(toClient)
        BY <3>3 DEF ClientMessage, LocalData, LocalDataFails, ConnectFailed, LocalCloseStream, FromAgent
      <4>2. k # 1
        <5> SUFFICES ASSUME k = 1 PROVE FALSE
          OBVIOUS
        <5>1. Head(toClient).type = type /\ Head(toClient).sid = sid[c]
          BY <1>1, <3>1, <4>1, TailIs
        <5>2. \E n \in BOOLEAN : CloseLocal(sid[c], n)
          BY <3>3, <5>1 DEF ClientMessage, LocalData, LocalDataFails, ConnectFailed, LocalCloseStream, FromAgent
        <5>3. streams' = [streams EXCEPT ![sid[c]] = Nil]
          BY <5>2 DEF CloseLocal
        <5>4. QED BY <1>1, <2>2, <2>3, <5>3
      <4>3. k - 1 \in 1..Len(toClient') /\ toClient'[k - 1] = toClient[k]
        BY <1>1, <4>1, <4>2, TailHas
      <4>4. QED BY <3>1, <4>3 DEF Has
    <3>4. QED BY <3>2, <3>3
  <2>9. QED BY <1>0, <2>1, <2>3, <2>4, <2>5, <2>6, <2>7, <2>8 DEF AnsweredInv
<1>4. QED BY <1>2, <1>3

\* What the agent dials or has open, or is asked for, the client has open, or the agent is
\* told behind it that the client has not.
GoneFrom(k, c) == streams[sid[c]] = c \/ HasAfter(toAgent, k, "CloseStream", sid[c])
Opens(c) == sid[c] \in Ids /\ remotes[sid[c]] = c
AsksAt(k, c) == toAgent[k].type = "ConnectReq" /\ toAgent[k].conn = c
OnlyInv ==
  Live => \A c \in Conns :
    /\ Dials(c) \/ Opens(c) => GoneFrom(0, c)
    /\ \A k \in 1..Len(toAgent) : AsksAt(k, c) => GoneFrom(k, c)

LEMMA AfterTail ==
  ASSUME NEW q \in Seq(Messages), q # <<>>, NEW k \in 0..Len(q), NEW type, NEW i, HasAfter(q, k, type, i)
  PROVE  /\ k >= 1 => HasAfter(Tail(q), k - 1, type, i)
         /\ k = 0 => HasAfter(Tail(q), 0, type, i) \/ (Head(q).type = type /\ Head(q).sid = i)
<1>1. PICK j \in 1..Len(q) : k < j /\ q[j].type = type /\ q[j].sid = i
  BY DEF HasAfter
<1>2. CASE j = 1
  BY <1>1, <1>2, TailIs
<1>3. CASE j # 1
  <2>1. j - 1 \in 1..Len(Tail(q)) /\ Tail(q)[j - 1] = q[j]
    BY <1>3, TailIs
  <2>2. k - 1 < j - 1 /\ 0 < j - 1
    BY <1>1, <2>1, LenProperties
  <2>3. QED BY <1>1, <2>1, <2>2 DEF HasAfter
<1>4. QED BY <1>2, <1>3

LEMMA TakesUp == TunnelInv /\ AgentMessage => toAgent # <<>> /\ toAgent' = Tail(toAgent)
BY DEF AgentMessage, HandleConnectRequest, RemoteData, RemoteDataFails, RemoteHalfClose,
       RemoteCloseStream, FromClient

\* The client still has the stream, or the agent is still told.
LEMMA GoneKept ==
  ASSUME TunnelInv, ClosedOnce, Next, Live', NEW c \in Conns, NEW k \in 0..Len(toAgent),
         sid[c] \in Ids, GoneFrom(k, c), reading[c] = "none" \/ remotes[sid[c]] = c
  PROVE  /\ sid'[c] = sid[c]
         /\ ~AgentMessage => GoneFrom(k, c)'
         /\ AgentMessage /\ k >= 1 => GoneFrom(k - 1, c)'
         /\ AgentMessage /\ k = 0 =>
              GoneFrom(0, c)' \/ (RemoteCloseStream /\ Head(toAgent).sid = sid[c])
<1>1. Live /\ link' = "up" /\ mapped'
  BY LiveBefore
<1>a. /\ Names /\ TypeOK /\ (\A i \in Ids : i # 0)
  BY DEF TunnelInv, Ids
<1>2. /\ toAgent \in Seq(Messages) /\ toClient \in Seq(Messages)
      /\ streams \in [Ids -> Conns \cup {Nil}] /\ value \in Nat
  BY <1>a, TunnelAssumption DEF TypeOK, ClientTypes, LinkTypes
<1>3. sid'[c] = sid[c]
  BY <1>a, DoneStays
<1>4. CASE streams'[sid[c]] = c
  BY <1>3, <1>4 DEF GoneFrom
<1>5. CASE streams[sid[c]] = c /\ streams'[sid[c]] # c
  <2>1. sid[c] <= value /\ streams[sid[c]] # Nil
    BY <1>a, <1>5, TunnelAssumption DEF Names
  <2>2. streams'[sid[c]] = Nil
    BY <1>2, <1>5, <2>1, StreamsMove DEF NextId
  <2>3. \/ Sends(toAgent, toAgent', "CloseStream", sid[c])
        \/ LocalCloseStream /\ Head(toClient).sid = sid[c]
    BY <1>1, <2>1, <2>2, StreamsMove
  <2>4. ~(LocalCloseStream /\ Head(toClient).sid = sid[c])
    <3> SUFFICES ASSUME LocalCloseStream, Head(toClient).sid = sid[c] PROVE FALSE
      OBVIOUS
    <3>1. toClient # <<>> /\ Head(toClient).type = "CloseStream"
      BY DEF LocalCloseStream, FromAgent
    <3>2. Head(toClient) = toClient[1] /\ 1 \in 1..Len(toClient)
      BY <1>2, <3>1, TailIs
    <3>3. PICK d \in Conns : sid[d] = sid[c] /\ reading[d] # "none" /\ remotes[sid[d]] = Nil
      BY <3>1, <3>2 DEF ClosedOnce
    <3>4. d = c
      BY <1>a, <3>3 DEF Names
    <3>5. QED BY <3>3, <3>4, TunnelAssumption
  <2>5. \A j \in 0..Len(toAgent) : HasAfter(toAgent', j, "CloseStream", sid[c])
    BY <1>2, <2>3, <2>4, SentHas
  <2>6. \A j \in 0..Len(toAgent) : GoneFrom(j, c)'
    BY <1>3, <2>5 DEF GoneFrom
  <2>7. k >= 1 => k - 1 \in 0..Len(toAgent)
    BY <1>2, LenProperties
  <2>8. QED BY <1>3, <2>6, <2>7
<1>6. CASE HasAfter(toAgent, k, "CloseStream", sid[c])
  <2>1. CASE ~AgentMessage
    <3>1. HasAfter(toAgent', k, "CloseStream", sid[c])
      BY <1>1, <1>6, <2>1, UpGrows DEF Grows, HasAfter
    <3>2. QED BY <1>3, <2>1, <3>1 DEF GoneFrom
  <2>2. CASE AgentMessage
    <3>1. toAgent # <<>> /\ toAgent' = Tail(toAgent)
      BY <2>2, TakesUp
    <3>2. CASE k >= 1
      <4>1. HasAfter(toAgent', k - 1, "CloseStream", sid[c])
        BY <1>2, <1>6, <3>1, <3>2, AfterTail
      <4>2. QED BY <1>3, <2>2, <3>2, <4>1 DEF GoneFrom
    <3>3. CASE k = 0
      <4>1. \/ HasAfter(toAgent', 0, "CloseStream", sid[c])
            \/ Head(toAgent).type = "CloseStream" /\ Head(toAgent).sid = sid[c]
        BY <1>2, <1>6, <3>1, <3>3, AfterTail
      <4>2. Head(toAgent).type = "CloseStream" => RemoteCloseStream
        BY <2>2 DEF AgentMessage, HandleConnectRequest, RemoteData, RemoteDataFails, RemoteHalfClose, FromClient
      <4>3. QED BY <1>3, <2>2, <3>3, <4>1, <4>2 DEF GoneFrom
    <3>4. QED BY <3>2, <3>3
  <2>3. QED BY <2>1, <2>2
<1>7. QED BY <1>4, <1>5, <1>6 DEF GoneFrom

LEMMA OnlyStep ==
  TunnelInv /\ ClosedOnce /\ AskedInv /\ EarlyInv /\ OnlyInv /\ Next => OnlyInv'
<1> SUFFICES ASSUME TunnelInv, ClosedOnce, AskedInv, EarlyInv, OnlyInv, Next, Live', NEW c \in Conns
             PROVE  /\ Dials(c)' \/ Opens(c)' => GoneFrom(0, c)'
                    /\ \A k \in 1..Len(toAgent') : AsksAt(k, c)' => GoneFrom(k, c)'
  BY DEF OnlyInv
<1>1. Live /\ link' = "up" /\ mapped'
  BY LiveBefore
<1>2. /\ Names /\ Requests /\ TypeOK /\ Nil \notin Conns
  BY TunnelAssumption DEF TunnelInv
<1>3. /\ toAgent \in Seq(Messages) /\ SentUp \in SUBSET Messages /\ Len(toAgent) \in Nat
      /\ remotes \in [Ids -> Conns \cup {Nil}]
  BY <1>2, LenProperties DEF TypeOK, LinkTypes, AgentTypes, SentUp
<1>4. accepted[c] \notin Early => sid[c] \in Ids
  BY <1>2, SidIsId DEF Early
<1>5. Dials(c) \/ Opens(c) => GoneFrom(0, c)
  BY <1>1 DEF OnlyInv
<1>6. \A k \in 1..Len(toAgent) : AsksAt(k, c) =>
        GoneFrom(k, c) /\ sid[c] \in Ids /\ reading[c] = "none"
  BY <1>1, <1>2, <1>4 DEF OnlyInv, AsksAt, Requests
<1>7. Dials(c) => sid[c] \in Ids /\ reading[c] = "none" /\ dialing.sid = sid[c] /\ ~AgentMessage
  BY <1>2, <1>4, DialingMoves DEF Dials, Requests, Names, Named
<1>8. Opens(c) => reading[c] # "none"
  BY <1>2 DEF Opens, ClosedOnce
<1>9. ASSUME Dials(c) PROVE GoneFrom(0, c)'
  <2>1. 0 \in 0..Len(toAgent)
    BY <1>3
  <2>2. QED BY <1>5, <1>7, <1>9, <2>1, GoneKept
<1>10. ASSUME Dials(c)' PROVE GoneFrom(0, c)'
  <2>1. CASE dialing' = dialing
    BY <1>9, <1>10, <2>1 DEF Dials
  <2>2. CASE HandleConnectRequest
    <3>1. /\ AgentMessage /\ toAgent # <<>> /\ Head(toAgent).type = "ConnectReq" /\ dialing' = Head(toAgent)
      BY <2>2 DEF AgentMessage, HandleConnectRequest, FromClient
    <3>2. Head(toAgent) = toAgent[1] /\ 1 \in 1..Len(toAgent)
      BY <1>3, <3>1, TailIs
    <3>3. AsksAt(1, c)
      BY <1>10, <3>1, <3>2 DEF AsksAt, Dials
    <3>4. GoneFrom(1, c) /\ sid[c] \in Ids /\ reading[c] = "none" /\ 1 \in 0..Len(toAgent)
      BY <1>3, <1>6, <3>2, <3>3
    <3>5. GoneFrom(1 - 1, c)'
      BY <3>1, <3>4, GoneKept
    <3>6. QED BY <3>5
  <2>3. QED BY <1>10, <2>1, <2>2, DialingMoves DEF Dials
<1>11. ASSUME Opens(c)' PROVE GoneFrom(0, c)'
  <2> DEFINE i == sid'[c]
  <2>1. i \in Ids /\ remotes'[i] = c
    BY <1>11 DEF Opens
  <2> HIDE DEF i
  <2>2. CASE remotes[i] = c
    <3>1. sid[c] = i
      BY <1>2, <2>1, <2>2 DEF Names
    <3>2. Opens(c)
      BY <2>1, <2>2, <3>1 DEF Opens
    <3>3. 0 \in 0..Len(toAgent)
      BY <1>3
    <3>4. GoneFrom(0, c)' \/ (RemoteCloseStream /\ Head(toAgent).sid = i)
      BY <1>5, <2>1, <2>2, <3>1, <3>2, <3>3, GoneKept
    <3>5. RemoteCloseStream /\ Head(toAgent).sid = i => remotes'[i] = Nil
      BY <1>3, <2>1 DEF RemoteCloseStream, CloseRemote
    <3>6. QED BY <1>2, <2>1, <3>4, <3>5
  <2>3. CASE remotes[i] # c
    <3>1. dialing # Nil /\ dialing.conn = c
      BY <1>2, <2>1, <2>3, RemotesMove
    <3>2. QED BY <1>9, <3>1 DEF Dials
  <2>4. QED BY <2>2, <2>3
<1>12. ASSUME NEW k \in 1..Len(toAgent'), AsksAt(k, c)' PROVE GoneFrom(k, c)'
  <2>1. CASE AgentMessage
    <3>1. toAgent # <<>> /\ toAgent' = Tail(toAgent)
      BY <2>1, TakesUp
    <3>2. k + 1 \in 1..Len(toAgent) /\ toAgent'[k] = toAgent[k + 1]
      BY <1>3, <3>1, TailIs
    <3>3. AsksAt(k + 1, c)
      BY <1>12, <3>2 DEF AsksAt
    <3>4. GoneFrom(k + 1, c) /\ sid[c] \in Ids /\ reading[c] = "none" /\ k + 1 \in 0..Len(toAgent) /\ k + 1 >= 1
      BY <1>3, <1>6, <3>2, <3>3
    <3>5. GoneFrom((k + 1) - 1, c)'
      BY <2>1, <3>4, GoneKept
    <3>6. (k + 1) - 1 = k
      BY <1>3, <3>1, TailIs
    <3>7. QED BY <3>5, <3>6
  <2>2. CASE ~AgentMessage /\ k \in 1..Len(toAgent)
    <3>1. toAgent'[k] = toAgent[k]
      BY <1>1, <2>2, UpGrows DEF Grows
    <3>2. AsksAt(k, c)
      BY <1>12, <3>1 DEF AsksAt
    <3>3. GoneFrom(k, c) /\ sid[c] \in Ids /\ reading[c] = "none" /\ k \in 0..Len(toAgent)
      BY <1>3, <1>6, <2>2, <3>2
    <3>4. QED BY <2>2, <3>3, GoneKept
  <2>3. CASE ~AgentMessage /\ k \notin 1..Len(toAgent)
    <3>1. Continues(toAgent, toAgent', SentUp)
      BY <1>1, UpMoves
    <3>2. ~(toAgent # <<>> /\ toAgent' = Tail(toAgent))
      BY <1>3, <2>3, TailIs
    <3>3. PICK m \in SentUp : toAgent' = Append(toAgent, m)
      BY <2>3, <3>1, <3>2 DEF Continues
    <3>4. toAgent'[k] = m
      BY <1>3, <2>3, <3>3, AppendIs
    <3>5. accepted[c] = "mapped"
      BY <1>12, <3>4 DEF AsksAt, SentUp
    <3>6. sid'[c] = sid[c] /\ streams'[sid[c]] = c
      BY <3>5, EarlyStays
    <3>7. QED BY <3>6 DEF GoneFrom
  <2>4. QED BY <2>1, <2>2, <2>3
<1>13. QED BY <1>10, <1>11, <1>12

TablesInv == GoneInv /\ AskedInv /\ EarlyInv /\ AnsweredInv /\ OnlyInv

LEMMA InitTables == Init => TablesInv
<1> SUFFICES ASSUME Init PROVE TablesInv
  OBVIOUS
<1>1. Len(<<>>) = 0 /\ 1..0 = {}
  BY EmptySeq
<1>2. GoneInv /\ AskedInv
  BY <1>1 DEF Init, GoneInv, AskedInv
<1>3. EarlyInv /\ AnsweredInv
  BY DEF Init, EarlyInv, AnsweredInv, Early
<1>4. OnlyInv
  BY <1>1, TunnelAssumption DEF Init, OnlyInv, Dials, Opens
<1>5. QED BY <1>2, <1>3, <1>4 DEF TablesInv

LEMMA StepTables == TunnelIInv /\ EndInv /\ TablesInv /\ [Next]_vars => TablesInv'
<1> SUFFICES ASSUME TunnelIInv, EndInv, TablesInv, [Next]_vars PROVE TablesInv'
  OBVIOUS
<1>1. CASE Next
  BY <1>1, GoneStep, AskedStep, EarlyStep, AnsweredStep, OnlyStep DEF TunnelIInv, EndInv, TablesInv
<1>2. CASE UNCHANGED vars
  <2>1. UNCHANGED clientVars /\ UNCHANGED agentVars /\ UNCHANGED linkVars
    BY <1>2 DEF vars
  <2>2. GoneInv' /\ AskedInv' /\ EarlyInv'
    BY <2>1 DEF clientVars, agentVars, linkVars, TablesInv, GoneInv, AskedInv, EarlyInv, Live
  <2>3. AnsweredInv'
    BY <2>1 DEF clientVars, agentVars, linkVars, TablesInv, AnsweredInv, Live, Requested, Dials, Has
  <2>4. OnlyInv'
    BY <2>1 DEF clientVars, agentVars, linkVars, TablesInv, OnlyInv, Live, Dials, Opens, AsksAt, GoneFrom, HasAfter
  <2>5. QED BY <2>2, <2>3, <2>4 DEF TablesInv
<1>3. QED BY <1>1, <1>2

LEMMA TablesAgree == TunnelIInv /\ TablesInv => TablesAgreeWhenQuiet
<1> SUFFICES ASSUME TunnelIInv, TablesInv, Quiet, NEW c \in Conns, accepted[c] \notin {"registered", "mapped"}
             PROVE  AgreeOn(c)
  BY DEF TablesAgreeWhenQuiet
<1>1. /\ Names /\ TypeOK /\ Live /\ toAgent = <<>> /\ toClient = <<>> /\ dialing = Nil
  BY DEF TunnelIInv, TunnelInv, Quiet, Live
<1>2. Len(<<>>) = 0 /\ 1..0 = {}
  BY EmptySeq
<1>3. CASE sid[c] = 0
  BY <1>3 DEF AgreeOn
<1>4. CASE sid[c] # 0
  <2>1. accepted[c] \notin Early /\ sid[c] \in Ids
    BY <1>1, <1>4, SidIsId DEF Names, Early
  <2>2. streams[sid[c]] = c => remotes[sid[c]] = c
    BY <1>1, <1>2, <2>1 DEF TablesInv, AnsweredInv, Requested, Dials, Has
  <2>3. remotes[sid[c]] = c => streams[sid[c]] = c
    BY <1>1, <1>2, <2>1 DEF TablesInv, OnlyInv, Opens, GoneFrom, HasAfter
  <2>4. QED BY <2>2, <2>3 DEF AgreeOn
<1>5. QED BY <1>3, <1>4

\* With the link up and nothing under way, a stream is open at the client exactly when it
\* is open at the agent: no order of refusals, failed writes, resets and closes at both
\* ends leaves it open at one of them (closeStreamWithNotify, closeStream).
THEOREM TablesAgreeAlways == Spec => []TablesAgreeWhenQuiet
<1>1. Init => TunnelIInv /\ EndInv /\ TablesInv
  BY InitTunnel, InitEnd, InitTables
<1>2. TunnelIInv /\ EndInv /\ TablesInv /\ [Next]_vars => TunnelIInv' /\ EndInv' /\ TablesInv'
  BY StepTunnel, StepEnd, StepTables
<1>3. TunnelIInv /\ TablesInv => TablesAgreeWhenQuiet
  BY TablesAgree
<1>4. QED BY <1>1, <1>2, <1>3, PTL DEF Spec

-----------------------------------------------------------------------------
(* Every connection has its stream to itself.                               *)

\* The stream of c takes a step of its own, or none.
Alone(c) == [StreamOf(c)!Next]_(StreamOf(c)!vars)

LEMMA SameIsAlone ==
  ASSUME NEW c \in Conns,
         local'[c] = local[c], up'[c] = up[c], localGot'[c] = localGot[c],
         remote'[c] = remote[c], down'[c] = down[c], remoteGot'[c] = remoteGot[c]
  PROVE  Alone(c)
BY DEF Alone, StreamOf!vars

\* A connection is there once it was accepted, and open as long as a table holds it.
LocalInv ==
  /\ \A c \in Conns : local[c] = "none" <=> accepted[c] = "none"
  /\ \A i \in Ids : streams[i] # Nil => local[streams[i]] = "open"
  /\ \A i \in Ids : connMap[i] # Nil => sid[connMap[i]] = i

\* The agent has yet to dial c.
Undialed(c) ==
  accepted[c] \in Early \/ (dialing # Nil /\ dialing.conn = c) \/ Requested(toAgent, c)
RemoteInv ==
  /\ \A i \in Ids : remotes[i] # Nil => remote[remotes[i]] \in {"open", "wclosed"}
  /\ \A c \in Conns : Undialed(c) => remote[c] = "none"
  /\ \A c \in Conns : reading[c] # "none" => remote[c] # "none"

StreamInv == LocalInv /\ RemoteInv

\* A chunk under way was read, and not yet written.
LEMMA NextUpWasRead ==
  ASSUME TunnelInv, UpInv, toAgent # <<>>, Head(toAgent).type = "Data",
         NEW c \in Conns, remotes[Head(toAgent).sid] = c
  PROVE  Len(remoteGot[c]) < up[c] /\ 1 \in DataAt(toAgent, c)
<1>1. /\ toAgent \in Seq(Messages) /\ remotes \in [Ids -> Conns \cup {Nil}] /\ Nil \notin Conns
      /\ remoteGot \in [Conns -> Seq(Conns \X Nat)] /\ up \in [Conns -> Nat]
      /\ link = "up"
  BY TunnelAssumption DEF TunnelInv, TypeOK, LinkTypes, AgentTypes, ClientTypes, LinkInv
<1>2. Head(toAgent) = toAgent[1] /\ 1 \in 1..Len(toAgent) /\ Head(toAgent).sid \in Ids /\ Head(toAgent).chunk \in Nat
  BY <1>1, TailIs, AfterTake
<1>3. Head(toAgent).conn = c
  BY <1>1, NextUp
<1>4. 1 \in DataAt(toAgent, c)
  BY <1>2, <1>3 DEF DataAt
<1>5. UpAlive(c)
  BY <1>2 DEF UpAlive
<1>6. InFlight(toAgent, c, Len(remoteGot[c]), LastUp(c))
  BY <1>1, <1>5 DEF UpInv
<1>7. Len(remoteGot[c]) < toAgent[1].chunk /\ toAgent[1].chunk <= LastUp(c)
  BY <1>4, <1>6 DEF InFlight
<1>8. up[c] \in Nat /\ Len(remoteGot[c]) \in Nat
  BY <1>1, LenProperties
<1>9. LastUp(c) \in Int /\ LastUp(c) <= up[c]
  BY <1>8 DEF LastUp
<1>10. QED BY <1>2, <1>4, <1>7, <1>8, <1>9

LEMMA NextDownWasRead ==
  ASSUME TunnelInv, DownInv, toClient # <<>>, Head(toClient).type = "Data",
         NEW c \in Conns, streams[Head(toClient).sid] = c
  PROVE  Len(localGot[c]) < down[c]
<1>1. /\ toClient \in Seq(Messages) /\ streams \in [Ids -> Conns \cup {Nil}] /\ Nil \notin Conns
      /\ localGot \in [Conns -> Seq(Conns \X Nat)] /\ down \in [Conns -> Nat]
      /\ link = "up"
  BY TunnelAssumption DEF TunnelInv, TypeOK, LinkTypes, AgentTypes, ClientTypes, LinkInv
<1>2. Head(toClient) = toClient[1] /\ 1 \in 1..Len(toClient) /\ Head(toClient).sid \in Ids /\ Head(toClient).chunk \in Nat
  BY <1>1, TailIs, AfterTake
<1>3. Head(toClient).conn = c
  BY <1>1, NextDown
<1>4. 1 \in DataAt(toClient, c)
  BY <1>2, <1>3 DEF DataAt
<1>5. DownAlive(c)
  BY <1>2 DEF DownAlive
<1>6. InFlight(toClient, c, Len(localGot[c]), LastDown(c))
  BY <1>1, <1>5 DEF DownInv
<1>7. Len(localGot[c]) < toClient[1].chunk /\ toClient[1].chunk <= LastDown(c)
  BY <1>4, <1>6 DEF InFlight
<1>8. down[c] \in Nat /\ Len(localGot[c]) \in Nat
  BY <1>1, LenProperties
<1>9. LastDown(c) \in Int /\ LastDown(c) <= down[c]
  BY <1>8 DEF LastDown
<1>10. QED BY <1>2, <1>7, <1>8, <1>9

\* What closing a stream does to the streams: one of them ends at the client.
LEMMA CloseLocalAlone ==
  ASSUME TunnelInv, LocalInv, NEW i \in Ids, NEW notify, CloseLocal(i, notify),
         UNCHANGED <<sid, up, localGot>>, UNCHANGED agentVars,
         \A c \in Conns : accepted'[c] = "none" <=> accepted[c] = "none"
  PROVE  LocalInv' /\ \A c \in Conns : Alone(c)
<1>1. /\ streams \in [Ids -> Conns \cup {Nil}] /\ connMap \in [Ids -> Conns \cup {Nil}]
      /\ local \in [Conns -> {"none", "open", "closed"}] /\ Nil \notin Conns /\ Names
  BY TunnelAssumption DEF TunnelInv, TypeOK, ClientTypes
<1>2. UNCHANGED <<remote, down, remoteGot>>
  BY DEF agentVars
<1>3. CASE streams[i] = Nil
  <2>1. UNCHANGED <<connMap, local>> /\ streams' = [streams EXCEPT ![i] = Nil]
    BY <1>3 DEF CloseLocal
  <2>2. \A c \in Conns : Alone(c)
    BY <1>2, <2>1, SameIsAlone
  <2>3. LocalInv'
    BY <1>1, <2>1 DEF LocalInv
  <2>4. QED BY <2>2, <2>3
<1>4. ASSUME NEW d \in Conns, streams[i] = d PROVE LocalInv' /\ \A c \in Conns : Alone(c)
  <2>1. /\ streams' = [streams EXCEPT ![i] = Nil] /\ connMap' = [connMap EXCEPT ![i] = Nil]
        /\ local' = [local EXCEPT ![d] = "closed"]
    BY <1>1, <1>4 DEF CloseLocal
  <2>2. local[d] = "open" /\ sid[d] = i
    BY <1>1, <1>4 DEF LocalInv, Names
  <2>3. ASSUME NEW c \in Conns PROVE Alone(c)
    <3>1. CASE c = d
      <4>1. StreamOf(d)!CloseLocal
        BY <1>1, <1>2, <2>1, <2>2 DEF StreamOf!CloseLocal
      <4>2. QED BY <3>1, <4>1 DEF Alone, StreamOf!Next
    <3>2. CASE c # d
      BY <1>1, <1>2, <2>1, <3>2, SameIsAlone
    <3>3. QED BY <3>1, <3>2
  <2>4. LocalInv'
    <3>1. \A c \in Conns : local'[c] = "none" <=> accepted'[c] = "none"
      BY <1>1, <2>1, <2>2 DEF LocalInv
    <3>2. \A j \in Ids : streams'[j] # Nil => local'[streams'[j]] = "open"
      BY <1>1, <2>1, <2>2 DEF LocalInv, Names
    <3>3. \A j \in Ids : connMap'[j] # Nil => sid'[connMap'[j]] = j
      BY <1>1, <2>1 DEF LocalInv
    <3>4. QED BY <3>1, <3>2, <3>3 DEF LocalInv
  <2>5. QED BY <2>3, <2>4
<1>5. QED BY <1>1, <1>3, <1>4

\* And one of them at the agent.
LEMMA CloseRemoteAlone ==
  ASSUME TunnelInv, RemoteInv, NEW i \in Ids, NEW notify, NEW why, CloseRemote(i, notify, why),
         UNCHANGED <<local, up, localGot, down, remoteGot>>,
         \A c \in Conns : Undialed(c)' => Undialed(c),
         \A c \in Conns : reading'[c] # "none" => reading[c] # "none"
  PROVE  RemoteInv' /\ \A c \in Conns : Alone(c)
<1>1. /\ remotes \in [Ids -> Conns \cup {Nil}]
      /\ remote \in [Conns -> {"none", "open", "wclosed", "closed"}] /\ Nil \notin Conns /\ Names
  BY TunnelAssumption DEF TunnelInv, TypeOK, AgentTypes
<1>2. CASE remotes[i] = Nil
  <2>1. remote' = remote /\ remotes' = [remotes EXCEPT ![i] = Nil]
    BY <1>2 DEF CloseRemote
  <2>2. \A c \in Conns : Alone(c)
    BY <2>1, SameIsAlone
  <2>3. RemoteInv'
    BY <1>1, <2>1 DEF RemoteInv
  <2>4. QED BY <2>2, <2>3
<1>3. ASSUME NEW d \in Conns, remotes[i] = d PROVE RemoteInv' /\ \A c \in Conns : Alone(c)
  <2>1. /\ remotes' = [remotes EXCEPT ![i] = Nil] /\ remote' = [remote EXCEPT ![d] = "closed"]
    BY <1>1, <1>3 DEF CloseRemote
  <2>2. remote[d] \in {"open", "wclosed"} /\ sid[d] = i
    BY <1>1, <1>3 DEF RemoteInv, Names
  <2>3. ASSUME NEW c \in Conns PROVE Alone(c)
    <3>1. CASE c = d
      <4>1. StreamOf(d)!CloseRemote
        BY <1>1, <2>1, <2>2 DEF StreamOf!CloseRemote
      <4>2. QED BY <3>1, <4>1 DEF Alone, StreamOf!Next
    <3>2. CASE c # d
      BY <1>1, <2>1, <3>2, SameIsAlone
    <3>3. QED BY <3>1, <3>2
  <2>4. RemoteInv'
    <3>1. \A j \in Ids : remotes'[j] # Nil => remote'[remotes'[j]] \in {"open", "wclosed"}
      BY <1>1, <2>1, <2>2 DEF RemoteInv, Names
    <3>2. \A c \in Conns : Undialed(c)' => remote'[c] = "none"
      BY <1>1, <2>1, <2>2 DEF RemoteInv
    <3>3. \A c \in Conns : reading'[c] # "none" => remote'[c] # "none"
      BY <1>1, <2>1 DEF RemoteInv
    <3>4. QED BY <3>1, <3>2, <3>3 DEF RemoteInv
  <2>5. QED BY <2>3, <2>4
<1>4. QED BY <1>1, <1>2, <1>3

\* A connection that was dialed is not dialed again.
LEMMA UndialedMoves ==
  ASSUME TunnelInv, Next
  PROVE  /\ \A c \in Conns : Undialed(c)' => Undialed(c)
         /\ \A c \in Conns : (Connected /\ dialing.conn = c) => ~Undialed(c)'
<1>1. /\ toAgent \in Seq(Messages) /\ SentUp \in SUBSET Messages /\ Names /\ Requests
      /\ dialing \in Messages \cup {Nil}
  BY DEF TunnelInv, TypeOK, LinkTypes, AgentTypes, SentUp
<1>2. ASSUME NEW c \in Conns, Undialed(c)' PROVE Undialed(c)
  <2>1. CASE accepted'[c] \in Early
    BY <2>1, AcceptMoves DEF Undialed
  <2>2. CASE dialing' # Nil /\ dialing'.conn = c
    <3>1. CASE dialing' = dialing
      BY <2>2, <3>1 DEF Undialed
    <3>2. CASE HandleConnectRequest
      <4>1. /\ toAgent # <<>> /\ Head(toAgent).type = "ConnectReq" /\ dialing' = Head(toAgent)
        BY <3>2 DEF HandleConnectRequest, FromClient
      <4>2. toAgent[1] = Head(toAgent) /\ 1 \in 1..Len(toAgent)
        BY <1>1, <4>1, TailIs
      <4>3. Requested(toAgent, c)
        BY <2>2, <4>1, <4>2 DEF Requested
      <4>4. QED BY <4>3 DEF Undialed
    <3>3. QED BY <2>2, <3>1, <3>2, DialingMoves
  <2>3. CASE Requested(toAgent', c)
    <3>1. CASE \E m \in SentUp : m.type = "ConnectReq" /\ m.conn = c
      BY <3>1 DEF SentUp, Undialed, Early
    <3>2. CASE ~\E m \in SentUp : m.type = "ConnectReq" /\ m.conn = c
      <4>1. Follows(toAgent, toAgent', SentUp)
        BY UpMoves
      <4>2. \/ toAgent' = toAgent \/ toAgent' = <<>>
            \/ toAgent # <<>> /\ toAgent' = Tail(toAgent)
            \/ \E m \in Messages : (m.type = "ConnectReq" => m.conn # c) /\ toAgent' = Append(toAgent, m)
        BY <1>1, <3>2, <4>1 DEF Follows, Continues
      <4>3. Requested(toAgent, c)
        BY <1>1, <2>3, <4>2, RequestedKept
      <4>4. QED BY <4>3 DEF Undialed
    <3>3. QED BY <3>1, <3>2
  <2>4. QED BY <1>2, <2>1, <2>2, <2>3 DEF Undialed
<1>3. ASSUME NEW c \in Conns, Connected, dialing.conn = c PROVE ~Undialed(c)'
  <2>1. dialing # Nil /\ dialing' = Nil /\ UNCHANGED <<accepted, toAgent>>
    BY <1>3 DEF Connected, clientVars, linkVars
  <2>2. accepted[c] \notin Early /\ ~Requested(toAgent, c)
    BY <1>1, <1>3, <2>1 DEF Requests, Requested
  <2>3. accepted'[c] \notin Early /\ ~Requested(toAgent', c)
    BY <2>1, <2>2
  <2>4. QED BY <2>1, <2>3 DEF Undialed
<1>4. QED BY <1>2, <1>3

\* The actions of the client, one by one.
LEMMA AcceptAlone ==
  ASSUME TunnelInv, LocalInv, NEW d \in Conns, Accept(d)
  PROVE  LocalInv' /\ \A c \in Conns : Alone(c)
<1>1. /\ streams \in [Ids -> Conns \cup {Nil}] /\ connMap \in [Ids -> Conns \cup {Nil}]
      /\ local \in [Conns -> {"none", "open", "closed"}] /\ Nil \notin Conns /\ Names
      /\ sid \in [Conns -> 0..MaxStreams] /\ value \in 0..MaxStreams
      /\ accepted \in [Conns -> {"none", "registered", "mapped", "read", "send", "eof", "done"}]
  BY TunnelAssumption DEF TunnelInv, TypeOK, ClientTypes
<1>2. /\ accepted[d] = "none" /\ accepted' = [accepted EXCEPT ![d] = "registered"]
      /\ sid' = [sid EXCEPT ![d] = NextId] /\ streams' = [streams EXCEPT ![NextId] = d]
      /\ local' = [local EXCEPT ![d] = "open"] /\ value < MaxStreams
      /\ UNCHANGED <<connMap, up, localGot, remote, down, remoteGot>>
  BY DEF Accept, At, agentVars
<1>3. NextId \in Ids /\ NextId # 0 /\ sid[d] = 0 /\ \A c \in Conns : sid[c] # NextId
  BY <1>1, <1>2, TunnelAssumption DEF NextId, Ids, Names
<1>4. ASSUME NEW c \in Conns PROVE Alone(c)
  <2>1. CASE c = d
    <3>1. local[d] = "none" /\ local'[d] = "open"
      BY <1>1, <1>2 DEF LocalInv
    <3>2. StreamOf(d)!Accept
      BY <1>2, <3>1 DEF StreamOf!Accept
    <3>3. QED BY <2>1, <3>2 DEF Alone, StreamOf!Next
  <2>2. CASE c # d
    BY <1>1, <1>2, <2>2, SameIsAlone
  <2>3. QED BY <2>1, <2>2
<1>5. LocalInv'
  <2>1. \A c \in Conns : local'[c] = "none" <=> accepted'[c] = "none"
    BY <1>1, <1>2 DEF LocalInv
  <2>2. \A j \in Ids : streams'[j] # Nil => local'[streams'[j]] = "open"
    BY <1>1, <1>2 DEF LocalInv
  <2>3. \A j \in Ids : connMap'[j] # Nil => sid'[connMap'[j]] = j
    <3>1. \A j \in Ids : j # 0
      BY DEF Ids
    <3>2. QED BY <1>1, <1>2, <1>3, <3>1 DEF LocalInv
  <2>4. QED BY <2>1, <2>2, <2>3 DEF LocalInv
<1>6. QED BY <1>4, <1>5

LEMMA HandleLocalConnAlone ==
  ASSUME TunnelInv, LocalInv, NEW d \in Conns, HandleLocalConn(d)
  PROVE  LocalInv' /\ \A c \in Conns : Alone(c)
<1>1. /\ connMap \in [Ids -> Conns \cup {Nil}] /\ Nil \notin Conns /\ TypeOK /\ Names
      /\ accepted \in [Conns -> {"none", "registered", "mapped", "read", "send", "eof", "done"}]
  BY TunnelAssumption DEF TunnelInv, TypeOK, ClientTypes
<1>2. CASE EnterConnMap(d)
  <2>1. /\ accepted[d] = "registered" /\ accepted' = [accepted EXCEPT ![d] = "mapped"]
        /\ connMap' = [connMap EXCEPT ![sid[d]] = d]
        /\ UNCHANGED <<sid, streams, local, up, localGot, remote, down, remoteGot>>
    BY <1>2 DEF EnterConnMap, At, agentVars
  <2>2. \A c \in Conns : Alone(c)
    BY <2>1, SameIsAlone
  <2>3. \A c \in Conns : accepted'[c] = "none" <=> accepted[c] = "none"
    BY <1>1, <2>1
  <2>4. \A j \in Ids : connMap'[j] # Nil => sid[connMap'[j]] = j
    BY <1>1, <2>1 DEF LocalInv
  <2>5. QED BY <2>1, <2>2, <2>3, <2>4 DEF LocalInv
<1>3. CASE SendConnectReq(d) \/ SendLocalData(d) \/ SendHalfClose(d)
  <2>1. PICK from \in {"mapped", "send", "eof"}, then \in {"read", "done"}, m \in Messages :
          Named(m) /\ SendOrClose(d, from, m, then)
    BY <1>1, <1>3, ItSends
  <2>2. /\ accepted[d] # "none" /\ UNCHANGED <<sid, up, localGot>> /\ UNCHANGED agentVars
        /\ accepted' = [accepted EXCEPT ![d] = IF clientOpen THEN then ELSE "done"]
    BY <2>1 DEF SendOrClose
  <2>3. sid[d] \in Ids
    BY <1>1, <2>2, SidIsId
  <2>4. \A c \in Conns : accepted'[c] = "none" <=> accepted[c] = "none"
    BY <1>1, <2>2
  <2>5. CASE clientOpen
    <3>1. UNCHANGED <<streams, connMap, local>>
      BY <2>1, <2>5 DEF SendOrClose, KeepStreams
    <3>2. \A c \in Conns : Alone(c)
      BY <2>2, <3>1, SameIsAlone DEF agentVars
    <3>3. QED BY <2>2, <2>4, <3>1, <3>2 DEF LocalInv
  <2>6. CASE ~clientOpen
    <3>1. CloseLocal(sid[d], TRUE)
      BY <2>1, <2>6 DEF SendOrClose
    <3>2. QED BY <2>2, <2>3, <2>4, <3>1, CloseLocalAlone
  <2>7. QED BY <2>5, <2>6
<1>4. QED BY <1>2, <1>3 DEF HandleLocalConn

LEMMA ClientReadsAlone ==
  ASSUME TunnelInv, EndInv, LocalInv, NEW d \in Conns, ClientReads(d)
  PROVE  LocalInv' /\ \A c \in Conns : Alone(c)
<1>1. /\ TypeOK /\ Names /\ up \in [Conns -> Nat]
      /\ accepted \in [Conns -> {"none", "registered", "mapped", "read", "send", "eof", "done"}]
  BY DEF TunnelInv, TypeOK, ClientTypes
<1>2. /\ accepted[d] = "read" /\ \E to \in {"send", "eof", "done"} : accepted' = [accepted EXCEPT ![d] = to]
      /\ UNCHANGED <<sid, localGot>> /\ UNCHANGED agentVars
  BY DEF ClientReads, ReadLocal, ReadLocalEOF, ReadLocalError, At
<1>3. \A c \in Conns : accepted'[c] = "none" <=> accepted[c] = "none"
  BY <1>1, <1>2
<1>4. CASE ReadLocal(d)
  <2>1. local[d] = "open" /\ up' = [up EXCEPT ![d] = @ + 1] /\ UNCHANGED <<streams, connMap, local>>
    BY <1>4 DEF ReadLocal
  <2>2. remote[d] # "wclosed"
    BY <1>2 DEF EndInv, WriteSideEnds
  <2>3. ASSUME NEW c \in Conns PROVE Alone(c)
    <3>1. CASE c = d
      <4>1. StreamOf(d)!ReadLocal
        BY <1>1, <1>2, <2>1, <2>2 DEF StreamOf!ReadLocal, agentVars
      <4>2. QED BY <3>1, <4>1 DEF Alone, StreamOf!Next
    <3>2. CASE c # d
      <4>1. up'[c] = up[c]
        BY <1>1, <2>1, <3>2
      <4>2. QED BY <1>2, <2>1, <4>1, SameIsAlone DEF agentVars
    <3>3. QED BY <3>1, <3>2
  <2>4. QED BY <1>2, <1>3, <2>1, <2>3 DEF LocalInv
<1>5. CASE ReadLocalEOF(d)
  <2>1. UNCHANGED <<streams, connMap, local, up>>
    BY <1>5 DEF ReadLocalEOF
  <2>2. \A c \in Conns : Alone(c)
    BY <1>2, <2>1, SameIsAlone DEF agentVars
  <2>3. QED BY <1>2, <1>3, <2>1, <2>2 DEF LocalInv
<1>6. CASE ReadLocalError(d)
  <2>1. sid[d] \in Ids
    BY <1>1, <1>2, SidIsId
  <2>2. CloseLocal(sid[d], TRUE) /\ up' = up
    BY <1>6 DEF ReadLocalError
  <2>3. QED BY <1>2, <1>3, <2>1, <2>2, CloseLocalAlone
<1>7. QED BY <1>4, <1>5, <1>6 DEF ClientReads

LEMMA ClientMessageAlone ==
  ASSUME TunnelIInv, LocalInv, ClientMessage
  PROVE  LocalInv' /\ \A c \in Conns : Alone(c)
<1>1. /\ toClient \in Seq(Messages) /\ streams \in [Ids -> Conns \cup {Nil}] /\ Nil \notin Conns
      /\ localGot \in [Conns -> Seq(Conns \X Nat)] /\ TunnelInv
  BY TunnelAssumption DEF TunnelIInv, TunnelInv, TypeOK, ClientTypes, LinkTypes
<1>2. UNCHANGED <<sid, accepted, up>> /\ UNCHANGED agentVars
  BY DEF ClientMessage, LocalData, LocalDataFails, ConnectFailed, LocalCloseStream, KeepClientLoop
<1>3. toClient # <<>> /\ Head(toClient).sid \in Ids
  <2>1. toClient # <<>>
    BY DEF ClientMessage, LocalData, LocalDataFails, ConnectFailed, LocalCloseStream, FromAgent
  <2>2. QED BY <1>1, <2>1, AfterTake
<1>4. CASE LocalData
  <2> DEFINE d == streams[Head(toClient).sid]
             m == <<Head(toClient).conn, Head(toClient).chunk>>
  <2>1. /\ Head(toClient).type = "Data" /\ UNCHANGED <<streams, connMap, local>>
        /\ localGot' = IF d = Nil THEN localGot ELSE [localGot EXCEPT ![d] = Append(@, m)]
    BY <1>4 DEF LocalData, FromAgent, KeepStreams
  <2>2. LocalInv'
    BY <1>2, <2>1 DEF LocalInv
  <2>3. CASE d = Nil
    BY <1>2, <2>1, <2>2, <2>3, SameIsAlone DEF agentVars
  <2>4. CASE d # Nil
    <3>1. PICK e \in Conns : e = d
      BY <1>1, <1>3, <2>4
    <3>2. local[e] = "open"
      BY <1>1, <1>3, <2>4, <3>1 DEF LocalInv
    <3>3. m = <<e, Len(localGot[e]) + 1>>
      BY <1>1, <1>3, <2>1, <2>4, <3>1, NextDown DEF TunnelIInv
    <3>4. Len(localGot[e]) < down[e]
      BY <1>1, <1>3, <2>1, <3>1, NextDownWasRead DEF TunnelIInv
    <3>5. localGot' = [localGot EXCEPT ![e] = Append(@, <<e, Len(localGot[e]) + 1>>)]
      BY <2>1, <2>4, <3>1, <3>3
    <3> HIDE DEF d, m
    <3>6. ASSUME NEW c \in Conns PROVE Alone(c)
      <4>1. CASE c = e
        <5>1. localGot'[e] = Append(localGot[e], <<e, Len(localGot[e]) + 1>>)
          BY <1>1, <3>5
        <5>2. StreamOf(e)!WriteLocal
          BY <1>2, <2>1, <3>2, <3>4, <5>1
             DEF StreamOf!WriteLocal, StreamOf!NextChunk, StreamOf!Chunk, agentVars
        <5>3. QED BY <4>1, <5>2 DEF Alone, StreamOf!Next
      <4>2. CASE c # e
        <5>1. localGot'[c] = localGot[c]
          BY <1>1, <3>5, <4>2
        <5>2. QED BY <1>2, <2>1, <5>1, SameIsAlone DEF agentVars
      <4>3. QED BY <4>1, <4>2
    <3>7. QED BY <2>2, <3>6
  <2>5. QED BY <2>3, <2>4
<1>5. CASE LocalDataFails \/ ConnectFailed \/ LocalCloseStream
  <2>1. localGot' = localGot /\ \E n \in BOOLEAN : CloseLocal(Head(toClient).sid, n)
    BY <1>5 DEF LocalDataFails, ConnectFailed, LocalCloseStream
  <2>2. QED BY <1>1, <1>2, <1>3, <2>1, CloseLocalAlone
<1>6. QED BY <1>4, <1>5 DEF ClientMessage

LEMMA RemoveMapAlone ==
  ASSUME TunnelInv, LocalInv, RemoveMap
  PROVE  LocalInv' /\ \A c \in Conns : Alone(c)
<1> DEFINE gone == {i \in Ids : connMap[i] # Nil}
<1>1. /\ streams \in [Ids -> Conns \cup {Nil}] /\ connMap \in [Ids -> Conns \cup {Nil}]
      /\ local \in [Conns -> {"none", "open", "closed"}] /\ Nil \notin Conns /\ Names
  BY TunnelAssumption DEF TunnelInv, TypeOK, ClientTypes
<1>2. /\ streams' = [i \in Ids |-> IF i \in gone THEN Nil ELSE streams[i]]
      /\ local' = [c \in Conns |-> IF \E i \in gone : c \in {connMap[i], streams[i]}
                                   THEN "closed" ELSE local[c]]
      /\ UNCHANGED <<sid, accepted, connMap, up, localGot, remote, down, remoteGot>>
  BY DEF RemoveMap, agentVars
<1>3. gone = {i \in Ids : connMap[i] # Nil}
  OBVIOUS
<1> HIDE DEF gone
<1>4. ASSUME NEW c \in Conns, NEW i \in gone, c \in {connMap[i], streams[i]}
      PROVE  i \in Ids /\ sid[c] = i /\ local[c] # "none"
  <2>1. i \in Ids /\ sid[c] = i /\ i # 0
    BY <1>1, <1>3, <1>4 DEF LocalInv, Names, Ids
  <2>2. accepted[c] # "none"
    BY <1>1, <2>1 DEF Names
  <2>3. QED BY <2>1, <2>2 DEF LocalInv
<1>5. ASSUME NEW c \in Conns PROVE Alone(c)
  <2>1. CASE \E i \in gone : c \in {connMap[i], streams[i]}
    <3>1. local'[c] = "closed" /\ local[c] \in {"open", "closed"}
      BY <1>1, <1>2, <1>4, <2>1
    <3>2. CASE local[c] = "open"
      <4>1. StreamOf(c)!CloseLocal
        BY <1>2, <3>1, <3>2 DEF StreamOf!CloseLocal
      <4>2. QED BY <4>1 DEF Alone, StreamOf!Next
    <3>3. CASE local[c] = "closed"
      BY <1>2, <3>1, <3>3, SameIsAlone
    <3>4. QED BY <3>1, <3>2, <3>3
  <2>2. CASE ~\E i \in gone : c \in {connMap[i], streams[i]}
    BY <1>2, <2>2, SameIsAlone
  <2>3. QED BY <2>1, <2>2
<1>6. LocalInv'
  <2>1. \A c \in Conns : local'[c] = "none" <=> accepted'[c] = "none"
    BY <1>1, <1>2, <1>4 DEF LocalInv
  <2>2. ASSUME NEW j \in Ids, streams'[j] # Nil PROVE local'[streams'[j]] = "open"
    <3>1. j \notin gone /\ streams'[j] = streams[j] /\ streams[j] \in Conns /\ local[streams[j]] = "open" /\ sid[streams[j]] = j
      BY <1>1, <1>2, <2>2 DEF LocalInv, Names
    <3>2. ~\E i \in gone : streams[j] \in {connMap[i], streams[i]}
      BY <1>4, <3>1
    <3>3. QED BY <1>2, <3>1, <3>2
  <2>3. QED BY <1>2, <2>1, <2>2 DEF LocalInv
<1>7. QED BY <1>5, <1>6

\* The actions of the agent, one by one.
LEMMA RemoteInvKept ==
  ASSUME TunnelInv, RemoteInv, Next, UNCHANGED <<remotes, remote>>,
         \A c \in Conns : reading'[c] # "none" => reading[c] # "none"
  PROVE  RemoteInv'
<1>1. \A c \in Conns : Undialed(c)' => Undialed(c)
  BY UndialedMoves
<1>2. \A c \in Conns : Undialed(c)' => remote'[c] = "none"
  BY <1>1 DEF RemoteInv
<1>3. QED BY <1>2 DEF RemoteInv

LEMMA ConnectedAlone ==
  ASSUME TunnelInv, LocalInv, RemoteInv, Next, Connected
  PROVE  RemoteInv' /\ \A c \in Conns : Alone(c)
<1>1. /\ remotes \in [Ids -> Conns \cup {Nil}] /\ Nil \notin Conns /\ Names /\ Requests
      /\ remote \in [Conns -> {"none", "open", "wclosed", "closed"}]
      /\ reading \in [Conns -> {"none", "read", "send", "done"}]
      /\ local \in [Conns -> {"none", "open", "closed"}]
      /\ dialing \in Messages \cup {Nil}
  BY TunnelAssumption DEF TunnelInv, TypeOK, AgentTypes, ClientTypes
<1>2. dialing # Nil /\ UNCHANGED <<accepted, local, up, localGot, down, remoteGot>>
  BY DEF Connected, clientVars
<1>3. PICK d \in Conns : d = dialing.conn
  BY <1>1, <1>2 DEF Names, Named
<1>4. PICK i \in Ids : i = dialing.sid
  BY <1>1, <1>2 DEF Messages
<1>5. /\ remote' = [remote EXCEPT ![d] = IF agentOpen THEN "open" ELSE "closed"]
      /\ IF agentOpen THEN remotes' = [remotes EXCEPT ![i] = d] /\ reading' = [reading EXCEPT ![d] = "read"]
                      ELSE UNCHANGED <<remotes, reading>>
  BY <1>3, <1>4 DEF Connected
<1>6. remote[d] = "none"
  BY <1>2, <1>3 DEF RemoteInv, Undialed
<1>7. local[d] # "none"
  <2>1. accepted[d] \notin Early
    BY <1>1, <1>2, <1>3 DEF Requests
  <2>2. QED BY <2>1 DEF LocalInv, Early
<1>8. ASSUME NEW c \in Conns PROVE Alone(c)
  <2>1. CASE c = d
    <3>1. remote'[d] \in {"open", "closed"}
      BY <1>1, <1>5
    <3>2. StreamOf(d)!Dial
      BY <1>2, <1>6, <1>7, <3>1 DEF StreamOf!Dial
    <3>3. QED BY <2>1, <3>2 DEF Alone, StreamOf!Next
  <2>2. CASE c # d
    <3>1. remote'[c] = remote[c]
      BY <1>1, <1>5, <2>2
    <3>2. QED BY <1>2, <3>1, SameIsAlone
  <2>3. QED BY <2>1, <2>2
<1>9. RemoteInv'
  <2>1. \A j \in Ids : remotes'[j] # Nil => remote'[remotes'[j]] \in {"open", "wclosed"}
    <3>1. \A j \in Ids : remotes[j] # d
      BY <1>1, <1>6 DEF RemoteInv
    <3>2. QED BY <1>1, <1>5, <3>1 DEF RemoteInv
  <2>2. ASSUME NEW c \in Conns, Undialed(c)' PROVE remote'[c] = "none"
    <3>1. Undialed(c) /\ c # d
      BY <1>3, <2>2, UndialedMoves
    <3>2. QED BY <1>1, <1>5, <3>1 DEF RemoteInv
  <2>3. \A c \in Conns : reading'[c] # "none" => remote'[c] # "none"
    BY <1>1, <1>5 DEF RemoteInv
  <2>4. QED BY <2>1, <2>2, <2>3 DEF RemoteInv
<1>10. QED BY <1>8, <1>9

LEMMA RemoteDataAlone ==
  ASSUME TunnelIInv, EndInv, RemoteInv, Next, RemoteData
  PROVE  RemoteInv' /\ \A c \in Conns : Alone(c)
<1>1. /\ toAgent \in Seq(Messages) /\ remotes \in [Ids -> Conns \cup {Nil}] /\ Nil \notin Conns
      /\ remoteGot \in [Conns -> Seq(Conns \X Nat)] /\ TunnelInv
  BY TunnelAssumption DEF TunnelIInv, TunnelInv, TypeOK, AgentTypes, LinkTypes
<1>2. /\ UNCHANGED <<remotes, remote, reading>> /\ UNCHANGED <<local, up, localGot, down>>
      /\ toAgent # <<>> /\ Head(toAgent).type = "Data"
  BY DEF RemoteData, FromClient, clientVars
<1>3. RemoteInv'
  BY <1>1, <1>2, RemoteInvKept
<1>4. Head(toAgent).sid \in Ids
  BY <1>1, <1>2, AfterTake
<1> DEFINE d == remotes[Head(toAgent).sid]
           m == <<Head(toAgent).conn, Head(toAgent).chunk>>
<1>5. remoteGot' = IF d = Nil THEN remoteGot ELSE [remoteGot EXCEPT ![d] = Append(@, m)]
  BY DEF RemoteData
<1>6. CASE d = Nil
  BY <1>2, <1>3, <1>5, <1>6, SameIsAlone
<1>7. CASE d # Nil
  <2>1. PICK e \in Conns : e = d
    BY <1>1, <1>4, <1>7
  <2>2. m = <<e, Len(remoteGot[e]) + 1>>
    BY <1>1, <1>2, <2>1, NextUp DEF TunnelIInv
  <2>3. Len(remoteGot[e]) < up[e] /\ 1 \in DataAt(toAgent, e)
    BY <1>1, <1>2, <2>1, NextUpWasRead DEF TunnelIInv
  <2>4. remote[e] = "open"
    <3>1. remote[e] \in {"open", "wclosed"}
      BY <1>4, <1>7, <2>1 DEF RemoteInv
    <3>2. remote[e] # "wclosed"
      BY <2>3 DEF EndInv, WriteSideEnds
    <3>3. QED BY <3>1, <3>2
  <2>5. remoteGot' = [remoteGot EXCEPT ![e] = Append(@, <<e, Len(remoteGot[e]) + 1>>)]
    BY <1>5, <1>7, <2>1, <2>2
  <2> HIDE DEF d, m
  <2>6. ASSUME NEW c \in Conns PROVE Alone(c)
    <3>1. CASE c = e
      <4>1. remoteGot'[e] = Append(remoteGot[e], <<e, Len(remoteGot[e]) + 1>>)
        BY <1>1, <2>5
      <4>2. StreamOf(e)!WriteRemote
        BY <1>2, <2>3, <2>4, <4>1 DEF StreamOf!WriteRemote, StreamOf!NextChunk, StreamOf!Chunk
      <4>3. QED BY <3>1, <4>2 DEF Alone, StreamOf!Next
    <3>2. CASE c # e
      <4>1. remoteGot'[c] = remoteGot[c]
        BY <1>1, <2>5, <3>2
      <4>2. QED BY <1>2, <4>1, SameIsAlone
    <3>3. QED BY <3>1, <3>2
  <2>7. QED BY <1>3, <2>6
<1>8. QED BY <1>6, <1>7

LEMMA RemoteHalfCloseAlone ==
  ASSUME TunnelIInv, EndInv, RemoteInv, Next, RemoteHalfClose
  PROVE  RemoteInv' /\ \A c \in Conns : Alone(c)
<1>1. /\ toAgent \in Seq(Messages) /\ remotes \in [Ids -> Conns \cup {Nil}] /\ Nil \notin Conns
      /\ remote \in [Conns -> {"none", "open", "wclosed", "closed"}] /\ TunnelInv
  BY TunnelAssumption DEF TunnelIInv, TunnelInv, TypeOK, AgentTypes, LinkTypes
<1>2. /\ UNCHANGED <<remotes, reading>> /\ UNCHANGED <<local, up, localGot, down, remoteGot>>
      /\ toAgent # <<>>
  BY DEF RemoteHalfClose, FromClient, clientVars
<1>3. Head(toAgent).sid \in Ids
  BY <1>1, <1>2, AfterTake
<1> DEFINE d == remotes[Head(toAgent).sid]
<1>4. remote' = IF d = Nil THEN remote ELSE [remote EXCEPT ![d] = "wclosed"]
  BY DEF RemoteHalfClose
<1>5. CASE d = Nil
  <2>1. remote' = remote
    BY <1>4, <1>5
  <2>2. RemoteInv'
    BY <1>1, <1>2, <2>1, RemoteInvKept
  <2>3. QED BY <1>2, <2>1, <2>2, SameIsAlone
<1>6. CASE d # Nil
  <2>1. PICK e \in Conns : e = d
    BY <1>1, <1>3, <1>6
  <2>2. remote' = [remote EXCEPT ![e] = "wclosed"]
    BY <1>4, <1>6, <2>1
  <2>3. remote[e] \in {"open", "wclosed"}
    BY <1>3, <1>6, <2>1 DEF RemoteInv
  <2> HIDE DEF d
  <2>4. Len(remoteGot[e]) = up[e]
    <3>1. WriteSideEnds'
      BY <1>1, WriteSideEndsStep DEF TunnelIInv, EndInv
    <3>2. remote'[e] = "wclosed"
      BY <1>1, <2>2
    <3>3. Len(remoteGot'[e]) = up'[e]
      BY <3>1, <3>2 DEF WriteSideEnds
    <3>4. QED BY <1>2, <3>3
  <2>5. ASSUME NEW c \in Conns PROVE Alone(c)
    <3>1. CASE c = e /\ remote[e] = "open"
      <4>1. StreamOf(e)!EndRemote
        BY <1>1, <1>2, <2>2, <2>4, <3>1 DEF StreamOf!EndRemote
      <4>2. QED BY <3>1, <4>1 DEF Alone, StreamOf!Next
    <3>2. CASE c # e \/ remote[e] = "wclosed"
      <4>1. remote'[c] = remote[c]
        BY <1>1, <2>2, <3>2
      <4>2. QED BY <1>2, <4>1, SameIsAlone
    <3>3. QED BY <2>3, <3>1, <3>2
  <2>6. RemoteInv'
    <3>1. \A j \in Ids : remotes'[j] # Nil => remote'[remotes'[j]] \in {"open", "wclosed"}
      BY <1>1, <1>2, <2>2 DEF RemoteInv
    <3>2. ASSUME NEW c \in Conns, Undialed(c)' PROVE remote'[c] = "none"
      <4>1. remote[c] = "none"
        BY <1>1, <3>2, UndialedMoves DEF RemoteInv
      <4>2. QED BY <1>1, <2>2, <2>3, <4>1
    <3>3. \A c \in Conns : reading'[c] # "none" => remote'[c] # "none"
      BY <1>1, <1>2, <2>2 DEF RemoteInv
    <3>4. QED BY <3>1, <3>2, <3>3 DEF RemoteInv
  <2>7. QED BY <2>5, <2>6
<1>7. QED BY <1>5, <1>6

\* A message that closes the stream, the end of a reader, and CloseAll.
LEMMA RemoteClosesAlone ==
  ASSUME TunnelInv, RemoteInv, Next,
         \/ RemoteDataFails \/ RemoteCloseStream
         \/ \E i \in Ids : CloseAllNext(i)
         \/ \E c \in Conns : ReadRemoteEOF(c) \/ ReadRemoteError(c) \/ SendRemoteFails(c)
  PROVE  RemoteInv' /\ \A c \in Conns : Alone(c)
<1>1. /\ toAgent \in Seq(Messages) /\ reading \in [Conns -> {"none", "read", "send", "done"}]
      /\ TypeOK /\ Names /\ Requests
  BY DEF TunnelInv, TypeOK, AgentTypes, LinkTypes
<1>2. \A c \in Conns : Undialed(c)' => Undialed(c)
  BY UndialedMoves
<1>3. CASE RemoteDataFails \/ RemoteCloseStream \/ \E i \in Ids : CloseAllNext(i)
  <2>1. PICK i \in Ids, n \in BOOLEAN, why \in {"error", "request"} : CloseRemote(i, n, why)
    <3>1. RemoteDataFails \/ RemoteCloseStream => Head(toAgent).sid \in Ids
      BY <1>1, AfterTake DEF RemoteDataFails, RemoteCloseStream, FromClient
    <3>2. QED BY <1>3, <3>1 DEF RemoteDataFails, RemoteCloseStream, CloseAllNext
  <2>2. UNCHANGED <<local, up, localGot, down, remoteGot, reading>>
    BY <1>3 DEF RemoteDataFails, RemoteCloseStream, CloseAllNext, clientVars
  <2>3. QED BY <1>2, <2>1, <2>2, CloseRemoteAlone
<1>4. ASSUME NEW d \in Conns, ReadRemoteEOF(d) \/ ReadRemoteError(d) \/ SendRemoteFails(d)
      PROVE  RemoteInv' /\ \A c \in Conns : Alone(c)
  <2>1. PICK why \in {"eof", "error"} : ReadLoopEnds(d, why) /\ reading[d] # "none"
    BY <1>4 DEF ReadRemoteEOF, ReadRemoteError, SendRemoteFails
  <2>2. sid[d] \in Ids
    <3>1. accepted[d] # "none"
      BY <1>1, <2>1 DEF Requests, Early
    <3>2. QED BY <1>1, <3>1, SidIsId
  <2>3. /\ CloseRemote(sid[d], TRUE, why) /\ reading' = [reading EXCEPT ![d] = "done"]
        /\ UNCHANGED <<local, up, localGot, down, remoteGot>>
    BY <2>1 DEF ReadLoopEnds, clientVars
  <2>4. \A c \in Conns : reading'[c] # "none" => reading[c] # "none"
    BY <1>1, <2>1, <2>3
  <2>5. QED BY <1>2, <2>2, <2>3, <2>4, CloseRemoteAlone
<1>5. QED BY <1>3, <1>4

LEMMA ReadRemoteAlone ==
  ASSUME TunnelInv, RemoteInv, Next, NEW d \in Conns, ReadRemote(d) \/ SendRemoteData(d)
  PROVE  RemoteInv' /\ \A c \in Conns : Alone(c)
<1>1. /\ reading \in [Conns -> {"none", "read", "send", "done"}] /\ down \in [Conns -> Nat]
      /\ remote \in [Conns -> {"none", "open", "wclosed", "closed"}]
  BY DEF TunnelInv, TypeOK, AgentTypes
<1>2. /\ UNCHANGED <<remotes, remote>> /\ UNCHANGED <<local, up, localGot, remoteGot>>
      /\ reading[d] # "none" /\ \E to \in {"read", "send"} : reading' = [reading EXCEPT ![d] = to]
  BY DEF ReadRemote, SendRemoteData, clientVars
<1>3. RemoteInv'
  <2>1. \A c \in Conns : reading'[c] # "none" => reading[c] # "none"
    BY <1>1, <1>2
  <2>2. QED BY <1>2, <2>1, RemoteInvKept
<1>4. CASE ReadRemote(d)
  <2>1. down' = [down EXCEPT ![d] = @ + 1] /\ remote[d] # "closed"
    BY <1>4 DEF ReadRemote
  <2>2. remote[d] \in {"open", "wclosed"}
    BY <1>1, <1>2, <2>1 DEF RemoteInv
  <2>3. ASSUME NEW c \in Conns PROVE Alone(c)
    <3>1. CASE c = d
      <4>1. StreamOf(d)!ReadRemote
        BY <1>1, <1>2, <2>1, <2>2 DEF StreamOf!ReadRemote
      <4>2. QED BY <3>1, <4>1 DEF Alone, StreamOf!Next
    <3>2. CASE c # d
      <4>1. down'[c] = down[c]
        BY <1>1, <2>1, <3>2
      <4>2. QED BY <1>2, <4>1, SameIsAlone
    <3>3. QED BY <3>1, <3>2
  <2>4. QED BY <1>3, <2>3
<1>5. CASE SendRemoteData(d)
  <2>1. down' = down
    BY <1>5 DEF SendRemoteData
  <2>2. QED BY <1>2, <1>3, <2>1, SameIsAlone
<1>6. QED BY <1>4, <1>5

LEMMA InitStream == Init => StreamInv /\ \A c \in Conns : StreamOf(c)!Init
<1> SUFFICES ASSUME Init PROVE StreamInv /\ \A c \in Conns : StreamOf(c)!Init
  OBVIOUS
<1>1. Len(<<>>) = 0 /\ 1..0 = {}
  BY EmptySeq
<1>2. LocalInv
  BY DEF Init, LocalInv
<1>3. RemoteInv
  BY DEF Init, RemoteInv
<1>4. QED BY <1>2, <1>3 DEF StreamInv, Init, StreamOf!Init

LEMMA StepStream ==
  TunnelIInv /\ EndInv /\ StreamInv /\ [Next]_vars => StreamInv' /\ [\A c \in Conns : Alone(c)]_vars
<1> SUFFICES ASSUME TunnelIInv, EndInv, LocalInv, RemoteInv, [Next]_vars
             PROVE  LocalInv' /\ RemoteInv' /\ \A c \in Conns : Alone(c)
  BY DEF StreamInv
<1> DEFINE Goal == LocalInv' /\ RemoteInv' /\ \A c \in Conns : Alone(c)
<1>1. TunnelInv
  BY DEF TunnelIInv
<1>2. CASE UNCHANGED vars
  <2>1. UNCHANGED clientVars /\ UNCHANGED agentVars /\ UNCHANGED linkVars
    BY <1>2 DEF vars
  <2>2. LocalInv'
    BY <2>1 DEF LocalInv, clientVars
  <2>3. RemoteInv'
    BY <2>1 DEF RemoteInv, Undialed, Requested, clientVars, agentVars, linkVars
  <2>4. \A c \in Conns : Alone(c)
    BY <2>1, SameIsAlone DEF clientVars, agentVars
  <2>5. QED BY <2>2, <2>3, <2>4
<1>3. CASE Next
  <2> SUFFICES Goal
    OBVIOUS
  <2>1. ASSUME UNCHANGED agentVars PROVE RemoteInv'
    <3>1. UNCHANGED <<remotes, remote, reading>>
      BY <2>1 DEF agentVars
    <3>2. QED BY <1>1, <1>3, <3>1, RemoteInvKept
  <2>2. ASSUME UNCHANGED clientVars PROVE LocalInv'
    BY <2>2 DEF clientVars, LocalInv
  <2>3. ASSUME UNCHANGED clientVars, UNCHANGED agentVars PROVE Goal
    <3>1. \A c \in Conns : Alone(c)
      BY <2>3, SameIsAlone DEF clientVars, agentVars
    <3>2. QED BY <2>1, <2>2, <2>3, <3>1
  <2>4. ASSUME NEW c \in Conns, Accept(c) \/ HandleLocalConn(c) \/ ClientReads(c) PROVE Goal
    <3>1. UNCHANGED agentVars
      BY <2>4 DEF Accept, HandleLocalConn, EnterConnMap, SendConnectReq, SendLocalData, SendHalfClose,
         SendOrClose, ClientReads, ReadLocal, ReadLocalEOF, ReadLocalError
    <3>2. QED BY <1>1, <2>1, <2>4, <3>1, AcceptAlone, HandleLocalConnAlone, ClientReadsAlone
  <2>5. CASE ClientMessage
    <3>1. UNCHANGED agentVars
      BY <2>5 DEF ClientMessage, LocalData, LocalDataFails, ConnectFailed, LocalCloseStream
    <3>2. QED BY <2>1, <2>5, <3>1, ClientMessageAlone
  <2>6. CASE RemoveMap
    <3>1. UNCHANGED agentVars
      BY <2>6 DEF RemoveMap
    <3>2. QED BY <1>1, <2>1, <2>6, <3>1, RemoveMapAlone
  <2>7. CASE Connected
    <3>1. UNCHANGED clientVars
      BY <2>7 DEF Connected
    <3>2. QED BY <1>1, <1>3, <2>2, <2>7, <3>1, ConnectedAlone
  <2>8. CASE ConnectRefused \/ HandleConnectRequest
    <3>1. UNCHANGED clientVars /\ UNCHANGED <<remotes, remote, reading, down, remoteGot>>
      BY <2>8 DEF ConnectRefused, HandleConnectRequest
    <3>2. RemoteInv'
      BY <1>1, <1>3, <3>1, RemoteInvKept
    <3>3. \A c \in Conns : Alone(c)
      BY <3>1, SameIsAlone DEF clientVars
    <3>4. QED BY <2>2, <3>1, <3>2, <3>3
  <2>9. CASE RemoteData
    <3>1. UNCHANGED clientVars
      BY <2>9 DEF RemoteData
    <3>2. QED BY <1>3, <2>2, <2>9, <3>1, RemoteDataAlone
  <2>10. CASE RemoteHalfClose
    <3>1. UNCHANGED clientVars
      BY <2>10 DEF RemoteHalfClose
    <3>2. QED BY <1>3, <2>2, <2>10, <3>1, RemoteHalfCloseAlone
  <2>11. CASE \/ RemoteDataFails \/ RemoteCloseStream
              \/ \E i \in Ids : CloseAllNext(i)
              \/ \E c \in Conns : ReadRemoteEOF(c) \/ ReadRemoteError(c) \/ SendRemoteFails(c)
    <3>1. UNCHANGED clientVars
      BY <2>11 DEF RemoteDataFails, RemoteCloseStream, CloseAllNext, ReadRemoteEOF, ReadRemoteError,
                   SendRemoteFails, ReadLoopEnds
    <3>2. QED BY <1>1, <1>3, <2>2, <2>11, <3>1, RemoteClosesAlone
  <2>12. ASSUME NEW c \in Conns, ReadRemote(c) \/ SendRemoteData(c) PROVE Goal
    <3>1. UNCHANGED clientVars
      BY <2>12 DEF ReadRemote, SendRemoteData
    <3>2. QED BY <1>1, <1>3, <2>2, <2>12, <3>1, ReadRemoteAlone
  <2>13. CASE ClientClosesPeer \/ CleanupBegins \/ AgentClosesPeer \/ LinkLost \/ ClientNotices
    <3>1. UNCHANGED clientVars /\ UNCHANGED agentVars
      BY <2>13 DEF ClientClosesPeer, CleanupBegins, AgentClosesPeer, LinkLost, ClientNotices
    <3>2. QED BY <2>3, <3>1
  <2> HIDE DEF Goal
  <2>14. QED
    BY <1>3, <2>4, <2>5, <2>6, <2>7, <2>8, <2>9, <2>10, <2>11, <2>12, <2>13
       DEF Next, AgentReads, AgentSends, AgentMessage, Dialed, CloseAll
<1>4. QED BY <1>2, <1>3

\* Every connection has its stream as if it were alone on the link: whatever the handlers,
\* readers, dials and cleanups of all the others do, and in whatever order, each step of the
\* tunnel is a step of the pipe between this application and the service, or none
\* (manager.go, client.go).
THEOREM EachConnectionIsAStream == Spec => EachIsAStream
<1> DEFINE I == TunnelIInv /\ EndInv /\ StreamInv
<1>1. Init => I /\ \A c \in Conns : StreamOf(c)!Init
  BY InitTunnel, InitEnd, InitStream
<1>2. I /\ [Next]_vars => I' /\ [\A c \in Conns : Alone(c)]_vars
  BY StepTunnel, StepEnd, StepStream
<1> HIDE DEF I
<1>3. Spec => (\A c \in Conns : StreamOf(c)!Init) /\ [][\A c \in Conns : Alone(c)]_vars
  BY <1>1, <1>2, PTL DEF Spec
<1>4. QED BY <1>3 DEF EachIsAStream, Alone
=============================================================================
