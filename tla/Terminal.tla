------------------------------- MODULE Terminal -------------------------------
(***************************************************************************)
(* The persistent terminal of an agent: the PTY session with its reader    *)
(* and its waiter (pkg/terminal/session.go), and the agent's handlers that *)
(* open, close and detach it (cmd/agent/main.go).                          *)
(*                                                                         *)
(* Output is counted in chunks, one per read.  RingBuffer is the replay    *)
(* buffer; here a replay hands over everything up to the last chunk read.  *)
(* Every sink and every exit callback sends to the agent's current peer,   *)
(* whichever connection they were made for, so both are Booleans.  The     *)
(* peer is only a link that may carry messages; keyboard input and the     *)
(* size of the window change nothing that is kept here.                    *)
(***************************************************************************)
EXTENDS Naturals

CONSTANTS
  Opens,     \* goroutines that handle TermOpen messages
  MaxSess,   \* bound: shells that can be started; a later start fails
  MaxOut     \* bound: chunks read from one shell

ASSUME TerminalAssumption == MaxSess \in Nat \ {0} /\ MaxOut \in Nat

Nil  == 0
Sess == 1..MaxSess

VARIABLES
  link,      \* a.peer: "none", "opening", or "open" for messages
  term,      \* a.term
  started,   \* sessions created so far: 1..started
  sess,      \* the fields of each Session
  reader,    \* readLoop: the chunk it holds (0: none) and the sink it took with it
  waiter,    \* waitLoop: "waiting", "telling" the callback it took, or "done"
  open,      \* goroutines of handleTermOpen
  closer,    \* handleTermClose: the session it has taken from a.term, or Nil
  cleaner,   \* a goroutine in cleanup()
  from,      \* first chunk after the replay this connection was sent (0: none)
  shown,     \* chunks sent to this connection since that replay
  told       \* sessions whose exit was reported

agentVars == <<term, started, sess, reader, waiter>>
viewVars  == <<from, shown, told>>
vars == <<link, agentVars, open, closer, cleaner, viewVars>>

NewSession == [out |-> 0, sink |-> FALSE, closed |-> FALSE, exited |-> FALSE, onExit |-> FALSE]
NoOpen == [pc |-> "idle", s |-> Nil]
NoClean == [pc |-> "idle", s |-> Nil]
Nothing == [k |-> 0, sink |-> FALSE]

Session == [out : 0..MaxOut, sink : BOOLEAN, closed : BOOLEAN, exited : BOOLEAN, onExit : BOOLEAN]
Reader  == [k : 0..MaxOut, sink : BOOLEAN]
Opening == [pc : {"idle", "ensure", "attach", "onExit", "tell"}, s : 0..MaxSess]
Cleaner == [pc : {"idle", "detach", "peer"}, s : 0..MaxSess]

TypeOK ==
  /\ link \in {"none", "opening", "open"}
  /\ term \in 0..started
  /\ started \in 0..MaxSess
  /\ sess \in [Sess -> Session]
  /\ reader \in [Sess -> Reader]
  /\ waiter \in [Sess -> {"waiting", "telling", "done"}]
  /\ open \in [Opens -> Opening]
  /\ closer \in 0..started
  /\ cleaner \in Cleaner
  /\ from \in [Sess -> 0 .. MaxOut + 1]
  /\ shown \in [Sess -> SUBSET (1..MaxOut)]
  /\ told \in SUBSET Sess

Init ==
  /\ link = "none"
  /\ term = Nil
  /\ started = 0
  /\ sess = [s \in Sess |-> NewSession]
  /\ reader = [s \in Sess |-> Nothing]
  /\ waiter = [s \in Sess |-> "waiting"]
  /\ open = [o \in Opens |-> NoOpen]
  /\ closer = Nil
  /\ cleaner = NoClean
  /\ from = [s \in Sess |-> 0]
  /\ shown = [s \in Sess |-> {}]
  /\ told = {}

Alive(s) == ~sess[s].closed /\ ~sess[s].exited
TermAlive == term # Nil /\ Alive(term)

-----------------------------------------------------------------------------
\* The two goroutines of a session.

\* Mutant: the sink is taken once, before the loop.
ReadChunk_EarlySink(s) ==
  /\ s <= started
  /\ reader[s].k = 0 /\ sess[s].out < MaxOut
  /\ sess' = [sess EXCEPT ![s].out = @ + 1]
  /\ reader' = [reader EXCEPT ![s] = [k |-> sess[s].out + 1, sink |-> FALSE]]
  /\ UNCHANGED <<link, term, started, waiter, open, closer, cleaner, viewVars>>

\* A chunk is read and, under the session's lock, kept and paired with the sink.
ReadChunk(s) ==
  /\ s <= started
  /\ reader[s].k = 0 /\ sess[s].out < MaxOut
  /\ sess' = [sess EXCEPT ![s].out = @ + 1]
  /\ reader' = [reader EXCEPT ![s] = [k |-> sess[s].out + 1, sink |-> sess[s].sink]]
  /\ UNCHANGED <<link, term, started, waiter, open, closer, cleaner, viewVars>>

\* The sink is called after the unlock; a peer that is not open drops it.
PushChunk(s) ==
  /\ reader[s].k # 0
  /\ shown' = IF reader[s].sink /\ link = "open"
              THEN [shown EXCEPT ![s] = @ \cup {reader[s].k}] ELSE shown
  /\ reader' = [reader EXCEPT ![s] = Nothing]
  /\ UNCHANGED <<link, term, started, sess, waiter, open, closer, cleaner, from, told>>

\* Wait returns: by itself, or because Close killed the process.
ShellExits(s) ==
  /\ s <= started /\ ~sess[s].exited
  /\ sess' = [sess EXCEPT ![s].exited = TRUE]
  /\ waiter' = [waiter EXCEPT ![s] = IF sess[s].onExit THEN "telling" ELSE "done"]
  /\ UNCHANGED <<link, term, started, reader, open, closer, cleaner, viewVars>>

\* sendTermExit.
ReportExit(s) == told' = told \cup {s}

WaiterTells(s) ==
  /\ waiter[s] = "telling"
  /\ ReportExit(s)
  /\ waiter' = [waiter EXCEPT ![s] = "done"]
  /\ UNCHANGED <<link, term, started, sess, reader, open, closer, cleaner, from, shown>>

-----------------------------------------------------------------------------
\* handleTermOpen, in a goroutine of its own.

TermOpen(o) ==
  /\ link = "open"
  /\ open[o].pc = "idle"
  /\ open' = [open EXCEPT ![o].pc = "ensure"]
  /\ UNCHANGED <<link, agentVars, closer, cleaner, viewVars>>

\* Close: under the lock the sink goes too; the process is killed afterwards.
Closed(s) == [sess[s] EXCEPT !.closed = TRUE, !.sink = FALSE]

KeepTerminal(o) ==
  /\ open[o].pc = "ensure"
  /\ TermAlive
  /\ open' = [open EXCEPT ![o] = [pc |-> "attach", s |-> term]]
  /\ UNCHANGED <<link, agentVars, closer, cleaner, viewVars>>

\* Mutant: the result of New is kept though it failed.
StartTerminal_ErrorIgnored(o) ==
  /\ open[o].pc = "ensure"
  /\ ~TermAlive
  /\ sess' = IF term = Nil THEN sess ELSE [sess EXCEPT ![term] = Closed(term)]
  /\ term' = started + 1
  /\ started' = IF started < MaxSess THEN started + 1 ELSE started
  /\ open' = [open EXCEPT ![o] = [pc |-> "attach", s |-> started + 1]]
  /\ UNCHANGED <<link, reader, waiter, closer, cleaner, viewVars>>

\* The old session, if any, has ended: it is closed and a shell is started.  A failure
\* is reported, but is no shell's exit.
StartTerminal(o) ==
  /\ open[o].pc = "ensure"
  /\ ~TermAlive
  /\ sess' = IF term = Nil THEN sess ELSE [sess EXCEPT ![term] = Closed(term)]
  /\ IF started < MaxSess
     THEN /\ started' = started + 1
          /\ term' = started'
          /\ open' = [open EXCEPT ![o] = [pc |-> "attach", s |-> started']]
     ELSE /\ term' = Nil
          /\ open' = [open EXCEPT ![o] = NoOpen]
          /\ UNCHANGED started
  /\ UNCHANGED <<link, reader, waiter, closer, cleaner, viewVars>>

\* The replay is sent and the sink set under the session's lock.
AttachWithReplay(o) ==
  /\ open[o].pc = "attach"
  /\ LET s == open[o].s
     IN /\ sess' = [sess EXCEPT ![s].sink = TRUE]
        /\ from' = [from EXCEPT ![s] = IF link = "open" THEN sess[s].out + 1 ELSE 0]
        /\ shown' = [shown EXCEPT ![s] = {}]
        /\ open' = [open EXCEPT ![o].pc = "onExit"]
  /\ UNCHANGED <<link, term, started, reader, waiter, closer, cleaner, told>>

\* Mutant: a shell that exited before the callback was set goes unnoticed.
SetOnExit_NoRecheck(o) ==
  /\ open[o].pc = "onExit"
  /\ sess' = [sess EXCEPT ![open[o].s].onExit = TRUE]
  /\ open' = [open EXCEPT ![o] = NoOpen]
  /\ UNCHANGED <<link, term, started, reader, waiter, closer, cleaner, viewVars>>

SetOnExit(o) ==
  /\ open[o].pc = "onExit"
  /\ sess' = [sess EXCEPT ![open[o].s].onExit = TRUE]
  /\ open' = [open EXCEPT ![o] = IF sess[open[o].s].exited THEN [@ EXCEPT !.pc = "tell"] ELSE NoOpen]
  /\ UNCHANGED <<link, term, started, reader, waiter, closer, cleaner, viewVars>>

\* The callback that was missed is made up for, after the unlock.
OpenTells(o) ==
  /\ open[o].pc = "tell"
  /\ ReportExit(open[o].s)
  /\ open' = [open EXCEPT ![o] = NoOpen]
  /\ UNCHANGED <<link, agentVars, closer, cleaner, from, shown>>

-----------------------------------------------------------------------------
\* handleTermClose, in the goroutine that reads the data channel.

\* Mutant: the session is forgotten and never closed.
TermClose_ShellKept ==
  /\ link = "open"
  /\ closer = Nil /\ term # Nil
  /\ term' = Nil
  /\ UNCHANGED <<link, started, sess, reader, waiter, open, closer, cleaner, viewVars>>

TermClose ==
  /\ link = "open"
  /\ closer = Nil /\ term # Nil
  /\ closer' = term
  /\ term' = Nil
  /\ UNCHANGED <<link, started, sess, reader, waiter, open, cleaner, viewVars>>

CloseSession ==
  /\ closer # Nil
  /\ sess' = [sess EXCEPT ![closer] = Closed(closer)]
  /\ closer' = Nil
  /\ UNCHANGED <<link, term, started, reader, waiter, open, cleaner, viewVars>>

-----------------------------------------------------------------------------
\* The connection: cleanup() detaches the terminal, then closes the peer; a new
\* offer brings the next one.

CleanStart ==
  /\ cleaner.pc = "idle"
  /\ cleaner' = IF term = Nil THEN [pc |-> "peer", s |-> Nil] ELSE [pc |-> "detach", s |-> term]
  /\ UNCHANGED <<link, agentVars, open, closer, viewVars>>

CleanDetach ==
  /\ cleaner.pc = "detach"
  /\ sess' = [sess EXCEPT ![cleaner.s].sink = FALSE]
  /\ cleaner' = [pc |-> "peer", s |-> Nil]
  /\ UNCHANGED <<link, term, started, reader, waiter, open, closer, viewVars>>

\* The next connection was sent nothing yet.
CleanPeer ==
  /\ cleaner.pc = "peer"
  /\ link' = "none"
  /\ cleaner' = NoClean
  /\ from' = [s \in Sess |-> 0]
  /\ shown' = [s \in Sess |-> {}]
  /\ UNCHANGED <<agentVars, open, closer, told>>

NewPeer ==
  /\ link = "none"
  /\ link' = "opening"
  /\ UNCHANGED <<agentVars, open, closer, cleaner, viewVars>>

ChannelOpens ==
  /\ link = "opening"
  /\ link' = "open"
  /\ UNCHANGED <<agentVars, open, closer, cleaner, viewVars>>

-----------------------------------------------------------------------------
OpenStep(o) ==
  \/ KeepTerminal(o) \/ StartTerminal(o) \/ AttachWithReplay(o)
  \/ SetOnExit(o) \/ OpenTells(o)

Next ==
  \/ \E s \in Sess : ReadChunk(s) \/ PushChunk(s) \/ ShellExits(s) \/ WaiterTells(s)
  \/ \E o \in Opens : TermOpen(o) \/ OpenStep(o)
  \/ TermClose \/ CloseSession
  \/ CleanStart \/ CleanDetach \/ CleanPeer
  \/ NewPeer \/ ChannelOpens

Spec == Init /\ [][Next]_vars

-----------------------------------------------------------------------------
(***************************************************************************)
(* Properties                                                              *)
(***************************************************************************)

\* Nothing is lost between the replay and the live output (session.go 162-165):
\* while a connection is attached, every chunk read since its replay was sent
\* to it or is in the reader's hands, whatever detached, attached again or
\* closed meanwhile.
NothingLost ==
  \A s \in Sess : sess[s].sink /\ from[s] # 0 =>
    \A k \in from[s] .. sess[s].out :
      k \in shown[s] \/ reader[s] = [k |-> k, sink |-> TRUE]

\* An agent has one shell at a time (cmd/agent/main.go 1586): any other that
\* still runs is already in the hands of the goroutine that will close it.
OneShell ==
  \A s \in 1..started : Alive(s) => s \in {term, closer}

\* An exit is never missed (session.go 217): once an open has set the callback,
\* the exit of the shell was reported or a goroutine is about to, whichever came
\* first of the exit and the callback.
ExitReported ==
  \A s \in Sess : sess[s].onExit /\ sess[s].exited =>
    \/ s \in told
    \/ waiter[s] = "telling"
    \/ \E o \in Opens : open[o] = [pc |-> "tell", s |-> s]
=============================================================================
