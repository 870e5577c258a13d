------------------------------ MODULE Accounts ------------------------------
(***************************************************************************)
(* The signaling server's data store (cmd/signaling/store.go): accounts,   *)
(* agent records, login sessions and shares, with the handlers that read   *)
(* it in one critical section and change it in a later one.                *)
(*                                                                         *)
(* Every change is made in memory and then saved, under one mutex, by      *)
(* writing the whole store over its file: os.WriteFile truncates, then     *)
(* writes.  A write may fail on the way, and the process may be stopped    *)
(* on the way, since the handler of SIGINT and SIGTERM exits at once.  The *)
(* file can always be opened.                                              *)
(*                                                                         *)
(* Ids and tokens are random, so each one made up is new; a user stands    *)
(* for its id and its hash.  An agent adopts the id it is answered, and    *)
(* the name if it has none, and registers with both again.  There is one   *)
(* tenant.  Passwords, email codes and quotas are left out; a login enters *)
(* here once its password was found right.  Time is left out: a share or   *)
(* session that expired is one no longer used.                             *)
(***************************************************************************)
EXTENDS Naturals

CONSTANTS
  Names,        \* user names
  Admins,       \* those of the file given with -admin-config
  Ids,          \* ids, which are names as well, that operators give their agents
  RandomIds,    \* bound: ids the server can make up
  Reqs,         \* requests in progress
  MaxUsers, MaxSessions, MaxShares,   \* bounds: made in all
  MaxFaults     \* bound: saves that fail or are cut by the end of the process

Nil == 0
User == 1..MaxUsers
Token == 1..MaxSessions
Share == 1..MaxShares
AgentId == Ids \cup RandomIds

ASSUME AccountsAssumption ==
  /\ MaxUsers \in Nat /\ MaxSessions \in Nat /\ MaxShares \in Nat
  /\ MaxFaults \in Nat
  /\ Admins \subseteq Names
  /\ Ids \cap RandomIds = {} /\ Nil \notin AgentId \cup Names

VARIABLES
  server,     \* running or stopped
  data,       \* DataStore.data; what it last was while the server is stopped
  disk,       \* what the file holds: a state, or Cut if it was not written whole
  req,        \* the requests between two critical sections
  made,       \* users, sessions and shares made, and ids made up, so far
  faults,     \* saves that failed or were cut, so far
  current     \* history: the last save was complete

vars == <<server, data, disk, req, made, faults, current>>

Nobody  == [name |-> Nil, admin |-> FALSE]
NoAgent == [owner |-> Nil, name |-> Nil]
NoEntry == [user |-> Nil, agent |-> Nil]
Cut == [cut |-> TRUE]

\* PersistentState.  A session's agent is its ScopedAgentID, a share's user its owner.
Empty ==
  [users |-> [u \in User |-> Nobody], byName |-> [n \in Names |-> Nil], byHash |-> {},
   agents |-> [a \in AgentId |-> NoAgent],
   sessions |-> [t \in Token |-> NoEntry], shares |-> [h \in Share |-> NoEntry]]

Entry == {NoEntry} \cup [user : User, agent : AgentId \cup {Nil}]
StateType ==
  [users : [User -> {Nobody} \cup [name : Names, admin : BOOLEAN]],
   byName : [Names -> User \cup {Nil}], byHash : SUBSET User,
   agents : [AgentId -> {NoAgent} \cup [owner : User, name : AgentId]],
   sessions : [Token -> Entry], shares : [Share -> Entry]]

\* What a request remembers: its caller, or the owner of the share; what it names.
Idle == [pc |-> "idle", user |-> Nil, agent |-> Nil, what |-> Nil]
ReqType ==
  {Idle} \cup
  [pc : {"login", "share", "revoke", "redeem", "deleteAgent", "deleteUser"},
   user : User, agent : AgentId \cup {Nil}, what : User \cup Share \cup {Nil}]

\* Every variable has its type: no request goes on without a user it was found to
\* be for, and no record is half empty.
TypeOK ==
  /\ server \in {"running", "stopped"}
  /\ data \in StateType
  /\ disk \in StateType \cup {Cut}
  /\ req \in [Reqs -> ReqType]
  /\ made \in [users : 0..MaxUsers, sessions : 0..MaxSessions, shares : 0..MaxShares,
               ids : SUBSET RandomIds]
  /\ faults \in 0..MaxFaults
  /\ current \in BOOLEAN

Init ==
  /\ server = "running"
  /\ data = Empty /\ disk = Empty
  /\ req = [r \in Reqs |-> Idle]
  /\ made = [users |-> 0, sessions |-> 0, shares |-> 0, ids |-> {}]
  /\ faults = 0 /\ current = TRUE

-----------------------------------------------------------------------------
(* Saving: the whole of a critical section that changes the store.  Nobody *)
(* sees the file in between but a process that starts after this one.      *)

\* Mutant: the store is written before it is changed.
Saved_Before(new) ==
  /\ server' = "running"
  /\ disk' = data /\ current' = TRUE
  /\ UNCHANGED faults

Saved(new) ==
  /\ server' = "running"
  /\ disk' = new /\ current' = TRUE
  /\ UNCHANGED faults

\* What was not written whole is nothing, or a part.
SaveFailed ==
  /\ faults < MaxFaults
  /\ faults' = faults + 1
  /\ server' = "running"
  /\ disk' = Cut /\ current' = FALSE

SaveCut ==
  /\ faults < MaxFaults
  /\ faults' = faults + 1
  /\ server' = "stopped"
  /\ disk' = Cut /\ current' = FALSE

Commit(new) ==
  /\ server = "running"
  /\ data' = new
  /\ Saved(new) \/ SaveFailed \/ SaveCut

\* The requests of a process that ended are gone with it.
Returns(r) == req' = IF server' = "running" THEN [req EXCEPT ![r] = Idle]
                     ELSE [q \in Reqs |-> Idle]
Stays == req' = IF server' = "running" THEN req ELSE [q \in Reqs |-> Idle]

-----------------------------------------------------------------------------
(* What a request reads before it changes anything.                        *)

\* DataStore.GetSession, as requireUser has it: the user it lets in, or nobody.
SessionUser(t) ==
  LET u == data.sessions[t].user
  IN IF u # Nil /\ data.users[u] # Nobody THEN u ELSE Nil

\* Mutant: a request without a valid session goes on.
Begin_Anybody(r, pc, u, a, w) ==
  /\ server = "running"
  /\ req[r] = Idle
  /\ req' = [req EXCEPT ![r] = [pc |-> pc, user |-> u, agent |-> a, what |-> w]]
  /\ UNCHANGED <<server, data, disk, made, faults, current>>

Begin(r, pc, u, a, w) ==
  /\ server = "running"
  /\ req[r] = Idle
  /\ u # Nil
  /\ req' = [req EXCEPT ![r] = [pc |-> pc, user |-> u, agent |-> a, what |-> w]]
  /\ UNCHANGED <<server, data, disk, made, faults, current>>

\* FindUser and the right password, or GetUserByHash.
LoginCall(r) ==
  \E u \in User : /\ u \in data.byHash \/ \E n \in Names : data.byName[n] = u
                  /\ Begin(r, "login", u, Nil, Nil)

\* Callers name what is theirs when they call: the rest is refused or is a later call.
ShareCall(r) ==
  \E t \in Token, a \in AgentId : /\ data.agents[a].owner = SessionUser(t)
                                 /\ Begin(r, "share", SessionUser(t), a, Nil)

RevokeCall(r) ==
  \E t \in Token, h \in Share : /\ data.shares[h].user = SessionUser(t)
                               /\ Begin(r, "revoke", SessionUser(t), Nil, h)

\* GetShare: by anyone who has the token.
RedeemCall(r) ==
  \E h \in Share : /\ data.shares[h] # NoEntry
                   /\ Begin(r, "redeem", data.shares[h].user, data.shares[h].agent, Nil)

DeleteAgentCall(r) ==
  \E t \in Token, a \in AgentId : /\ data.agents[a].owner = SessionUser(t)
                                 /\ Begin(r, "deleteAgent", SessionUser(t), a, Nil)

\* requireAdmin and the look-up of the user to be deleted, who is another.
DeleteUserCall(r) ==
  \E t \in Token, u \in User :
    /\ SessionUser(t) # Nil => data.users[SessionUser(t)].admin
    /\ data.users[u] # Nobody /\ u # SessionUser(t)
    /\ Begin(r, "deleteUser", SessionUser(t), Nil, u)

-----------------------------------------------------------------------------
(* The critical sections that change the store.                            *)

RegisterUser(n) ==
  LET u == made.users + 1 IN
  /\ u \in User
  /\ data.byName[n] = Nil
  /\ Commit([data EXCEPT !.users[u] = [name |-> n, admin |-> FALSE],
                         !.byName[n] = u, !.byHash = @ \cup {u}])
  /\ made' = [made EXCEPT !.users = u]
  /\ Stays

\* The user is the one found before, who may have been deleted since.
CreateSession(r) ==
  LET t == made.sessions + 1 IN
  /\ t \in Token
  /\ req[r].pc = "login"
  /\ Commit([data EXCEPT !.sessions[t] = [user |-> req[r].user, agent |-> Nil]])
  /\ made' = [made EXCEPT !.sessions = t]
  /\ Returns(r)

CreateScopedSession(r) ==
  LET t == made.sessions + 1 IN
  /\ t \in Token
  /\ req[r].pc = "redeem"
  /\ data.users[req[r].user] # Nobody
  /\ Commit([data EXCEPT !.sessions[t] = [user |-> req[r].user, agent |-> req[r].agent]])
  /\ made' = [made EXCEPT !.sessions = t]
  /\ Returns(r)

\* Mutant: the agent found when the request came in is not looked up again.
CreateShare_NotChecked(r) ==
  LET h == made.shares + 1 IN
  /\ h \in Share
  /\ req[r].pc = "share"
  /\ Commit([data EXCEPT !.shares[h] = [user |-> req[r].user, agent |-> req[r].agent]])
  /\ made' = [made EXCEPT !.shares = h]
  /\ Returns(r)

CreateShare(r) ==
  LET h == made.shares + 1 IN
  /\ h \in Share
  /\ req[r].pc = "share"
  /\ data.agents[req[r].agent].owner = req[r].user
  /\ Commit([data EXCEPT !.shares[h] = [user |-> req[r].user, agent |-> req[r].agent]])
  /\ made' = [made EXCEPT !.shares = h]
  /\ Returns(r)

RevokeShare(r) ==
  /\ req[r].pc = "revoke"
  /\ data.shares[req[r].what].user = req[r].user
  /\ Commit([data EXCEPT !.shares[req[r].what] = NoEntry])
  /\ Returns(r) /\ UNCHANGED made

Without(entries, field, value) ==
  [k \in DOMAIN entries |-> IF entries[k][field] = value THEN NoEntry ELSE entries[k]]

\* With the agent go its shares.
DeleteUserAgent(r) ==
  LET a == req[r].agent IN
  /\ req[r].pc = "deleteAgent"
  /\ data.agents[a].owner = req[r].user
  /\ Commit([data EXCEPT !.agents[a] = NoAgent, !.shares = Without(@, "agent", a)])
  /\ Returns(r) /\ UNCHANGED made

\* Mutant: the user's hash stays in its index.
DeleteUser_HashKept(r) ==
  LET u == req[r].what IN
  /\ req[r].pc = "deleteUser"
  /\ data.users[u] # Nobody
  /\ Commit([data EXCEPT
       !.users[u] = Nobody, !.byName[data.users[u].name] = Nil,
       !.agents = [a \in AgentId |-> IF @[a].owner = u THEN NoAgent ELSE @[a]],
       !.sessions = Without(@, "user", u), !.shares = Without(@, "user", u)])
  /\ Returns(r) /\ UNCHANGED made

\* With the user go the indexes, the sessions, the agents and the shares.
DeleteUser(r) ==
  LET u == req[r].what IN
  /\ req[r].pc = "deleteUser"
  /\ data.users[u] # Nobody
  /\ Commit([data EXCEPT
       !.users[u] = Nobody, !.byName[data.users[u].name] = Nil, !.byHash = @ \ {u},
       !.agents = [a \in AgentId |-> IF @[a].owner = u THEN NoAgent ELSE @[a]],
       !.sessions = Without(@, "user", u), !.shares = Without(@, "user", u)])
  /\ Returns(r) /\ UNCHANGED made

\* The request is refused in its second critical section.
Refused(r) ==
  LET q == req[r] IN
  /\ server = "running"
  /\ \/ q.pc = "redeem" /\ data.users[q.user] = Nobody
     \/ q.pc \in {"share", "deleteAgent"} /\ data.agents[q.agent].owner # q.user
     \/ q.pc = "revoke" /\ data.shares[q.what].user # q.user
     \/ q.pc = "deleteUser" /\ data.users[q.what] = Nobody
  /\ req' = [req EXCEPT ![r] = Idle]
  /\ UNCHANGED <<server, data, disk, made, faults, current>>

\* What an agent may register with as its id or its name: what its operator chose, or
\* what was made up for a registration, be it its own or another's, of this owner or of
\* another, whether the record is still there or was deleted or lost since.
Known == Ids \cup made.ids

\* findAgentByOwnerNameLocked: within one owner the name is what identifies an agent.
\* Mutant: it is the id that identifies an agent.
SameName_ById(u, name) == {a \in AgentId : data.agents[a].owner = u /\ a = name}

SameName(u, name) == {a \in AgentId : data.agents[a] = [owner |-> u, name |-> name]}

\* randomAgentID, until no agent has that id.
NewIds == {a \in RandomIds \ made.ids : data.agents[a] = NoAgent}

\* UpsertAgentByUserHash, for a name the owner has: the record and its id stay, and
\* what else is written (the time, the description) is left out.
UpdateRecord(u) ==
  /\ u \in data.byHash
  /\ \E name \in Known : SameName(u, name) # {}
  /\ Commit(data)
  /\ Stays /\ UNCHANGED made

\* UpsertAgentByUserHash, for another name, or none.  The id is the one asked for, if it
\* is free, or one made up; the name defaults to the former, and that to the latter.
NewRecord(u, asked, name) ==
  /\ u \in data.byHash
  /\ name = Nil => asked = Nil
  /\ name # Nil => SameName(u, name) = {}
  /\ \E a \in IF asked # Nil /\ data.agents[asked] = NoAgent THEN {asked} ELSE NewIds :
       /\ Commit([data EXCEPT !.agents[a] = [owner |-> u, name |-> IF name = Nil THEN a ELSE name]])
       /\ made' = [made EXCEPT !.ids = @ \cup ({a} \cap RandomIds)]
  /\ Stays

\* cleanupLoop: those that expired, if any; it saves in any case and ignores an error.
CleanupSessions ==
  \E old \in SUBSET {t \in Token : data.sessions[t] # NoEntry} :
    /\ Commit([data EXCEPT !.sessions = [t \in Token |-> IF t \in old THEN NoEntry ELSE @[t]]])
    /\ Stays /\ UNCHANGED made

-----------------------------------------------------------------------------
(* The process.                                                            *)

Stop ==
  /\ server = "running"
  /\ server' = "stopped"
  /\ req' = [r \in Reqs |-> Idle]
  /\ UNCHANGED <<data, disk, made, faults, current>>

\* ApplyAdmins: whoever the file names is an administrator, and nobody else.
ApplyAdmins(state) ==
  [state EXCEPT !.users =
     [u \in User |-> [state.users[u] EXCEPT !.admin = state.users[u].name \in Admins]]]

\* NewDataStore reads the file.  An empty one is an empty store; one that holds a
\* part of the store is an error that ends the process again: nothing changed.
Loaded == IF disk = Cut THEN Empty ELSE disk

Restart ==
  /\ server = "stopped"
  /\ data' = ApplyAdmins(Loaded)
  /\ IF data' = Loaded
     THEN server' = "running" /\ current' = TRUE /\ UNCHANGED <<disk, faults>>
     ELSE Saved(data') \/ SaveFailed \/ SaveCut
  /\ UNCHANGED <<req, made>>

Call(r) ==
  \/ LoginCall(r) \/ ShareCall(r) \/ RevokeCall(r) \/ RedeemCall(r)
  \/ DeleteAgentCall(r) \/ DeleteUserCall(r)

Change(r) ==
  \/ CreateSession(r) \/ CreateScopedSession(r) \/ CreateShare(r) \/ RevokeShare(r)
  \/ DeleteUserAgent(r) \/ DeleteUser(r) \/ Refused(r)

Next ==
  \/ \E r \in Reqs : Call(r) \/ Change(r)
  \/ \E n \in Names : RegisterUser(n)
  \/ \E u \in User : UpdateRecord(u)
  \/ \E u \in User, asked, name \in Known \cup {Nil} : NewRecord(u, asked, name)
  \/ CleanupSessions \/ Stop \/ Restart

Spec == Init /\ [][Next]_vars

-----------------------------------------------------------------------------
(* What the store must keep.                                               *)

\* Every user is found by name and by hash, and by no name or hash but the user's.
Indexed(state) ==
  /\ state.byHash = {u \in User : state.users[u] # Nobody}
  /\ \A n \in Names, u \in User : state.byName[n] = u <=> state.users[u].name = n

\* The two indexes agree with the users, in memory whatever requests are between
\* their critical sections and whatever saves failed, and in what a new process
\* would read: load rebuilds an index only where it is empty.
IndexesAgree == Indexed(data) /\ Indexed(Loaded)

\* An agent belongs to a user there is, and a share to an agent of the user who
\* made it (store.go 876: no dangling tokens), though between the check of the
\* session and the change the agent, or the user, may have been deleted.
NothingDangles ==
  /\ \A a \in AgentId : data.agents[a] # NoAgent => data.users[data.agents[a].owner] # Nobody
  /\ \A h \in Share : data.shares[h] # NoEntry =>
        data.agents[data.shares[h].agent].owner = data.shares[h].user

\* An owner has one record of a name, so an agent that registers again under its
\* name gets its record and its id, whatever id it asks for (store.go 778-780): its
\* operator's, one made up for it that it adopted, as its name too if it has none
\* (cmd/agent/main.go 535-543), or one that meanwhile is another's.
OneRecordPerName ==
  \A a, b \in AgentId : data.agents[a] # NoAgent /\ data.agents[a] = data.agents[b] => a = b

\* After a restart the store is as it was, but for who is an administrator, if
\* the last save was complete: no operation leaves its change in memory only.
RestartRestores == [][Restart /\ current => data' = ApplyAdmins(data)]_vars
=============================================================================
