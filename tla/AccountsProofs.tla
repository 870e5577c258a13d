--------------------------- MODULE AccountsProofs ---------------------------
(***************************************************************************)
(* Proofs about Accounts, for any number of users, agents, sessions,       *)
(* shares, requests and failed saves.  The store is proved good in memory  *)
(* and in what a new process would read, since each may become the other.  *)
(***************************************************************************)
EXTENDS Accounts, TLAPS

\* What every change keeps, of a store for which n users were made and ids made up.
Owned(s) ==
  /\ \A a \in AgentId : s.agents[a] # NoAgent => s.users[s.agents[a].owner] # Nobody
  /\ \A h \in Share : s.shares[h] # NoEntry =>
        /\ s.shares[h].agent \in AgentId
        /\ s.agents[s.shares[h].agent].owner = s.shares[h].user
OneRecord(s) == \A a, b \in AgentId : s.agents[a] # NoAgent /\ s.agents[a] = s.agents[b] => a = b
\* No agent is named by an id that was not made up yet.
RandomNamed(s, ids) == \A a \in AgentId : s.agents[a].name \in RandomIds => s.agents[a].name \in ids
Fresh(s, n) == \A u \in User : u > n => s.users[u] = Nobody
Good(s, n, ids) ==
  /\ s \in StateType /\ Indexed(s) /\ Owned(s) /\ OneRecord(s)
  /\ RandomNamed(s, ids) /\ Fresh(s, n)

MadeType ==
  [users : 0..MaxUsers, sessions : 0..MaxSessions, shares : 0..MaxShares, ids : SUBSET RandomIds]

\* A request names what its call found.
ReqInv ==
  \A r \in Reqs :
    /\ req[r].pc \in {"share", "deleteAgent"} => req[r].agent \in AgentId
    /\ req[r].pc = "revoke" => req[r].what \in Share
    /\ req[r].pc = "deleteUser" => req[r].what \in User

StoreInv ==
  /\ TypeOK /\ ReqInv
  /\ Good(data, made.users, made.ids) /\ Good(Loaded, made.users, made.ids)
  /\ current => Loaded = data

-----------------------------------------------------------------------------
(* States of the store.                                                     *)

LEMMA NilIs == Nil \notin User /\ Nil \notin Share /\ Nil \notin Names /\ Nil \notin AgentId
BY AccountsAssumption DEF Nil, User, Share

LEMMA StateHas ==
  ASSUME NEW s \in StateType
  PROVE  /\ s.users \in [User -> {Nobody} \cup [name : Names, admin : BOOLEAN]]
         /\ s.byName \in [Names -> User \cup {Nil}] /\ s.byHash \in SUBSET User
         /\ s.agents \in [AgentId -> {NoAgent} \cup [owner : User, name : AgentId]]
         /\ s.sessions \in [Token -> Entry] /\ s.shares \in [Share -> Entry]
         /\ s = [users |-> s.users, byName |-> s.byName, byHash |-> s.byHash, agents |-> s.agents,
                 sessions |-> s.sessions, shares |-> s.shares]
BY DEF StateType

LEMMA StateIs ==
  ASSUME NEW us \in [User -> {Nobody} \cup [name : Names, admin : BOOLEAN]],
         NEW bn \in [Names -> User \cup {Nil}], NEW bh \in SUBSET User,
         NEW as \in [AgentId -> {NoAgent} \cup [owner : User, name : AgentId]],
         NEW ss \in [Token -> Entry], NEW hs \in [Share -> Entry]
  PROVE  [users |-> us, byName |-> bn, byHash |-> bh, agents |-> as, sessions |-> ss, shares |-> hs] \in StateType
BY DEF StateType

LEMMA SetField ==
  ASSUME NEW s \in StateType, NEW x
  PROVE  /\ [s EXCEPT !.agents = x] = [users |-> s.users, byName |-> s.byName, byHash |-> s.byHash,
              agents |-> x, sessions |-> s.sessions, shares |-> s.shares]
         /\ [s EXCEPT !.sessions = x] = [users |-> s.users, byName |-> s.byName, byHash |-> s.byHash,
              agents |-> s.agents, sessions |-> x, shares |-> s.shares]
         /\ [s EXCEPT !.shares = x] = [users |-> s.users, byName |-> s.byName, byHash |-> s.byHash,
              agents |-> s.agents, sessions |-> s.sessions, shares |-> x]
BY StateHas

LEMMA CutIsNoState == Cut \notin StateType
<1> SUFFICES ASSUME Cut \in StateType PROVE FALSE
  OBVIOUS
<1>1. "users" \in DOMAIN Cut
  BY DEF StateType
<1>2. DOMAIN Cut = {"cut"}
  BY DEF Cut
<1>3. QED BY <1>1, <1>2

LEMMA UserIs ==
  ASSUME NEW s \in StateType, NEW u \in User
  PROVE  /\ s.users[u] # Nobody => s.users[u].name \in Names
         /\ s.users[u] = Nobody => s.users[u].name \notin Names
<1>1. s.users[u] \in {Nobody} \cup [name : Names, admin : BOOLEAN]
  BY StateHas
<1>2. Nobody.name \notin Names
  BY NilIs DEF Nobody
<1>3. s.users[u] \in [name : Names, admin : BOOLEAN] => s.users[u].name \in Names
  OBVIOUS
<1>4. QED BY <1>1, <1>2, <1>3

LEMMA AgentIs ==
  ASSUME NEW s \in StateType, NEW a \in AgentId
  PROVE  /\ s.agents[a] # NoAgent => /\ s.agents[a].owner \in User /\ s.agents[a].name \in AgentId
                                     /\ s.agents[a] = [owner |-> s.agents[a].owner, name |-> s.agents[a].name]
         /\ s.agents[a] = NoAgent => s.agents[a].owner = Nil /\ s.agents[a].name = Nil
<1>1. s.agents[a] \in {NoAgent} \cup [owner : User, name : AgentId]
  BY StateHas
<1>2. QED BY <1>1 DEF NoAgent

LEMMA ShareIs ==
  ASSUME NEW s \in StateType, NEW h \in Share
  PROVE  s.shares[h] # NoEntry => s.shares[h].user \in User
<1>1. s.shares[h] \in Entry
  BY StateHas
<1>2. QED BY <1>1 DEF Entry

LEMMA EmptyGood == ASSUME NEW n \in Nat, NEW ids PROVE Good(Empty, n, ids)
<1>1. Empty \in StateType
  BY DEF Empty, StateType, Entry
<1>2. Indexed(Empty) /\ Fresh(Empty, n) /\ OneRecord(Empty)
  <2>1. \A m \in Names, u \in User : Nil # u /\ Nil # m
    BY NilIs
  <2>2. QED BY <2>1 DEF Indexed, Fresh, OneRecord, Empty, Nobody
<1>3. Owned(Empty)
  BY DEF Owned, Empty
<1>4. RandomNamed(Empty, ids)
  BY NilIs DEF RandomNamed, Empty, NoAgent, AgentId
<1>5. QED BY <1>1, <1>2, <1>3, <1>4 DEF Good

-----------------------------------------------------------------------------
(* What each change makes of a good store.                                  *)

LEMMA SameRecord ==
  ASSUME NEW N, NEW x \in [name : N, admin : BOOLEAN], NEW y \in [name : N, admin : BOOLEAN],
         x.name = y.name, x.admin = y.admin
  PROVE  x = y
OBVIOUS

LEMMA AdminSet ==
  ASSUME NEW N, NEW x \in [name : N, admin : BOOLEAN], NEW b \in BOOLEAN
  PROVE  /\ [x EXCEPT !.admin = b] \in [name : N, admin : BOOLEAN]
         /\ [x EXCEPT !.admin = b].name = x.name /\ [x EXCEPT !.admin = b].admin = b
OBVIOUS

LEMMA ApplyAdminsGood ==
  ASSUME NEW s, NEW n \in Nat, NEW ids, Good(s, n, ids)
  PROVE  Good(ApplyAdmins(s), n, ids)
<1> DEFINE us == [u \in User |-> [s.users[u] EXCEPT !.admin = s.users[u].name \in Admins]]
           t == ApplyAdmins(s)
<1>1. s \in StateType
  BY DEF Good
<1>2. \A u \in User : /\ us[u] \in {Nobody} \cup [name : Names, admin : BOOLEAN]
                      /\ us[u].name = s.users[u].name
                      /\ us[u] = Nobody <=> s.users[u] = Nobody
  <2> SUFFICES ASSUME NEW u \in User
               PROVE  /\ us[u] \in {Nobody} \cup [name : Names, admin : BOOLEAN]
                      /\ us[u].name = s.users[u].name
                      /\ us[u] = Nobody <=> s.users[u] = Nobody
    OBVIOUS
  <2>1. CASE s.users[u] = Nobody
    <3>1. s.users[u].name \notin Names /\ Admins \subseteq Names
      BY <1>1, <2>1, UserIs, AccountsAssumption
    <3>2. us[u] = Nobody
      <4>1. Nobody \in [name : {Nil}, admin : BOOLEAN] /\ Nobody.admin = FALSE
        BY DEF Nobody
      <4> DEFINE b == Nobody.name \in Admins
      <4>2. b \in BOOLEAN /\ ~b /\ us[u] = [Nobody EXCEPT !.admin = b]
        BY <2>1, <3>1
      <4> HIDE DEF b
      <4>3. b = FALSE
        BY <4>2
      <4>4. /\ us[u] \in [name : {Nil}, admin : BOOLEAN]
            /\ us[u].name = Nobody.name /\ us[u].admin = FALSE
        BY <4>1, <4>2, <4>3, AdminSet
      <4> HIDE DEF us
      <4>5. QED BY <4>1, <4>4, SameRecord
    <3>3. QED BY <2>1, <3>2
  <2>2. CASE s.users[u] # Nobody
    <3>1. s.users[u] \in [name : Names, admin : BOOLEAN]
      BY <1>1, <2>2, StateHas
    <3>2. us[u] \in [name : Names, admin : BOOLEAN] /\ us[u].name = s.users[u].name
      <4>1. (s.users[u].name \in Admins) \in BOOLEAN
        OBVIOUS
      <4>2. us[u] = [s.users[u] EXCEPT !.admin = s.users[u].name \in Admins]
        OBVIOUS
      <4>3. QED BY <3>1, <4>1, <4>2, AdminSet
    <3>3. us[u].name # Nobody.name
      BY <3>2, NilIs DEF Nobody
    <3>4. QED BY <2>2, <3>2, <3>3
  <2>3. QED BY <2>1, <2>2
<1>3. us \in [User -> {Nobody} \cup [name : Names, admin : BOOLEAN]]
  BY <1>2
<1>4. t = [users |-> us, byName |-> s.byName, byHash |-> s.byHash, agents |-> s.agents,
           sessions |-> s.sessions, shares |-> s.shares]
  BY <1>1, StateHas DEF ApplyAdmins
<1> HIDE DEF us, t
<1>5. t \in StateType
  BY <1>1, <1>3, <1>4, StateHas, StateIs
<1>6. /\ t.users = us /\ t.byName = s.byName /\ t.byHash = s.byHash /\ t.agents = s.agents
      /\ t.shares = s.shares
  BY <1>4
<1>7. Indexed(t)
  BY <1>2, <1>6 DEF Indexed, Good
<1>8. Owned(t)
  <2>1. \A a \in AgentId : s.agents[a] # NoAgent => s.agents[a].owner \in User
    BY <1>1, AgentIs
  <2>2. QED BY <1>2, <1>6, <2>1 DEF Owned, Good
<1>9. OneRecord(t) /\ RandomNamed(t, ids) /\ Fresh(t, n)
  BY <1>2, <1>6 DEF OneRecord, RandomNamed, Fresh, Good
<1>10. QED BY <1>5, <1>7, <1>8, <1>9 DEF Good, t

LEMMA RegisteredGood ==
  ASSUME NEW n \in Nat, NEW ids, NEW s, Good(s, n, ids), n + 1 \in User, NEW m \in Names, s.byName[m] = Nil
  PROVE  Good([s EXCEPT !.users[n + 1] = [name |-> m, admin |-> FALSE],
                        !.byName[m] = n + 1, !.byHash = @ \cup {n + 1}], n + 1, ids)
<1> DEFINE v == n + 1
           us == [s.users EXCEPT ![v] = [name |-> m, admin |-> FALSE]]
           bn == [s.byName EXCEPT ![m] = v]
           t == [s EXCEPT !.users[v] = [name |-> m, admin |-> FALSE], !.byName[m] = v, !.byHash = @ \cup {v}]
<1>1. s \in StateType /\ v \in User /\ s.users[v] = Nobody
  BY DEF Good, Fresh, User
<1>2. t = [users |-> us, byName |-> bn, byHash |-> s.byHash \cup {v}, agents |-> s.agents,
           sessions |-> s.sessions, shares |-> s.shares]
  <2> DEFINE t1 == [s EXCEPT !.users = us]
             t2 == [t1 EXCEPT !.byName = bn]
             t3 == [t2 EXCEPT !.byHash = s.byHash \cup {v}]
  <2>1. t1 = [users |-> us, byName |-> s.byName, byHash |-> s.byHash, agents |-> s.agents,
              sessions |-> s.sessions, shares |-> s.shares]
    BY <1>1, StateHas
  <2>2. t = t3
    OBVIOUS
  <2> HIDE DEF t1, t
  <2>3. t2 = [users |-> us, byName |-> bn, byHash |-> s.byHash, agents |-> s.agents,
              sessions |-> s.sessions, shares |-> s.shares]
    BY <2>1
  <2> HIDE DEF t2
  <2>4. QED BY <2>2, <2>3
<1>3. /\ us \in [User -> {Nobody} \cup [name : Names, admin : BOOLEAN]]
      /\ bn \in [Names -> User \cup {Nil}] /\ s.byHash \cup {v} \in SUBSET User
  BY <1>1, StateHas
<1>4. us[v].name = m /\ us[v] # Nobody /\ \A u \in User : u # v => us[u] = s.users[u]
  <2>1. us[v] = [name |-> m, admin |-> FALSE]
    BY <1>1, StateHas
  <2>2. us[v].name # Nobody.name
    BY <2>1, NilIs DEF Nobody
  <2>3. QED BY <1>1, <2>1, <2>2, StateHas
<1>5. bn[m] = v /\ \A k \in Names : k # m => bn[k] = s.byName[k]
  BY <1>1, StateHas
<1> HIDE DEF us, bn, t
<1>6. t \in StateType
  BY <1>1, <1>2, <1>3, StateHas, StateIs
<1>7. /\ t.users = us /\ t.byName = bn /\ t.byHash = s.byHash \cup {v} /\ t.agents = s.agents
      /\ t.shares = s.shares
  BY <1>2
<1>8. Indexed(t)
  <2>1. t.byHash = {u \in User : t.users[u] # Nobody}
    BY <1>1, <1>4, <1>7 DEF Indexed, Good
  <2>2. ASSUME NEW k \in Names, NEW u \in User PROVE t.byName[k] = u <=> t.users[u].name = k
    <3>1. s.byName[k] = u <=> s.users[u].name = k
      BY DEF Indexed, Good
    <3>2. s.users[v].name \notin Names /\ u # Nil
      BY <1>1, UserIs, NilIs
    <3>3. CASE u = v /\ k = m
      BY <1>4, <1>5, <1>7, <3>3
    <3>4. CASE u = v /\ k # m
      BY <1>1, <1>4, <1>5, <1>7, <3>1, <3>2, <3>4
    <3>5. CASE u # v /\ k = m
      BY <1>4, <1>5, <1>7, <3>1, <3>2, <3>5
    <3>6. CASE u # v /\ k # m
      BY <1>4, <1>5, <1>7, <3>1, <3>6
    <3>7. QED BY <3>3, <3>4, <3>5, <3>6
  <2>3. QED BY <2>1, <2>2 DEF Indexed
<1>9. Owned(t)
  <2>1. \A a \in AgentId : s.agents[a] # NoAgent => s.agents[a].owner \in User
    BY <1>1, AgentIs
  <2>2. QED BY <1>1, <1>4, <1>7, <2>1 DEF Owned, Good
<1>10. OneRecord(t) /\ RandomNamed(t, ids) /\ Fresh(t, n + 1)
  BY <1>4, <1>7 DEF OneRecord, RandomNamed, Fresh, Good, User
<1>11. QED BY <1>6, <1>8, <1>9, <1>10 DEF Good, t

\* Sessions are in none of what the store must keep.
LEMMA SessionsGood ==
  ASSUME NEW n \in Nat, NEW ids, NEW s, Good(s, n, ids), NEW ss \in [Token -> Entry]
  PROVE  Good([s EXCEPT !.sessions = ss], n, ids)
<1> DEFINE t == [s EXCEPT !.sessions = ss]
<1>1. s \in StateType
  BY DEF Good
<1>2. t = [users |-> s.users, byName |-> s.byName, byHash |-> s.byHash, agents |-> s.agents,
           sessions |-> ss, shares |-> s.shares]
  BY <1>1, StateHas
<1> HIDE DEF t
<1>3. t \in StateType
  BY <1>1, <1>2, StateHas, StateIs
<1>4. QED BY <1>2, <1>3 DEF Good, Indexed, Owned, OneRecord, RandomNamed, Fresh, t

LEMMA SharesGood ==
  ASSUME NEW n \in Nat, NEW ids, NEW s, Good(s, n, ids), NEW hs \in [Share -> Entry],
         \A h \in Share : hs[h] # NoEntry =>
           hs[h].agent \in AgentId /\ s.agents[hs[h].agent].owner = hs[h].user
  PROVE  Good([s EXCEPT !.shares = hs], n, ids)
<1> DEFINE t == [s EXCEPT !.shares = hs]
<1>1. s \in StateType
  BY DEF Good
<1>2. t = [users |-> s.users, byName |-> s.byName, byHash |-> s.byHash, agents |-> s.agents,
           sessions |-> s.sessions, shares |-> hs]
  BY <1>1, StateHas
<1> HIDE DEF t
<1>3. t \in StateType
  BY <1>1, <1>2, StateHas, StateIs
<1>4. QED BY <1>2, <1>3 DEF Good, Indexed, Owned, OneRecord, RandomNamed, Fresh, t

LEMMA AgentsGood ==
  ASSUME NEW n \in Nat, NEW ids, NEW s, Good(s, n, ids), NEW a \in AgentId, NEW u \in User, NEW name \in AgentId,
         s.users[u] # Nobody, s.agents[a] = NoAgent,
         \A b \in AgentId : s.agents[b] # [owner |-> u, name |-> name],
         NEW later, ids \subseteq later, name \in RandomIds => name \in later
  PROVE  Good([s EXCEPT !.agents[a] = [owner |-> u, name |-> name]], n, later)
<1> DEFINE as == [s.agents EXCEPT ![a] = [owner |-> u, name |-> name]]
           t == [s EXCEPT !.agents[a] = [owner |-> u, name |-> name]]
<1>1. s \in StateType
  BY DEF Good
<1>2. t = [users |-> s.users, byName |-> s.byName, byHash |-> s.byHash, agents |-> as,
           sessions |-> s.sessions, shares |-> s.shares]
  BY <1>1, StateHas
<1>3. as \in [AgentId -> {NoAgent} \cup [owner : User, name : AgentId]]
  BY <1>1, StateHas
<1>4. as[a] = [owner |-> u, name |-> name] /\ \A b \in AgentId : b # a => as[b] = s.agents[b]
  BY <1>1, StateHas
<1> HIDE DEF as, t
<1>5. t \in StateType
  BY <1>1, <1>2, <1>3, StateHas, StateIs
<1>6. t.users = s.users /\ t.byName = s.byName /\ t.byHash = s.byHash /\ t.agents = as /\ t.shares = s.shares
  BY <1>2
<1>7. Indexed(t) /\ Fresh(t, n)
  BY <1>6 DEF Good, Indexed, Fresh
<1>8. Owned(t)
  <2>1. \A h \in Share : s.shares[h] # NoEntry => s.shares[h].agent # a
    <3>1. s.agents[a].owner = Nil
      BY <1>1, AgentIs
    <3>2. \A h \in Share : s.shares[h] # NoEntry => s.shares[h].user # Nil
      BY <1>1, ShareIs, NilIs
    <3>3. QED BY <3>1, <3>2 DEF Good, Owned
  <2>2. as[a].owner = u /\ as[a].name = name
    BY <1>4
  <2>3. \A b \in AgentId : as[b] # NoAgent => s.users[as[b].owner] # Nobody
    BY <1>4, <2>2 DEF Good, Owned
  <2>4. \A h \in Share : s.shares[h] # NoEntry =>
          s.shares[h].agent \in AgentId /\ as[s.shares[h].agent].owner = s.shares[h].user
    BY <1>4, <2>1 DEF Good, Owned
  <2>5. QED BY <1>6, <2>3, <2>4 DEF Owned
<1>9. OneRecord(t)
  <2> SUFFICES ASSUME NEW b \in AgentId, NEW c \in AgentId, as[b] # NoAgent, as[b] = as[c] PROVE b = c
    BY <1>6 DEF OneRecord
  <2>1. CASE b # a /\ c # a
    BY <1>4, <2>1 DEF Good, OneRecord
  <2>2. CASE b = a \/ c = a
    BY <1>4, <2>2
  <2>3. QED BY <2>1, <2>2
<1>10. RandomNamed(t, later)
  <2>1. as[a].name = name
    BY <1>4
  <2>2. QED BY <1>4, <1>6, <2>1 DEF Good, RandomNamed
<1>11. QED BY <1>5, <1>7, <1>8, <1>9, <1>10 DEF Good, t

LEMMA WithoutIs ==
  ASSUME NEW K, NEW entries \in [K -> Entry], NEW value
  PROVE  /\ Without(entries, "user", value) \in [K -> Entry]
         /\ \A k \in K : Without(entries, "user", value)[k] # NoEntry =>
              Without(entries, "user", value)[k] = entries[k] /\ entries[k].user # value
         /\ Without(entries, "agent", value) \in [K -> Entry]
         /\ \A k \in K : Without(entries, "agent", value)[k] # NoEntry =>
              Without(entries, "agent", value)[k] = entries[k] /\ entries[k].agent # value
<1>1. NoEntry \in Entry
  BY DEF Entry
<1>2. QED BY <1>1 DEF Without

LEMMA AgentDeletedGood ==
  ASSUME NEW n \in Nat, NEW ids, NEW s, Good(s, n, ids), NEW a \in AgentId
  PROVE  Good([s EXCEPT !.agents[a] = NoAgent, !.shares = Without(@, "agent", a)], n, ids)
<1> DEFINE as == [s.agents EXCEPT ![a] = NoAgent]
           hs == Without(s.shares, "agent", a)
           t == [s EXCEPT !.agents[a] = NoAgent, !.shares = Without(@, "agent", a)]
<1>1. s \in StateType
  BY DEF Good
<1>2. t = [users |-> s.users, byName |-> s.byName, byHash |-> s.byHash, agents |-> as,
           sessions |-> s.sessions, shares |-> hs]
  <2> DEFINE t1 == [s EXCEPT !.agents = as]
             t2 == [t1 EXCEPT !.shares = hs]
  <2>1. t1 = [users |-> s.users, byName |-> s.byName, byHash |-> s.byHash, agents |-> as,
              sessions |-> s.sessions, shares |-> s.shares]
    BY <1>1, StateHas
  <2>2. t = t2
    OBVIOUS
  <2> HIDE DEF t1, t
  <2>3. QED BY <2>1, <2>2
<1>3. as \in [AgentId -> {NoAgent} \cup [owner : User, name : AgentId]]
  BY <1>1, StateHas
<1>4. as[a] = NoAgent /\ \A b \in AgentId : b # a => as[b] = s.agents[b]
  BY <1>1, StateHas
<1>5. hs \in [Share -> Entry] /\ \A h \in Share : hs[h] # NoEntry => hs[h] = s.shares[h] /\ s.shares[h].agent # a
  BY <1>1, StateHas, WithoutIs
<1> HIDE DEF as, hs, t
<1>6. t \in StateType
  BY <1>1, <1>2, <1>3, <1>5, StateHas, StateIs
<1>7. t.users = s.users /\ t.byName = s.byName /\ t.byHash = s.byHash /\ t.agents = as /\ t.shares = hs
  BY <1>2
<1>8. Indexed(t) /\ Fresh(t, n)
  BY <1>7 DEF Good, Indexed, Fresh
<1>9. Owned(t)
  <2>1. \A b \in AgentId : as[b] # NoAgent => s.users[as[b].owner] # Nobody
    BY <1>4 DEF Good, Owned
  <2>2. \A h \in Share : hs[h] # NoEntry => hs[h].agent \in AgentId /\ as[hs[h].agent].owner = hs[h].user
    BY <1>4, <1>5 DEF Good, Owned
  <2>3. QED BY <1>7, <2>1, <2>2 DEF Owned
<1>10. OneRecord(t)
  <2> SUFFICES ASSUME NEW b \in AgentId, NEW c \in AgentId, as[b] # NoAgent, as[b] = as[c] PROVE b = c
    BY <1>7 DEF OneRecord
  <2>1. b # a /\ c # a
    BY <1>4
  <2>2. QED BY <1>4, <2>1 DEF Good, OneRecord
<1>11. RandomNamed(t, ids)
  <2>1. as[a].name \notin RandomIds
    BY <1>4, NilIs DEF NoAgent, AgentId
  <2>2. QED BY <1>4, <1>7, <2>1 DEF Good, RandomNamed
<1>12. QED BY <1>6, <1>8, <1>9, <1>10, <1>11 DEF Good, t

LEMMA UserDeletedGood ==
  ASSUME NEW n \in Nat, NEW ids, NEW s, Good(s, n, ids), NEW u \in User, s.users[u] # Nobody
  PROVE  Good([s EXCEPT
       !.users[u] = Nobody, !.byName[s.users[u].name] = Nil, !.byHash = @ \ {u},
       !.agents = [a \in AgentId |-> IF @[a].owner = u THEN NoAgent ELSE @[a]],
       !.sessions = Without(@, "user", u), !.shares = Without(@, "user", u)], n, ids)
<1> DEFINE m == s.users[u].name
           us == [s.users EXCEPT ![u] = Nobody]
           bn == [s.byName EXCEPT ![m] = Nil]
           bh == s.byHash \ {u}
           as == [a \in AgentId |-> IF s.agents[a].owner = u THEN NoAgent ELSE s.agents[a]]
           ss == Without(s.sessions, "user", u)
           hs == Without(s.shares, "user", u)
           t == [s EXCEPT
       !.users[u] = Nobody, !.byName[s.users[u].name] = Nil, !.byHash = @ \ {u},
       !.agents = [a \in AgentId |-> IF @[a].owner = u THEN NoAgent ELSE @[a]],
       !.sessions = Without(@, "user", u), !.shares = Without(@, "user", u)]
<1>1. s \in StateType /\ m \in Names
  BY UserIs DEF Good
<1>2. /\ us \in [User -> {Nobody} \cup [name : Names, admin : BOOLEAN]]
      /\ bn \in [Names -> User \cup {Nil}] /\ bh \in SUBSET User
      /\ as \in [AgentId -> {NoAgent} \cup [owner : User, name : AgentId]]
  BY <1>1, StateHas
<1>3. /\ us[u] = Nobody /\ \A v \in User : v # u => us[v] = s.users[v]
      /\ bn[m] = Nil /\ \A k \in Names : k # m => bn[k] = s.byName[k]
  BY <1>1, StateHas
<1>4. \A a \in AgentId : /\ as[a] # NoAgent => as[a] = s.agents[a] /\ s.agents[a].owner # u
                         /\ s.agents[a].owner # u => as[a] = s.agents[a]
  OBVIOUS
<1>5. /\ ss \in [Token -> Entry] /\ hs \in [Share -> Entry]
      /\ \A h \in Share : hs[h] # NoEntry => hs[h] = s.shares[h] /\ s.shares[h].user # u
  BY <1>1, StateHas, WithoutIs
<1>6. t = [users |-> us, byName |-> bn, byHash |-> bh, agents |-> as, sessions |-> ss, shares |-> hs]
  <2> DEFINE t1 == [s EXCEPT !.users = us]
             t2 == [t1 EXCEPT !.byName = bn]
             t3 == [t2 EXCEPT !.byHash = bh]
             t4 == [t3 EXCEPT !.agents = as]
             t5 == [t4 EXCEPT !.sessions = ss]
             t6 == [t5 EXCEPT !.shares = hs]
  <2>1. t1 = [users |-> us, byName |-> s.byName, byHash |-> s.byHash, agents |-> s.agents,
              sessions |-> s.sessions, shares |-> s.shares]
    BY <1>1, StateHas
  <2>2. t = t6
    OBVIOUS
  <2> HIDE DEF t1, t, us, bn, bh, as, ss, hs
  <2>3. t2 = [users |-> us, byName |-> bn, byHash |-> s.byHash, agents |-> s.agents,
              sessions |-> s.sessions, shares |-> s.shares]
    BY <2>1
  <2> HIDE DEF t2
  <2>4. t3 = [users |-> us, byName |-> bn, byHash |-> bh, agents |-> s.agents,
              sessions |-> s.sessions, shares |-> s.shares]
    BY <2>3
  <2> HIDE DEF t3
  <2>5. t3 \in StateType
    BY <1>1, <1>2, <2>4, StateHas, StateIs
  <2>6. t4 = [users |-> t3.users, byName |-> t3.byName, byHash |-> t3.byHash, agents |-> as,
              sessions |-> t3.sessions, shares |-> t3.shares]
    BY <2>5, SetField
  <2> HIDE DEF t4
  <2>7. /\ t4 = [users |-> us, byName |-> bn, byHash |-> bh, agents |-> as,
                 sessions |-> s.sessions, shares |-> s.shares]
        /\ t4 \in StateType
    BY <1>1, <1>2, <2>4, <2>6, StateHas, StateIs
  <2>8. t5 = [users |-> t4.users, byName |-> t4.byName, byHash |-> t4.byHash, agents |-> t4.agents,
              sessions |-> ss, shares |-> t4.shares]
    BY <2>7, SetField
  <2> HIDE DEF t5
  <2>9. /\ t5 = [users |-> us, byName |-> bn, byHash |-> bh, agents |-> as, sessions |-> ss, shares |-> s.shares]
        /\ t5 \in StateType
    BY <1>1, <1>2, <1>5, <2>7, <2>8, StateHas, StateIs
  <2>10. t6 = [users |-> t5.users, byName |-> t5.byName, byHash |-> t5.byHash, agents |-> t5.agents,
               sessions |-> t5.sessions, shares |-> hs]
    BY <2>9, SetField
  <2>11. QED BY <2>2, <2>9, <2>10
<1> HIDE DEF us, bn, bh, as, hs, ss, t
<1>7. t \in StateType
  BY <1>1, <1>6, <1>2, <1>5, StateHas, StateIs
<1>8. t.users = us /\ t.byName = bn /\ t.byHash = bh /\ t.agents = as /\ t.shares = hs
  BY <1>6
<1>9. Indexed(t)
  <2>1. t.byHash = {v \in User : t.users[v] # Nobody}
    BY <1>1, <1>3, <1>8 DEF Indexed, Good, bh
  <2>2. ASSUME NEW k \in Names, NEW v \in User PROVE t.byName[k] = v <=> t.users[v].name = k
    <3>1. s.byName[k] = v <=> s.users[v].name = k
      BY DEF Indexed, Good
    <3>2. Nobody.name \notin Names /\ v # Nil
      BY NilIs DEF Nobody
    <3>3. s.byName[m] = u
      BY <1>1 DEF Indexed, Good
    <3>4. CASE v = u /\ k = m
      BY <1>3, <1>8, <3>2, <3>4
    <3>5. CASE v = u /\ k # m
      BY <1>3, <1>8, <3>1, <3>2, <3>5
    <3>6. CASE v # u /\ k = m
      BY <1>3, <1>8, <3>1, <3>2, <3>3, <3>6
    <3>7. CASE v # u /\ k # m
      BY <1>3, <1>8, <3>1, <3>7
    <3>8. QED BY <3>4, <3>5, <3>6, <3>7
  <2>3. QED BY <2>1, <2>2 DEF Indexed
<1>10. Owned(t)
  <2>1. \A a \in AgentId : as[a] # NoAgent => us[as[a].owner] # Nobody
    <3>1. \A a \in AgentId : s.agents[a] # NoAgent => s.agents[a].owner \in User
      BY <1>1, AgentIs
    <3>2. \A a \in AgentId : s.agents[a] # NoAgent => s.users[s.agents[a].owner] # Nobody
      BY DEF Good, Owned
    <3>3. ASSUME NEW a \in AgentId, as[a] # NoAgent PROVE us[as[a].owner] # Nobody
      <4>1. as[a] = s.agents[a] /\ s.agents[a].owner # u /\ s.agents[a] # NoAgent
        BY <1>4, <3>3
      <4>2. us[s.agents[a].owner] = s.users[s.agents[a].owner]
        BY <1>3, <3>1, <4>1
      <4>3. QED BY <3>2, <4>1, <4>2
    <3>4. QED BY <3>3
  <2>2. \A h \in Share : hs[h] # NoEntry => hs[h].agent \in AgentId /\ as[hs[h].agent].owner = hs[h].user
    <3>1. \A h \in Share : s.shares[h] # NoEntry =>
            s.shares[h].agent \in AgentId /\ s.agents[s.shares[h].agent].owner = s.shares[h].user
      BY DEF Good, Owned
    <3>2. QED BY <1>4, <1>5, <3>1
  <2>3. QED BY <1>8, <2>1, <2>2 DEF Owned
<1>11. OneRecord(t)
  <2> SUFFICES ASSUME NEW b \in AgentId, NEW c \in AgentId, as[b] # NoAgent, as[b] = as[c] PROVE b = c
    BY <1>8 DEF OneRecord
  <2>1. as[b] = s.agents[b] /\ as[c] = s.agents[c]
    BY <1>4
  <2>2. QED BY <2>1 DEF Good, OneRecord
<1>12. RandomNamed(t, ids)
  <2>1. NoAgent.name \notin RandomIds
    BY NilIs DEF NoAgent, AgentId
  <2>2. \A a \in AgentId : as[a] = NoAgent \/ as[a] = s.agents[a]
    BY <1>4
  <2>3. QED BY <1>8, <2>1, <2>2 DEF Good, RandomNamed
<1>13. Fresh(t, n)
  BY <1>3, <1>8 DEF Good, Fresh
<1>14. QED BY <1>7, <1>9, <1>10, <1>11, <1>12, <1>13 DEF Good, t

-----------------------------------------------------------------------------
(* What is common to the steps.                                             *)

LEMMA Counts == ASSUME TypeOK PROVE made.users \in Nat /\ made.sessions \in Nat /\ made.shares \in Nat
BY DEF TypeOK

LEMMA MadeSet ==
  ASSUME TypeOK
  PROVE  /\ made \in MadeType
         /\ \A u \in User : /\ [made EXCEPT !.users = u] \in MadeType
                            /\ [made EXCEPT !.users = u].users = u
                            /\ [made EXCEPT !.users = u].ids = made.ids
         /\ \A t \in Token : /\ [made EXCEPT !.sessions = t] \in MadeType
                             /\ [made EXCEPT !.sessions = t].users = made.users
                             /\ [made EXCEPT !.sessions = t].ids = made.ids
         /\ \A h \in Share : /\ [made EXCEPT !.shares = h] \in MadeType
                             /\ [made EXCEPT !.shares = h].users = made.users
                             /\ [made EXCEPT !.shares = h].ids = made.ids
         /\ \A ids \in SUBSET RandomIds : /\ [made EXCEPT !.ids = ids] \in MadeType
                                          /\ [made EXCEPT !.ids = ids].users = made.users
                                          /\ [made EXCEPT !.ids = ids].ids = ids
BY DEF TypeOK, MadeType, User, Token, Share

\* What is saved can be read again; what was cut is an empty store.
LEMMA SavedOrEmpty ==
  ASSUME TypeOK, NEW n \in Nat, NEW ids, NEW new, Good(new, n, ids), Saved(new) \/ SaveFailed \/ SaveCut
  PROVE  /\ Good(Loaded', n, ids) /\ (current' => Loaded' = new)
         /\ disk' \in StateType \cup {Cut} /\ server' \in {"running", "stopped"}
         /\ faults' \in 0..MaxFaults /\ current' \in BOOLEAN
<1>1. new \in StateType /\ new # Cut
  BY CutIsNoState DEF Good
<1>2. CASE Saved(new)
  BY <1>1, <1>2 DEF Saved, Loaded, TypeOK
<1>3. CASE SaveFailed \/ SaveCut
  <2>1. disk' = Cut /\ current' = FALSE /\ server' \in {"running", "stopped"} /\ faults' = faults + 1 /\ faults < MaxFaults
    BY <1>3 DEF SaveFailed, SaveCut
  <2>2. Loaded' = Empty
    BY <2>1 DEF Loaded
  <2>3. faults' \in 0..MaxFaults
    BY <2>1, AccountsAssumption DEF TypeOK
  <2>4. QED BY <2>1, <2>2, <2>3, EmptyGood
<1>4. QED BY <1>2, <1>3

LEMMA CommitKeeps ==
  ASSUME StoreInv, NEW new, Good(new, made'.users, made'.ids), Commit(new),
         made' \in MadeType,
         req' \in [Reqs -> ReqType], ReqInv'
  PROVE  StoreInv'
<1>1. made'.users \in Nat
  BY DEF MadeType
<1>2. data' = new /\ (Saved(new) \/ SaveFailed \/ SaveCut) /\ TypeOK
  BY DEF Commit, StoreInv
<1>3. /\ Good(Loaded', made'.users, made'.ids) /\ (current' => Loaded' = new)
      /\ disk' \in StateType \cup {Cut} /\ server' \in {"running", "stopped"}
      /\ faults' \in 0..MaxFaults /\ current' \in BOOLEAN
  BY <1>1, <1>2, SavedOrEmpty
<1>4. data' \in StateType
  BY <1>2 DEF Good
<1>5. TypeOK'
  BY <1>3, <1>4 DEF TypeOK, MadeType
<1>6. QED BY <1>2, <1>3, <1>5 DEF StoreInv

LEMMA ReqGone ==
  ASSUME StoreInv, NEW r \in Reqs
  PROVE  /\ [req EXCEPT ![r] = Idle] \in [Reqs -> ReqType]
         /\ (req' = [req EXCEPT ![r] = Idle] => ReqInv')
         /\ [q \in Reqs |-> Idle] \in [Reqs -> ReqType]
         /\ (req' = [q \in Reqs |-> Idle] => ReqInv')
<1>1. req \in [Reqs -> ReqType] /\ ReqInv
  BY DEF StoreInv, TypeOK
<1>2. Idle \in ReqType /\ Idle.pc = "idle"
  BY DEF ReqType, Idle
<1>3. QED BY <1>1, <1>2 DEF ReqInv

LEMMA ReturnsKeeps ==
  ASSUME StoreInv, NEW r \in Reqs, Returns(r)
  PROVE  req' \in [Reqs -> ReqType] /\ ReqInv'
BY ReqGone DEF Returns

LEMMA StaysKeeps ==
  ASSUME StoreInv, Stays
  PROVE  req' \in [Reqs -> ReqType] /\ ReqInv'
<1>1. req \in [Reqs -> ReqType] /\ ReqInv
  BY DEF StoreInv, TypeOK
<1>2. /\ [q \in Reqs |-> Idle] \in [Reqs -> ReqType]
      /\ (req' = [q \in Reqs |-> Idle] => ReqInv')
  <2>1. Idle \in ReqType /\ Idle.pc = "idle"
    BY DEF ReqType, Idle
  <2>2. QED BY <2>1 DEF ReqInv
<1>3. req' = req \/ req' = [q \in Reqs |-> Idle]
  BY DEF Stays
<1>4. CASE req' = req
  BY <1>1, <1>4 DEF ReqInv
<1>5. QED BY <1>2, <1>3, <1>4

\* A request that comes in changes nothing of the store.
LEMMA OnlyReq ==
  ASSUME StoreInv, req' \in [Reqs -> ReqType], ReqInv', server' \in {"running", "stopped"},
         UNCHANGED <<data, disk, made, faults, current>>
  PROVE  StoreInv'
BY DEF StoreInv, TypeOK, Loaded, Good, Indexed, Owned, OneRecord, RandomNamed, Fresh

LEMMA BeginKeeps ==
  ASSUME StoreInv, NEW r \in Reqs,
         NEW pc \in {"login", "share", "revoke", "redeem", "deleteAgent", "deleteUser"},
         NEW u \in User \cup {Nil}, NEW a \in AgentId \cup {Nil}, NEW w \in User \cup Share \cup {Nil},
         pc \in {"share", "deleteAgent"} => a \in AgentId,
         pc = "revoke" => w \in Share, pc = "deleteUser" => w \in User,
         Begin(r, pc, u, a, w)
  PROVE  StoreInv'
<1> DEFINE q == [pc |-> pc, user |-> u, agent |-> a, what |-> w]
<1>1. u \in User /\ req' = [req EXCEPT ![r] = q]
  BY DEF Begin
<1>2. q \in ReqType
  BY <1>1 DEF ReqType
<1>3. req \in [Reqs -> ReqType] /\ ReqInv
  BY DEF StoreInv, TypeOK
<1>4. q.pc = pc /\ q.agent = a /\ q.what = w
  OBVIOUS
<1> HIDE DEF q
<1>5. req'[r] = q /\ (\A p \in Reqs : p # r => req'[p] = req[p]) /\ req' \in [Reqs -> ReqType]
  BY <1>1, <1>2, <1>3
<1>6. ReqInv'
  BY <1>3, <1>4, <1>5 DEF ReqInv
<1>7. server' \in {"running", "stopped"} /\ UNCHANGED <<data, disk, made, faults, current>>
  BY DEF Begin, StoreInv, TypeOK
<1>8. QED BY <1>5, <1>6, <1>7, OnlyReq

LEMMA ReqIs ==
  ASSUME StoreInv, NEW r \in Reqs, req[r].pc # "idle"
  PROVE  /\ req[r].user \in User /\ req[r].agent \in AgentId \cup {Nil}
         /\ req[r].pc \in {"share", "deleteAgent"} => req[r].agent \in AgentId
         /\ req[r].pc = "revoke" => req[r].what \in Share
         /\ req[r].pc = "deleteUser" => req[r].what \in User
<1>1. req[r] \in ReqType
  BY DEF StoreInv, TypeOK
<1>2. req[r] # Idle
  BY DEF Idle
<1>3. req[r] \in [pc : {"login", "share", "revoke", "redeem", "deleteAgent", "deleteUser"},
                  user : User, agent : AgentId \cup {Nil}, what : User \cup Share \cup {Nil}]
  BY <1>1, <1>2 DEF ReqType
<1>4. QED BY <1>3 DEF StoreInv, ReqInv

LEMMA SessionUserIs ==
  ASSUME StoreInv, NEW t \in Token
  PROVE  SessionUser(t) \in User \cup {Nil}
<1>1. data.sessions[t] \in Entry
  BY StateHas DEF StoreInv, TypeOK
<1>2. data.sessions[t].user \in User \cup {Nil}
  BY <1>1 DEF Entry, NoEntry
<1>3. QED BY <1>2 DEF SessionUser

-----------------------------------------------------------------------------
(* The steps.                                                               *)

LEMMA CallKeeps == ASSUME StoreInv, NEW r \in Reqs, Call(r) PROVE StoreInv'
<1>1. data \in StateType /\ Good(data, made.users, made.ids)
  BY DEF StoreInv, TypeOK
<1>2. CASE LoginCall(r)
  <2>1. PICK u \in User : Begin(r, "login", u, Nil, Nil)
    BY <1>2 DEF LoginCall
  <2>2. QED BY <2>1, BeginKeeps
<1>3. CASE ShareCall(r)
  <2>1. PICK t \in Token, a \in AgentId : Begin(r, "share", SessionUser(t), a, Nil)
    BY <1>3 DEF ShareCall
  <2>2. QED BY <2>1, SessionUserIs, BeginKeeps
<1>4. CASE RevokeCall(r)
  <2>1. PICK t \in Token, h \in Share : Begin(r, "revoke", SessionUser(t), Nil, h)
    BY <1>4 DEF RevokeCall
  <2>2. QED BY <2>1, SessionUserIs, BeginKeeps
<1>5. CASE RedeemCall(r)
  <2>1. PICK h \in Share : /\ data.shares[h] # NoEntry
                           /\ Begin(r, "redeem", data.shares[h].user, data.shares[h].agent, Nil)
    BY <1>5 DEF RedeemCall
  <2>2. data.shares[h] \in [user : User, agent : AgentId \cup {Nil}]
    BY <1>1, <2>1, StateHas DEF Entry
  <2>3. data.shares[h].user \in User /\ data.shares[h].agent \in AgentId \cup {Nil}
    BY <2>2
  <2>4. QED BY <2>1, <2>3, BeginKeeps
<1>6. CASE DeleteAgentCall(r)
  <2>1. PICK t \in Token, a \in AgentId : Begin(r, "deleteAgent", SessionUser(t), a, Nil)
    BY <1>6 DEF DeleteAgentCall
  <2>2. QED BY <2>1, SessionUserIs, BeginKeeps
<1>7. CASE DeleteUserCall(r)
  <2>1. PICK t \in Token, u \in User : Begin(r, "deleteUser", SessionUser(t), Nil, u)
    BY <1>7 DEF DeleteUserCall
  <2>2. QED BY <2>1, SessionUserIs, BeginKeeps
<1>8. QED BY <1>2, <1>3, <1>4, <1>5, <1>6, <1>7 DEF Call

LEMMA RegisterKeeps == ASSUME StoreInv, NEW n \in Names, RegisterUser(n) PROVE StoreInv'
<1> DEFINE u == made.users + 1
           new == [data EXCEPT !.users[u] = [name |-> n, admin |-> FALSE],
                               !.byName[n] = u, !.byHash = @ \cup {u}]
<1>1. /\ u \in User /\ data.byName[n] = Nil /\ Commit(new)
      /\ made' = [made EXCEPT !.users = u] /\ Stays
  BY DEF RegisterUser
<1>2. TypeOK /\ Good(data, made.users, made.ids) /\ made.users \in Nat
  BY Counts DEF StoreInv
<1>3. Good(new, u, made.ids)
  BY <1>1, <1>2, RegisteredGood
<1> HIDE DEF new, u
<1>4. /\ made' \in MadeType
      /\ made'.users = u /\ made'.ids = made.ids
  BY <1>1, <1>2, MadeSet
<1>5. req' \in [Reqs -> ReqType] /\ ReqInv'
  BY <1>1, StaysKeeps
<1>6. QED BY <1>1, <1>3, <1>4, <1>5, CommitKeeps

LEMMA SessionAdded ==
  ASSUME StoreInv, NEW t \in Token, NEW e \in Entry
  PROVE  Good([data EXCEPT !.sessions[t] = e], made.users, made.ids)
<1> DEFINE ss == [data.sessions EXCEPT ![t] = e]
<1>1. Good(data, made.users, made.ids) /\ made.users \in Nat /\ data \in StateType
  BY Counts DEF StoreInv, TypeOK
<1>2. ss \in [Token -> Entry]
  BY <1>1, StateHas
<1>3. [data EXCEPT !.sessions[t] = e] = [data EXCEPT !.sessions = ss]
  OBVIOUS
<1> HIDE DEF ss
<1>4. QED BY <1>1, <1>2, <1>3, SessionsGood

LEMMA CreateSessionKeeps ==
  ASSUME StoreInv, NEW r \in Reqs, CreateSession(r) \/ CreateScopedSession(r)
  PROVE  StoreInv'
<1>1. PICK e, t :
        /\ e \in Entry /\ t \in Token
        /\ Commit([data EXCEPT !.sessions[t] = e])
        /\ made' = [made EXCEPT !.sessions = t] /\ Returns(r)
  <2>1. CASE CreateSession(r)
    <3>1. req[r].user \in User
      BY <2>1, ReqIs DEF CreateSession
    <3>2. [user |-> req[r].user, agent |-> Nil] \in Entry
      BY <3>1 DEF Entry
    <3>3. QED BY <2>1, <3>2 DEF CreateSession
  <2>2. CASE CreateScopedSession(r)
    <3>1. req[r].user \in User /\ req[r].agent \in AgentId \cup {Nil}
      BY <2>2, ReqIs DEF CreateScopedSession
    <3>2. [user |-> req[r].user, agent |-> req[r].agent] \in Entry
      BY <3>1 DEF Entry
    <3>3. QED BY <2>2, <3>2 DEF CreateScopedSession
  <2>3. QED BY <2>1, <2>2
<1> DEFINE new == [data EXCEPT !.sessions[t] = e]
<1>2. Good(new, made.users, made.ids)
  BY <1>1, SessionAdded
<1> HIDE DEF new
<1>3. /\ made' \in MadeType
      /\ made'.users = made.users /\ made'.ids = made.ids
  BY <1>1, MadeSet DEF StoreInv
<1>4. req' \in [Reqs -> ReqType] /\ ReqInv' /\ Commit(new)
  BY <1>1, ReturnsKeeps DEF new
<1>5. QED BY <1>2, <1>3, <1>4, CommitKeeps

LEMMA CreateShareKeeps == ASSUME StoreInv, NEW r \in Reqs, CreateShare(r) PROVE StoreInv'
<1> DEFINE h == made.shares + 1
           e == [user |-> req[r].user, agent |-> req[r].agent]
           hs == [data.shares EXCEPT ![h] = e]
           new == [data EXCEPT !.shares[h] = e]
<1>1. /\ h \in Share /\ req[r].pc = "share" /\ data.agents[req[r].agent].owner = req[r].user
      /\ Commit(new) /\ made' = [made EXCEPT !.shares = h] /\ Returns(r)
  BY DEF CreateShare
<1>2. Good(data, made.users, made.ids) /\ made.users \in Nat /\ data \in StateType /\ TypeOK
  BY Counts DEF StoreInv, TypeOK
<1>3. req[r].user \in User /\ req[r].agent \in AgentId
  BY <1>1, ReqIs
<1>4. e \in Entry /\ e.agent \in AgentId /\ data.agents[e.agent].owner = e.user
  BY <1>1, <1>3 DEF Entry
<1>5. new = [data EXCEPT !.shares = hs]
  OBVIOUS
<1> HIDE DEF e
<1>6. hs \in [Share -> Entry] /\ hs[h] = e /\ \A k \in Share : k # h => hs[k] = data.shares[k]
  BY <1>1, <1>2, <1>4, StateHas
<1> HIDE DEF hs, new, h
<1>7. \A k \in Share : hs[k] # NoEntry => hs[k].agent \in AgentId /\ data.agents[hs[k].agent].owner = hs[k].user
  BY <1>2, <1>4, <1>6 DEF Good, Owned
<1>8. Good(new, made.users, made.ids)
  BY <1>2, <1>5, <1>6, <1>7, SharesGood
<1>9. /\ made' \in MadeType
      /\ made'.users = made.users /\ made'.ids = made.ids
  BY <1>1, <1>2, MadeSet
<1>10. req' \in [Reqs -> ReqType] /\ ReqInv'
  BY <1>1, ReturnsKeeps
<1>11. QED BY <1>1, <1>8, <1>9, <1>10, CommitKeeps

LEMMA RevokeKeeps == ASSUME StoreInv, NEW r \in Reqs, RevokeShare(r) PROVE StoreInv'
<1> DEFINE h == req[r].what
           hs == [data.shares EXCEPT ![h] = NoEntry]
           new == [data EXCEPT !.shares[h] = NoEntry]
<1>1. req[r].pc = "revoke" /\ Commit(new) /\ Returns(r) /\ made' = made
  BY DEF RevokeShare
<1>2. Good(data, made.users, made.ids) /\ made.users \in Nat /\ data \in StateType /\ TypeOK
  BY Counts DEF StoreInv, TypeOK
<1>3. new = [data EXCEPT !.shares = hs]
  OBVIOUS
<1>4. NoEntry \in Entry
  BY DEF Entry
<1>5. hs \in [Share -> Entry] /\ \A k \in Share : hs[k] # NoEntry => hs[k] = data.shares[k]
  BY <1>2, <1>4, StateHas
<1> HIDE DEF hs, new, h
<1>6. \A k \in Share : hs[k] # NoEntry => hs[k].agent \in AgentId /\ data.agents[hs[k].agent].owner = hs[k].user
  BY <1>2, <1>5 DEF Good, Owned
<1>7. Good(new, made'.users, made'.ids)
  BY <1>1, <1>2, <1>3, <1>5, <1>6, SharesGood
<1>8. made' \in MadeType
  BY <1>1, <1>2, MadeSet
<1>9. req' \in [Reqs -> ReqType] /\ ReqInv'
  BY <1>1, ReturnsKeeps
<1>10. QED BY <1>1, <1>7, <1>8, <1>9, CommitKeeps

LEMMA DeleteKeeps == ASSUME StoreInv, NEW r \in Reqs, DeleteUserAgent(r) \/ DeleteUser(r) PROVE StoreInv'
<1>1. Good(data, made.users, made.ids) /\ made.users \in Nat /\ data \in StateType /\ TypeOK
  BY Counts DEF StoreInv, TypeOK
<1>2. PICK new : Commit(new) /\ Good(new, made.users, made.ids) /\ Returns(r) /\ made' = made
  <2>1. CASE DeleteUserAgent(r)
    <3> DEFINE a == req[r].agent
               new == [data EXCEPT !.agents[a] = NoAgent, !.shares = Without(@, "agent", a)]
    <3>1. req[r].pc = "deleteAgent" /\ Commit(new) /\ Returns(r) /\ made' = made
      BY <2>1 DEF DeleteUserAgent
    <3>2. a \in AgentId
      BY <3>1, ReqIs
    <3>3. Good(new, made.users, made.ids)
      BY <1>1, <3>2, AgentDeletedGood
    <3> HIDE DEF new
    <3>4. QED BY <3>1, <3>3
  <2>2. CASE DeleteUser(r)
    <3> DEFINE u == req[r].what
               new == [data EXCEPT
       !.users[u] = Nobody, !.byName[data.users[u].name] = Nil, !.byHash = @ \ {u},
       !.agents = [a \in AgentId |-> IF @[a].owner = u THEN NoAgent ELSE @[a]],
       !.sessions = Without(@, "user", u), !.shares = Without(@, "user", u)]
    <3>1. /\ req[r].pc = "deleteUser" /\ data.users[u] # Nobody
          /\ Commit(new) /\ Returns(r) /\ made' = made
      BY <2>2 DEF DeleteUser
    <3>2. u \in User
      BY <3>1, ReqIs
    <3>3. Good(new, made.users, made.ids)
      BY <1>1, <3>1, <3>2, UserDeletedGood
    <3> HIDE DEF new
    <3>4. QED BY <3>1, <3>3
  <2>3. QED BY <2>1, <2>2
<1>3. made' \in MadeType
  BY <1>1, <1>2, MadeSet
<1>4. req' \in [Reqs -> ReqType] /\ ReqInv'
  BY <1>2, ReturnsKeeps
<1>5. QED BY <1>2, <1>3, <1>4, CommitKeeps

LEMMA RefusedKeeps == ASSUME StoreInv, NEW r \in Reqs, Refused(r) PROVE StoreInv'
<1>1. /\ server' = server /\ req' = [req EXCEPT ![r] = Idle]
      /\ UNCHANGED <<data, disk, made, faults, current>>
  BY DEF Refused
<1>2. QED BY <1>1, ReqGone, OnlyReq DEF StoreInv, TypeOK

LEMMA UpdateKeeps == ASSUME StoreInv, NEW u \in User, UpdateRecord(u) PROVE StoreInv'
<1>1. Commit(data) /\ Stays /\ made' = made
  BY DEF UpdateRecord
<1>2. Good(data, made'.users, made'.ids) /\ made' \in MadeType
  BY <1>1, MadeSet DEF StoreInv
<1>3. req' \in [Reqs -> ReqType] /\ ReqInv'
  BY <1>1, StaysKeeps
<1>4. QED BY <1>1, <1>2, <1>3, CommitKeeps

\* A made-up id was nobody's name before, whoever registers with what; so a record
\* that is named by it is the only one of that name.
LEMMA NewRecordKeeps ==
  ASSUME StoreInv, NEW u \in User, NEW asked \in Known \cup {Nil}, NEW name \in Known \cup {Nil},
         NewRecord(u, asked, name)
  PROVE  StoreInv'
<1>1. Good(data, made.users, made.ids) /\ made.users \in Nat /\ data \in StateType /\ TypeOK
  BY Counts DEF StoreInv, TypeOK
<1>2. u \in data.byHash /\ (name = Nil => asked = Nil) /\ (name # Nil => SameName(u, name) = {}) /\ Stays
  BY DEF NewRecord
<1>3. data.users[u] # Nobody
  BY <1>1, <1>2 DEF Good, Indexed
<1>4. made.ids \in SUBSET RandomIds /\ Known \subseteq AgentId
  BY <1>1 DEF TypeOK, Known, AgentId
<1>5. PICK a \in IF asked # Nil /\ data.agents[asked] = NoAgent THEN {asked} ELSE NewIds :
        /\ Commit([data EXCEPT !.agents[a] = [owner |-> u, name |-> IF name = Nil THEN a ELSE name]])
        /\ made' = [made EXCEPT !.ids = @ \cup ({a} \cap RandomIds)]
  BY DEF NewRecord
<1> DEFINE nm == IF name = Nil THEN a ELSE name
           later == made.ids \cup ({a} \cap RandomIds)
<1>6. a \in AgentId /\ data.agents[a] = NoAgent
  <2>1. CASE asked # Nil /\ data.agents[asked] = NoAgent
    BY <1>4, <1>5, <2>1
  <2>2. CASE ~(asked # Nil /\ data.agents[asked] = NoAgent)
    BY <1>5, <2>2 DEF NewIds, AgentId
  <2>3. QED BY <2>1, <2>2
<1>7. nm \in AgentId /\ (nm \in RandomIds => nm \in later)
  <2>1. CASE name = Nil
    BY <1>6, <2>1
  <2>2. CASE name # Nil
    <3>1. name \in AgentId /\ (name \in RandomIds => name \in made.ids)
      BY <1>4, <2>2, AccountsAssumption DEF Known
    <3>2. QED BY <2>2, <3>1
  <2>3. QED BY <2>1, <2>2
<1>8. \A b \in AgentId : data.agents[b] # [owner |-> u, name |-> nm]
  <2>1. CASE name # Nil
    BY <1>2, <2>1 DEF SameName
  <2>2. CASE name = Nil
    <3>1. a \in RandomIds /\ a \notin made.ids
      BY <1>2, <1>5, <2>2 DEF NewIds
    <3> SUFFICES ASSUME NEW b \in AgentId, data.agents[b] = [owner |-> u, name |-> nm] PROVE FALSE
      OBVIOUS
    <3>2. data.agents[b].name = a
      BY <2>2
    <3>3. QED BY <1>1, <3>1, <3>2 DEF Good, RandomNamed
  <2>3. QED BY <2>1, <2>2
<1> DEFINE new == [data EXCEPT !.agents[a] = [owner |-> u, name |-> nm]]
<1>9. Commit(new) /\ made' = [made EXCEPT !.ids = later]
  BY <1>5
<1>10. made.ids \subseteq later /\ later \in SUBSET RandomIds
  BY <1>4
<1> HIDE DEF nm, later
<1>11. Good(new, made.users, later)
  BY <1>1, <1>3, <1>6, <1>7, <1>8, <1>10, AgentsGood
<1> HIDE DEF new
<1>12. made' \in MadeType /\ made'.users = made.users /\ made'.ids = later
  BY <1>1, <1>9, <1>10, MadeSet
<1>13. req' \in [Reqs -> ReqType] /\ ReqInv'
  BY <1>2, StaysKeeps
<1>14. QED BY <1>9, <1>11, <1>12, <1>13, CommitKeeps

LEMMA CleanupKeeps == ASSUME StoreInv, CleanupSessions PROVE StoreInv'
<1>1. Good(data, made.users, made.ids) /\ made.users \in Nat /\ data \in StateType /\ TypeOK
  BY Counts DEF StoreInv, TypeOK
<1>2. PICK old :
        /\ Commit([data EXCEPT !.sessions = [t \in Token |-> IF t \in old THEN NoEntry ELSE @[t]]])
        /\ Stays /\ made' = made
  BY DEF CleanupSessions
<1> DEFINE ss == [t \in Token |-> IF t \in old THEN NoEntry ELSE data.sessions[t]]
           new == [data EXCEPT !.sessions = ss]
<1>3. Commit(new)
  BY <1>2
<1>4. ss \in [Token -> Entry]
  BY <1>1, StateHas DEF Entry
<1> HIDE DEF ss
<1>5. Good(new, made.users, made.ids)
  BY <1>1, <1>4, SessionsGood
<1> HIDE DEF new
<1>6. made' \in MadeType
  BY <1>1, <1>2, MadeSet
<1>7. req' \in [Reqs -> ReqType] /\ ReqInv'
  BY <1>2, StaysKeeps
<1>8. QED BY <1>2, <1>3, <1>5, <1>6, <1>7, CommitKeeps

LEMMA StopKeeps == ASSUME StoreInv, Stop PROVE StoreInv'
<1>1. req' \in [Reqs -> ReqType] /\ ReqInv'
  <2>1. Idle \in ReqType /\ Idle.pc = "idle"
    BY DEF ReqType, Idle
  <2>2. QED BY <2>1 DEF ReqInv, Stop
<1>2. server' = "stopped" /\ UNCHANGED <<data, disk, made, faults, current>>
  BY DEF Stop
<1>3. QED BY <1>1, <1>2, OnlyReq

LEMMA RestartKeeps == ASSUME StoreInv, Restart PROVE StoreInv'
<1> DEFINE new == ApplyAdmins(Loaded)
           n == made.users
           ids == made.ids
<1>1. TypeOK /\ ReqInv /\ Good(Loaded, n, ids) /\ n \in Nat
  BY Counts DEF StoreInv
<1>2. Good(new, n, ids)
  BY <1>1, ApplyAdminsGood
<1>3. data' = new /\ req' = req /\ made' = made
  BY DEF Restart
<1>4. new \in StateType
  BY <1>2 DEF Good
<1> HIDE DEF new, n, ids
<1>5. req' \in [Reqs -> ReqType] /\ ReqInv' /\ made'.users = n /\ made'.ids = ids
      /\ made' \in MadeType
  BY <1>1, <1>3 DEF TypeOK, ReqInv, MadeType, n, ids
<1>6. CASE new = Loaded
  <2>1. server' = "running" /\ current' = TRUE /\ disk' = disk /\ faults' = faults
    BY <1>3, <1>6 DEF Restart
  <2>2. Loaded' = Loaded
    BY <2>1 DEF Loaded
  <2>3. TypeOK'
    BY <1>1, <1>3, <1>4, <1>5, <2>1 DEF TypeOK
  <2>4. QED BY <1>1, <1>2, <1>3, <1>5, <1>6, <2>2, <2>3 DEF StoreInv
<1>7. CASE new # Loaded
  <2>1. Saved(new) \/ SaveFailed \/ SaveCut
    BY <1>3, <1>7 DEF Restart
  <2>2. /\ Good(Loaded', n, ids) /\ (current' => Loaded' = new)
        /\ disk' \in StateType \cup {Cut} /\ server' \in {"running", "stopped"}
        /\ faults' \in 0..MaxFaults /\ current' \in BOOLEAN
    BY <1>1, <1>2, <2>1, SavedOrEmpty
  <2>3. TypeOK'
    BY <1>3, <1>4, <1>5, <2>2 DEF TypeOK, MadeType
  <2>4. QED BY <1>2, <1>3, <1>5, <2>2, <2>3 DEF StoreInv
<1>8. QED BY <1>6, <1>7

LEMMA StoreKept == StoreInv /\ [Next]_vars => StoreInv'
<1> SUFFICES ASSUME StoreInv, [Next]_vars PROVE StoreInv'
  OBVIOUS
<1>1. CASE UNCHANGED vars
  <2>1. req' \in [Reqs -> ReqType] /\ ReqInv'
    BY <1>1 DEF vars, StoreInv, TypeOK, ReqInv
  <2>2. server' \in {"running", "stopped"} /\ UNCHANGED <<data, disk, made, faults, current>>
    BY <1>1 DEF vars, StoreInv, TypeOK
  <2>3. QED BY <2>1, <2>2, OnlyReq
<1>2. ASSUME NEW r \in Reqs, Call(r) \/ Change(r) PROVE StoreInv'
  BY <1>2, CallKeeps, CreateSessionKeeps, CreateShareKeeps, RevokeKeeps, DeleteKeeps, RefusedKeeps DEF Change
<1>3. CASE \E n \in Names : RegisterUser(n)
  BY <1>3, RegisterKeeps
<1>4. CASE \/ \E u \in User : UpdateRecord(u)
           \/ \E u \in User, asked, name \in Known \cup {Nil} : NewRecord(u, asked, name)
  BY <1>4, UpdateKeeps, NewRecordKeeps
<1>5. CASE CleanupSessions \/ Stop \/ Restart
  BY <1>5, CleanupKeeps, StopKeeps, RestartKeeps
<1>6. QED BY <1>1, <1>2, <1>3, <1>4, <1>5 DEF Next

LEMMA StoreStarts == Init => StoreInv
<1> SUFFICES ASSUME Init PROVE StoreInv
  OBVIOUS
<1>1. /\ server = "running" /\ data = Empty /\ disk = Empty /\ req = [r \in Reqs |-> Idle]
      /\ made = [users |-> 0, sessions |-> 0, shares |-> 0, ids |-> {}] /\ faults = 0 /\ current = TRUE
  BY DEF Init
<1>2. Good(Empty, 0, {}) /\ Empty \in StateType
  BY EmptyGood DEF Good
<1>3. Loaded = Empty
  BY <1>1, <1>2, CutIsNoState DEF Loaded
<1>4. req \in [Reqs -> ReqType] /\ ReqInv
  <2>1. Idle \in ReqType /\ Idle.pc = "idle"
    BY DEF ReqType, Idle
  <2>2. QED BY <1>1, <2>1 DEF ReqInv
<1>5. TypeOK
  BY <1>1, <1>2, <1>4, AccountsAssumption DEF TypeOK
<1>6. made.users = 0 /\ made.ids = {}
  BY <1>1
<1>7. QED BY <1>1, <1>2, <1>3, <1>4, <1>5, <1>6 DEF StoreInv

-----------------------------------------------------------------------------
(* What the store keeps.                                                    *)

\* The store in memory and the one a new process would read are both good after
\* every critical section, save, failed save, stop and restart.
THEOREM StoreAlways == Spec => []StoreInv
BY StoreStarts, StoreKept, PTL DEF Spec

\* No record of the store, and no request between its two critical sections, is
\* half filled in.
THEOREM StoreTypeCorrect == Spec => []TypeOK
<1>1. StoreInv => TypeOK
  BY DEF StoreInv
<1>2. QED BY <1>1, StoreAlways, PTL

\* UsersByUsername and UsersByHash hold exactly the users, in memory and in the
\* file, whichever save failed or was cut.
THEOREM IndexesAlwaysAgree == Spec => []IndexesAgree
<1>1. StoreInv => IndexesAgree
  BY DEF StoreInv, Good, IndexesAgree
<1>2. QED BY <1>1, StoreAlways, PTL

\* No agent outlives its user and no share its agent, though each is made in a
\* later critical section than the one that found the user and the agent.
THEOREM NothingEverDangles == Spec => []NothingDangles
<1>1. StoreInv => NothingDangles
  BY DEF StoreInv, Good, Owned, NothingDangles
<1>2. QED BY <1>1, StoreAlways, PTL

\* No two of an owner's records have one name, whatever ids and names agents register
\* with: their operators', or such as the server made up for them or for others.
THEOREM NamesAreUnique == Spec => []OneRecordPerName
<1>1. StoreInv => OneRecordPerName
  BY DEF StoreInv, Good, OneRecord, OneRecordPerName
<1>2. QED BY <1>1, StoreAlways, PTL

\* A process that starts has what the last one had in memory, unless the last
\* save failed: every change was saved in the critical section that made it.
THEOREM RestartsRestore == Spec => RestartRestores
<1>1. StoreInv /\ [Next]_vars => [Restart /\ current => data' = ApplyAdmins(data)]_vars
  BY DEF StoreInv, Restart
<1>2. QED BY <1>1, StoreAlways, PTL DEF Spec, RestartRestores
=============================================================================
