------------------------- MODULE LoginServiceProofs -------------------------
(***************************************************************************)
(* Theorems of LoginService, for every number of threads and clients: what *)
(* the unlocked id generator and map can do to an entity with any pool,    *)
(* and what they cannot do with a pool of one thread.                      *)
(***************************************************************************)
EXTENDS LoginService, TLAPS

\* A thread is in the callback exactly when it has a client, its own.
Calls ==
  /\ \A t \in Threads : pc[t] = "idle" <=> worker[t] = NoClient
  /\ \A t \in Threads : worker[t] # NoClient => phase[worker[t]] = "serving"
  /\ \A t, u \in Threads : worker[t] = worker[u] /\ worker[t] # NoClient => t = u

\* A client has an id from the copy on, and a thread about to copy has
\* generated past every id it copied before.
Ids ==
  /\ \A c \in Clients : phase[c] = "away" => ~HasId(c)
  /\ \A t \in Threads : pc[t] \in {"lookup", "generate", "copy"} => ~HasId(worker[t])
  /\ \A t \in Threads : pc[t] = "copy" =>
       \A c \in Clients : by[c] = t => given[c] < uuid

\* No client is given the id of the login service.
BootIds ==
  /\ config.service => uuid >= ServiceId
  /\ \A t \in Threads :
       pc[t] \in {"generate", "copy"} => config.service
  /\ \A t \in Threads : pc[t] = "copy" => uuid > ServiceId
  /\ \A c \in Clients : HasId(c) => given[c] = Torn \/ given[c] > ServiceId

BeforeAttach(t) == pc[t] \in {"lookup", "generate", "copy", "find", "link"}

\* A node of the map stands for the login service or for a client that was
\* given its id and is past the emplace.
EntryOf(e) ==
  /\ e.client = NoClient => e.id = ServiceId
  /\ e.client # NoClient => HasId(e.client) /\ given[e.client] = e.id
  /\ \A t \in Threads : BeforeAttach(t) => e.client # worker[t]

Entries ==
  /\ \A e \in nodes : EntryOf(e)
  /\ \A t \in Threads : pc[t] \in {"find", "link", "attach"} =>
       HasId(worker[t]) /\ given[worker[t]] = id[t]

\* A thread about to link has seen all that it linked before, and the entity of
\* the login service.
Views ==
  /\ \A t \in Threads : pc[t] \in {"find", "link"} => by[worker[t]] = t
  /\ \A t \in Threads : pc[t] = "link" =>
       \A e \in nodes : e.client = NoClient \/ by[e.client] = t => e \in view[t]

\* The map is whole, or two threads have linked nodes.
Losses == (intact /\ entities = nodes) \/ LinkedByTwo

Collides(c) == \E d \in Clients \ {c} : HasId(d) /\ given[d] = given[c]

Excused(c) == c \in owned \/ ~config.server \/ ~config.network
              \/ (HasId(c) /\ Collides(c))

\* A connection has an owner by the time it is read, or a cause not to.
Owners ==
  /\ \A t \in Threads : pc[t] \in {"link", "attach"} => kept[t] \/ Collides(worker[t])
  /\ \A t \in Threads : pc[t] = "receive" => Excused(worker[t])
  /\ \A c \in reading : Excused(c)
  /\ \A c \in destroyed : phase[c] = "served" /\ c \notin owned

\* With one thread the map is whole, as the emplace found it, and the id is new.
SingleThread ==
  /\ intact /\ entities = nodes
  /\ \A c \in Clients : HasId(c) => given[c] # Torn
  /\ \A t \in Threads : pc[t] = "link" => view[t] = nodes /\ kept[t]
  /\ \A e \in nodes : e.id <= uuid
  /\ \A t \in Threads : pc[t] = "copy" => \A e \in nodes : e.id < uuid
  /\ \A t \in Threads : pc[t] \in {"find", "link"} => \A e \in nodes : e.id < id[t]
  /\ \A t \in Threads : pc[t] = "attach" =>
       kept[t] /\ [id |-> id[t], client |-> worker[t]] \in entities

-----------------------------------------------------------------------------

\* Every action keeps the type.
LEMMA NextTypeOK == TypeOK /\ Calls /\ [Next]_vars => TypeOK'
<1> SUFFICES ASSUME TypeOK, Calls, [Next]_vars PROVE TypeOK'
  OBVIOUS
<1> USE NoClientAssumption, NoThreadAssumption, ConfigsAssumption DEF TypeOK, DispatchTypeOK, Calls, Torn, Phases, Locations, Entity
<1>1. ASSUME NEW t \in Threads, NEW c \in Clients, ClientConnected(t, c) PROVE TypeOK'
  BY <1>1, SMT DEF ClientConnected, Step, Deliver, dispatchVars, entityVars, mapVars, connVars
<1>2. ASSUME NEW t \in Threads, LookUp(t) PROVE TypeOK'
  BY <1>2, SMT DEF LookUp, Step, dispatchVars, entityVars, mapVars, connVars
<1>3. ASSUME NEW t \in Threads, Generate(t) PROVE TypeOK'
  BY <1>3, SMT DEF Generate, Step, dispatchVars, mapVars, connVars
<1>4. ASSUME NEW t \in Threads, Copy(t) PROVE TypeOK'
  BY <1>4, SMT DEF Copy, Step, dispatchVars, mapVars, connVars
<1>5. ASSUME NEW t \in Threads, Find(t) PROVE TypeOK'
  BY <1>5, SMT DEF Find, Step, dispatchVars, mapVars, connVars
<1>6. ASSUME NEW t \in Threads, Link(t) PROVE TypeOK'
  <2> DEFINE node == [id |-> id[t], client |-> worker[t]]
  <2>1. /\ pc' = [pc EXCEPT ![t] = "attach"]
        /\ UNCHANGED <<dispatchVars, config, uuid, id, view, kept, given, by, connVars>>
    BY <1>6 DEF Link, Step
  <2>2. node \in Entity
    BY DEF Entity
  <2>3. nodes' \subseteq Entity /\ entities' \subseteq nodes' /\ intact' \in BOOLEAN
        /\ nodes \subseteq nodes'
    <3>1. CASE UNCHANGED mapVars
      BY <3>1 DEF mapVars
    <3>2. CASE /\ nodes' = nodes \cup {node}
               /\ intact' = (intact /\ view[t] = nodes)
               /\ entities' \in IF intact' THEN {entities \cup {node}} ELSE SUBSET nodes'
      <4>1. intact' \in BOOLEAN
        BY <3>2, Zenon
      <4>2. entities' = entities \cup {node} \/ entities' \subseteq nodes'
        BY <3>2, Zenon
      <4> QED
        BY <2>2, <3>2, <4>1, <4>2
    <3> QED
      BY <1>6, <3>1, <3>2 DEF Link
  <2> QED
    BY <2>1, <2>3, SMT DEF dispatchVars, connVars
<1>7. ASSUME NEW t \in Threads, Attach(t) PROVE TypeOK'
  BY <1>7, SMT DEF Attach, Step, dispatchVars, entityVars, mapVars
<1>8. ASSUME NEW t \in Threads, StartReceive(t) PROVE TypeOK'
  BY <1>8, SMT DEF StartReceive, Step, dispatchVars, entityVars, mapVars
<1>9. ASSUME NEW t \in Threads, Leave(t) PROVE TypeOK'
  BY <1>9, SMT DEF Leave, Step, Finish, entityVars, mapVars
<1>10. ASSUME NEW c \in Clients, ReadFails(c) PROVE TypeOK'
  BY <1>10, SMT DEF ReadFails, Step, dispatchVars, entityVars, mapVars
<1>11. CASE UNCHANGED vars
  BY <1>11, SMT DEF vars, dispatchVars, entityVars, mapVars, connVars
<1> QED
  BY <1>1, <1>2, <1>3, <1>4, <1>5, <1>6, <1>7, <1>8, <1>9, <1>10, <1>11
     DEF Next, ThreadStep

\* Every action keeps a thread to one client.
LEMMA NextCalls == TypeOK /\ Calls /\ [Next]_vars => Calls'
<1> SUFFICES ASSUME TypeOK, Calls, [Next]_vars PROVE Calls'
  OBVIOUS
<1> USE NoClientAssumption, NoThreadAssumption, ConfigsAssumption DEF TypeOK, DispatchTypeOK, Calls
<1>1. ASSUME NEW t \in Threads, NEW c \in Clients, ClientConnected(t, c) PROVE Calls'
  BY <1>1, SMT DEF ClientConnected, Step, Deliver, dispatchVars, entityVars, mapVars, connVars
<1>2. ASSUME NEW t \in Threads, LookUp(t) PROVE Calls'
  BY <1>2, SMT DEF LookUp, Step, dispatchVars, entityVars, mapVars, connVars
<1>3. ASSUME NEW t \in Threads, Generate(t) PROVE Calls'
  BY <1>3, SMT DEF Generate, Step, dispatchVars, mapVars, connVars
<1>4. ASSUME NEW t \in Threads, Copy(t) PROVE Calls'
  BY <1>4, SMT DEF Copy, Step, dispatchVars, mapVars, connVars
<1>5. ASSUME NEW t \in Threads, Find(t) PROVE Calls'
  BY <1>5, SMT DEF Find, Step, dispatchVars, mapVars, connVars
<1>6. ASSUME NEW t \in Threads, Link(t) PROVE Calls'
  BY <1>6, SMT DEF Link, Step, dispatchVars, mapVars, connVars
<1>7. ASSUME NEW t \in Threads, Attach(t) PROVE Calls'
  BY <1>7, SMT DEF Attach, Step, dispatchVars, entityVars, mapVars
<1>8. ASSUME NEW t \in Threads, StartReceive(t) PROVE Calls'
  BY <1>8, SMT DEF StartReceive, Step, dispatchVars, entityVars, mapVars
<1>9. ASSUME NEW t \in Threads, Leave(t) PROVE Calls'
  BY <1>9, SMT DEF Leave, Step, Finish, entityVars, mapVars
<1>10. ASSUME NEW c \in Clients, ReadFails(c) PROVE Calls'
  BY <1>10, SMT DEF ReadFails, Step, dispatchVars, entityVars, mapVars
<1>11. CASE UNCHANGED vars
  BY <1>11, SMT DEF vars, dispatchVars, entityVars, mapVars, connVars
<1> QED
  BY <1>1, <1>2, <1>3, <1>4, <1>5, <1>6, <1>7, <1>8, <1>9, <1>10, <1>11
     DEF Next, ThreadStep

\* Every action gives a thread ids it never gave before.
LEMMA NextIds == TypeOK /\ Calls /\ Ids /\ IdsCollideAcrossThreadsOnly /\ [Next]_vars => (Ids /\ IdsCollideAcrossThreadsOnly)'
<1> SUFFICES ASSUME TypeOK, Calls, Ids, IdsCollideAcrossThreadsOnly, [Next]_vars PROVE (Ids /\ IdsCollideAcrossThreadsOnly)'
  OBVIOUS
<1> USE NoClientAssumption, NoThreadAssumption, ConfigsAssumption DEF TypeOK, DispatchTypeOK, Calls, Ids,
      IdsCollideAcrossThreadsOnly, HasId, Torn
<1>1. ASSUME NEW t \in Threads, NEW c \in Clients, ClientConnected(t, c) PROVE (Ids /\ IdsCollideAcrossThreadsOnly)'
  BY <1>1, SMT DEF ClientConnected, Step, Deliver, dispatchVars, entityVars, mapVars, connVars
<1>2. ASSUME NEW t \in Threads, LookUp(t) PROVE (Ids /\ IdsCollideAcrossThreadsOnly)'
  BY <1>2, SMT DEF LookUp, Step, dispatchVars, entityVars, mapVars, connVars
<1>3. ASSUME NEW t \in Threads, Generate(t) PROVE (Ids /\ IdsCollideAcrossThreadsOnly)'
  BY <1>3, SMT DEF Generate, Step, dispatchVars, mapVars, connVars
<1>4. ASSUME NEW t \in Threads, Copy(t) PROVE (Ids /\ IdsCollideAcrossThreadsOnly)'
  BY <1>4, SMT DEF Copy, Step, dispatchVars, mapVars, connVars
<1>5. ASSUME NEW t \in Threads, Find(t) PROVE (Ids /\ IdsCollideAcrossThreadsOnly)'
  BY <1>5, SMT DEF Find, Step, dispatchVars, mapVars, connVars
<1>6. ASSUME NEW t \in Threads, Link(t) PROVE (Ids /\ IdsCollideAcrossThreadsOnly)'
  BY <1>6, SMT DEF Link, Step, dispatchVars, mapVars, connVars
<1>7. ASSUME NEW t \in Threads, Attach(t) PROVE (Ids /\ IdsCollideAcrossThreadsOnly)'
  BY <1>7, SMT DEF Attach, Step, dispatchVars, entityVars, mapVars
<1>8. ASSUME NEW t \in Threads, StartReceive(t) PROVE (Ids /\ IdsCollideAcrossThreadsOnly)'
  BY <1>8, SMT DEF StartReceive, Step, dispatchVars, entityVars, mapVars
<1>9. ASSUME NEW t \in Threads, Leave(t) PROVE (Ids /\ IdsCollideAcrossThreadsOnly)'
  BY <1>9, SMT DEF Leave, Step, Finish, entityVars, mapVars
<1>10. ASSUME NEW c \in Clients, ReadFails(c) PROVE (Ids /\ IdsCollideAcrossThreadsOnly)'
  BY <1>10, SMT DEF ReadFails, Step, dispatchVars, entityVars, mapVars
<1>11. CASE UNCHANGED vars
  BY <1>11, SMT DEF vars, dispatchVars, entityVars, mapVars, connVars
<1> QED
  BY <1>1, <1>2, <1>3, <1>4, <1>5, <1>6, <1>7, <1>8, <1>9, <1>10, <1>11
     DEF Next, ThreadStep

\* Every action keeps the id of the login service apart.
LEMMA NextBootIds == TypeOK /\ Calls /\ Ids /\ BootIds /\ [Next]_vars => BootIds'
<1> SUFFICES ASSUME TypeOK, Calls, Ids, BootIds, [Next]_vars PROVE BootIds'
  OBVIOUS
<1> USE NoClientAssumption, NoThreadAssumption, ConfigsAssumption DEF TypeOK, DispatchTypeOK, Calls, Ids, BootIds, HasId,
      Torn, ServiceId
<1>1. ASSUME NEW t \in Threads, NEW c \in Clients, ClientConnected(t, c) PROVE BootIds'
  BY <1>1, SMT DEF ClientConnected, Step, Deliver, dispatchVars, entityVars, mapVars, connVars
<1>2. ASSUME NEW t \in Threads, LookUp(t) PROVE BootIds'
  BY <1>2, SMT DEF LookUp, Step, dispatchVars, entityVars, mapVars, connVars
<1>3. ASSUME NEW t \in Threads, Generate(t) PROVE BootIds'
  BY <1>3, SMT DEF Generate, Step, dispatchVars, mapVars, connVars
<1>4. ASSUME NEW t \in Threads, Copy(t) PROVE BootIds'
  BY <1>4, SMT DEF Copy, Step, dispatchVars, mapVars, connVars
<1>5. ASSUME NEW t \in Threads, Find(t) PROVE BootIds'
  BY <1>5, SMT DEF Find, Step, dispatchVars, mapVars, connVars
<1>6. ASSUME NEW t \in Threads, Link(t) PROVE BootIds'
  BY <1>6, SMT DEF Link, Step, dispatchVars, mapVars, connVars
<1>7. ASSUME NEW t \in Threads, Attach(t) PROVE BootIds'
  BY <1>7, SMT DEF Attach, Step, dispatchVars, entityVars, mapVars
<1>8. ASSUME NEW t \in Threads, StartReceive(t) PROVE BootIds'
  BY <1>8, SMT DEF StartReceive, Step, dispatchVars, entityVars, mapVars
<1>9. ASSUME NEW t \in Threads, Leave(t) PROVE BootIds'
  BY <1>9, SMT DEF Leave, Step, Finish, entityVars, mapVars
<1>10. ASSUME NEW c \in Clients, ReadFails(c) PROVE BootIds'
  BY <1>10, SMT DEF ReadFails, Step, dispatchVars, entityVars, mapVars
<1>11. CASE UNCHANGED vars
  BY <1>11, SMT DEF vars, dispatchVars, entityVars, mapVars, connVars
<1> QED
  BY <1>1, <1>2, <1>3, <1>4, <1>5, <1>6, <1>7, <1>8, <1>9, <1>10, <1>11
     DEF Next, ThreadStep

\* Every action keeps the entries of the map explained.
LEMMA NextEntries == TypeOK /\ Calls /\ Ids /\ Entries /\ [Next]_vars => Entries'
<1> SUFFICES ASSUME TypeOK, Calls, Ids, Entries, [Next]_vars PROVE Entries'
  OBVIOUS
<1> USE NoClientAssumption, NoThreadAssumption, ConfigsAssumption DEF TypeOK, DispatchTypeOK, Calls, Ids, Entries, EntryOf,
      BeforeAttach, HasId, Entity
<1>1. ASSUME NEW t \in Threads, NEW c \in Clients, ClientConnected(t, c) PROVE Entries'
  BY <1>1, SMT DEF ClientConnected, Step, Deliver, dispatchVars, entityVars, mapVars, connVars
<1>2. ASSUME NEW t \in Threads, LookUp(t) PROVE Entries'
  BY <1>2, SMT DEF LookUp, Step, dispatchVars, entityVars, mapVars, connVars
<1>3. ASSUME NEW t \in Threads, Generate(t) PROVE Entries'
  BY <1>3, SMT DEF Generate, Step, dispatchVars, mapVars, connVars
<1>4. ASSUME NEW t \in Threads, Copy(t) PROVE Entries'
  BY <1>4, SMT DEF Copy, Step, dispatchVars, mapVars, connVars
<1>5. ASSUME NEW t \in Threads, Find(t) PROVE Entries'
  BY <1>5, SMT DEF Find, Step, dispatchVars, mapVars, connVars
<1>6. ASSUME NEW t \in Threads, Link(t) PROVE Entries'
  BY <1>6, SMT DEF Link, Step, dispatchVars, mapVars, connVars
<1>7. ASSUME NEW t \in Threads, Attach(t) PROVE Entries'
  BY <1>7, SMT DEF Attach, Step, dispatchVars, entityVars, mapVars
<1>8. ASSUME NEW t \in Threads, StartReceive(t) PROVE Entries'
  BY <1>8, SMT DEF StartReceive, Step, dispatchVars, entityVars, mapVars
<1>9. ASSUME NEW t \in Threads, Leave(t) PROVE Entries'
  BY <1>9, SMT DEF Leave, Step, Finish, entityVars, mapVars
<1>10. ASSUME NEW c \in Clients, ReadFails(c) PROVE Entries'
  BY <1>10, SMT DEF ReadFails, Step, dispatchVars, entityVars, mapVars
<1>11. CASE UNCHANGED vars
  BY <1>11, SMT DEF vars, dispatchVars, entityVars, mapVars, connVars
<1> QED
  BY <1>1, <1>2, <1>3, <1>4, <1>5, <1>6, <1>7, <1>8, <1>9, <1>10, <1>11
     DEF Next, ThreadStep

\* Every action keeps a thread's own entities in its view.
LEMMA NextViews == TypeOK /\ Calls /\ Ids /\ Entries /\ Views /\ [Next]_vars => Views'
<1> SUFFICES ASSUME TypeOK, Calls, Ids, Entries, Views, [Next]_vars PROVE Views'
  OBVIOUS
<1> USE NoClientAssumption, NoThreadAssumption DEF TypeOK, DispatchTypeOK, Calls, Ids, Entries,
      EntryOf, Views, HasId, Entity
<1>1. ASSUME NEW t \in Threads, NEW c \in Clients, ClientConnected(t, c) PROVE Views'
  BY <1>1, SMT DEF ClientConnected, Deliver, Step, dispatchVars, entityVars, mapVars, connVars
<1>2. ASSUME NEW t \in Threads, LookUp(t) PROVE Views'
  BY <1>2, SMT DEF LookUp, Step, dispatchVars, entityVars, mapVars, connVars
<1>3. ASSUME NEW t \in Threads, Generate(t) PROVE Views'
  BY <1>3, SMT DEF Generate, Step, dispatchVars, mapVars, connVars
<1>4. ASSUME NEW t \in Threads, Copy(t) PROVE Views'
  BY <1>4, SMT DEF Copy, Step, dispatchVars, mapVars, connVars
<1>5. ASSUME NEW t \in Threads, Find(t) PROVE Views'
  BY <1>5, SMT DEF Find, Step, dispatchVars, mapVars, connVars
<1>6. ASSUME NEW t \in Threads, Link(t) PROVE Views'
  <2> DEFINE new == [id |-> id[t], client |-> worker[t]]
  <2>1. /\ pc[t] = "link" /\ pc' = [pc EXCEPT ![t] = "attach"]
        /\ UNCHANGED <<worker, view, by>>
    BY <1>6 DEF Link, Step, dispatchVars
  <2>2. nodes' \subseteq nodes \cup {new}
    BY <1>6 DEF Link, mapVars
  <2>3. worker[t] \in Clients /\ by[worker[t]] = t
    BY <2>1, SMT
  <2>4. ASSUME NEW u \in Threads, pc'[u] \in {"find", "link"}
        PROVE  u # t /\ pc[u] = pc'[u] /\ by'[worker'[u]] = u
    BY <2>1, <2>4, SMT
  <2>5. ASSUME NEW u \in Threads, pc'[u] = "link", NEW e \in nodes',
               e.client = NoClient \/ by'[e.client] = u
        PROVE  e \in view'[u]
    <3>1. u # t /\ pc[u] = "link"
      BY <2>1, <2>5, SMT
    <3>2. e # new
      BY <2>1, <2>3, <2>5, <3>1, NoClientAssumption
    <3> QED
      BY <2>1, <2>2, <2>5, <3>1, <3>2
  <2> QED
    BY <2>4, <2>5, Zenon
<1>7. ASSUME NEW t \in Threads, Attach(t) PROVE Views'
  BY <1>7, SMT DEF Attach, Step, dispatchVars, entityVars, mapVars
<1>8. ASSUME NEW t \in Threads, StartReceive(t) PROVE Views'
  BY <1>8, SMT DEF StartReceive, Step, dispatchVars, entityVars, mapVars
<1>9. ASSUME NEW t \in Threads, Leave(t) PROVE Views'
  BY <1>9, SMT DEF Leave, Finish, Step, entityVars, mapVars
<1>10. ASSUME NEW c \in Clients, ReadFails(c) PROVE Views'
  BY <1>10, SMT DEF ReadFails, Step, dispatchVars, entityVars, mapVars
<1>11. CASE UNCHANGED vars
  BY <1>11, SMT DEF vars, dispatchVars, entityVars, mapVars, connVars
<1> QED
  BY <1>1, <1>2, <1>3, <1>4, <1>5, <1>6, <1>7, <1>8, <1>9, <1>10, <1>11
     DEF Next, ThreadStep

\* That two threads have linked nodes stays true, and the first node to be linked
\* at a place that has changed comes after one of another thread.
LEMMA NextLosses ==
  TypeOK /\ Calls /\ Ids /\ Entries /\ Views /\ Losses /\ [Next]_vars => Losses'
<1> SUFFICES ASSUME TypeOK, Calls, Ids, Entries, Views, Losses, [Next]_vars PROVE Losses'
  OBVIOUS
<1> USE NoClientAssumption, NoThreadAssumption
<1>1. ASSUME nodes \subseteq nodes', \A e \in nodes : by'[e.client] = by[e.client], LinkedByTwo
      PROVE  LinkedByTwo'
  BY <1>1 DEF LinkedByTwo
<1>2. CASE UNCHANGED <<mapVars, by>>
  BY <1>2 DEF mapVars, Losses, LinkedByTwo
<1>3. ASSUME NEW t \in Threads, Copy(t) PROVE Losses'
  <2>1. UNCHANGED mapVars /\ by' = [by EXCEPT ![worker[t]] = t] /\ pc[t] = "copy"
    BY <1>3 DEF Copy, Step
  <2>2. by[worker[t]] = NoThread
    BY <2>1 DEF Ids, HasId
  <2>3. \A e \in nodes : e.client # NoClient => by[e.client] # NoThread
    BY DEF Entries, EntryOf, HasId
  <2>4. \A e \in nodes : e.client # NoClient => e.client # worker[t]
    BY <2>2, <2>3
  <2>5. \A e \in nodes : e.client \in Clients \cup {NoClient}
    BY DEF TypeOK, Entity
  <2>6. by \in [Clients -> Threads \cup {NoThread}]
    BY DEF TypeOK
  <2>7. LinkedByTwo => LinkedByTwo'
    <3> SUFFICES ASSUME NEW m \in nodes, NEW n \in nodes, m.client # NoClient,
                        n.client # NoClient, by[m.client] # by[n.client]
                 PROVE  LinkedByTwo'
      BY DEF LinkedByTwo
    <3>1. m \in nodes' /\ n \in nodes'
      BY <2>1 DEF mapVars
    <3>2. by'[m.client] = by[m.client] /\ by'[n.client] = by[n.client]
      BY <2>1, <2>4, <2>5, <2>6
    <3> QED
      BY <3>1, <3>2 DEF LinkedByTwo
  <2> QED
    BY <2>1, <2>7 DEF Losses, mapVars
<1>4. ASSUME NEW t \in Threads, Link(t) PROVE Losses'
  <2> DEFINE node == [id |-> id[t], client |-> worker[t]]
  <2>1. by' = by /\ pc[t] = "link"
    BY <1>4 DEF Link, Step
  <2>2. CASE UNCHANGED mapVars
    BY <1>2, <2>1, <2>2
  <2>3. CASE /\ nodes' = nodes \cup {node}
             /\ intact' = (intact /\ view[t] = nodes)
             /\ entities' \in IF intact' THEN {entities \cup {node}} ELSE SUBSET nodes'
    <3>1. CASE LinkedByTwo
      BY <1>1, <2>1, <2>3, <3>1 DEF Losses
    <3>2. CASE intact /\ entities = nodes /\ view[t] = nodes
      BY <2>3, <3>2 DEF Losses
    <3>3. CASE view[t] # nodes
      <4>1. PICK n \in nodes : n \notin view[t]
        BY <3>3 DEF TypeOK
      <4>2. n.client # NoClient /\ by[n.client] # t
        BY <2>1, <4>1 DEF Views
      <4>3. by[node.client] = t /\ node.client # NoClient
        BY <2>1 DEF Views, Calls, TypeOK, DispatchTypeOK
      <4>4. n \in nodes' /\ node \in nodes'
        BY <2>3
      <4> QED
        BY <2>1, <4>2, <4>3, <4>4 DEF Losses, LinkedByTwo
    <3> QED
      BY <3>1, <3>2, <3>3 DEF Losses
  <2> QED
    BY <1>4, <2>2, <2>3 DEF Link
<1> QED
  BY <1>2, <1>3, <1>4
     DEF Next, ThreadStep, vars, entityVars, ClientConnected, LookUp, Generate, Find, Attach,
         StartReceive, Leave, ReadFails

\* Every action keeps a read connection owned or excused.
LEMMA NextOwners == TypeOK /\ Calls /\ Ids /\ BootIds /\ Entries /\ Owners /\ [Next]_vars => Owners'
<1> SUFFICES ASSUME TypeOK, Calls, Ids, BootIds, Entries, Owners, [Next]_vars PROVE Owners'
  OBVIOUS
<1> USE NoClientAssumption, NoThreadAssumption, ConfigsAssumption DEF TypeOK, DispatchTypeOK, Calls, Ids, Owners, Excused,
      Collides, HasId
<1>1. ASSUME NEW t \in Threads, NEW c \in Clients, ClientConnected(t, c) PROVE Owners'
  BY <1>1, SMT DEF ClientConnected, Step, Deliver, dispatchVars, entityVars, mapVars, connVars
<1>2. ASSUME NEW t \in Threads, LookUp(t) PROVE Owners'
  BY <1>2, SMT DEF LookUp, Step, dispatchVars, entityVars, mapVars, connVars
<1>3. ASSUME NEW t \in Threads, Generate(t) PROVE Owners'
  BY <1>3, SMT DEF Generate, Step, dispatchVars, mapVars, connVars
<1>4. ASSUME NEW t \in Threads, Copy(t) PROVE Owners'
  BY <1>4, SMTT(30) DEF Copy, Step, dispatchVars, mapVars, connVars
<1>5. ASSUME NEW t \in Threads, Find(t) PROVE Owners'
  <2>1. ~kept'[t] => Collides(worker[t])
    <3> SUFFICES ASSUME ~kept'[t] PROVE Collides(worker[t])
      OBVIOUS
    <3>1. PICK found \in Found : kept' = [kept EXCEPT ![t] = \A e \in found : e.id # id[t]]
      BY <1>5 DEF Find
    <3>2. found \subseteq nodes
      BY DEF Found
    <3>3. PICK e \in found : e.id = id[t]
      BY <3>1
    <3>4. EntryOf(e) /\ pc[t] = "find" /\ e \in Entity
      BY <1>5, <3>2, <3>3, SMT DEF Find, Step, Entries
    <3>5. HasId(worker[t]) /\ given[worker[t]] = e.id /\ worker[t] \in Clients
      BY <3>3, <3>4, SMT DEF Entries
    <3>6. e.client # NoClient
      BY <3>4, <3>5, SMT DEF BootIds, EntryOf, Torn, ServiceId
    <3> QED
      BY <3>4, <3>5, <3>6, SMT DEF EntryOf, BeforeAttach, Entity
  <2>2. UNCHANGED <<worker, phase, config, given, by, owned, reading, destroyed>>
    BY <1>5 DEF Find, dispatchVars, connVars
  <2>3. pc[t] = "find" /\ pc' = [pc EXCEPT ![t] = "link"]
        /\ \A u \in Threads : u # t => kept'[u] = kept[u]
    BY <1>5, SMT DEF Find, Step
  <2> QED
    BY <2>1, <2>2, <2>3, SMT
<1>6. ASSUME NEW t \in Threads, Link(t) PROVE Owners'
  BY <1>6, SMTT(30) DEF Link, Step, dispatchVars, mapVars, connVars
<1>7. ASSUME NEW t \in Threads, Attach(t) PROVE Owners'
  <2>1. worker[t] \in Clients /\ HasId(worker[t]) /\ worker[t] \notin destroyed
    BY <1>7, SMT DEF Attach, Step, Entries
  <2>2. /\ pc[t] = "attach" /\ pc' = [pc EXCEPT ![t] = "receive"]
        /\ UNCHANGED <<worker, phase, config, uuid, id, kept, given, by,
                        reading, closed, destroyed>>
    BY <1>7 DEF Attach, Step, dispatchVars, entityVars, mapVars
  <2>3. owned' = IF config.network /\ kept[t] THEN owned \cup {worker[t]} ELSE owned
    BY <1>7 DEF Attach
  <2>4. owned \subseteq owned' /\ owned' \subseteq owned \cup {worker[t]}
    BY <2>3
  <2>5. \A c \in Clients : Excused(c) => Excused(c)'
    BY <2>2, <2>4, Zenon
  <2>6. Excused(worker[t])'
    <3>1. CASE kept[t] /\ config.network
      BY <2>2, <2>3, <3>1
    <3>2. CASE ~config.network
      BY <2>2, <3>2
    <3>3. CASE ~kept[t]
      BY <2>1, <2>2, <3>3
    <3> QED
      BY <3>1, <3>2, <3>3
  <2>7. \A u \in Threads : /\ pc'[u] \in {"link", "attach"} => pc[u] = pc'[u]
                           /\ pc'[u] = "receive" => u = t \/ pc[u] = "receive"
    BY <2>2, SMT
  <2>8. \A u \in Threads : pc'[u] = "receive" => worker'[u] \in Clients
    BY <2>1, <2>2, <2>7, SMT
  <2>9. (\A u \in Threads : pc[u] \in {"link", "attach"} => kept[u] \/ Collides(worker[u]))'
    <3> SUFFICES ASSUME NEW u \in Threads, pc'[u] \in {"link", "attach"}
                 PROVE  (kept[u] \/ Collides(worker[u]))'
      OBVIOUS
    <3>1. kept[u] \/ Collides(worker[u])
      BY <2>7 DEF Owners
    <3>2. UNCHANGED <<kept, worker, given, by>>
      BY <2>2
    <3> QED
      BY <3>1, <3>2, Zenon
  <2>10. (\A u \in Threads : pc[u] = "receive" => Excused(worker[u]))'
    <3> SUFFICES ASSUME NEW u \in Threads, pc'[u] = "receive" PROVE Excused(worker[u])'
      OBVIOUS
    <3>1. CASE u = t
      BY <2>6, <3>1
    <3>2. CASE u # t
      <4>1. worker[u] \in Clients /\ Excused(worker[u])
        BY <2>2, <2>7, <2>8, <3>2, Zenon DEF Owners
      <4> QED
        BY <2>2, <2>5, <4>1, Zenon
    <3> QED
      BY <3>1, <3>2
  <2>11. (\A c \in reading : Excused(c))'
    BY <2>2, <2>5, Zenon
  <2>12. (\A c \in destroyed : phase[c] = "served" /\ c \notin owned)'
    BY <2>1, <2>2, <2>4, ZenonT(30)
  <2> QED
    BY <2>9, <2>10, <2>11, <2>12, Zenon
<1>8. ASSUME NEW t \in Threads, StartReceive(t) PROVE Owners'
  BY <1>8, SMT DEF StartReceive, Step, dispatchVars, entityVars, mapVars
<1>9. ASSUME NEW t \in Threads, Leave(t) PROVE Owners'
  BY <1>9, SMT DEF Leave, Step, Finish, entityVars, mapVars
<1>10. ASSUME NEW c \in Clients, ReadFails(c) PROVE Owners'
  BY <1>10, SMT DEF ReadFails, Step, dispatchVars, entityVars, mapVars
<1>11. CASE UNCHANGED vars
  BY <1>11, SMT DEF vars, dispatchVars, entityVars, mapVars, connVars
<1> QED
  BY <1>1, <1>2, <1>3, <1>4, <1>5, <1>6, <1>7, <1>8, <1>9, <1>10, <1>11
     DEF Next, ThreadStep

-----------------------------------------------------------------------------

\* The inductive invariant of a pool of any size.
IndInv ==
  /\ TypeOK /\ Calls
  /\ Ids /\ IdsCollideAcrossThreadsOnly
  /\ BootIds /\ Entries /\ Views /\ Losses /\ Owners

\* The inductive invariant holds when boot is over.
LEMMA InitIndInv == Init => IndInv
<1> SUFFICES ASSUME Init PROVE IndInv
  OBVIOUS
<1> USE NoClientAssumption, NoThreadAssumption, ConfigsAssumption
    DEF Init, DispatchInit, HasId
<1>1. TypeOK
  <2>1. uuid \in Nat \ {0} /\ nodes \subseteq Entity
    BY SMT DEF ServiceId, Entity
  <2> QED
    BY <2>1, SMT DEF TypeOK, DispatchTypeOK, Phases, Locations, Torn
<1>2. Calls /\ Ids /\ IdsCollideAcrossThreadsOnly
  BY SMT DEF Calls, Ids, IdsCollideAcrossThreadsOnly
<1>3. BootIds /\ Owners
  BY SMT DEF BootIds, Owners, Excused, ServiceId
<1>4. Entries /\ Views /\ Losses
  BY SMT DEF Entries, EntryOf, BeforeAttach, Views, Losses
<1> QED
  BY <1>1, <1>2, <1>3, <1>4 DEF IndInv

\* The inductive invariant holds in every reachable state.
THEOREM Invariance == Spec => []IndInv
<1>1. Init => IndInv
  BY InitIndInv
<1>2. IndInv /\ [Next]_vars => IndInv'
  BY NextTypeOK, NextCalls, NextIds, NextBootIds, NextEntries, NextViews, NextLosses,
     NextOwners DEF IndInv
<1> QED
  BY <1>1, <1>2, PTL DEF Spec

\* For every number of threads and clients the state has its type.
THEOREM TypeCorrect == Spec => []TypeOK
BY Invariance, PTL DEF IndInv

\* Whatever the size of the pool, two entities share an id only when two
\* threads created them (or when an id was torn while it was copied).
THEOREM CollisionsNeedTwoThreads == Spec => []IdsCollideAcrossThreadsOnly
BY Invariance, PTL DEF IndInv

\* Whatever the size of the pool, the map has lost no entity as long as all the
\* entities of clients were linked by one thread.
THEOREM LossNeedsTwoThreads == Spec => []LossAcrossThreadsOnly
<1>1. IndInv => LossAcrossThreadsOnly
  BY DEF IndInv, Losses, LossAcrossThreadsOnly
<1> QED
  BY <1>1, Invariance, PTL

\* Whatever the size of the pool, a connection is destroyed under its read only
\* for a configuration that gives it no owner or for an id that was taken.
THEOREM DanglingReadsExplained == Spec => []DanglingReadHasCause
<1>1. IndInv => DanglingReadHasCause
  BY SMT DEF IndInv, Owners, Excused, Collides, DanglingReadHasCause
<1> QED
  BY <1>1, Invariance, PTL

-----------------------------------------------------------------------------

\* A pool of one thread finds the map as it left it and never repeats an id.
LEMMA SingleThreadSteps ==
  ASSUME \A t, u \in Threads : t = u
  PROVE  IndInv /\ SingleThread /\ RegistryComplete /\ [Next]_vars
           => (SingleThread /\ RegistryComplete)'
<1> SUFFICES ASSUME IndInv, SingleThread, RegistryComplete, [Next]_vars PROVE (SingleThread /\ RegistryComplete)'
  OBVIOUS
<1> USE NoClientAssumption, NoThreadAssumption, ConfigsAssumption DEF IndInv, TypeOK, DispatchTypeOK, Calls, Ids, Entries,
      SingleThread, RegistryComplete, HasId, Torn
<1>1. ASSUME NEW t \in Threads, NEW c \in Clients, ClientConnected(t, c) PROVE (SingleThread /\ RegistryComplete)'
  BY <1>1, SMT DEF ClientConnected, Step, Deliver, dispatchVars, entityVars, mapVars, connVars
<1>2. ASSUME NEW t \in Threads, LookUp(t) PROVE (SingleThread /\ RegistryComplete)'
  BY <1>2, SMT DEF LookUp, Step, dispatchVars, entityVars, mapVars, connVars
<1>3. ASSUME NEW t \in Threads, Generate(t) PROVE (SingleThread /\ RegistryComplete)'
  <2>1. /\ pc[t] = "generate" /\ pc' = [pc EXCEPT ![t] = "copy"] /\ uuid' = uuid + 1
        /\ UNCHANGED <<worker, id, view, kept, nodes, entities, intact, given, by, owned>>
    BY <1>3 DEF Generate, Step, dispatchVars, mapVars, connVars
  <2>2. \A e \in nodes : e.id \in Nat /\ e.id < uuid'
    BY <2>1, SMT DEF Entity
  <2>3. \A u \in Threads : u = t /\ pc'[u] = "copy"
    BY <2>1, SMT
  <2> QED
    BY <2>1, <2>2, <2>3, SMT
<1>4. ASSUME NEW t \in Threads, Copy(t) PROVE (SingleThread /\ RegistryComplete)'
  <2>1. PICK text \in {uuid} \cup {Torn : u \in {v \in Threads : pc[v] = "generate"}} :
          /\ id' = [id EXCEPT ![t] = text]
          /\ given' = [given EXCEPT ![worker[t]] = text]
    BY <1>4 DEF Copy
  <2>2. /\ pc[t] = "copy" /\ pc' = [pc EXCEPT ![t] = "find"]
        /\ by' = [by EXCEPT ![worker[t]] = t]
        /\ UNCHANGED <<worker, uuid, view, kept, nodes, entities, intact, owned>>
    BY <1>4 DEF Copy, Step, dispatchVars, mapVars, connVars
  <2>3. text = uuid
    BY <2>1, <2>2, SMT
  <2>4. worker[t] \in Clients /\ ~HasId(worker[t])
    BY <2>2, SMT
  <2>5. worker[t] \notin owned
    <3> DEFINE e == [id |-> given[worker[t]], client |-> worker[t]]
    <3>1. e \in entities => EntryOf(e)
      BY DEF Entries
    <3>2. EntryOf(e) => HasId(e.client) \/ e.client = NoClient
      BY Zenon DEF EntryOf
    <3>3. e.client = worker[t]
      OBVIOUS
    <3> QED
      BY <2>4, <3>1, <3>2, <3>3, NoClientAssumption DEF RegistryComplete
  <2>6. \A u \in Threads : u = t /\ pc'[u] = "find" /\ id'[u] = uuid
    BY <2>1, <2>2, <2>3, SMT
  <2>7. \A c \in Clients : c # worker[t] => given'[c] = given[c] /\ by'[c] = by[c]
    BY <2>1, <2>2, <2>4, SMT
  <2>8. given'[worker[t]] # Torn
    BY <2>1, <2>3, <2>4, SMT
  <2>9. SingleThread'
    BY <2>2, <2>6, <2>7, <2>8, SMT
  <2>10. RegistryComplete'
    BY <2>2, <2>5, <2>7, SMT
  <2> QED
    BY <2>9, <2>10
<1>5. ASSUME NEW t \in Threads, Find(t) PROVE (SingleThread /\ RegistryComplete)'
  <2>1. /\ pc[t] = "find" /\ pc' = [pc EXCEPT ![t] = "link"] /\ view' = [view EXCEPT ![t] = nodes]
        /\ UNCHANGED <<worker, uuid, id, nodes, entities, intact, given, by, owned>>
    BY <1>5 DEF Find, Step, dispatchVars, mapVars, connVars
  <2>2. \A u \in Threads : u = t /\ pc'[u] = "link" /\ view'[u] = nodes
    BY <2>1, SMT
  <2>3. \A e \in nodes : e.id \in Nat /\ e.id < id[t]
    BY <2>1, SMT DEF Entity
  <2>4. Found = {entities} /\ entities = nodes
    BY <2>1 DEF Found, Linking
  <2>5. kept' = [kept EXCEPT ![t] = \A e \in nodes : e.id # id[t]]
    <3> HIDE DEF IndInv, SingleThread, RegistryComplete
    <3> QED
      BY <1>5, <2>4 DEF Find
  <2>6. kept'[t]
    <3>1. \A e \in nodes : e.id # id[t]
      BY <2>3, SMT
    <3>2. kept \in [Threads -> BOOLEAN]
      OBVIOUS
    <3> HIDE DEF IndInv, SingleThread, RegistryComplete
    <3> QED
      BY <2>5, <3>1, <3>2, Zenon
  <2>7. SingleThread'
    BY <2>1, <2>2, <2>3, <2>6, SMT
  <2>8. RegistryComplete'
    BY <2>1
  <2> QED
    BY <2>7, <2>8
<1>6. ASSUME NEW t \in Threads, Link(t) PROVE (SingleThread /\ RegistryComplete)'
  <2> DEFINE new == [id |-> id[t], client |-> worker[t]]
  <2>1. /\ pc[t] = "link" /\ pc' = [pc EXCEPT ![t] = "attach"]
        /\ UNCHANGED <<worker, uuid, id, view, kept, given, by, owned>>
    BY <1>6 DEF Link, Step, dispatchVars, connVars
  <2>2. view[t] = nodes /\ kept[t] /\ intact /\ entities = nodes
    BY <2>1
  <2>3. nodes' = nodes \cup {new} /\ intact' /\ entities' = nodes'
    <3> HIDE DEF IndInv, SingleThread, RegistryComplete
    <3> QED
      BY <1>6, <2>2 DEF Link
  <2>4. \A u \in Threads : u = t /\ pc'[u] = "attach"
    BY <2>1, SMT
  <2>5. \A e \in nodes' : e.id <= uuid'
    <3>1. new.id <= uuid /\ uuid' = uuid
      BY <2>1, SMT
    <3> QED
      BY <2>3, <3>1, Zenon
  <2>6. \A u \in Threads : kept'[u] /\ [id |-> id'[u], client |-> worker'[u]] \in entities'
    BY <2>1, <2>2, <2>3, <2>4, Zenon
  <2>7. RegistryComplete'
    BY <2>1, <2>2, <2>3, Zenon
  <2>8. \A c \in Clients : HasId(c)' => given'[c] # Torn
    BY <2>1, Zenon
  <2> QED
    BY <2>3, <2>4, <2>5, <2>6, <2>7, <2>8, SMT
<1>7. ASSUME NEW t \in Threads, Attach(t) PROVE (SingleThread /\ RegistryComplete)'
  BY <1>7, SMT DEF Attach, Step, dispatchVars, entityVars, mapVars
<1>8. ASSUME NEW t \in Threads, StartReceive(t) PROVE (SingleThread /\ RegistryComplete)'
  BY <1>8, SMT DEF StartReceive, Step, dispatchVars, entityVars, mapVars
<1>9. ASSUME NEW t \in Threads, Leave(t) PROVE (SingleThread /\ RegistryComplete)'
  BY <1>9, SMT DEF Leave, Step, Finish, entityVars, mapVars
<1>10. ASSUME NEW c \in Clients, ReadFails(c) PROVE (SingleThread /\ RegistryComplete)'
  BY <1>10, SMT DEF ReadFails, Step, dispatchVars, entityVars, mapVars
<1>11. CASE UNCHANGED vars
  BY <1>11, SMT DEF vars, dispatchVars, entityVars, mapVars, connVars
<1> QED
  BY <1>1, <1>2, <1>3, <1>4, <1>5, <1>6, <1>7, <1>8, <1>9, <1>10, <1>11
     DEF Next, ThreadStep

\* With a pool of one thread every entity has an id of its own, and the entity
\* that owns a connection is found under its id.
THEOREM OneThreadIsSafe ==
  ASSUME \A t, u \in Threads : t = u
  PROVE  Spec => [](UniqueIds /\ RegistryComplete)
<1>1. Init => SingleThread /\ RegistryComplete
  BY SMT DEF Init, DispatchInit, SingleThread, RegistryComplete, HasId, ServiceId
<1>2. IndInv /\ SingleThread /\ RegistryComplete /\ [Next]_vars
        => (SingleThread /\ RegistryComplete)'
  BY SingleThreadSteps
<1>3. IndInv /\ SingleThread => UniqueIds
  BY SMT DEF IndInv, TypeOK, SingleThread, IdsCollideAcrossThreadsOnly, UniqueIds, HasId
<1> QED
  BY <1>1, <1>2, <1>3, Invariance, PTL DEF Spec

\* With a pool of one thread and a configuration that gives every connection an
\* owner, no read outlives its connection.
THEOREM OneThreadReadsAreSafe ==
  ASSUME \A t, u \in Threads : t = u,
         \A k \in Configs : k.server /\ k.network
  PROVE  Spec => []NoDanglingRead
<1>1. Spec => []UniqueIds
  BY OneThreadIsSafe, PTL
<1>2. IndInv /\ UniqueIds => NoDanglingRead
  BY SMT DEF IndInv, TypeOK, Owners, Excused, Collides, UniqueIds, NoDanglingRead
<1> QED
  BY <1>1, <1>2, Invariance, PTL

\* The service is driven by the dispatch alone: every step of it starts or ends
\* the callback of one client, or is invisible to the network.  AsioServer
\* implements that dispatch, so that the two modules fit together.
THEOREM DispatchIsFollowed == Spec => DispatchSpec
<1>1. Init => DispatchInit
  BY DEF Init
<1>2. [Next]_vars => [DispatchNext]_dispatchVars
  <2> SUFFICES ASSUME [Next]_vars PROVE DispatchNext \/ UNCHANGED dispatchVars
    OBVIOUS
  <2>1. ASSUME NEW t \in Threads, NEW c \in Clients, ClientConnected(t, c)
        PROVE  DispatchNext
    BY <2>1 DEF ClientConnected, DispatchNext
  <2>2. ASSUME NEW t \in Threads, Leave(t)
        PROVE  DispatchNext
    BY <2>2 DEF Leave, DispatchNext
  <2>3. ASSUME NEW t \in Threads, ThreadStep(t), ~Leave(t)
        PROVE  UNCHANGED dispatchVars
    BY <2>3 DEF ThreadStep, LookUp, Generate, Copy, Find, Link, Attach, StartReceive, dispatchVars
  <2>4. ASSUME NEW c \in Clients, ReadFails(c)
        PROVE  UNCHANGED dispatchVars
    BY <2>4 DEF ReadFails, dispatchVars
  <2>5. CASE UNCHANGED vars
    BY <2>5 DEF vars, dispatchVars
  <2> QED
    BY <2>1, <2>2, <2>3, <2>4, <2>5 DEF Next
<1> QED
  BY <1>1, <1>2, PTL DEF Spec, DispatchSpec

=============================================================================
