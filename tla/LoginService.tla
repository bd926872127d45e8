---------------------------- MODULE LoginService ----------------------------
(***************************************************************************)
(* What the game does with a client the network layer hands it             *)
(* (game_main.cpp, login_service.cpp, entity_factory.h, uuid.h): it looks  *)
(* up the login service, creates an entity with an id of its own, records  *)
(* it in the factory's map, and makes the entity's NetworkComponent the    *)
(* owner of the connection.  Then the accept handler starts reading and    *)
(* drops its own reference.                                                *)
(*                                                                         *)
(* The clients arrive as AcceptDispatch promises.  Nothing on this path    *)
(* takes a lock, so the two data races - the generator's string and the    *)
(* factory's map - are cut where two threads overlap.  A racing access of   *)
(* the map may leave any of it reachable; a crash and a search that never  *)
(* ends are left out.                                                      *)
(***************************************************************************)
EXTENDS AcceptDispatch, Naturals

CONSTANTS
  Configs,    \* the configurations considered
  NoThread    \* history of a client that has no entity

ASSUME NoThreadAssumption == NoThread \notin Threads

ASSUME ConfigsAssumption ==
  Configs \subseteq [service : BOOLEAN, login : BOOLEAN,
                     server : BOOLEAN, network : BOOLEAN]

VARIABLES
  config,     \* config.service: a LoginService was created at boot;
              \* config.login: the login configuration was loaded;
              \* config.server: its entity class is "ServerEntity";
              \* config.network: its components name "NetworkComponent"
  pc,         \* where every thread is in the accepted callback
  uuid,       \* UUID::id_, numbered in the order of generation
  id,         \* id[t]: the id create_entity holds on thread t
  nodes,      \* the nodes of EntityFactory::entities_, which are never freed
  entities,   \* those of them that a search of the map finds
  intact,     \* no node was ever linked at a place that had changed meanwhile
  view,       \* view[t]: the nodes when thread t's emplace searched its place
  kept,       \* kept[t]: it found no such id, so that t's entity gets a node
  owned,      \* clients whose connection a living NetworkComponent holds
  reading,    \* clients whose connection has a read in flight
  closed,     \* clients whose connection closed after a failed read
  destroyed,  \* clients whose AsioTcpConnection object is destroyed
  given, by   \* history: the id of the entity of a client, and its thread

mapVars    == <<nodes, entities, intact>>
entityVars == <<uuid, id, view, kept, mapVars, given, by>>
connVars   == <<owned, reading, closed, destroyed>>
vars == <<dispatchVars, config, pc, entityVars, connVars>>

ServiceId == 2     \* the id of the login service, the second one generated:
                   \* the constructor of UUID made the first
Torn == 0          \* the text of an id read while it was being replaced

Entity == [id : Nat, client : Clients \cup {NoClient}]

HasId(c) == by[c] # NoThread

-----------------------------------------------------------------------------

\* Boot is over: the login service, when there is one, is the only entity.
Init ==
  /\ DispatchInit
  /\ config \in Configs
  /\ pc = [t \in Threads |-> "idle"]
  /\ uuid = IF config.service THEN ServiceId ELSE 1
  /\ id = [t \in Threads |-> Torn]
  /\ view = [t \in Threads |-> {}]
  /\ kept = [t \in Threads |-> FALSE]
  /\ nodes = IF config.service THEN {[id |-> ServiceId, client |-> NoClient]} ELSE {}
  /\ entities = nodes
  /\ intact = TRUE
  /\ owned = {} /\ reading = {} /\ closed = {} /\ destroyed = {}
  /\ given = [c \in Clients |-> Torn]
  /\ by = [c \in Clients |-> NoThread]

Step(t, from, to) == pc[t] = from /\ pc' = [pc EXCEPT ![t] = to]

\* The accept handler calls GameMain::on_client_connected.
ClientConnected(t, c) ==
  /\ Step(t, "idle", "lookup")
  /\ Deliver(t, c)
  /\ UNCHANGED <<config, entityVars, connVars>>

\* get_game_service, then the login configuration and the entity class.
LookUp(t) ==
  /\ Step(t, "lookup", IF ~config.service \/ ~config.login THEN "leave"
                       ELSE IF config.server THEN "generate" ELSE "receive")
  /\ UNCHANGED <<dispatchVars, config, entityVars, connVars>>

\* A mutated form: UUID::get() hands out id_ without replacing it.
GenerateNothing(t) ==
  /\ Step(t, "generate", "copy")
  /\ UNCHANGED <<dispatchVars, config, entityVars, connVars>>

\* UUID::get() replaces id_ and returns a reference to it ...
Generate(t) ==
  /\ Step(t, "generate", "copy")
  /\ uuid' = uuid + 1
  /\ UNCHANGED <<dispatchVars, config, id, view, kept, mapVars, given, by,
                 connVars>>

\* A mutated form: the id handed out is the one generated next.
CopyAhead(t) ==
  /\ Step(t, "copy", "find")
  /\ id' = [id EXCEPT ![t] = uuid + 1]
  /\ given' = [given EXCEPT ![worker[t]] = uuid + 1]
  /\ by' = [by EXCEPT ![worker[t]] = t]
  /\ UNCHANGED <<dispatchVars, config, uuid, view, kept, mapVars, connVars>>

\* ... which generate_id copies later: another thread may have replaced the
\* text, or be replacing it.
Copy(t) ==
  /\ Step(t, "copy", "find")
  /\ \E text \in {uuid} \cup {Torn : u \in {v \in Threads : pc[v] = "generate"}} :
       /\ id' = [id EXCEPT ![t] = text]
       /\ given' = [given EXCEPT ![worker[t]] = text]
  /\ by' = [by EXCEPT ![worker[t]] = t]
  /\ UNCHANGED <<dispatchVars, config, uuid, view, kept, mapVars, connVars>>

Linking(t) == pc[t] = "link" /\ kept[t]

\* What a search may come across: the map, but any of the nodes while a thread is
\* rebalancing it, and once the map is no search tree any more.
Found ==
  IF intact /\ ~\E u \in Threads : Linking(u) THEN {entities} ELSE SUBSET nodes

\* A mutated form: the place found for the last entity is taken for the next.
FindHinted(t) ==
  /\ Step(t, "find", "link")
  /\ view' = [view EXCEPT ![t] = IF @ = {} THEN nodes ELSE @]
  /\ \E found \in Found : kept' = [kept EXCEPT ![t] = \A e \in found : e.id # id[t]]
  /\ UNCHANGED <<dispatchVars, config, uuid, id, mapVars, given, by, connVars>>

\* entities_.emplace searches the id and the place of a new node ...
Find(t) ==
  /\ Step(t, "find", "link")
  /\ view' = [view EXCEPT ![t] = nodes]
  /\ \E found \in Found : kept' = [kept EXCEPT ![t] = \A e \in found : e.id # id[t]]
  /\ UNCHANGED <<dispatchVars, config, uuid, id, mapVars, given, by, connVars>>

\* ... and, unless it found the id, links the node there and rebalances.  If
\* another thread linked a node since the search, the tree was rotated under
\* the place: overwriting what is there now may cut off any nodes, the new one
\* included, and later emplaces may cut off more or bring some back.
Link(t) ==
  /\ Step(t, "link", "attach")
  /\ LET node == [id |-> id[t], client |-> worker[t]] IN
       \/ /\ ~kept[t]
          /\ UNCHANGED mapVars
       \/ /\ kept[t]
          /\ nodes' = nodes \cup {node}
          /\ intact' = (intact /\ view[t] = nodes)
          /\ entities' \in IF intact' THEN {entities \cup {node}} ELSE SUBSET nodes'
  /\ UNCHANGED <<dispatchVars, config, uuid, id, view, kept, given, by, connVars>>

\* A mutated form: the connection is not given to the component.
AttachNoConnection(t) ==
  /\ Step(t, "attach", "receive")
  /\ UNCHANGED <<dispatchVars, config, entityVars, connVars>>

\* init_components and set_connection.  LoginService::on_client_connected
\* returns true and its reference to the entity ends: an entity that is in no
\* map node is freed, its component with it.
Attach(t) ==
  /\ Step(t, "attach", "receive")
  /\ owned' = IF config.network /\ kept[t] THEN owned \cup {worker[t]} ELSE owned
  /\ UNCHANGED <<dispatchVars, config, entityVars, reading, closed, destroyed>>

\* handle_tcp_accept starts the first read.
StartReceive(t) ==
  /\ Step(t, "receive", "leave")
  /\ reading' = reading \cup {worker[t]}
  /\ UNCHANGED <<dispatchVars, config, entityVars, owned, closed, destroyed>>

\* The handler ends and drops its reference to the connection.
Leave(t) ==
  /\ Step(t, "leave", "idle")
  /\ Finish(t)
  /\ destroyed' = IF worker[t] \in owned THEN destroyed
                                         ELSE destroyed \cup {worker[t]}
  /\ UNCHANGED <<config, entityVars, owned, reading, closed>>

\* handle_receive with an error closes the connection.  The server sets no
\* disconnected callback, so nobody is told and the entity stays.
ReadFails(c) ==
  /\ c \in reading \ destroyed
  /\ reading' = reading \ {c}
  /\ closed' = closed \cup {c}
  /\ UNCHANGED <<dispatchVars, config, pc, entityVars, owned, destroyed>>

ThreadStep(t) ==
  \/ LookUp(t)
  \/ Generate(t) \/ Copy(t) \/ Find(t) \/ Link(t)
  \/ Attach(t) \/ StartReceive(t) \/ Leave(t)

Next ==
  \/ \E t \in Threads : ThreadStep(t) \/ \E c \in Clients : ClientConnected(t, c)
  \/ \E c \in Clients : ReadFails(c)

Spec == Init /\ [][Next]_vars

-----------------------------------------------------------------------------
(* Properties.                                                             *)

Locations == {"idle", "lookup", "generate", "copy", "find", "link", "attach",
              "receive", "leave"}

TypeOK ==
  /\ DispatchTypeOK
  /\ config \in Configs
  /\ pc \in [Threads -> Locations]
  /\ uuid \in Nat \ {0}
  /\ id \in [Threads -> 0..uuid]
  /\ nodes \subseteq Entity /\ entities \subseteq nodes /\ intact \in BOOLEAN
  /\ view \in [Threads -> SUBSET nodes]
  /\ kept \in [Threads -> BOOLEAN]
  /\ owned \subseteq Clients /\ reading \subseteq Clients
  /\ closed \subseteq Clients /\ destroyed \subseteq Clients
  /\ given \in [Clients -> 0..uuid]
  /\ by \in [Clients -> Threads \cup {NoThread}]

\* UUID::get() has no lock, and two entities may get one id.  They then were
\* created on two threads: one thread never repeats an id it read whole.
IdsCollideAcrossThreadsOnly ==
  \A c, d \in Clients :
    /\ c # d
    /\ HasId(c) /\ HasId(d)
    /\ given[c] = given[d] /\ given[c] # Torn
    => by[c] # by[d]

LinkedByTwo ==
  \E m, n \in nodes : /\ m.client # NoClient /\ n.client # NoClient
                      /\ by[m.client] # by[n.client]

\* entities_ has no lock, and entities of it may get lost: those of any thread,
\* and the login service too.  But none is lost, and none ever was, as long as
\* all clients that came got their entities from one thread of the pool.
LossAcrossThreadsOnly == entities # nodes => LinkedByTwo

\* A connection is destroyed under a read in flight (whose handler then runs on
\* a dead object) only when the configuration gives it no owner, or when its
\* entity's id was taken and the entity dropped.
DanglingReadHasCause ==
  \A c \in reading \cap destroyed :
    \/ ~config.server \/ ~config.network
    \/ \E d \in Clients \ {c} : HasId(d) /\ given[d] = given[c]

\* Every entity the factory created got an id of its own.
UniqueIds ==
  \A c, d \in Clients : HasId(c) /\ HasId(d) /\ given[c] = given[d] => c = d

\* The entity that owns a connection can be found under its id.
RegistryComplete ==
  \A c \in owned : [id |-> given[c], client |-> c] \in entities

\* A connection with a read in flight is alive.
NoDanglingRead == reading \cap destroyed = {}

=============================================================================
