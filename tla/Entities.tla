------------------------------- MODULE Entities -------------------------------
(***************************************************************************)
(* The entities as a library: EntityFactory (entity_factory.h), Entity and *)
(* its components (entity.h), Component, NetworkComponent and the way from *)
(* its disconnect handler to LoginService::on_client_disconnected, and the *)
(* position an EntityProxy carries to whoever looks for the entity.  The   *)
(* calls come in any order, on one thread; what LoginService does with     *)
(* several is the module LoginService.                                     *)
(*                                                                         *)
(* An entity or a component is the number of its construction.  It lives   *)
(* while somebody has a shared_ptr to it.  A component is stored under the *)
(* static type of the pointer that was attached.  Where the code reads     *)
(* what is gone, the process may also end, and its behaviour with it.      *)
(***************************************************************************)
EXTENDS EntityPos, FiniteSets, Functions

CONSTANTS
  Ids,            \* the ids entities may have, as texts
  Addresses,      \* the ip and port a server process may have
  Types,          \* the types components are attached under
  MaxEntities, MaxComponents, MaxRefs  \* bounds

ASSUME EntitiesAssumption ==
  /\ "NetworkComponent" \in Types
  /\ Ids \subseteq Seq(STRING) /\ Addresses \subseteq [ip : Seq(STRING), port : Ints]
  /\ MaxEntities \in Nat /\ MaxComponents \in Nat /\ MaxRefs \in Nat \ {0}

Entity    == 1..MaxEntities
Component == 1..MaxComponents
None      == 0

VARIABLES
  entities_,   \* EntityFactory::entities_
  id_,         \* id_[e]: the id of entity e, for those constructed
  held,        \* held[e]: shared_ptrs to e outside the factory
  freed,       \* entities destructed
  invalid,     \* entities whose validate_ is false
  components_, \* components_[e]: by type
  owner_,      \* owner_[c], for the components constructed; an owner in freed
               \* is an expired weak_ptr
  handles,     \* components the program has a shared_ptr to
  listening,   \* components with the disconnect handler of LoginService
  moved,       \* history: components taken or dropped without their owner
  displaced,   \* history: entities the factory does not have under their id
  robbed       \* history: entities destroyed with one reference outside

factoryVars == <<entities_, id_, displaced, robbed>>
lifeVars    == <<held, freed, invalid>>
compVars    == <<components_, owner_, handles, listening, moved>>
vars == <<factoryVars, lifeVars, compVars>>

Init ==
  /\ entities_ = [i \in {} |-> None] /\ id_ = <<>>
  /\ held = [e \in Entity |-> 0]
  /\ freed = {} /\ invalid = {}
  /\ components_ = [e \in Entity |-> [t \in {} |-> None]]
  /\ owner_ = <<>> /\ handles = {} /\ listening = {}
  /\ moved = {} /\ displaced = {} /\ robbed = {}

Made      == 1..Len(id_)
Usable(e) == e \in Made /\ e \notin freed /\ held[e] > 0
Has(e)    == Range(components_[e])

\* std::map::emplace: a key that is taken keeps its value.
emplace(map, key, value) ==
  [k \in DOMAIN map \cup {key} |-> IF k \in DOMAIN map THEN map[k] ELSE value]

\* ~Entity: before_destruct empties the components.
Destruct(e) ==
  /\ freed' = freed \cup {e}
  /\ components_' = [components_ EXCEPT ![e] = [t \in {} |-> None]]

-----------------------------------------------------------------------------
(* EntityFactory.                                                          *)

\* A mutated form: a new entity replaces the one of its id.
CreateReplacing(id) ==
  /\ Len(id_) < MaxEntities
  /\ id_' = Append(id_, id)
  /\ entities_' = [i \in DOMAIN entities_ \cup {id} |->
                     IF i = id THEN Len(id_') ELSE entities_[i]]
  /\ held' = [held EXCEPT ![Len(id_')] = 1]
  /\ UNCHANGED <<displaced, robbed, freed, invalid, compVars>>

\* create_entity_with_id: emplace does nothing when the id is taken, and the
\* caller gets the new entity all the same.
Create(id) ==
  /\ Len(id_) < MaxEntities
  /\ id_' = Append(id_, id)
  /\ entities_' = emplace(entities_, id, Len(id_'))
  /\ displaced' = IF id \in DOMAIN entities_ THEN displaced \cup {Len(id_')} ELSE displaced
  /\ held' = [held EXCEPT ![Len(id_')] = 1]
  /\ UNCHANGED <<robbed, freed, invalid, compVars>>

\* create_entity: with an id no entity had before.
CreateEntity == \E id \in Ids \ ToSet(id_) : Create(id)

Lookup(id) == IF id \in DOMAIN entities_ THEN entities_[id] ELSE None

GetEntity(id) ==
  LET e == Lookup(id) IN
  /\ e # None /\ held[e] < MaxRefs
  /\ held' = [held EXCEPT ![e] = @ + 1]
  /\ UNCHANGED <<factoryVars, freed, invalid, compVars>>

\* A mutated form: the factory keeps no reference.
ReleaseUncounted(e) ==
  /\ Usable(e)
  /\ held' = [held EXCEPT ![e] = @ - 1]
  /\ IF held[e] = 1 THEN Destruct(e) ELSE UNCHANGED <<freed, components_>>
  /\ UNCHANGED <<factoryVars, invalid, owner_, handles, listening, moved>>

\* The program lets a shared_ptr go.
Release(e) ==
  /\ Usable(e)
  /\ held' = [held EXCEPT ![e] = @ - 1]
  /\ IF held[e] = 1 /\ e \notin Range(entities_)
     THEN Destruct(e)
     ELSE UNCHANGED <<freed, components_>>
  /\ UNCHANGED <<factoryVars, invalid, owner_, handles, listening, moved>>

\* A mutated form: the last but one reference is reset as well.
AfterEraseResetting(e) ==
  \/ UNCHANGED <<lifeVars, components_, robbed>>
  \/ /\ held[e] \in {1, 2}
     /\ Destruct(e)
     /\ robbed' = IF held[e] = 1 THEN robbed \cup {e} ELSE robbed
     /\ UNCHANGED <<held, invalid>>

\* What destroy_entity does through the iterator it erased.  The node is gone,
\* its bytes may still be there: then the count it reads is without the
\* factory's reference, so that one means a reference of the program, which
\* reset() takes away.  If the entity was destructed, the count is anything.
AfterErase(e) ==
  \/ UNCHANGED <<lifeVars, components_, robbed>>
  \/ /\ held[e] = 1
     /\ Destruct(e)
     /\ robbed' = robbed \cup {e}
     /\ UNCHANGED <<held, invalid>>
  \/ /\ held[e] > 1
     /\ invalid' = invalid \cup {e}
     /\ UNCHANGED <<held, freed, components_, robbed>>

DestroyEntity(id) ==
  LET e == Lookup(id) IN
  /\ IF e = None
     THEN \* end() is read
          /\ UNCHANGED <<entities_, displaced, robbed, lifeVars, components_>>
     ELSE /\ entities_' = Restrict(entities_, DOMAIN entities_ \ {id})
          /\ displaced' = displaced \cup {e}
          /\ IF held[e] = 0
             THEN /\ Destruct(e)
                  /\ UNCHANGED <<held, invalid, robbed>>
             ELSE AfterErase(e)
  /\ UNCHANGED <<id_, owner_, handles, listening, moved>>

-----------------------------------------------------------------------------
(* Entity and Component.                                                   *)

Put(e, t, c) == components_' = [components_ EXCEPT ![e] = emplace(@, t, c)]
Drop(e, t)   == components_' = [components_ EXCEPT ![e] = Restrict(@, DOMAIN @ \ {t})]

\* add_component<NetworkComponent>, by init_components or by the program.
AddComponent(e) ==
  /\ Usable(e)
  /\ IF "NetworkComponent" \in DOMAIN components_[e]
     THEN /\ handles' = handles \cup {components_[e]["NetworkComponent"]}
          /\ UNCHANGED <<owner_, components_>>
     ELSE /\ Len(owner_) < MaxComponents
          /\ owner_' = Append(owner_, e)
          /\ Put(e, "NetworkComponent", Len(owner_'))
          /\ handles' = handles \cup {Len(owner_')}
  /\ UNCHANGED <<factoryVars, lifeVars, listening, moved>>

DropHandle(c) ==
  /\ c \in handles
  /\ handles' = handles \ {c}
  /\ UNCHANGED <<factoryVars, lifeVars, components_, owner_, listening, moved>>

\* A mutated form: the owner stays what it was.
AttachSilently(e, c, t) ==
  /\ Usable(e) /\ c \in handles
  /\ t \notin DOMAIN components_[e]
  /\ Put(e, t, c)
  /\ moved' = IF \E o \in Made : c \in Has(o) THEN moved \cup {c} ELSE moved
  /\ UNCHANGED <<factoryVars, lifeVars, owner_, handles, listening>>

\* attach_component does not ask whether an entity has the component already.
AttachComponent(e, c, t) ==
  /\ Usable(e) /\ c \in handles
  /\ t \notin DOMAIN components_[e]
  /\ owner_' = [owner_ EXCEPT ![c] = e]
  /\ Put(e, t, c)
  /\ moved' = IF \E o \in Made : c \in Has(o) THEN moved \cup {c} ELSE moved
  /\ UNCHANGED <<factoryVars, lifeVars, handles, listening>>

\* delete_component<T>() leaves the owner of what it deletes; with nothing to
\* delete it dereferences end().
DeleteByType(e, t) ==
  /\ Usable(e)
  /\ IF t \in DOMAIN components_[e]
     THEN /\ Drop(e, t)
          /\ moved' = moved \cup {components_[e][t]}
     ELSE UNCHANGED <<components_, moved>>
  /\ UNCHANGED <<factoryVars, lifeVars, owner_, handles, listening>>

\* A mutated form: the component keeps its owner.
DeleteKeepingOwner(e, c, t) ==
  /\ Usable(e) /\ c \in handles
  /\ t \in DOMAIN components_[e] /\ components_[e][t] = c
  /\ Drop(e, t)
  /\ UNCHANGED <<factoryVars, lifeVars, owner_, handles, listening, moved>>

\* delete_component(component).
DeleteComponent(e, c, t) ==
  /\ Usable(e) /\ c \in handles
  /\ t \in DOMAIN components_[e] /\ components_[e][t] = c
  /\ Drop(e, t)
  /\ owner_' = [owner_ EXCEPT ![c] = None]
  /\ UNCHANGED <<factoryVars, lifeVars, handles, listening, moved>>

\* delete_all_components, by before_destruct or by the program.
DeleteAll(e) ==
  /\ Usable(e)
  /\ components_' = [components_ EXCEPT ![e] = [t \in {} |-> None]]
  /\ moved' = moved \cup Has(e)
  /\ UNCHANGED <<factoryVars, lifeVars, owner_, handles, listening>>

-----------------------------------------------------------------------------
(* NetworkComponent and LoginService.                                      *)

\* register_disconnect_handler("LoginService", ...): a second one is refused.
RegisterHandler(c) ==
  /\ c \in handles
  /\ listening' = listening \cup {c}
  /\ UNCHANGED <<factoryVars, lifeVars, components_, owner_, handles, moved>>

\* get_owner(): nothing when the weak_ptr is empty or expired.
Owner(c) == IF owner_[c] \in freed THEN None ELSE owner_[c]

\* What handle_disconnect of a component ends in: on_client_disconnected looks
\* up the id of the owner.
Found(c) == IF Owner(c) = None THEN None ELSE Lookup(id_[Owner(c)])

-----------------------------------------------------------------------------
(* Positions.                                                              *)

NoProxy == [ip |-> <<>>, port |-> 0, id |-> <<>>, validate |-> FALSE]

\* What ServerEntity's constructor puts into its EntityProxy at an address.
EntityPosition(e, here) == set_proxy(id_[e], here.ip, here.port)

-----------------------------------------------------------------------------

Next ==
  \/ CreateEntity
  \/ \E id \in Ids : Create(id) \/ GetEntity(id) \/ DestroyEntity(id)
  \/ \E e \in Made :
       \/ Release(e) \/ AddComponent(e) \/ DeleteAll(e)
       \/ \E t \in Types : DeleteByType(e, t)
       \/ \E c \in handles, t \in Types : AttachComponent(e, c, t) \/ DeleteComponent(e, c, t)
  \/ \E c \in handles : DropHandle(c) \/ RegisterHandler(c)

Spec == Init /\ [][Next]_vars

-----------------------------------------------------------------------------
(* Properties.                                                             *)

TypeOK ==
  /\ DOMAIN entities_ \subseteq Ids /\ Range(entities_) \subseteq Made \ freed
  /\ id_ \in Seq(Ids) /\ Len(id_) <= MaxEntities
  /\ held \in [Entity -> 0..MaxRefs]
  /\ freed \subseteq Made /\ invalid \subseteq Made /\ displaced \subseteq Made
  /\ robbed \subseteq Made
  /\ DOMAIN components_ = Entity
  /\ \A e \in Entity : DOMAIN components_[e] \subseteq Types /\ Has(e) \subseteq 1..Len(owner_)
  /\ owner_ \in Seq(Made \cup {None}) /\ Len(owner_) <= MaxComponents
  /\ handles \subseteq 1..Len(owner_) /\ listening \subseteq 1..Len(owner_)
  /\ moved \subseteq 1..Len(owner_)

\* A component names as its owner the entity that has it, and no other, unless
\* attach_component took it from an entity or it was deleted by its type or with
\* all others, which leave the owner behind.
OwnerIsExact ==
  \A c \in 1..Len(owner_) \ moved, e \in Made \ freed :
    (owner_[c] = e) <=> (c \in Has(e))

\* A shared_ptr of the program points to a living entity, and an entity nobody
\* points to is gone: destroy_entity breaks this only where it finds exactly
\* one reference outside the factory.
LifetimeIsShared ==
  \A e \in Made \ robbed :
    (e \in freed) <=> (held[e] = 0 /\ e \notin Range(entities_))

\* A disconnect reaches the entity that has the connection: on_client_disconnected
\* finds it under the id it is given, unless the entity was destroyed or created
\* with an id that was taken, or the component taken from another entity.
DisconnectFindsOwner ==
  \A e \in Made \ (freed \cup displaced) : \A c \in (Has(e) \cap listening) \ moved :
    Found(c) = e

Plain(text) == "_" \notin ToSet(text)

\* The position of an entity leads back to its address and its id, for whoever
\* parses the text of it, exactly when neither the ip nor the id has an underscore.
PositionLeadsBack ==
  \A e \in Made, here \in Addresses :
    LET sent == EntityPosition(e, here) IN
    parse_pos(NoProxy, get_pos(sent)) = [ok |-> TRUE, proxy |-> sent]
      <=> Plain(here.ip) /\ Plain(id_[e])

=============================================================================
