---------------------------- MODULE EntitiesProofs ----------------------------
(***************************************************************************)
(* Theorems of Entities, for any ids and types and any number of entities, *)
(* components and references: who owns a component, how long an entity     *)
(* lives, that a disconnect reaches the entity of the connection, and that *)
(* the position of an entity leads back to it.                             *)
(***************************************************************************)
EXTENDS Entities, EntityPosProofs

\* The factory has an entity under its own id.
IdsLead == \A id \in DOMAIN entities_ : id_[entities_[id]] = id

\* An entity that was not displaced is found under its id.
IsFindable ==
  \A e \in Made \ displaced : id_[e] \in DOMAIN entities_ /\ entities_[id_[e]] = e

\* A new entity starts without components.
UnmadeAreEmpty == \A e \in Entity \ Made : Has(e) = {}

\* A living entity has a component under one type, unless it was moved.
TypeIsOne ==
  \A c \in 1..Len(owner_) \ moved, e \in Made \ freed :
    \A t, u \in DOMAIN components_[e] :
      components_[e][t] = c /\ components_[e][u] = c => t = u

FactoryTyped ==
  /\ DOMAIN entities_ \subseteq Ids /\ Range(entities_) \subseteq Made \ freed
  /\ id_ \in Seq(Ids) /\ Len(id_) <= MaxEntities
  /\ held \in [Entity -> 0..MaxRefs]
  /\ freed \subseteq Made /\ invalid \subseteq Made /\ displaced \subseteq Made
  /\ robbed \subseteq Made

ComponentsTyped ==
  /\ DOMAIN components_ = Entity
  /\ \A e \in Entity : DOMAIN components_[e] \subseteq Types /\ Has(e) \subseteq 1..Len(owner_)
  /\ owner_ \in Seq(Made \cup {None}) /\ Len(owner_) <= MaxComponents
  /\ handles \subseteq 1..Len(owner_) /\ listening \subseteq 1..Len(owner_)
  /\ moved \subseteq 1..Len(owner_)

FactoryInv == FactoryTyped /\ IdsLead /\ IsFindable /\ LifetimeIsShared

ComponentsInv == ComponentsTyped /\ UnmadeAreEmpty /\ TypeIsOne /\ OwnerIsExact

EntInv == FactoryInv /\ ComponentsInv

LEMMA TypesSplit == TypeOK <=> FactoryTyped /\ ComponentsTyped
BY DEF TypeOK, FactoryTyped, ComponentsTyped

\* What is in a map, and under which key.
LEMMA InRange == \A f, x : x \in Range(f) <=> \E k \in DOMAIN f : f[k] = x
BY DEF Range

LEMMA MadeAreEntities == FactoryTyped => Made \subseteq Entity /\ Len(id_) \in Nat
BY EntitiesAssumption DEF FactoryTyped, Made, Entity

-----------------------------------------------------------------------------

\* Nothing exists at the start.
LEMMA InitInv == Init => EntInv
<1> SUFFICES ASSUME Init PROVE EntInv
  OBVIOUS
<1>1. Made = {} /\ Len(owner_) = 0 /\ DOMAIN entities_ = {} /\ Range(entities_) = {}
  BY DEF Init, Made, Range
<1>2. \A e \in Entity : DOMAIN components_[e] = {} /\ Has(e) = {}
  BY DEF Init, Has, Range
<1>3. FactoryTyped
  BY <1>1, EntitiesAssumption DEF Init, FactoryTyped
<1>4. ComponentsTyped
  BY <1>1, <1>2, EntitiesAssumption DEF Init, ComponentsTyped
<1>5. IdsLead /\ IsFindable /\ LifetimeIsShared
  BY <1>1 DEF IdsLead, IsFindable, LifetimeIsShared
<1>6. UnmadeAreEmpty /\ TypeIsOne /\ OwnerIsExact
  BY <1>1, <1>2 DEF UnmadeAreEmpty, TypeIsOne, OwnerIsExact
<1> QED
  BY <1>3, <1>4, <1>5, <1>6 DEF EntInv, FactoryInv, ComponentsInv

\* A call that leaves the entities and who holds them alone.
LEMMA FactoryStill ==
  ASSUME FactoryInv, UNCHANGED <<factoryVars, lifeVars>>
  PROVE  FactoryInv'
BY DEF FactoryInv, FactoryTyped, IdsLead, IsFindable, LifetimeIsShared, Made, factoryVars, lifeVars

\* A call that leaves the components alone.
LEMMA ComponentsStill ==
  ASSUME ComponentsInv, UNCHANGED <<id_, freed, compVars>>
  PROVE  ComponentsInv'
BY DEF ComponentsInv, ComponentsTyped, UnmadeAreEmpty, TypeIsOne, OwnerIsExact, Made, Has, compVars

\* The end of an entity leaves the components of the others alone.
LEMMA ComponentsDestruct ==
  ASSUME FactoryTyped, ComponentsInv, NEW e \in Made, Destruct(e),
         UNCHANGED <<id_, owner_, handles, listening, moved>>
  PROVE  ComponentsInv'
<1>1. Made' = Made /\ e \in Entity
  BY MadeAreEntities DEF Made
<1>2. /\ DOMAIN components_' = Entity
      /\ DOMAIN components_'[e] = {} /\ Has(e)' = {}
      /\ \A o \in Entity \ {e} : components_'[o] = components_[o] /\ Has(o)' = Has(o)
  BY <1>1 DEF Destruct, ComponentsInv, ComponentsTyped, Has, Range
<1>3. ComponentsTyped'
  BY <1>1, <1>2 DEF ComponentsInv, ComponentsTyped
<1>4. UnmadeAreEmpty'
  BY <1>1, <1>2 DEF ComponentsInv, UnmadeAreEmpty
<1>5. freed' = freed \cup {e} /\ Made \subseteq Entity
  BY MadeAreEntities DEF Destruct
<1>6. TypeIsOne'
  BY <1>1, <1>2, <1>5 DEF ComponentsInv, TypeIsOne
<1>7. OwnerIsExact'
  BY <1>1, <1>2, <1>5 DEF ComponentsInv, OwnerIsExact
<1> QED
  BY <1>3, <1>4, <1>6, <1>7 DEF ComponentsInv

-----------------------------------------------------------------------------
(* The factory and the references.                                         *)

\* A new entity has an id of its own or is displaced from its birth.
LEMMA CreateInv ==
  ASSUME EntInv, NEW id \in Ids, Create(id)
  PROVE  EntInv'
<1> DEFINE new == Len(id_')
<1> USE DEF EntInv
<1>1. /\ new = Len(id_) + 1 /\ new \in Entity \ Made /\ new # None
      /\ Made' = Made \cup {new} /\ id_' \in Seq(Ids) /\ Len(id_') <= MaxEntities
      /\ id_'[new] = id /\ \A e \in Made : id_'[e] = id_[e]
  BY EntitiesAssumption DEF Create, FactoryInv, FactoryTyped, Made, Entity, None
<1> HIDE DEF new
<1>2. /\ DOMAIN entities_' = DOMAIN entities_ \cup {id}
      /\ \A i \in DOMAIN entities_ : entities_'[i] = entities_[i]
      /\ id \notin DOMAIN entities_ => entities_'[id] = new
  BY DEF Create, emplace, new
<1>3. /\ \A i \in DOMAIN entities_ : entities_[i] \in Made \ freed
      /\ freed \subseteq Made /\ displaced \subseteq Made /\ robbed \subseteq Made
      /\ invalid \subseteq Made
  BY InRange DEF FactoryInv, FactoryTyped
<1>4. /\ freed' = freed /\ robbed' = robbed /\ invalid' = invalid
      /\ displaced' = IF id \in DOMAIN entities_ THEN displaced \cup {new} ELSE displaced
      /\ held' \in [Entity -> 0..MaxRefs] /\ held'[new] = 1
      /\ \A e \in Made : held'[e] = held[e]
  BY <1>1, EntitiesAssumption DEF Create, new, FactoryInv, FactoryTyped, lifeVars, compVars
<1>5. \A i \in DOMAIN entities_' : entities_'[i] \in Made' \ freed'
  BY <1>1, <1>2, <1>3, <1>4
<1>6. FactoryTyped'
  <2>1. Range(entities_') \subseteq Made' \ freed'
    BY <1>5, InRange
  <2>2. DOMAIN entities_' \subseteq Ids
    BY <1>2 DEF FactoryInv, FactoryTyped
  <2> QED
    BY <1>1, <1>3, <1>4, <2>1, <2>2 DEF FactoryTyped
<1>7. IdsLead'
  BY <1>1, <1>2, <1>3 DEF FactoryInv, IdsLead
<1>8. IsFindable'
  BY <1>1, <1>2, <1>3, <1>4 DEF FactoryInv, IsFindable
<1>9. LifetimeIsShared'
  <2>1. \A e \in Made : e \in Range(entities_') <=> e \in Range(entities_)
    BY <1>1, <1>2, InRange
  <2>2. \A e \in Made' \ robbed' :
          (e \in freed') <=> (held'[e] = 0 /\ e \notin Range(entities_'))
    BY <1>1, <1>3, <1>4, <2>1 DEF FactoryInv, LifetimeIsShared
  <2> QED
    BY <2>2 DEF LifetimeIsShared
<1>10. ComponentsInv'
  <2>1. /\ components_' = components_ /\ owner_' = owner_ /\ handles' = handles
        /\ listening' = listening /\ moved' = moved
    BY DEF Create, compVars
  <2>2. \A e : Has(e)' = Has(e)
    BY <2>1 DEF Has
  <2>3. Has(new) = {} /\ \A c \in 1..Len(owner_) : owner_[c] \in Made \cup {None}
    BY <1>1 DEF ComponentsInv, UnmadeAreEmpty, ComponentsTyped
  <2>4. owner_ \in Seq(Made' \cup {None})
    BY <1>1, <2>3 DEF ComponentsInv, ComponentsTyped
  <2>5. ComponentsTyped'
    BY <2>1, <2>2, <2>4 DEF ComponentsInv, ComponentsTyped
  <2>6. UnmadeAreEmpty'
    BY <1>1, <2>2 DEF ComponentsInv, UnmadeAreEmpty
  <2>7. DOMAIN components_[new] = {}
    BY <2>3, InRange DEF Has
  <2>8. TypeIsOne'
    BY <1>1, <1>4, <2>1, <2>7 DEF ComponentsInv, TypeIsOne
  <2>9. OwnerIsExact'
    BY <1>1, <1>4, <2>1, <2>2, <2>3 DEF ComponentsInv, OwnerIsExact
  <2> QED
    BY <2>5, <2>6, <2>8, <2>9 DEF ComponentsInv
<1> QED
  BY <1>6, <1>7, <1>8, <1>9, <1>10 DEF FactoryInv

\* Who gets an entity holds it.
LEMMA GetEntityInv ==
  ASSUME EntInv, NEW id \in Ids, GetEntity(id)
  PROVE  EntInv'
<1> USE DEF EntInv
<1> DEFINE e == Lookup(id)
<1>1. /\ e # None /\ held[e] < MaxRefs /\ held' = [held EXCEPT ![e] = @ + 1]
      /\ UNCHANGED <<entities_, id_, displaced, robbed, freed, invalid, compVars>>
  BY DEF GetEntity, factoryVars
<1>2. id \in DOMAIN entities_ /\ e = entities_[id]
  BY <1>1 DEF Lookup
<1>3. e \in Range(entities_) /\ e \in Made \ freed /\ e \in Entity
  BY <1>2, InRange, MadeAreEntities DEF FactoryInv, FactoryTyped
<1> HIDE DEF e
<1>4. /\ held' \in [Entity -> 0..MaxRefs] /\ held'[e] # 0
      /\ \A o \in Entity \ {e} : held'[o] = held[o]
  BY <1>1, <1>3, EntitiesAssumption DEF FactoryInv, FactoryTyped
<1>5. FactoryTyped' /\ IdsLead' /\ IsFindable'
  BY <1>1, <1>4 DEF FactoryInv, FactoryTyped, IdsLead, IsFindable, Made
<1>6. LifetimeIsShared'
  BY <1>1, <1>3, <1>4, MadeAreEntities DEF FactoryInv, LifetimeIsShared, Made
<1>7. ComponentsInv'
  BY <1>1, ComponentsStill
<1> QED
  BY <1>5, <1>6, <1>7 DEF FactoryInv

\* The last reference takes the entity with it, unless the factory has one.
LEMMA ReleaseInv ==
  ASSUME EntInv, NEW e \in Made, Release(e)
  PROVE  EntInv'
<1> USE DEF EntInv
<1>1. /\ e \in Entity /\ e \notin freed /\ held[e] > 0 /\ held' = [held EXCEPT ![e] = @ - 1]
      /\ UNCHANGED <<entities_, id_, displaced, robbed, invalid, owner_, handles, listening, moved>>
  BY MadeAreEntities DEF FactoryInv, Release, Usable, factoryVars
<1>2. /\ held' \in [Entity -> 0..MaxRefs] /\ held'[e] = held[e] - 1 /\ held[e] \in Nat
      /\ \A o \in Entity \ {e} : held'[o] = held[o]
  BY <1>1, EntitiesAssumption DEF FactoryInv, FactoryTyped
<1>3. CASE held[e] = 1 /\ e \notin Range(entities_)
  <2>1. Destruct(e) /\ freed' = freed \cup {e}
    BY <1>3 DEF Release, Destruct
  <2>2. FactoryTyped' /\ IdsLead' /\ IsFindable'
    BY <1>1, <1>2, <1>3, <2>1 DEF FactoryInv, FactoryTyped, IdsLead, IsFindable, Made
  <2>3. LifetimeIsShared'
    BY <1>1, <1>2, <1>3, <2>1, MadeAreEntities DEF FactoryInv, LifetimeIsShared, Made
  <2>4. ComponentsInv'
    BY <1>1, <2>1, ComponentsDestruct DEF FactoryInv
  <2> QED
    BY <2>2, <2>3, <2>4 DEF FactoryInv
<1>4. CASE ~(held[e] = 1 /\ e \notin Range(entities_))
  <2>1. UNCHANGED <<freed, components_>>
    BY <1>4 DEF Release
  <2>2. FactoryTyped' /\ IdsLead' /\ IsFindable'
    BY <1>1, <1>2, <2>1 DEF FactoryInv, FactoryTyped, IdsLead, IsFindable, Made
  <2>3. LifetimeIsShared'
    BY <1>1, <1>2, <1>4, <2>1, MadeAreEntities DEF FactoryInv, LifetimeIsShared, Made
  <2>4. ComponentsInv'
    BY <1>1, <2>1, ComponentsStill DEF compVars
  <2> QED
    BY <2>2, <2>3, <2>4 DEF FactoryInv
<1> QED
  BY <1>3, <1>4

\* destroy_entity, whatever the erased iterator shows: the entity is displaced,
\* and robbed if it goes with a reference outside.
LEMMA DestroyEntityInv ==
  ASSUME EntInv, NEW id \in Ids, DestroyEntity(id)
  PROVE  EntInv'
<1> USE DEF EntInv
<1> DEFINE e == Lookup(id)
<1>1. UNCHANGED <<id_, owner_, handles, listening, moved>>
  BY DEF DestroyEntity
<1>2. CASE e = None
  <2>1. UNCHANGED <<factoryVars, lifeVars, compVars>>
    BY <1>1, <1>2 DEF DestroyEntity, factoryVars, compVars
  <2>2. UNCHANGED <<id_, freed, compVars>>
    BY <2>1 DEF factoryVars, lifeVars
  <2> QED
    BY <2>1, <2>2, FactoryStill, ComponentsStill
<1>3. CASE e # None
  <2>1. /\ id \in DOMAIN entities_ /\ entities_[id] = e
        /\ entities_' = Restrict(entities_, DOMAIN entities_ \ {id})
        /\ displaced' = displaced \cup {e}
        /\ IF held[e] = 0
           THEN Destruct(e) /\ UNCHANGED <<held, invalid, robbed>>
           ELSE AfterErase(e)
    BY <1>3 DEF DestroyEntity, Lookup
  <2>2. e \in Range(entities_) /\ e \in Made \ freed /\ e \in Entity
    BY <2>1, InRange, MadeAreEntities DEF FactoryInv, FactoryTyped
  <2> HIDE DEF e
  <2>3. /\ DOMAIN entities_' = DOMAIN entities_ \ {id}
        /\ \A i \in DOMAIN entities_ \ {id} : entities_'[i] = entities_[i]
    BY <2>1 DEF Restrict
  <2>4. \A i \in DOMAIN entities_ \ {id} : entities_[i] # e
    BY <2>1 DEF FactoryInv, IdsLead
  <2>5. /\ e \notin Range(entities_')
        /\ \A o : o # e => (o \in Range(entities_') <=> o \in Range(entities_))
    <3>1. \A o : o \in Range(entities_') <=> \E i \in DOMAIN entities_ \ {id} : entities_[i] = o
      BY <2>3, InRange
    <3>2. \A o : o \in Range(entities_) <=> \E i \in DOMAIN entities_ : entities_[i] = o
      BY InRange
    <3> QED
      BY <2>1, <2>4, <3>1, <3>2
  <2>6. IdsLead'
    BY <1>1, <2>3 DEF FactoryInv, IdsLead
  <2>7. IsFindable'
    BY <1>1, <2>1, <2>3 DEF FactoryInv, IsFindable, Made
  <2>8. /\ Range(entities_') \subseteq Range(entities_) \ {e} /\ DOMAIN entities_' \subseteq Ids
        /\ displaced' \subseteq Made /\ Made' = Made
        /\ held \in [Entity -> 0..MaxRefs] /\ held[e] \in Nat
    <3>1. held \in [Entity -> 0..MaxRefs] /\ held[e] \in Nat
      BY <2>2, EntitiesAssumption DEF FactoryInv, FactoryTyped
    <3>2. Range(entities_') \subseteq Range(entities_) \ {e}
      BY <2>5
    <3>3. DOMAIN entities_' \subseteq Ids /\ displaced' \subseteq Made /\ Made' = Made
      BY <1>1, <2>1, <2>2, <2>3 DEF FactoryInv, FactoryTyped, Made
    <3> QED
      BY <3>1, <3>2, <3>3
  <2>9. /\ held' = held
        /\ \/ /\ held[e] = 0 /\ Destruct(e) /\ robbed' = robbed /\ invalid' = invalid
           \/ /\ held[e] # 0 /\ UNCHANGED <<freed, components_, robbed>>
              /\ invalid' \subseteq invalid \cup {e}
           \/ /\ Destruct(e) /\ robbed' = robbed \cup {e} /\ invalid' = invalid
    BY <2>1, <2>8 DEF AfterErase, lifeVars
  <2>10. freed' = freed \/ freed' = freed \cup {e}
    BY <2>9 DEF Destruct
  <2>11. FactoryTyped'
    BY <1>1, <2>2, <2>8, <2>9, <2>10 DEF FactoryInv, FactoryTyped
  <2>12. LifetimeIsShared'
    <3>1. \A o \in Made \ robbed' : o # e =>
            ((o \in freed') <=> (held'[o] = 0 /\ o \notin Range(entities_')))
      BY <2>5, <2>9, <2>10 DEF FactoryInv, LifetimeIsShared
    <3>2. e \notin robbed' => ((e \in freed') <=> held'[e] = 0)
      BY <2>2, <2>9 DEF Destruct
    <3> QED
      BY <2>5, <2>8, <3>1, <3>2 DEF LifetimeIsShared
  <2>13. ComponentsInv'
    <3>1. CASE Destruct(e)
      BY <1>1, <2>2, <3>1, ComponentsDestruct DEF FactoryInv
    <3>2. CASE UNCHANGED <<freed, components_>>
      BY <1>1, <3>2, ComponentsStill DEF compVars
    <3> QED
      BY <2>9, <3>1, <3>2
  <2> QED
    BY <2>6, <2>7, <2>11, <2>12, <2>13 DEF FactoryInv
<1> QED
  BY <1>2, <1>3

-----------------------------------------------------------------------------
(* The components.                                                         *)

\* A component that was under no entity is put under one of them.
LEMMA AttachInv ==
  ASSUME EntInv, NEW e \in Made \ freed, NEW t \in Types, NEW c,
         t \notin DOMAIN components_[e], Put(e, t, c),
         owner_' \in Seq(Made \cup {None}), Len(owner_') <= MaxComponents,
         Len(owner_) <= Len(owner_'), c \in 1..Len(owner_'), owner_'[c] = e,
         \A d \in 1..Len(owner_') \ {c} : d \in 1..Len(owner_) /\ owner_'[d] = owner_[d],
         handles' \subseteq 1..Len(owner_'), listening' = listening,
         moved' = IF \E o \in Made : c \in Has(o) THEN moved \cup {c} ELSE moved,
         UNCHANGED <<factoryVars, lifeVars>>
  PROVE  EntInv'
<1> USE DEF EntInv
<1>1. FactoryInv'
  BY FactoryStill
<1>2. /\ Made' = Made /\ freed' = freed /\ Made \subseteq Entity /\ e \in Entity
      /\ \A d \in 1..Len(owner_) : d \in 1..Len(owner_')
  BY MadeAreEntities DEF FactoryInv, Made, factoryVars, lifeVars, ComponentsInv, ComponentsTyped
<1>3. /\ DOMAIN components_' = Entity
      /\ DOMAIN components_'[e] = DOMAIN components_[e] \cup {t}
      /\ components_'[e][t] = c
      /\ \A u \in DOMAIN components_[e] : components_'[e][u] = components_[e][u]
      /\ \A o \in Entity \ {e} : components_'[o] = components_[o]
  BY <1>2 DEF Put, emplace, ComponentsInv, ComponentsTyped
<1>4. /\ Has(e)' = Has(e) \cup {c}
      /\ \A o \in Entity \ {e} : Has(o)' = Has(o)
  <2>1. \A o \in Entity \ {e} : Has(o)' = Has(o)
    BY <1>3 DEF Has
  <2>2. \A x : x \in Has(e)' <=> \E u \in DOMAIN components_'[e] : components_'[e][u] = x
    BY InRange DEF Has
  <2>3. \A x : x \in Has(e) <=> \E u \in DOMAIN components_[e] : components_[e][u] = x
    BY InRange DEF Has
  <2>4. \A x : x \in Has(e)' <=> x \in Has(e) \cup {c}
    BY <1>3, <2>2, <2>3
  <2> QED
    BY <2>1, <2>4
<1>5. ComponentsTyped'
  <2>1. moved' \subseteq 1..Len(owner_') /\ listening' \subseteq 1..Len(owner_')
    BY <1>2 DEF ComponentsInv, ComponentsTyped
  <2>2. \A o \in Entity : DOMAIN components_'[o] \subseteq Types /\ Has(o)' \subseteq 1..Len(owner_')
    BY <1>2, <1>3, <1>4 DEF ComponentsInv, ComponentsTyped
  <2> QED
    BY <1>2, <1>3, <2>1, <2>2 DEF ComponentsTyped
<1>6. UnmadeAreEmpty'
  BY <1>2, <1>4 DEF ComponentsInv, UnmadeAreEmpty
<1>7. /\ c \notin moved' => c \notin moved /\ \A o \in Made : c \notin Has(o)
      /\ \A d \in 1..Len(owner_') \ moved' : d # c => d \in 1..Len(owner_) \ moved
  OBVIOUS
<1>8. TypeIsOne'
  <2> SUFFICES ASSUME NEW d \in 1..Len(owner_') \ moved', NEW o \in Made \ freed,
                      NEW u \in DOMAIN components_'[o], NEW v \in DOMAIN components_'[o],
                      components_'[o][u] = d, components_'[o][v] = d
               PROVE  u = v
    BY <1>2 DEF TypeIsOne
  <2>1. CASE d # c
    BY <1>2, <1>3, <1>7, <2>1 DEF ComponentsInv, TypeIsOne
  <2>2. CASE d = c
    <3>1. \A w \in DOMAIN components_[o] : components_[o][w] # c
      BY <1>7, <2>2, InRange DEF Has
    <3> QED
      BY <1>2, <1>3, <2>2, <3>1
  <2> QED
    BY <2>1, <2>2
<1>9. OwnerIsExact'
  <2> SUFFICES ASSUME NEW d \in 1..Len(owner_') \ moved', NEW o \in Made \ freed
               PROVE  (owner_'[d] = o) <=> (d \in Has(o)')
    BY <1>2 DEF OwnerIsExact
  <2>1. CASE d # c
    BY <1>2, <1>4, <1>7, <2>1 DEF ComponentsInv, OwnerIsExact
  <2>2. CASE d = c
    BY <1>2, <1>4, <1>7, <2>2
  <2> QED
    BY <2>1, <2>2
<1> QED
  BY <1>1, <1>5, <1>6, <1>8, <1>9 DEF ComponentsInv

\* A component made by the entity, or the one it has of the type.
LEMMA AddComponentInv ==
  ASSUME EntInv, NEW e \in Made, AddComponent(e)
  PROVE  EntInv'
<1> USE DEF EntInv
<1> DEFINE N == "NetworkComponent"
<1>1. /\ e \in Entity /\ e \in Made \ freed /\ N \in Types
      /\ UNCHANGED <<factoryVars, lifeVars, listening, moved>>
  BY MadeAreEntities, EntitiesAssumption DEF FactoryInv, AddComponent, Usable
<1>2. CASE N \in DOMAIN components_[e]
  <2>1. /\ handles' = handles \cup {components_[e][N]}
        /\ UNCHANGED <<owner_, components_>>
    BY <1>2 DEF AddComponent
  <2>2. components_[e][N] \in 1..Len(owner_)
    BY <1>1, <1>2, InRange DEF ComponentsInv, ComponentsTyped, Has
  <2>3. UNCHANGED <<id_, freed>>
    BY <1>1 DEF factoryVars, lifeVars
  <2>4. ComponentsInv'
    <3>1. /\ Made' = Made /\ freed' = freed /\ owner_' = owner_ /\ components_' = components_
          /\ moved' = moved /\ listening' = listening /\ \A o : Has(o)' = Has(o)
      BY <1>1, <2>1, <2>3 DEF Made, Has
    <3>2. handles' \subseteq 1..Len(owner_)
      BY <2>1, <2>2 DEF ComponentsInv, ComponentsTyped
    <3>3. ComponentsTyped'
      BY <3>1, <3>2 DEF ComponentsInv, ComponentsTyped
    <3>4. UnmadeAreEmpty' /\ TypeIsOne' /\ OwnerIsExact'
      BY <3>1 DEF ComponentsInv, UnmadeAreEmpty, TypeIsOne, OwnerIsExact
    <3> QED
      BY <3>3, <3>4 DEF ComponentsInv
  <2> QED
    BY <1>1, <2>4, FactoryStill
<1>3. CASE N \notin DOMAIN components_[e]
  <2> DEFINE c == Len(owner_')
  <2>1. /\ Len(owner_) < MaxComponents /\ owner_' = Append(owner_, e)
        /\ Put(e, N, c) /\ handles' = handles \cup {c}
    BY <1>3 DEF AddComponent
  <2>2. owner_ \in Seq(Made \cup {None})
    BY DEF ComponentsInv, ComponentsTyped
  <2>3. /\ owner_' \in Seq(Made \cup {None}) /\ Len(owner_') <= MaxComponents
        /\ c = Len(owner_) + 1 /\ c \in 1..Len(owner_') /\ owner_'[c] = e
        /\ \A d \in 1..Len(owner_') \ {c} : d \in 1..Len(owner_) /\ owner_'[d] = owner_[d]
    BY <2>1, <2>2, EntitiesAssumption
  <2>4. handles' \subseteq 1..Len(owner_') /\ Len(owner_) <= Len(owner_')
    <3>1. handles \subseteq 1..Len(owner_) /\ Len(owner_) \in Nat /\ Len(owner_') = Len(owner_) + 1
      BY <2>2, <2>3 DEF ComponentsInv, ComponentsTyped
    <3>2. 1..Len(owner_) \subseteq 1..Len(owner_') /\ Len(owner_) <= Len(owner_')
      BY <3>1
    <3> QED
      BY <2>1, <2>3, <3>1, <3>2
  <2>5. \A o \in Made : c \notin Has(o)
    BY <2>2, <2>3, MadeAreEntities DEF FactoryInv, ComponentsInv, ComponentsTyped
  <2> HIDE DEF c
  <2> QED
    BY <1>1, <1>3, <2>1, <2>3, <2>4, <2>5, AttachInv
<1> QED
  BY <1>2, <1>3

\* Attaching takes the component from whoever has it.
LEMMA AttachComponentInv ==
  ASSUME EntInv, NEW e \in Made, NEW c \in handles, NEW t \in Types, AttachComponent(e, c, t)
  PROVE  EntInv'
<1> USE DEF EntInv
<1>1. /\ e \in Made \ freed /\ t \notin DOMAIN components_[e] /\ Put(e, t, c)
      /\ owner_' = [owner_ EXCEPT ![c] = e]
      /\ moved' = IF \E o \in Made : c \in Has(o) THEN moved \cup {c} ELSE moved
      /\ UNCHANGED <<factoryVars, lifeVars, handles, listening>>
  BY DEF AttachComponent, Usable
<1>2. c \in 1..Len(owner_) /\ owner_ \in Seq(Made \cup {None}) /\ Len(owner_) <= MaxComponents
  BY DEF ComponentsInv, ComponentsTyped
<1>3. /\ owner_' \in Seq(Made \cup {None}) /\ Len(owner_') = Len(owner_)
      /\ owner_'[c] = e
      /\ \A d \in 1..Len(owner_) \ {c} : owner_'[d] = owner_[d]
  BY <1>1, <1>2
<1>4. /\ handles' \subseteq 1..Len(owner_') /\ listening' = listening
      /\ UNCHANGED <<factoryVars, lifeVars>>
  BY <1>1, <1>3 DEF ComponentsInv, ComponentsTyped
<1>5. /\ Len(owner_) <= Len(owner_') /\ Len(owner_') <= MaxComponents /\ c \in 1..Len(owner_')
      /\ \A d \in 1..Len(owner_') \ {c} : d \in 1..Len(owner_) /\ owner_'[d] = owner_[d]
  BY <1>2, <1>3
<1> QED
  BY <1>1, <1>3, <1>4, <1>5, AttachInv

\* Components dropped from one entity are no longer its own: they are moved, or
\* lose their owner.
LEMMA DropInv ==
  ASSUME EntInv, NEW e \in Made \ freed, NEW gone \in SUBSET DOMAIN components_[e],
         components_' = [components_ EXCEPT ![e] = Restrict(@, DOMAIN @ \ gone)],
         owner_' \in Seq(Made \cup {None}), Len(owner_') = Len(owner_),
         moved' \subseteq 1..Len(owner_), moved \subseteq moved',
         \A c \in 1..Len(owner_) \ moved' :
            IF \E t \in gone : components_[e][t] = c
            THEN owner_'[c] = None ELSE owner_'[c] = owner_[c],
         UNCHANGED <<factoryVars, lifeVars, handles, listening>>
  PROVE  EntInv'
<1> USE DEF EntInv
<1>1. FactoryInv'
  BY FactoryStill
<1>2. Made' = Made /\ freed' = freed /\ Made \subseteq Entity /\ e \in Entity
  BY MadeAreEntities DEF FactoryInv, Made, factoryVars, lifeVars
<1>3. /\ DOMAIN components_' = Entity
      /\ DOMAIN components_'[e] = DOMAIN components_[e] \ gone
      /\ \A u \in DOMAIN components_[e] \ gone : components_'[e][u] = components_[e][u]
      /\ \A o \in Entity \ {e} : components_'[o] = components_[o]
  BY <1>2 DEF Restrict, ComponentsInv, ComponentsTyped
<1>4. \A o \in Entity \ {e} : Has(o)' = Has(o)
  BY <1>3 DEF Has
<1>5. \A x : x \in Has(e)' <=> \E u \in DOMAIN components_[e] \ gone : components_[e][u] = x
  <2>1. \A x : x \in Has(e)' <=> \E u \in DOMAIN components_'[e] : components_'[e][u] = x
    BY InRange DEF Has
  <2>2. \A u \in DOMAIN components_'[e] : components_'[e][u] = components_[e][u]
    BY <1>3
  <2>3. \A x : (\E u \in DOMAIN components_'[e] : components_'[e][u] = x)
                 <=> \E u \in DOMAIN components_[e] \ gone : components_[e][u] = x
    BY <1>3, <2>2, Zenon
  <2> QED
    BY <2>1, <2>3
<1>6. \A x : x \in Has(e) <=> \E u \in DOMAIN components_[e] : components_[e][u] = x
  BY InRange DEF Has
<1>7. ComponentsTyped'
  <2>1. \A o \in Entity : DOMAIN components_'[o] \subseteq Types /\ Has(o)' \subseteq 1..Len(owner_)
    <3>1. Has(e)' \subseteq Has(e)
      BY <1>5, <1>6
    <3> QED
      <4>1. \A o \in Entity : /\ DOMAIN components_'[o] \subseteq DOMAIN components_[o]
                               /\ Has(o)' \subseteq Has(o)
        BY <1>3, <1>4, <3>1
      <4>2. \A o \in Entity : DOMAIN components_[o] \subseteq Types /\ Has(o) \subseteq 1..Len(owner_)
        BY DEF ComponentsInv, ComponentsTyped
      <4> QED
        BY <4>1, <4>2
  <2> QED
    BY <1>2, <1>3, <2>1 DEF ComponentsInv, ComponentsTyped
<1>8. UnmadeAreEmpty'
  BY <1>2, <1>4 DEF ComponentsInv, UnmadeAreEmpty
<1>9. TypeIsOne'
  <2>1. \A d \in 1..Len(owner_') \ moved', o \in Made' \ freed' :
          \A u, v \in DOMAIN components_'[o] :
            components_'[o][u] = d /\ components_'[o][v] = d => u = v
    <3> TAKE d \in 1..Len(owner_') \ moved', o \in Made' \ freed'
    <3> TAKE u, v \in DOMAIN components_'[o]
    <3> HAVE components_'[o][u] = d /\ components_'[o][v] = d
    <3>1. o \in Made \ freed /\ d \in 1..Len(owner_) \ moved
      BY <1>2
    <3>2. /\ u \in DOMAIN components_[o] /\ components_[o][u] = d
          /\ v \in DOMAIN components_[o] /\ components_[o][v] = d
      BY <1>2, <1>3, <3>1
    <3> QED
      BY <3>1, <3>2 DEF ComponentsInv, TypeIsOne
  <2> QED
    BY <2>1, Zenon DEF TypeIsOne
<1>10. OwnerIsExact'
  <2> SUFFICES ASSUME NEW d \in 1..Len(owner_) \ moved', NEW o \in Made \ freed
               PROVE  (owner_'[d] = o) <=> (d \in Has(o)')
    BY <1>2 DEF OwnerIsExact
  <2>1. /\ d \in 1..Len(owner_) \ moved /\ o \in Entity /\ None \notin Made
        /\ (owner_[d] = o) <=> (d \in Has(o))
        /\ (owner_[d] = e) <=> (d \in Has(e))
    BY <1>2 DEF ComponentsInv, OwnerIsExact, Made, None
  <2>2. CASE \E t \in gone : components_[e][t] = d
    <3>1. d \notin Has(e)'
      BY <1>5, <2>1, <2>2 DEF ComponentsInv, TypeIsOne
    <3>2. owner_'[d] = None /\ owner_[d] = e
      BY <1>6, <2>1, <2>2
    <3> QED
      BY <1>4, <2>1, <3>1, <3>2
  <2>3. CASE ~\E t \in gone : components_[e][t] = d
    <3>1. d \in Has(e)' <=> d \in Has(e)
      BY <1>5, <1>6, <2>3
    <3> QED
      BY <1>4, <2>1, <2>3, <3>1
  <2> QED
    BY <2>2, <2>3
<1> QED
  BY <1>1, <1>7, <1>8, <1>9, <1>10 DEF ComponentsInv

\* delete_component by type leaves the owner: the component counts as moved.
LEMMA DeleteByTypeInv ==
  ASSUME EntInv, NEW e \in Made, NEW t \in Types, DeleteByType(e, t)
  PROVE  EntInv'
<1> USE DEF EntInv
<1>1. /\ e \in Made \ freed /\ owner_' = owner_
      /\ UNCHANGED <<factoryVars, lifeVars, handles, listening>>
  BY DEF DeleteByType, Usable
<1>2. CASE t \in DOMAIN components_[e]
  <2>1. /\ components_' = [components_ EXCEPT ![e] = Restrict(@, DOMAIN @ \ {t})]
        /\ moved' = moved \cup {components_[e][t]}
    BY <1>2 DEF DeleteByType, Drop
  <2>2. components_[e][t] \in 1..Len(owner_)
    BY <1>1, <1>2, InRange, MadeAreEntities
       DEF FactoryInv, ComponentsInv, ComponentsTyped, Has
  <2>3. owner_ \in Seq(Made \cup {None}) /\ moved \subseteq 1..Len(owner_)
    BY DEF ComponentsInv, ComponentsTyped
  <2>4. {t} \in SUBSET DOMAIN components_[e]
    BY <1>2
  <2>5. /\ moved' \subseteq 1..Len(owner_) /\ moved \subseteq moved'
        /\ \A c \in 1..Len(owner_) \ moved' : ~\E u \in {t} : components_[e][u] = c
    BY <2>1, <2>2, <2>3
  <2> QED
    BY <1>1, <2>1, <2>3, <2>4, <2>5, DropInv
<1>3. CASE t \notin DOMAIN components_[e]
  <2>1. UNCHANGED <<factoryVars, lifeVars>> /\ UNCHANGED <<id_, freed, compVars>>
    BY <1>1, <1>3 DEF DeleteByType, factoryVars, lifeVars, compVars
  <2> QED
    BY <2>1, FactoryStill, ComponentsStill
<1> QED
  BY <1>2, <1>3

\* delete_component by object clears the owner of what it deletes.
LEMMA DeleteComponentInv ==
  ASSUME EntInv, NEW e \in Made, NEW c \in handles, NEW t \in Types, DeleteComponent(e, c, t)
  PROVE  EntInv'
<1> USE DEF EntInv
<1>1. /\ e \in Made \ freed /\ moved' = moved /\ components_[e][t] = c
      /\ {t} \in SUBSET DOMAIN components_[e]
      /\ components_' = [components_ EXCEPT ![e] = Restrict(@, DOMAIN @ \ {t})]
      /\ owner_' = [owner_ EXCEPT ![c] = None]
      /\ UNCHANGED <<factoryVars, lifeVars, handles, listening>>
  BY DEF DeleteComponent, Usable, Drop
<1>2. /\ c \in 1..Len(owner_) /\ owner_ \in Seq(Made \cup {None})
      /\ moved \subseteq 1..Len(owner_)
  BY DEF ComponentsInv, ComponentsTyped
<1>3. /\ owner_' \in Seq(Made \cup {None}) /\ Len(owner_') = Len(owner_) /\ owner_'[c] = None
      /\ \A d \in 1..Len(owner_) \ {c} : owner_'[d] = owner_[d]
  BY <1>1, <1>2
<1>4. \A d \in 1..Len(owner_) \ moved' :
        IF \E u \in {t} : components_[e][u] = d
        THEN owner_'[d] = None ELSE owner_'[d] = owner_[d]
  BY <1>1, <1>2, <1>3
<1>5. moved' \subseteq 1..Len(owner_) /\ moved \subseteq moved'
  BY <1>1, <1>2
<1> QED
  BY <1>1, <1>3, <1>4, <1>5, DropInv

\* delete_all_components leaves the owners: what it deletes counts as moved.
LEMMA DeleteAllInv ==
  ASSUME EntInv, NEW e \in Made, DeleteAll(e)
  PROVE  EntInv'
<1> USE DEF EntInv
<1> DEFINE all == DOMAIN components_[e]
<1>1. /\ e \in Made \ freed /\ owner_' = owner_ /\ moved' = moved \cup Has(e)
      /\ components_' = [components_ EXCEPT ![e] = [t \in {} |-> None]]
      /\ UNCHANGED <<factoryVars, lifeVars, handles, listening>>
  BY DEF DeleteAll, Usable
<1>2. components_' = [components_ EXCEPT ![e] = Restrict(@, DOMAIN @ \ all)]
  <2>1. Restrict(components_[e], all \ all) = [t \in {} |-> None]
    BY DEF Restrict
  <2> QED
    BY <1>1, <2>1
<1>3. /\ owner_ \in Seq(Made \cup {None}) /\ moved \subseteq 1..Len(owner_)
      /\ Has(e) \subseteq 1..Len(owner_)
  BY MadeAreEntities DEF FactoryInv, ComponentsInv, ComponentsTyped
<1>4. /\ moved' \subseteq 1..Len(owner_) /\ moved \subseteq moved'
      /\ \A c \in 1..Len(owner_) \ moved' : ~\E u \in all : components_[e][u] = c
  BY <1>1, <1>3, InRange DEF Has
<1>5. all \in SUBSET DOMAIN components_[e]
  OBVIOUS
<1> HIDE DEF all
<1> QED
  BY <1>1, <1>2, <1>3, <1>4, <1>5, DropInv

\* A handle dropped, or a handler registered.
LEMMA HandleInv ==
  ASSUME EntInv, NEW c \in handles, DropHandle(c) \/ RegisterHandler(c)
  PROVE  EntInv'
<1> USE DEF EntInv
<1>1. /\ UNCHANGED <<factoryVars, lifeVars, components_, owner_, moved>>
      /\ handles' \subseteq handles /\ listening' \subseteq listening \cup {c}
  BY DEF DropHandle, RegisterHandler
<1>2. /\ Made' = Made /\ freed' = freed /\ owner_' = owner_ /\ components_' = components_
      /\ moved' = moved /\ \A o : Has(o)' = Has(o)
  BY <1>1 DEF Made, Has, factoryVars, lifeVars
<1>3. ComponentsTyped'
  <2>1. handles' \subseteq 1..Len(owner_) /\ listening' \subseteq 1..Len(owner_)
    BY <1>1 DEF ComponentsInv, ComponentsTyped
  <2> QED
    BY <1>2, <2>1 DEF ComponentsInv, ComponentsTyped
<1>4. UnmadeAreEmpty' /\ TypeIsOne' /\ OwnerIsExact'
  BY <1>2 DEF ComponentsInv, UnmadeAreEmpty, TypeIsOne, OwnerIsExact
<1>5. FactoryInv'
  BY <1>1, FactoryStill
<1> QED
  BY <1>3, <1>4, <1>5 DEF ComponentsInv

-----------------------------------------------------------------------------

\* Every call keeps the invariant.
LEMMA NextInv == EntInv /\ [Next]_vars => EntInv'
<1> SUFFICES ASSUME EntInv, [Next]_vars PROVE EntInv'
  OBVIOUS
<1>1. CASE CreateEntity
  <2>1. PICK id \in Ids \ ToSet(id_) : Create(id)
    BY <1>1 DEF CreateEntity
  <2> QED
    BY <2>1, CreateInv
<1>2. ASSUME NEW id \in Ids, Create(id) \/ GetEntity(id) \/ DestroyEntity(id)
      PROVE  EntInv'
  BY <1>2, CreateInv, GetEntityInv, DestroyEntityInv
<1>3. ASSUME NEW e \in Made, Release(e) \/ AddComponent(e) \/ DeleteAll(e)
      PROVE  EntInv'
  BY <1>3, ReleaseInv, AddComponentInv, DeleteAllInv
<1>4. ASSUME NEW e \in Made, NEW t \in Types, DeleteByType(e, t)
      PROVE  EntInv'
  BY <1>4, DeleteByTypeInv
<1>5. ASSUME NEW e \in Made, NEW c \in handles, NEW t \in Types,
             AttachComponent(e, c, t) \/ DeleteComponent(e, c, t)
      PROVE  EntInv'
  BY <1>5, AttachComponentInv, DeleteComponentInv
<1>6. ASSUME NEW c \in handles, DropHandle(c) \/ RegisterHandler(c)
      PROVE  EntInv'
  BY <1>6, HandleInv
<1>7. CASE UNCHANGED vars
  BY <1>7, FactoryStill, ComponentsStill DEF EntInv, vars, factoryVars, lifeVars
<1> QED
  BY <1>1, <1>2, <1>3, <1>4, <1>5, <1>6, <1>7 DEF Next

\* The invariant holds throughout.
THEOREM Invariance == Spec => []EntInv
BY InitInv, NextInv, PTL DEF Spec

\* The variables keep their types; in particular the factory never has an
\* entity that was destructed.
THEOREM TypeCorrect == Spec => []TypeOK
<1>1. EntInv => TypeOK
  BY TypesSplit DEF EntInv, FactoryInv, ComponentsInv
<1> QED
  BY <1>1, Invariance, PTL

\* Whatever is added, attached and deleted in whatever order, the owner a
\* component names and the entity that has it are one, but for the components
\* that were taken from an entity or dropped without their owner.
THEOREM OwnersAreExact == Spec => []OwnerIsExact
<1>1. EntInv => OwnerIsExact
  BY DEF EntInv, ComponentsInv
<1> QED
  BY <1>1, Invariance, PTL

\* An entity lives exactly as long as the factory or somebody else has it, but
\* for the one destroy_entity finds with one reference outside.
THEOREM LifetimesAreShared == Spec => []LifetimeIsShared
<1>1. EntInv => LifetimeIsShared
  BY DEF EntInv, FactoryInv
<1> QED
  BY <1>1, Invariance, PTL

\* The id a disconnect is given leads on_client_disconnected to the entity that
\* has the connection.
THEOREM DisconnectsFindOwners == Spec => []DisconnectFindsOwner
<1>1. EntInv => DisconnectFindsOwner
  <2> SUFFICES ASSUME EntInv, NEW e \in Made \ (freed \cup displaced),
                      NEW c \in (Has(e) \cap listening) \ moved
               PROVE  Found(c) = e
    BY DEF DisconnectFindsOwner
  <2>1. c \in 1..Len(owner_) \ moved
    BY DEF EntInv, ComponentsInv, ComponentsTyped
  <2>2. owner_[c] = e
    BY <2>1 DEF EntInv, ComponentsInv, OwnerIsExact
  <2>3. Owner(c) = e /\ e # None
    BY <2>2 DEF Owner, Made, None
  <2>4. Lookup(id_[e]) = e
    BY DEF EntInv, FactoryInv, IsFindable, Lookup
  <2> QED
    BY <2>3, <2>4 DEF Found
<1> QED
  BY <1>1, Invariance, PTL

LEMMA PlainIsUnbarred ==
  ASSUME NEW text \in Seq(STRING)
  PROVE  Plain(text) <=> Unbarred(text)
<1>1. ToSet(text) = {text[i] : i \in 1..Len(text)}
  <2>1. DOMAIN text = 1..Len(text)
    OBVIOUS
  <2> QED
    BY <2>1, Zenon DEF ToSet
<1> QED
  BY <1>1 DEF Plain, Unbarred, IsBar

\* The text of an entity's position, whatever its id and wherever it is, leads
\* whoever parses it back to the ip, the port and the id, unless the ip or the
\* id has an underscore, and never if one of them has.
THEOREM PositionsLeadBack == Spec => []PositionLeadsBack
<1>1. EntInv => PositionLeadsBack
  <2> SUFFICES ASSUME EntInv, NEW e \in Made, NEW here \in Addresses
               PROVE  parse_pos(NoProxy, get_pos(EntityPosition(e, here)))
                        = [ok |-> TRUE, proxy |-> EntityPosition(e, here)]
                      <=> Plain(here.ip) /\ Plain(id_[e])
    BY Zenon DEF PositionLeadsBack
  <2>1. id_[e] \in Seq(STRING)
    BY EntitiesAssumption DEF EntInv, FactoryInv, FactoryTyped, Made
  <2>2. here.ip \in Seq(STRING) /\ here.port \in Ints
    BY EntitiesAssumption
  <2>3. /\ Plain(here.ip) <=> Unbarred(here.ip)
        /\ Plain(id_[e]) <=> Unbarred(id_[e])
    BY <2>1, <2>2, PlainIsUnbarred
  <2> QED
    BY <2>1, <2>2, <2>3, PositionIsParsed, OnlyUnbarredIsParsed DEF EntityPosition
<1> QED
  BY <1>1, Invariance, PTL

=============================================================================
