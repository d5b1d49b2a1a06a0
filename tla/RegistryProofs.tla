--------------------------- MODULE RegistryProofs ---------------------------
(* The registries stay one-to-one, and the handshake makes them agree. *)
EXTENDS Registry, TLAPS

-----------------------------------------------------------------------------
(* bidict *)

Injective(d) == \A p, q \in d : p[1] = q[1] <=> p[2] = q[2]

\* Setting a key that is not refused, and deleting one, keep a bidict
\* one-to-one.
LEMMA PutInjective ==
    ASSUME NEW d, NEW k, NEW v, Injective(d), ~Refuses(d, k, v)
    PROVE  Injective(Put(d, k, v))
  BY DEF Injective, Refuses, Put

LEMMA DelInjective ==
    ASSUME NEW d, NEW k, Injective(d)
    PROVE  Injective(Del(d, k))
  BY DEF Injective, Del

\* A value that is moved to another key is not refused there.
LEMMA MoveAccepted ==
    ASSUME NEW d, NEW k, NEW old, NEW v, Injective(d), Holds(d, old, v)
    PROVE  ~Refuses(Del(d, old), k, v)
  BY DEF Injective, Holds, Refuses, Del

LEMMA PutKeys ==
    ASSUME NEW d, NEW k, NEW v
    PROVE  Keys(Put(d, k, v)) = Keys(d) \cup {k}
  <1>1. k \in Keys(Put(d, k, v))
    <2>1. <<k, v>> \in Put(d, k, v) /\ <<k, v>>[1] = k
      BY DEF Put
    <2> QED
      BY <2>1 DEF Keys
  <1>2. \A i : i # k => (i \in Keys(Put(d, k, v)) <=> i \in Keys(d))
    BY DEF Keys, Put
  <1> QED
    BY <1>1, <1>2

LEMMA DelKeys ==
    ASSUME NEW d, NEW k
    PROVE  Keys(Del(d, k)) = Keys(d) \ {k}
  BY DEF Keys, Del

\* What a move leaves in place: every entry at another key.
LEMMA MoveKeeps ==
    ASSUME NEW d, NEW k, NEW old, NEW v, NEW i, NEW w,
           Holds(d, i, w), i # k, i # old
    PROVE  Holds(Put(Del(d, old), k, v), i, w)
  BY DEF Holds, Put, Del

LEMMA MoveHolds ==
    ASSUME NEW d, NEW k, NEW v
    PROVE  Holds(Put(d, k, v), k, v)
  BY DEF Holds, Put

LEMMA PutType ==
    ASSUME NEW K, NEW V, NEW d \in SUBSET (K \X V), NEW k \in K, NEW v \in V
    PROVE  Put(d, k, v) \in SUBSET (K \X V)
  BY DEF Put

LEMMA DelType ==
    ASSUME NEW S, NEW d \in SUBSET S, NEW k
    PROVE  Del(d, k) \in SUBSET S
  BY DEF Del

-----------------------------------------------------------------------------
(* Types *)

TableTypes == /\ objs \in [Sides -> SUBSET (Ids \X Objs)]
              /\ names \in [Sides -> SUBSET (Ids \X Names)]
SyncTypes == /\ nextid \in [Sides -> FirstId..(MaxId + 1) \cup {FirstId}]
             /\ phase \in {"local", "syncing", "synced", "closed"}
             /\ msg \subseteq Ids \X Names /\ todo \subseteq msg
             /\ before \subseteq Objs \X Names

LEMMA Types == TypeOK <=> TableTypes /\ SyncTypes
  BY DEF TypeOK, TableTypes, SyncTypes

LEMMA StoreType ==
    ASSUME TableTypes, NEW s \in Sides, NEW id \in Ids, NEW obj \in Objs,
           NEW name \in Names, Store(s, id, obj, name)
    PROVE  TableTypes'
  <1>1. /\ Put(objs[s], id, obj) \in SUBSET (Ids \X Objs)
        /\ Put(names[s], id, name) \in SUBSET (Ids \X Names)
    BY PutType DEF TableTypes
  <1> QED
    BY <1>1 DEF TableTypes, Store

LEMMA SyncNameType ==
    ASSUME TableTypes, NEW id \in Ids, NEW name \in Names, SyncName(id, name)
    PROVE  TableTypes'
  <1>1. CASE UNCHANGED <<objs, names>>
    BY <1>1 DEF TableTypes
  <1>2. CASE \E old \in Ids, obj \in Objs :
               /\ names' = [names EXCEPT !["client"] =
                               Put(Del(names["client"], old), id, name)]
               /\ objs' = [objs EXCEPT !["client"] =
                               Put(Del(objs["client"], old), id, obj)]
    <2>1. PICK old \in Ids, obj \in Objs :
               /\ names' = [names EXCEPT !["client"] =
                               Put(Del(names["client"], old), id, name)]
               /\ objs' = [objs EXCEPT !["client"] =
                               Put(Del(objs["client"], old), id, obj)]
      BY <1>2
    <2>2. "client" \in Sides
      BY DEF Sides
    <2>3. /\ Del(names["client"], old) \in SUBSET (Ids \X Names)
          /\ Del(objs["client"], old) \in SUBSET (Ids \X Objs)
      BY <2>2, DelType DEF TableTypes
    <2>4. /\ Put(Del(names["client"], old), id, name) \in SUBSET (Ids \X Names)
          /\ Put(Del(objs["client"], old), id, obj) \in SUBSET (Ids \X Objs)
      BY <2>3, PutType
    <2> QED
      BY <2>1, <2>4 DEF TableTypes
  <1> QED
    BY <1>1, <1>2 DEF SyncName

\* Nothing is left to be synchronized before the handshake.
LocalTodo == phase = "local" => todo = {}

LEMMA TypeInit == Init => TypeOK /\ LocalTodo
  BY IdsAssumption DEF Init, TypeOK, Sides, LocalTodo

LEMMA LocalTodoStep == LocalTodo /\ [Next]_vars => LocalTodo'
  BY DEF LocalTodo, Next, vars, syncVars, Register, DeleteObj, Handshake,
         SyncDone, SyncName

LEMMA TypeStep == TypeOK /\ LocalTodo /\ [Next]_vars => TypeOK'
  <1> SUFFICES ASSUME TypeOK, LocalTodo, [Next]_vars
               PROVE  TableTypes' /\ SyncTypes'
    BY DEF TypeOK, TableTypes, SyncTypes
  <1>0. TableTypes /\ SyncTypes /\ FixedIds \subseteq Ids
    BY Types DEF Ids
  <1>1. ASSUME NEW s \in Sides, NEW obj \in Objs, NEW name \in Names,
               Register(s, obj, name)
        PROVE  TableTypes' /\ SyncTypes'
    <2>1. CASE \E id \in FixedIds : Store(s, id, obj, name) /\ UNCHANGED nextid
      <3>1. SyncTypes'
        BY <1>0, <1>1, <2>1 DEF Register, SyncTypes, syncVars
      <3> QED
        BY <1>0, <2>1, <3>1, StoreType
    <2>2. CASE /\ nextid[s] <= MaxId
               /\ nextid' = [nextid EXCEPT ![s] = @ + 1]
               /\ Store(s, nextid[s], obj, name)
      <3>1. nextid[s] \in Ids /\ nextid[s] + 1 \in FirstId..(MaxId + 1)
        BY <1>0, <2>2, IdsAssumption DEF SyncTypes, Ids
      <3>2. SyncTypes'
        BY <1>0, <1>1, <2>2, <3>1 DEF Register, SyncTypes, syncVars
      <3> QED
        BY <1>0, <2>2, <3>1, <3>2, StoreType
    <2> QED
      BY <1>1, <2>1, <2>2 DEF Register
  <1>2. ASSUME NEW s \in Sides, NEW id \in Ids, DeleteObj(s, id)
        PROVE  TableTypes' /\ SyncTypes'
    <2>1. /\ Del(objs[s], id) \in SUBSET (Ids \X Objs)
          /\ Del(names[s], id) \in SUBSET (Ids \X Names)
      BY <1>0, DelType DEF TableTypes
    <2>2. TableTypes' /\ SyncTypes'
      BY <1>0, <1>2, <2>1 DEF DeleteObj, TableTypes, SyncTypes, syncVars
    <2> QED
      BY <2>2
  <1>3. CASE Handshake
    <2>1. names["server"] \subseteq Ids \X Names
      BY <1>0 DEF TableTypes, Sides
    <2>2. TableTypes' /\ nextid' = nextid /\ msg' \subseteq Ids \X Names
      BY <1>0, <1>3, <2>1 DEF Handshake, TableTypes
    <2>3. CASE phase' = "closed" /\ UNCHANGED <<todo, before>>
      <3>1. todo = {}
        BY <1>3 DEF Handshake, LocalTodo
      <3>2. todo' \subseteq msg'
        BY <2>3, <3>1
      <3> QED
        BY <1>0, <2>2, <2>3, <3>2 DEF SyncTypes
    <2>4. CASE phase' = "syncing" /\ todo' = msg' /\ before' \subseteq Objs \X Names
      BY <1>0, <2>2, <2>4 DEF SyncTypes
    <2> QED
      BY <1>3, <2>3, <2>4 DEF Handshake
  <1>4. CASE SyncDone \/ UNCHANGED vars
    BY <1>0, <1>4 DEF SyncDone, vars, TableTypes, SyncTypes
  <1>5. ASSUME NEW id \in Ids, NEW name \in Names, SyncName(id, name)
        PROVE  TableTypes' /\ SyncTypes'
    <2>1. SyncTypes'
      BY <1>0, <1>5 DEF SyncName, SyncTypes
    <2> QED
      BY <1>0, <1>5, <2>1, SyncNameType
  <1> QED
    BY <1>1, <1>2, <1>3, <1>4, <1>5 DEF Next

\* Every variable of Registry has its type in every reachable state.
THEOREM RegistryTypes == Spec => []TypeOK
  BY TypeInit, TypeStep, LocalTodoStep, PTL DEF Spec

-----------------------------------------------------------------------------
(* The bidicts stay one-to-one *)

OneToOneAll == \A s \in Sides : Injective(objs[s]) /\ Injective(names[s])

LEMMA OneToOneMeaning == OneToOne <=> OneToOneAll
  BY DEF OneToOne, OneToOneAll, Injective

LEMMA StoreInjective ==
    ASSUME TableTypes, OneToOneAll, NEW s \in Sides, NEW id, NEW obj, NEW name,
           Store(s, id, obj, name)
    PROVE  OneToOneAll'
  <1>1. ~Refuses(objs[s], id, obj) => Injective(Put(objs[s], id, obj))
    BY PutInjective DEF OneToOneAll
  <1>2. ~Refuses(names[s], id, name) => Injective(Put(names[s], id, name))
    BY PutInjective DEF OneToOneAll
  <1>3. /\ objs' \in {objs, [objs EXCEPT ![s] = Put(objs[s], id, obj)]}
        /\ objs' # objs => ~Refuses(objs[s], id, obj)
        /\ names' \in {names, [names EXCEPT ![s] = Put(names[s], id, name)]}
        /\ names' # names => ~Refuses(names[s], id, name)
    BY DEF Store
  <1>4. \A t \in Sides : Injective(objs'[t])
    BY <1>1, <1>3 DEF OneToOneAll, TableTypes
  <1>5. \A t \in Sides : Injective(names'[t])
    BY <1>2, <1>3 DEF OneToOneAll, TableTypes
  <1> QED
    BY <1>4, <1>5 DEF OneToOneAll

\* What one step of the synchronization does when the client has the name.
Moves(id, name, old, obj) ==
    /\ Holds(names["client"], old, name)
    /\ Holds(objs["client"], old, obj)
    /\ names' = [names EXCEPT !["client"] =
                    Put(Del(names["client"], old), id, name)]
    /\ objs' = [objs EXCEPT !["client"] =
                    Put(Del(objs["client"], old), id, obj)]

LEMMA SyncNameCases ==
    ASSUME NEW id, NEW name, SyncName(id, name)
    PROVE  \/ name \notin Values(names["client"]) /\ UNCHANGED <<objs, names>>
           \/ \E old \in Ids, obj \in Objs : Moves(id, name, old, obj)
  BY DEF SyncName, Moves

LEMMA SyncNameInjective ==
    ASSUME TableTypes, OneToOneAll, NEW id, NEW name, SyncName(id, name)
    PROVE  OneToOneAll'
  <1>1. CASE UNCHANGED <<objs, names>>
    BY <1>1 DEF OneToOneAll
  <1>2. ASSUME NEW old \in Ids, NEW obj \in Objs, Moves(id, name, old, obj)
        PROVE  OneToOneAll'
    <2>1. Injective(names["client"]) /\ Injective(objs["client"])
      BY DEF OneToOneAll, Sides
    <2>2. Injective(Put(Del(names["client"], old), id, name))
      BY <1>2, <2>1, DelInjective, MoveAccepted, PutInjective DEF Moves
    <2>3. Injective(Put(Del(objs["client"], old), id, obj))
      BY <1>2, <2>1, DelInjective, MoveAccepted, PutInjective DEF Moves
    <2> QED
      BY <1>2, <2>2, <2>3 DEF Moves, OneToOneAll, TableTypes, Sides
  <1> QED
    BY <1>1, <1>2, SyncNameCases

LEMMA InjectiveStep == TypeOK /\ OneToOneAll /\ [Next]_vars => OneToOneAll'
  <1> SUFFICES ASSUME TypeOK, OneToOneAll, [Next]_vars PROVE OneToOneAll'
    OBVIOUS
  <1>0. TableTypes
    BY Types
  <1>1. ASSUME NEW s \in Sides, NEW obj \in Objs, NEW name \in Names,
               Register(s, obj, name)
        PROVE  OneToOneAll'
    <2>1. PICK id : Store(s, id, obj, name)
      BY <1>1 DEF Register
    <2> QED
      BY <1>0, <2>1, StoreInjective
  <1>2. ASSUME NEW s \in Sides, NEW id \in Ids, DeleteObj(s, id)
        PROVE  OneToOneAll'
    <2>1. Injective(Del(objs[s], id)) /\ Injective(Del(names[s], id))
      BY DelInjective DEF OneToOneAll
    <2> QED
      BY <1>0, <1>2, <2>1 DEF DeleteObj, OneToOneAll, TableTypes
  <1>3. CASE Handshake \/ SyncDone \/ UNCHANGED vars
    <2>1. UNCHANGED <<objs, names>>
      BY <1>3 DEF Handshake, SyncDone, vars
    <2> QED
      BY <2>1 DEF OneToOneAll
  <1>5. ASSUME NEW id \in Ids, NEW name \in Names, SyncName(id, name)
        PROVE  OneToOneAll'
    BY <1>0, <1>5, SyncNameInjective
  <1> QED
    BY <1>1, <1>2, <1>3, <1>5 DEF Next

\* Whatever is registered, deleted and moved by a handshake, and whatever the
\* applications may do, no ID has two names or objects, and nothing has two IDs.
THEOREM RegistryOneToOne == Spec => []OneToOne
  <1>1. Init => OneToOneAll
    BY DEF Init, OneToOneAll, Injective, Sides
  <1>2. OneToOneAll => OneToOne
    BY OneToOneMeaning
  <1> QED
    BY <1>1, <1>2, InjectiveStep, RegistryTypes, PTL DEF Spec

-----------------------------------------------------------------------------
(* Every name has an object *)

LEMMA StoreNamed ==
    ASSUME TableTypes, NamedHasObject, NEW s \in Sides, NEW id, NEW obj,
           NEW name, Store(s, id, obj, name)
    PROVE  NamedHasObject'
  <1>1. CASE UNCHANGED <<objs, names>>
    BY <1>1 DEF NamedHasObject
  <1>2. CASE /\ objs' = [objs EXCEPT ![s] = Put(objs[s], id, obj)]
             /\ names' \in {names, [names EXCEPT ![s] = Put(names[s], id, name)]}
    <2>1. Keys(objs'[s]) = Keys(objs[s]) \cup {id}
      BY <1>2, PutKeys DEF TableTypes
    <2>2. Keys(names'[s]) \subseteq Keys(names[s]) \cup {id}
      BY <1>2, PutKeys DEF TableTypes
    <2>3. Keys(names'[s]) \subseteq Keys(objs'[s])
      BY <2>1, <2>2 DEF NamedHasObject
    <2>4. \A t \in Sides : t # s => objs'[t] = objs[t] /\ names'[t] = names[t]
      BY <1>2 DEF TableTypes
    <2> QED
      BY <2>3, <2>4 DEF NamedHasObject
  <1> QED
    BY <1>1, <1>2 DEF Store

LEMMA NamedStep == TypeOK /\ NamedHasObject /\ [Next]_vars => NamedHasObject'
  <1> SUFFICES ASSUME TypeOK, NamedHasObject, [Next]_vars PROVE NamedHasObject'
    OBVIOUS
  <1>0. TableTypes
    BY Types
  <1>1. ASSUME NEW s \in Sides, NEW obj \in Objs, NEW name \in Names,
               Register(s, obj, name)
        PROVE  NamedHasObject'
    <2>1. PICK id : Store(s, id, obj, name)
      BY <1>1 DEF Register
    <2> QED
      BY <1>0, <2>1, StoreNamed
  <1>2. ASSUME NEW s \in Sides, NEW id \in Ids, DeleteObj(s, id)
        PROVE  NamedHasObject'
    <2>1. /\ Keys(Del(objs[s], id)) = Keys(objs[s]) \ {id}
          /\ Keys(Del(names[s], id)) = Keys(names[s]) \ {id}
      BY DelKeys
    <2> QED
      BY <1>0, <1>2, <2>1 DEF DeleteObj, NamedHasObject, TableTypes
  <1>3. CASE Handshake \/ SyncDone \/ UNCHANGED vars
    <2>1. UNCHANGED <<objs, names>>
      BY <1>3 DEF Handshake, SyncDone, vars
    <2> QED
      BY <2>1 DEF NamedHasObject
  <1>5. ASSUME NEW id \in Ids, NEW name \in Names, SyncName(id, name)
        PROVE  NamedHasObject'
    <2>1. CASE UNCHANGED <<objs, names>>
      BY <2>1 DEF NamedHasObject
    <2>2. ASSUME NEW old \in Ids, NEW obj \in Objs, Moves(id, name, old, obj)
          PROVE  NamedHasObject'
      <3>1. /\ Keys(Put(Del(names["client"], old), id, name))
                  = (Keys(names["client"]) \ {old}) \cup {id}
            /\ Keys(Put(Del(objs["client"], old), id, obj))
                  = (Keys(objs["client"]) \ {old}) \cup {id}
        BY PutKeys, DelKeys
      <3>2. Keys(names["client"]) \subseteq Keys(objs["client"])
        BY DEF NamedHasObject, Sides
      <3>3. Keys(names'["client"]) \subseteq Keys(objs'["client"])
        BY <1>0, <2>2, <3>1, <3>2 DEF Moves, TableTypes, Sides
      <3>4. objs'["server"] = objs["server"] /\ names'["server"] = names["server"]
        BY <1>0, <2>2 DEF Moves, TableTypes, Sides
      <3> QED
        BY <3>3, <3>4 DEF NamedHasObject, Sides
    <2> QED
      BY <1>5, <2>1, <2>2, SyncNameCases
  <1> QED
    BY <1>1, <1>2, <1>3, <1>5 DEF Next

\* A name never lacks its object, so getObj(name) finds one and the thread that
\* synchronizes survives.
THEOREM RegistryNamed == Spec => []NamedHasObject
  <1>1. Init => NamedHasObject
    BY DEF Init, NamedHasObject, Keys, Sides
  <1> QED
    BY <1>1, NamedStep, RegistryTypes, PTL DEF Spec

-----------------------------------------------------------------------------
(* Every ID has an object if and only if it has a name *)

\* A new name is not refused, so both assignments of register are done or none.
LEMMA StorePaired ==
    ASSUME TableTypes, Paired, NEW s \in Sides, NEW id, NEW obj, NEW name,
           name \notin Values(names[s]), Store(s, id, obj, name)
    PROVE  Paired'
  <1>1. ~Refuses(names[s], id, name)
    BY DEF Refuses, Values
  <1>2. CASE UNCHANGED <<objs, names>>
    BY <1>2 DEF Paired
  <1>3. CASE /\ objs' = [objs EXCEPT ![s] = Put(objs[s], id, obj)]
             /\ names' = [names EXCEPT ![s] = Put(names[s], id, name)]
    <2>1. Keys(objs'[s]) = Keys(objs[s]) \cup {id}
      BY <1>3, PutKeys DEF TableTypes
    <2>2. Keys(names'[s]) = Keys(names[s]) \cup {id}
      BY <1>3, PutKeys DEF TableTypes
    <2>3. Keys(objs'[s]) = Keys(names'[s])
      BY <2>1, <2>2 DEF Paired
    <2>4. \A t \in Sides : t # s => objs'[t] = objs[t] /\ names'[t] = names[t]
      BY <1>3 DEF TableTypes
    <2> QED
      BY <2>3, <2>4 DEF Paired
  <1> QED
    BY <1>1, <1>2, <1>3 DEF Store

LEMMA PairedStep ==
    ASSUME ~NamesTwice
    PROVE  TypeOK /\ Paired /\ [Next]_vars => Paired'
  <1> SUFFICES ASSUME TypeOK, Paired, [Next]_vars PROVE Paired'
    OBVIOUS
  <1>0. TableTypes
    BY Types
  <1>1. ASSUME NEW s \in Sides, NEW obj \in Objs, NEW name \in Names,
               Register(s, obj, name)
        PROVE  Paired'
    <2>1. PICK id : Store(s, id, obj, name)
      BY <1>1 DEF Register
    <2>2. name \notin Values(names[s])
      BY <1>1 DEF Register
    <2> QED
      BY <1>0, <2>1, <2>2, StorePaired
  <1>2. ASSUME NEW s \in Sides, NEW id \in Ids, DeleteObj(s, id)
        PROVE  Paired'
    <2>1. /\ Keys(Del(objs[s], id)) = Keys(objs[s]) \ {id}
          /\ Keys(Del(names[s], id)) = Keys(names[s]) \ {id}
      BY DelKeys
    <2> QED
      BY <1>0, <1>2, <2>1 DEF DeleteObj, Paired, TableTypes
  <1>3. CASE Handshake \/ SyncDone \/ UNCHANGED vars
    <2>1. UNCHANGED <<objs, names>>
      BY <1>3 DEF Handshake, SyncDone, vars
    <2> QED
      BY <2>1 DEF Paired
  <1>5. ASSUME NEW id \in Ids, NEW name \in Names, SyncName(id, name)
        PROVE  Paired'
    <2>1. CASE UNCHANGED <<objs, names>>
      BY <2>1 DEF Paired
    <2>2. ASSUME NEW old \in Ids, NEW obj \in Objs, Moves(id, name, old, obj)
          PROVE  Paired'
      <3>1. /\ Keys(Put(Del(names["client"], old), id, name))
                  = (Keys(names["client"]) \ {old}) \cup {id}
            /\ Keys(Put(Del(objs["client"], old), id, obj))
                  = (Keys(objs["client"]) \ {old}) \cup {id}
        BY PutKeys, DelKeys
      <3>2. Keys(names["client"]) = Keys(objs["client"])
        BY DEF Paired, Sides
      <3>3. Keys(names'["client"]) = Keys(objs'["client"])
        BY <1>0, <2>2, <3>1, <3>2 DEF Moves, TableTypes, Sides
      <3>4. objs'["server"] = objs["server"] /\ names'["server"] = names["server"]
        BY <1>0, <2>2 DEF Moves, TableTypes, Sides
      <3> QED
        BY <3>3, <3>4, <1>0 DEF Paired, Sides
    <2> QED
      BY <1>5, <2>1, <2>2, SyncNameCases
  <1> QED
    BY <1>1, <1>2, <1>3, <1>5 DEF Next

\* If no name is registered twice, an ID has an object exactly when it has a
\* name, at every moment of a synchronization.
THEOREM RegistryPaired ==
    ASSUME ~NamesTwice
    PROVE  Spec => []Paired
  <1>1. Init => Paired
    BY DEF Init, Paired, Keys, Sides
  <1>2. TypeOK /\ Paired /\ [Next]_vars => Paired'
    BY PairedStep
  <1> QED
    BY <1>1, <1>2, RegistryTypes, PTL DEF Spec

-----------------------------------------------------------------------------
(* The handshake makes the two sides agree *)

\* No ID of the handshake that still matters is taken by another name.
Free(d) == \A p \in msg, q \in d :
    p[1] = q[1] /\ p[2] \in Values(d) => p[2] = q[2]

\* The client holds the name and the object under this ID.
HasBoth(id, obj, name) ==
    Holds(names["client"], id, name) /\ Holds(objs["client"], id, obj)

\* A name that was dealt with has its new ID, and one that was not has still
\* the client's own ID: in both cases with the object it had before.
Progress == \A id \in Ids, obj \in Objs, name \in Names :
    <<id, name>> \in msg /\ <<obj, name>> \in before
        => IF <<id, name>> \in todo THEN \E old \in Ids : HasBoth(old, obj, name)
                                    ELSE HasBoth(id, obj, name)

Syncing == phase = "syncing" => Injective(msg) /\ Free(names["client"]) /\ Progress

\* A move takes no name away and puts nothing at an ID that another one needs.
LEMMA MoveFree ==
    ASSUME NEW d, NEW id, NEW name, NEW old,
           Injective(msg), Free(d), <<id, name>> \in msg, Holds(d, old, name)
    PROVE  Free(Put(Del(d, old), id, name))
  <1> DEFINE e == Put(Del(d, old), id, name)
  <1>1. \A q \in e : q \in d \/ q = <<id, name>>
    BY DEF Put, Del
  <1>2. Values(e) \subseteq Values(d)
    <2>1. name \in Values(d)
      BY DEF Holds, Values
    <2> QED
      BY <1>1, <2>1 DEF Values
  <1>3. ASSUME NEW p \in msg, NEW q \in e, p[1] = q[1], p[2] \in Values(e)
        PROVE  p[2] = q[2]
    <2>1. CASE q \in d
      BY <1>2, <1>3, <2>1 DEF Free
    <2>2. CASE q = <<id, name>>
      BY <1>3, <2>2 DEF Injective
    <2> QED
      BY <1>1, <2>1, <2>2
  <1> QED
    BY <1>3 DEF Free

LEMMA HandshakeSyncing ==
    ASSUME TypeOK, OneToOneAll, ~Clashes, Handshake
    PROVE  Syncing'
  <1> SUFFICES ASSUME phase' = "syncing" PROVE Syncing'
    BY DEF Syncing
  <1>1. /\ msg' = names["server"] /\ todo' = msg' /\ UNCHANGED <<objs, names>>
        /\ before' = {e \in Objs \X Names : \E id \in Ids :
               Holds(objs["client"], id, e[1]) /\ Holds(names["client"], id, e[2])}
    BY DEF Handshake
  <1>2. Injective(msg)'
    BY <1>1 DEF OneToOneAll, Sides, Injective
  <1>3. Free(names["client"])'
    BY <1>1 DEF Handshake, Clash, Free, Values
  <1>4. Progress'
    BY <1>1 DEF Progress, HasBoth
  <1> QED
    BY <1>2, <1>3, <1>4 DEF Syncing

\* A move leaves the pairs of the other names together.
LEMMA MovedPairs ==
    ASSUME TableTypes, OneToOneAll, Free(names["client"]),
           NEW id \in Ids, NEW name \in Names, <<id, name>> \in msg,
           NEW old \in Ids, NEW obj \in Objs, Moves(id, name, old, obj),
           NEW i, NEW o, NEW n, HasBoth(i, o, n)
    PROVE  IF n = name THEN HasBoth(id, o, n)' ELSE HasBoth(i, o, n)'
  <1>1. Injective(names["client"]) /\ Injective(objs["client"])
    BY DEF OneToOneAll, Sides
  <1>2. /\ names'["client"] = Put(Del(names["client"], old), id, name)
        /\ objs'["client"] = Put(Del(objs["client"], old), id, obj)
    BY DEF Moves, TableTypes, Sides
  <1>3. /\ Holds(names["client"], old, name) /\ Holds(objs["client"], old, obj)
        /\ Holds(names["client"], i, n) /\ Holds(objs["client"], i, o)
    BY DEF Moves, HasBoth
  <1>4. CASE n = name
    <2>1. i = old
      BY <1>1, <1>3, <1>4 DEF Injective, Holds
    <2>2. o = obj
      BY <1>1, <1>3, <2>1 DEF Injective, Holds
    <2>3. /\ Holds(names'["client"], id, n)
          /\ Holds(objs'["client"], id, o)
      BY <1>2, <1>4, <2>2, MoveHolds
    <2> QED
      BY <1>4, <2>3 DEF HasBoth
  <1>5. CASE n # name
    <2>1. i # old
      BY <1>1, <1>3, <1>5 DEF Injective, Holds
    <2>2. name \in Values(names["client"])
      BY <1>3 DEF Holds, Values
    <2>3. i # id
      BY <1>3, <1>5, <2>2 DEF Free, Holds
    <2>4. /\ Holds(names'["client"], i, n)
          /\ Holds(objs'["client"], i, o)
      BY <1>2, <1>3, <2>1, <2>3, MoveKeeps
    <2> QED
      BY <1>5, <2>4 DEF HasBoth
  <1> QED
    BY <1>4, <1>5

LEMMA SyncNameSyncing ==
    ASSUME TypeOK, OneToOneAll, Syncing,
           NEW id \in Ids, NEW name \in Names, SyncName(id, name)
    PROVE  Syncing'
  <1>1. Injective(msg) /\ Free(names["client"]) /\ Progress
    BY DEF Syncing, SyncName
  <1>2. /\ <<id, name>> \in todo /\ <<id, name>> \in msg
        /\ todo' = todo \ {<<id, name>>} /\ UNCHANGED <<msg, before>>
    BY DEF SyncName, TypeOK
  <1>3. TableTypes
    BY Types
  <1>4. Injective(msg)'
    BY <1>1, <1>2 DEF Injective
  <1>5. CASE name \notin Values(names["client"]) /\ UNCHANGED <<objs, names>>
    <2>1. Free(names["client"])'
      BY <1>1, <1>2, <1>5 DEF Free, Values
    <2>2. \A o \in Objs : <<o, name>> \notin before
      <3>1. \A k : ~Holds(names["client"], k, name)
        BY <1>5 DEF Holds, Values
      <3> QED
        BY <1>1, <1>2, <3>1 DEF Progress, HasBoth
    <2>3. \A i \in Ids, n \in Names : n # name =>
              (<<i, n>> \in todo' <=> <<i, n>> \in todo)
      BY <1>2
    <2>4. Progress'
      BY <1>1, <1>2, <1>5, <2>2, <2>3 DEF Progress, HasBoth
    <2> QED
      BY <1>4, <2>1, <2>4 DEF Syncing
  <1>6. ASSUME NEW old \in Ids, NEW obj \in Objs, Moves(id, name, old, obj)
        PROVE  Syncing'
    <2>1. names'["client"] = Put(Del(names["client"], old), id, name)
      BY <1>3, <1>6 DEF Moves, TableTypes, Sides
    <2>2. Free(Put(Del(names["client"], old), id, name))
      BY <1>1, <1>2, <1>6, MoveFree DEF Moves
    <2>3. Free(names["client"])'
      BY <1>2, <2>1, <2>2 DEF Free, Values
    <2>4. ASSUME NEW i \in Ids, NEW o \in Objs, NEW n \in Names,
                 <<i, n>> \in msg, <<o, n>> \in before
          PROVE  IF <<i, n>> \in todo' THEN \E k \in Ids : HasBoth(k, o, n)'
                                       ELSE HasBoth(i, o, n)'
      <3>1. CASE n = name
        <4>1. i = id
          BY <1>1, <1>2, <2>4, <3>1 DEF Injective
        <4>2. PICK k \in Ids : HasBoth(k, o, n)
          BY <1>1, <1>2, <2>4, <3>1, <4>1 DEF Progress
        <4>3. HasBoth(id, o, n)'
          BY <1>1, <1>2, <1>3, <1>6, <3>1, <4>2, MovedPairs
        <4> QED
          BY <1>2, <3>1, <4>1, <4>3
      <3>2. CASE n # name
        <4>1. \A k \in Ids : HasBoth(k, o, n) => HasBoth(k, o, n)'
          BY <1>1, <1>2, <1>3, <1>6, <3>2, MovedPairs
        <4>2. <<i, n>> \in todo' <=> <<i, n>> \in todo
          BY <1>2, <3>2
        <4>3. IF <<i, n>> \in todo THEN \E k \in Ids : HasBoth(k, o, n)
                                   ELSE HasBoth(i, o, n)
          BY <1>1, <2>4 DEF Progress
        <4> QED
          BY <4>1, <4>2, <4>3
      <3> QED
        BY <3>1, <3>2
    <2>5. Progress'
      BY <1>2, <2>4 DEF Progress
    <2> QED
      BY <1>4, <2>3, <2>5 DEF Syncing
  <1> QED
    BY <1>5, <1>6, SyncNameCases

\* What register does at the server leaves the client's registry alone.
LEMMA OtherSide ==
    ASSUME TypeOK, NEW s \in Sides, s # "client",
           NEW id, NEW obj, NEW name, Store(s, id, obj, name)
    PROVE  names'["client"] = names["client"] /\ objs'["client"] = objs["client"]
  BY DEF Store, TypeOK, Sides

LEMMA SameSyncing ==
    ASSUME Syncing, UNCHANGED <<phase, msg, todo, before>>,
           names'["client"] = names["client"], objs'["client"] = objs["client"]
    PROVE  Syncing'
  BY DEF Syncing, Free, Progress, HasBoth, Injective

LEMMA SyncingStep ==
    ASSUME ~Clashes
    PROVE  TypeOK /\ OneToOneAll /\ Syncing /\ [Next]_vars => Syncing'
  <1> SUFFICES ASSUME TypeOK, OneToOneAll, Syncing, [Next]_vars PROVE Syncing'
    OBVIOUS
  <1>1. ASSUME NEW s \in Sides, NEW obj \in Objs, NEW name \in Names,
               Register(s, obj, name)
        PROVE  Syncing'
    <2>1. UNCHANGED <<phase, msg, todo, before>> /\ (s = "client" => phase # "syncing")
      BY <1>1 DEF Register, syncVars
    <2>2. CASE s = "client"
      BY <2>1, <2>2 DEF Syncing
    <2>3. CASE s # "client"
      <3>1. names'["client"] = names["client"] /\ objs'["client"] = objs["client"]
        BY <1>1, <2>3, OtherSide DEF Register
      <3> QED
        BY <2>1, <3>1, SameSyncing
    <2> QED
      BY <2>2, <2>3
  <1>2. ASSUME NEW s \in Sides, NEW id \in Ids, DeleteObj(s, id)
        PROVE  Syncing'
    <2>1. UNCHANGED <<phase, msg, todo, before>> /\ (s = "client" => phase # "syncing")
      BY <1>2 DEF DeleteObj, syncVars
    <2>2. CASE s = "client"
      BY <2>1, <2>2 DEF Syncing
    <2>3. CASE s # "client"
      <3>1. names'["client"] = names["client"] /\ objs'["client"] = objs["client"]
        BY <1>2, <2>3 DEF DeleteObj, TypeOK, Sides
      <3> QED
        BY <2>1, <3>1, SameSyncing
    <2> QED
      BY <2>2, <2>3
  <1>3. CASE Handshake
    BY <1>3, HandshakeSyncing
  <1>4. CASE SyncDone
    BY <1>4 DEF SyncDone, Syncing
  <1>5. ASSUME NEW id \in Ids, NEW name \in Names, SyncName(id, name)
        PROVE  Syncing'
    BY <1>5, SyncNameSyncing
  <1>6. CASE UNCHANGED vars
    BY <1>6 DEF vars, Syncing, Free, Values, Progress, HasBoth, Injective
  <1> QED
    BY <1>1, <1>2, <1>3, <1>4, <1>5, <1>6 DEF Next

\* When the last name is dealt with, all of them agree.
LEMMA DoneAgrees ==
    TypeOK /\ Syncing /\ [Next]_vars =>
        [phase = "syncing" /\ phase' = "synced"
             => \A name \in Names : Agree(name)]_vars
  <1> SUFFICES ASSUME TypeOK, Syncing, Next, phase = "syncing", phase' = "synced"
               PROVE  \A name \in Names : Agree(name)
    OBVIOUS
  <1>1. SyncDone
    BY DEF Next, Register, DeleteObj, Handshake, SyncName, syncVars
  <1>2. todo = {} /\ Progress
    BY <1>1 DEF SyncDone, Syncing
  <1> QED
    BY <1>2 DEF Progress, HasBoth, Agree, Holds

\* If no ID of the server is taken by another packet that both sides know, the
\* handshake gives every packet that both know the server's ID, with the object
\* the client registered for it, in whatever order the names are dealt with.
THEOREM RegistryAgrees ==
    ASSUME ~Clashes
    PROVE  Spec => SyncedAgree
  <1>1. Init => OneToOneAll /\ Syncing
    BY DEF Init, OneToOneAll, Injective, Sides, Syncing
  <1>2. TypeOK /\ OneToOneAll /\ Syncing /\ [Next]_vars => Syncing'
    BY SyncingStep
  <1> QED
    BY <1>1, <1>2, InjectiveStep, DoneAgrees, RegistryTypes, PTL
    DEF Spec, SyncedAgree
=============================================================================
