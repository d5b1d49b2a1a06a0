------------------------------ MODULE Registry ------------------------------
(***************************************************************************)
(* The packet registries of a server and one client                        *)
(* (src/peng3dnet/registry.py), and their synchronization when the client  *)
(* receives the handshake (HandshakePacket in packet/internal.py).         *)
(*                                                                         *)
(* A registry keeps two bidicts, reg_int_obj and reg_int_str.  Each is a   *)
(* set of pairs here.  bidict (0.19, requirements.txt) drops the old value *)
(* of a key that is set again, and raises when the value is there already  *)
(* under another key.                                                      *)
(*                                                                         *)
(* The applications register while they start, and may register later too; *)
(* the client's proc thread synchronizes, one name of the handshake after  *)
(* the other, in the order of a dict, which can be any.  The client's      *)
(* application leaves its registry alone during the synchronization; no    *)
(* lock makes it wait.                                                     *)
(***************************************************************************)
EXTENDS Naturals, FiniteSets

CONSTANTS
    Names, Objs,    \* packet names and packet objects
    FirstId,        \* the first generated ID (64)
    MaxId,          \* bound: the greatest ID generated
    FixedIds,       \* IDs an application may ask for
    MissingPacket,  \* what net.registry.missingpacketaction may be
    NamesTwice,     \* may an application register a name twice?
    Clashes         \* may a server ID be taken by another packet of the client?

Sides == {"server", "client"}
Ids == FixedIds \cup FirstId..MaxId

ASSUME IdsAssumption ==
    /\ FirstId \in Nat /\ MaxId \in Nat
    /\ FixedIds \subseteq Nat /\ \A i \in FixedIds : i < FirstId
ASSUME OptionsAssumption ==
    /\ MissingPacket \subseteq {"closeconnection", "ignore"}
    /\ NamesTwice \in BOOLEAN /\ Clashes \in BOOLEAN

VARIABLES
    objs,       \* reg_int_obj of each side
    names,      \* reg_int_str of each side
    nextid,     \* the next ID each side generates
    phase,      \* of the client: local, syncing, synced, closed
    msg,        \* the registry in the handshake
    todo,       \* what of it is still to be looked at
    before      \* history: <<object, name>> of the client before the sync

vars == <<objs, names, nextid, phase, msg, todo, before>>
syncVars == <<phase, msg, todo, before>>

-----------------------------------------------------------------------------
(* bidict *)

Keys(d) == {p[1] : p \in d}
Values(d) == {p[2] : p \in d}
Holds(d, k, v) == <<k, v>> \in d
\* d[k] = v raises: v is there, under another key.
Refuses(d, k, v) == \E p \in d : p[2] = v /\ p[1] # k
Put(d, k, v) == {p \in d : p[1] # k} \cup {<<k, v>>}
Del(d, k) == {p \in d : p[1] # k}

Init ==
    /\ objs = [s \in Sides |-> {}] /\ names = [s \in Sides |-> {}]
    /\ nextid = [s \in Sides |-> FirstId]
    /\ phase = "local" /\ msg = {} /\ todo = {} /\ before = {}

-----------------------------------------------------------------------------
(* What the applications do *)

\* Mutant: the name goes in without the object being looked at.
StoreNameAnyway(s, id, obj, name) ==
    /\ objs' = IF Refuses(objs[s], id, obj) THEN objs
               ELSE [objs EXCEPT ![s] = Put(@, id, obj)]
    /\ names' = IF Refuses(names[s], id, name) THEN names
                ELSE [names EXCEPT ![s] = Put(@, id, name)]

\* The two assignments of register.  Each may raise; the second one then leaves
\* the first done.
Store(s, id, obj, name) ==
    IF Refuses(objs[s], id, obj) THEN UNCHANGED <<objs, names>>
    ELSE /\ objs' = [objs EXCEPT ![s] = Put(@, id, obj)]
         /\ names' = IF Refuses(names[s], id, name) THEN names
                     ELSE [names EXCEPT ![s] = Put(@, id, name)]

Register(s, obj, name) ==
    /\ NamesTwice \/ name \notin Values(names[s])
    /\ s = "client" => phase # "syncing"
    /\ \/ \E id \in FixedIds : Store(s, id, obj, name) /\ UNCHANGED nextid
       \/ /\ nextid[s] <= MaxId
          /\ nextid' = [nextid EXCEPT ![s] = @ + 1]
          /\ Store(s, nextid[s], obj, name)
    /\ UNCHANGED syncVars

\* deleteObj, for the ID of whatever representation it is given: KeyError from
\* the first deletion leaves both, from the second one the object deleted.
DeleteObj(s, id) ==
    /\ s = "client" => phase # "syncing"
    /\ id \in Keys(objs[s])
    /\ objs' = [objs EXCEPT ![s] = Del(@, id)]
    /\ names' = [names EXCEPT ![s] = Del(@, id)]
    /\ UNCHANGED <<nextid, syncVars>>

-----------------------------------------------------------------------------
(* The handshake *)

Clash == \E p \in names["server"], q \in names["client"] :
            /\ p[1] = q[1] /\ p[2] # q[2]
            /\ p[2] \in Values(names["client"])

\* Mutant: the wrong one of the two bidicts is sent.
HandshakeObjects ==
    /\ phase = "local" /\ (Clashes \/ ~Clash)
    /\ msg' = objs["server"]
    /\ phase' = "syncing"
    /\ todo' = msg'
    /\ UNCHANGED <<objs, names, nextid, before>>

\* ClassicConnectionType.init sends the names and IDs of the server; the client
\* compares the names with its own.
Handshake ==
    /\ phase = "local" /\ (Clashes \/ ~Clash)
    /\ msg' = names["server"]
    /\ \/ /\ Values(msg') # Values(names["client"])
          /\ "closeconnection" \in MissingPacket
          /\ phase' = "closed" /\ UNCHANGED <<todo, before>>
       \/ /\ Values(msg') = Values(names["client"]) \/ "ignore" \in MissingPacket
          /\ phase' = "syncing"
          /\ todo' = msg'
          /\ before' = {e \in Objs \X Names : \E id \in Ids :
                 Holds(objs["client"], id, e[1]) /\ Holds(names["client"], id, e[2])}
    /\ UNCHANGED <<objs, names, nextid>>

\* Mutant: the old entries are left in place.
SyncNameKeepsOld(id, name) ==
    /\ phase = "syncing" /\ <<id, name>> \in todo
    /\ todo' = todo \ {<<id, name>>}
    /\ \/ /\ name \notin Values(names["client"])
          /\ UNCHANGED <<objs, names>>
       \/ \E old \in Ids, obj \in Objs :
             /\ Holds(names["client"], old, name)
             /\ Holds(objs["client"], old, obj)
             /\ names' = [names EXCEPT !["client"] = Put(@, id, name)]
             /\ objs' = [objs EXCEPT !["client"] = Put(@, id, obj)]
    /\ UNCHANGED <<nextid, phase, msg, before>>

\* Mutant: the server's ID is only used for the name.
SyncNameOnly(id, name) ==
    /\ phase = "syncing" /\ <<id, name>> \in todo
    /\ todo' = todo \ {<<id, name>>}
    /\ \/ /\ name \notin Values(names["client"])
          /\ UNCHANGED <<objs, names>>
       \/ \E old \in Ids, obj \in Objs :
             /\ Holds(names["client"], old, name)
             /\ Holds(objs["client"], old, obj)
             /\ names' = [names EXCEPT !["client"] = Put(Del(@, old), id, name)]
             /\ UNCHANGED objs
    /\ UNCHANGED <<nextid, phase, msg, before>>

\* One name of the handshake.  getObj() and getInt() find the name's object and
\* ID, for every name has them (NamedHasObject).
SyncName(id, name) ==
    /\ phase = "syncing" /\ <<id, name>> \in todo
    /\ todo' = todo \ {<<id, name>>}
    /\ \/ /\ name \notin Values(names["client"])
          /\ UNCHANGED <<objs, names>>
       \/ \E old \in Ids, obj \in Objs :
             /\ Holds(names["client"], old, name)
             /\ Holds(objs["client"], old, obj)
             /\ names' = [names EXCEPT !["client"] = Put(Del(@, old), id, name)]
             /\ objs' = [objs EXCEPT !["client"] = Put(Del(@, old), id, obj)]
    /\ UNCHANGED <<nextid, phase, msg, before>>

SyncDone ==
    /\ phase = "syncing" /\ todo = {}
    /\ phase' = "synced"
    /\ UNCHANGED <<objs, names, nextid, msg, todo, before>>

-----------------------------------------------------------------------------
Next ==
    \/ \E s \in Sides, obj \in Objs, name \in Names : Register(s, obj, name)
    \/ \E s \in Sides, id \in Ids : DeleteObj(s, id)
    \/ Handshake \/ SyncDone
    \/ \E id \in Ids, name \in Names : SyncName(id, name)

Spec == Init /\ [][Next]_vars

-----------------------------------------------------------------------------
\* Every variable has the type its comment says.
TypeOK ==
    /\ objs \in [Sides -> SUBSET (Ids \X Objs)]
    /\ names \in [Sides -> SUBSET (Ids \X Names)]
    /\ nextid \in [Sides -> FirstId..(MaxId + 1) \cup {FirstId}]
    /\ phase \in {"local", "syncing", "synced", "closed"}
    /\ msg \subseteq Ids \X Names /\ todo \subseteq msg
    /\ before \subseteq Objs \X Names

\* register and deleteObj change two bidicts, one after the other, and either
\* change may raise: whatever is registered twice, deleted or moved, a name never
\* lacks its object.  getObj(name) of the synchronization finds it, and the proc
\* thread survives.
NamedHasObject == \A s \in Sides : Keys(names[s]) \subseteq Keys(objs[s])

\* A bidict is one-to-one: no ID has two names or objects, and nothing has two
\* IDs, whatever the handshake moves.
OneToOne == \A s \in Sides : \A d \in {objs[s], names[s]} :
    \A p, q \in d : p[1] = q[1] <=> p[2] = q[2]

\* The point of the handshake: for every packet that both sides know, the client
\* has the server's ID, and with it the object it had registered itself.
Agree(name) == \A id \in Ids, obj \in Objs :
    Holds(msg, id, name) /\ <<obj, name>> \in before
        => Holds(names["client"], id, name) /\ Holds(objs["client"], id, obj)
SyncedAgree == [][phase = "syncing" /\ phase' = "synced"
                      => \A name \in Names : Agree(name)]_vars

-----------------------------------------------------------------------------
\* Refuted when a name is registered twice (NamesTwice): the second assignment of
\* register (registry.py:119) raises when the first one is done, and the object
\* stays behind without a name.
Paired == \A s \in Sides : Keys(objs[s]) = Keys(names[s])

\* Refuted by a packet registered after a synchronization: getNewID "generates
\* a new ID" (registry.py:92).
NewIdIsNew == \A s \in Sides : nextid[s] \notin Keys(objs[s])
=============================================================================
