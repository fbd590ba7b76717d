------------------------ MODULE AddressSpacesProofs ------------------------
(* Proofs about AddressSpaces, for any number of states and objects. *)
EXTENDS AddressSpaces, TLAPS

Operation == [op : Operations \cup {"none"}, unbound : Spaces \cup {None},
              rl : Seq(Resolution), found : Seq(Found)]

(*-------------------------------------------------------------------------*)
(* Types.                                                                  *)

LEMMA IdleTypes == Idle \in Operation
PROOF BY DEF Idle, Operation

LEMMA InitTypes ==
  ASSUME Init
  PROVE  TypeOK
PROOF
<1> USE NoneAssumption
<1>1. pending \in Operation
  BY IdleTypes DEF Init
<1> QED
  BY <1>1 DEF Init, TypeOK, NoObjects, Operation

LEMMA HeapTypes ==
  ASSUME NEW own \in [ObjectStates -> Nat],
         NEW sto \in [ObjectStates -> Values \cup {None}],
         Heap(own, sto)
  PROVE  /\ owner' \in [ObjectStates -> Nat]
         /\ store' \in [ObjectStates -> Values \cup {None}]
PROOF BY DEF Heap

LEMMA BindTypes ==
  ASSUME TypeOK, NEW s \in Spaces, NEW m \in MemoryObjects, NEW o \in ObjectStates,
         NEW v \in Values, Bind(s, m, o, v)
  PROVE  /\ objects' \in [Spaces -> [MemoryObjects -> ObjectStates \cup {None}]]
         /\ owner' \in [ObjectStates -> Nat]
         /\ store' \in [ObjectStates -> Values \cup {None}]
PROOF
<1>1. objects' \in [Spaces -> [MemoryObjects -> ObjectStates \cup {None}]]
  BY DEF Bind, TypeOK
<1>2. /\ [owner EXCEPT ![o] = cowKey[s]] \in [ObjectStates -> Nat]
      /\ [store EXCEPT ![o] = v] \in [ObjectStates -> Values \cup {None}]
  BY DEF TypeOK
<1>3. Heap([owner EXCEPT ![o] = cowKey[s]], [store EXCEPT ![o] = v])
  BY DEF Bind
<1> QED
  BY <1>1, <1>2, <1>3, HeapTypes

LEMMA WriteTypes ==
  ASSUME TypeOK, NEW s \in Spaces, NEW m \in MemoryObjects, NEW o \in ObjectStates,
         NEW v \in Values, WriteObject(s, m, o, v)
  PROVE  /\ objects' \in [Spaces -> [MemoryObjects -> ObjectStates \cup {None}]]
         /\ owner' \in [ObjectStates -> Nat]
         /\ store' \in [ObjectStates -> Values \cup {None}]
PROOF
<1>1. CASE Owns(s, o)
  BY <1>1 DEF WriteObject, TypeOK
<1>2. CASE ~Owns(s, o)
  <2>1. PICK n \in ObjectStates : Bind(s, m, n, v)
    BY <1>2 DEF WriteObject
  <2> QED
    BY <2>1, BindTypes
<1> QED
  BY <1>1, <1>2

LEMMA ForkTypes ==
  ASSUME TypeOK, NEW s \in Spaces, NEW n \in Spaces, Fork(s, n)
  PROVE  /\ live' \subseteq Spaces /\ cowKey' \in [Spaces -> Nat]
         /\ objects' \in [Spaces -> [MemoryObjects -> ObjectStates \cup {None}]]
         /\ owner' \in [ObjectStates -> Nat]
         /\ store' \in [ObjectStates -> Values \cup {None}]
         /\ symbolics' \in [Spaces -> SUBSET MemoryObjects]
         /\ allocas' \in [Spaces -> SUBSET MemoryObjects]
PROOF
<1>1. live' \subseteq Spaces /\ UNCHANGED <<owner, store>>
  BY DEF Fork, TypeOK
<1>2. cowKey' \in [Spaces -> Nat]
  <2>1. cowKey \in [Spaces -> Nat] /\ cowKey[s] + 1 \in Nat
    BY DEF TypeOK
  <2>2. cowKey' = [[cowKey EXCEPT ![s] = cowKey[s] + 1] EXCEPT ![n] = cowKey[s] + 1]
    BY DEF Fork, ForkKeys
  <2> QED
    BY <2>1, <2>2
<1>3. objects' \in [Spaces -> [MemoryObjects -> ObjectStates \cup {None}]]
  BY DEF Fork, TypeOK
<1>4. symbolics' \in [Spaces -> SUBSET MemoryObjects] /\ allocas' \in [Spaces -> SUBSET MemoryObjects]
  BY DEF Fork, TypeOK
<1> QED
  BY <1>1, <1>2, <1>3, <1>4 DEF TypeOK

(* What the pending operation holds. *)
LEMMA ListTypes ==
  ASSUME TypeOK, pending.rl # <<>>, NEW s \in Spaces
  PROVE  /\ FoundFor(s) \in Found
         /\ Tail(pending.rl) \in Seq(Resolution)
         /\ Append(pending.found, FoundFor(s)) \in Seq(Found)
PROOF
<1>1. pending.rl \in Seq(Resolution) /\ pending.found \in Seq(Found)
  BY DEF TypeOK
<1>2. Head(pending.rl) \in Resolution /\ Tail(pending.rl) \in Seq(Resolution)
  BY <1>1
<1>3. FoundFor(s) \in Found
  BY <1>2 DEF FoundFor, Found, Resolution
<1> QED
  BY <1>1, <1>2, <1>3

LEMMA CurrentTypes ==
  ASSUME TypeOK, pending.found # <<>>
  PROVE  /\ Current \in Found
         /\ Current.state \in Spaces /\ Current.mo \in MemoryObjects
         /\ Current.os \in ObjectStates
         /\ Tail(pending.found) \in Seq(Found)
         /\ Acted \in Operation
PROOF
<1>1. pending \in Operation
  BY DEF TypeOK, Operation
<1>2. pending.found \in Seq(Found)
  BY <1>1 DEF Operation
<1>3. Current \in Found /\ Tail(pending.found) \in Seq(Found)
  BY <1>2 DEF Current
<1>4. Acted \in Operation
  BY <1>1, <1>3 DEF Acted, Operation
<1> QED
  BY <1>3, <1>4 DEF Found

(* The operations that need no resolution. *)
LEMMA StepTypes ==
  ASSUME TypeOK, NEW s \in live,
         Allocate(s) \/ MakeSymbolic(s) \/ WriteKnown(s) \/ Return(s)
         \/ ForkState(s) \/ Delete(s) \/ StartResolution(s)
  PROVE  TypeOK'
PROOF
<1>0. s \in Spaces
  BY DEF TypeOK
<1>1. CASE Allocate(s)
  <2>1. PICK m \in MemoryObjects \ Allocated, o \in ObjectStates, v \in Values, isLocal \in BOOLEAN :
          /\ Bind(s, m, o, v)
          /\ allocas' = [allocas EXCEPT ![s] = IF isLocal THEN @ \cup {m} ELSE @]
    BY <1>1 DEF Allocate
  <2>2. allocas' \in [Spaces -> SUBSET MemoryObjects]
    BY <2>1 DEF TypeOK
  <2>3. UNCHANGED <<live, cowKey, symbolics, pending>>
    BY <1>1 DEF Allocate
  <2> QED
    BY <1>0, <2>1, <2>2, <2>3, BindTypes DEF TypeOK
<1>2. CASE MakeSymbolic(s)
  <2>1. PICK m \in MemoryObjects, o \in ObjectStates, v \in Values :
          /\ Bind(s, m, o, v)
          /\ symbolics' = [symbolics EXCEPT ![s] = @ \cup {m}]
    BY <1>2 DEF MakeSymbolic
  <2>2. symbolics' \in [Spaces -> SUBSET MemoryObjects]
    BY <2>1 DEF TypeOK
  <2>3. UNCHANGED <<live, cowKey, allocas, pending>>
    BY <1>2 DEF MakeSymbolic
  <2> QED
    BY <1>0, <2>1, <2>2, <2>3, BindTypes DEF TypeOK
<1>3. CASE WriteKnown(s)
  <2>1. PICK m \in MemoryObjects, v \in Values :
          /\ objects[s][m] # None
          /\ WriteObject(s, m, objects[s][m], v)
    BY <1>3 DEF WriteKnown
  <2>2. objects[s][m] \in ObjectStates
    BY <1>0, <2>1 DEF TypeOK
  <2>3. UNCHANGED <<live, cowKey, symbolics, allocas, pending>>
    BY <1>3 DEF WriteKnown
  <2> QED
    BY <1>0, <2>1, <2>2, <2>3, WriteTypes DEF TypeOK
<1>4. CASE Return(s)
  <2>1. objects' \in [Spaces -> [MemoryObjects -> ObjectStates \cup {None}]]
    BY <1>4 DEF Return, TypeOK
  <2>2. Heap(owner, store) /\ UNCHANGED <<live, cowKey, symbolics, pending>>
    BY <1>4 DEF Return
  <2>3. allocas' \in [Spaces -> SUBSET MemoryObjects]
    BY <1>4 DEF Return, TypeOK
  <2> QED
    BY <2>1, <2>2, <2>3, HeapTypes DEF TypeOK
<1>5. CASE ForkState(s)
  <2>1. PICK n \in Spaces : Fork(s, n)
    BY <1>5 DEF ForkState
  <2> QED
    BY <1>0, <1>5, <2>1, ForkTypes DEF ForkState, TypeOK
<1>6. CASE Delete(s)
  <2>1. /\ objects' \in [Spaces -> [MemoryObjects -> ObjectStates \cup {None}]]
        /\ live' \subseteq Spaces /\ UNCHANGED pending
    BY <1>6 DEF Delete, TypeOK, NoObjects
  <2>2. cowKey' \in [Spaces -> Nat]
    BY <1>6 DEF Delete, TypeOK
  <2>3. symbolics' \in [Spaces -> SUBSET MemoryObjects] /\ allocas' \in [Spaces -> SUBSET MemoryObjects]
    BY <1>6 DEF Delete, TypeOK
  <2>4. Heap(owner, store)
    BY <1>6 DEF Delete
  <2> QED
    BY <2>1, <2>2, <2>3, <2>4, HeapTypes DEF TypeOK
<1>7. CASE StartResolution(s)
  <2>1. PICK op \in Operations, m1 \in MemoryObjects, m2 \in MemoryObjects :
          /\ objects[s][m1] # None /\ objects[s][m2] # None
          /\ pending' = [op |-> op, unbound |-> s, found |-> <<>>,
                         rl |-> IF m1 = m2 THEN <<[mo |-> m1, os |-> objects[s][m1]]>>
                                ELSE <<[mo |-> m1, os |-> objects[s][m1]],
                                       [mo |-> m2, os |-> objects[s][m2]]>>]
    BY <1>7 DEF StartResolution
  <2>2. /\ [mo |-> m1, os |-> objects[s][m1]] \in Resolution
        /\ [mo |-> m2, os |-> objects[s][m2]] \in Resolution
    BY <1>0, <2>1 DEF TypeOK, Resolution
  <2>3. pending'.rl \in Seq(Resolution)
    BY <2>1, <2>2
  <2>4. pending' \in Operation
    BY <1>0, <2>1, <2>3 DEF Operation
  <2>5. UNCHANGED <<live, cowKey, objects, owner, store, symbolics, allocas>>
    BY <1>7 DEF StartResolution
  <2> QED
    BY <2>4, <2>5 DEF TypeOK, Operation
<1> QED
  BY <1>1, <1>2, <1>3, <1>4, <1>5, <1>6, <1>7

(* The steps of resolveExact() and executeMemoryOperation(). *)
LEMMA ResolveTypes ==
  ASSUME TypeOK, ResolveBoth \/ ResolveInside \/ ResolveOutside \/ ResolveFails \/ Resolved
  PROVE  TypeOK'
PROOF
<1>0. pending \in Operation
  BY DEF TypeOK, Operation
<1>1. CASE ResolveBoth
  <2>1. PICK n \in Spaces :
          /\ Fork(pending.unbound, n)
          /\ pending' = [pending EXCEPT !.unbound = n, !.rl = Tail(@),
                                        !.found = Append(@, FoundFor(pending.unbound))]
    BY <1>1 DEF ResolveBoth
  <2>2. pending.unbound \in Spaces /\ pending.rl # <<>>
    BY <1>0, <1>1 DEF ResolveBoth, Forking, Operation
  <2>3. pending' \in Operation
    BY <1>0, <2>1, <2>2, ListTypes DEF Operation
  <2> QED
    BY <2>1, <2>2, <2>3, ForkTypes DEF TypeOK, Operation
<1>2. CASE ResolveInside
  <2>1. pending.unbound \in Spaces /\ pending.rl # <<>>
    BY <1>0, <1>2 DEF ResolveInside, Forking, Operation
  <2>2. pending' \in Operation
    BY <1>0, <1>2, <2>1, ListTypes DEF ResolveInside, Operation
  <2> QED
    BY <1>2, <2>2 DEF ResolveInside, TypeOK, Operation
<1>3. CASE ResolveOutside
  <2>1. pending.unbound \in Spaces /\ pending.rl # <<>>
    BY <1>0, <1>3 DEF ResolveOutside, Forking, Operation
  <2>2. pending' \in Operation
    BY <1>0, <1>3, <2>1, ListTypes DEF ResolveOutside, Operation
  <2> QED
    BY <1>3, <2>2 DEF ResolveOutside, TypeOK, Operation
<1>4. CASE ResolveFails
  <2>1. <<>> \in Seq(Resolution)
    OBVIOUS
  <2>2. pending' \in Operation
    BY <1>0, <1>4, <2>1 DEF ResolveFails, Operation
  <2> QED
    BY <1>4, <2>2 DEF ResolveFails, TypeOK, Operation
<1>5. CASE Resolved
  <2>1. pending' \in Operation
    BY <1>5, IdleTypes DEF Resolved
  <2> QED
    BY <1>5, <2>1 DEF Resolved, TypeOK, Operation
<1> QED
  BY <1>1, <1>2, <1>3, <1>4, <1>5

(* What is done with the objects that were found. *)
LEMMA ActTypes ==
  ASSUME TypeOK, Access \/ Free \/ ReallocForks \/ Realloc \/ ReallocFails
  PROVE  TypeOK'
PROOF
<1>0. pending \in Operation /\ pending.found # <<>>
  BY DEF TypeOK, Operation, Access, Free, ReallocForks, Realloc, ReallocFails, Acting
<1>1. CASE Access
  <2>1. /\ objects' \in [Spaces -> [MemoryObjects -> ObjectStates \cup {None}]]
        /\ owner' \in [ObjectStates -> Nat]
        /\ store' \in [ObjectStates -> Values \cup {None}]
    <3>1. CASE UNCHANGED <<objects, owner, store>>
      BY <3>1 DEF TypeOK
    <3>2. CASE \E v \in Values : WriteObject(Current.state, Current.mo, Current.os, v)
      BY <1>0, <3>2, WriteTypes, CurrentTypes
    <3> QED
      BY <1>1, <3>1, <3>2 DEF Access
  <2> QED
    BY <1>0, <1>1, <2>1, CurrentTypes DEF Access, TypeOK, Operation
<1>2. CASE Free
  <2>1. objects' \in [Spaces -> [MemoryObjects -> ObjectStates \cup {None}]]
    BY <1>2 DEF Free, TypeOK
  <2>2. Heap(owner, store)
    BY <1>2 DEF Free
  <2> QED
    BY <1>0, <1>2, <2>1, <2>2, HeapTypes, CurrentTypes DEF Free, TypeOK, Operation
<1>3. CASE ReallocForks
  <2>1. PICK n \in Spaces :
          /\ Fork(Current.state, n)
          /\ pending' = [pending EXCEPT !.found = SizesOf(Current.state, n) \o Tail(@)]
    BY <1>3 DEF ReallocForks
  <2>2. /\ [Current EXCEPT !.state = n] \in Found
        /\ [Current EXCEPT !.state = Current.state] \in Found
    BY <1>0, CurrentTypes DEF Found
  <2>3. SizesOf(Current.state, n) \in Seq(Found)
    BY <2>2 DEF SizesOf
  <2>4. SizesOf(Current.state, n) \o Tail(pending.found) \in Seq(Found)
    BY <1>0, <2>3, CurrentTypes
  <2>5. pending' \in Operation
    BY <1>0, <2>1, <2>4 DEF Operation
  <2> QED
    BY <1>0, <2>1, <2>5, ForkTypes, CurrentTypes DEF TypeOK, Operation
<1>4. CASE Realloc
  <2>1. PICK m \in MemoryObjects \ Allocated, o \in ObjectStates \ BoundIn(objects) :
          /\ objects' = [objects EXCEPT ![Current.state] = [@ EXCEPT ![m] = o, ![Current.mo] = None]]
          /\ Heap([owner EXCEPT ![o] = cowKey[Current.state]], [store EXCEPT ![o] = store[Current.os]])
    BY <1>4 DEF Realloc
  <2>2. objects' \in [Spaces -> [MemoryObjects -> ObjectStates \cup {None}]]
    BY <2>1 DEF TypeOK
  <2>3. /\ [owner EXCEPT ![o] = cowKey[Current.state]] \in [ObjectStates -> Nat]
        /\ [store EXCEPT ![o] = store[Current.os]] \in [ObjectStates -> Values \cup {None}]
    BY <1>0, CurrentTypes DEF TypeOK
  <2>4. UNCHANGED <<live, cowKey, symbolics, allocas>> /\ pending' \in Operation
    BY <1>0, <1>4, CurrentTypes DEF Realloc
  <2> QED
    BY <2>1, <2>2, <2>3, <2>4, HeapTypes DEF TypeOK, Operation
<1>5. CASE ReallocFails
  BY <1>0, <1>5, CurrentTypes DEF ReallocFails, TypeOK, Operation
<1> QED
  BY <1>1, <1>2, <1>3, <1>4, <1>5

LEMMA NextTypes ==
  ASSUME TypeOK, [Next]_vars
  PROVE  TypeOK'
PROOF
<1>1. CASE UNCHANGED vars
  BY <1>1 DEF vars, TypeOK
<1> QED
  BY <1>1, StepTypes, ResolveTypes, ActTypes DEF Next

(*-------------------------------------------------------------------------*)
(* Ownership.                                                              *)

OwnershipOK == OwnersBeforeKey /\ OwnedPrivately

(* Every operation but a fork leaves a binding as it is, takes it away, or *)
(* puts one new ObjectState in, which the space becomes the owner of.      *)
KeepsOrBinds ==
  /\ live' \subseteq live
  /\ \A t \in live' : cowKey'[t] = cowKey[t]
  /\ \A t \in Spaces, k \in MemoryObjects :
       objects'[t][k] # None =>
         \/ objects'[t][k] = objects[t][k] /\ owner'[objects[t][k]] = owner[objects[t][k]]
         \/ /\ objects'[t][k] \notin BoundIn(objects) /\ owner'[objects'[t][k]] = cowKey[t]
            /\ \A u \in Spaces, l \in MemoryObjects :
                 objects'[u][l] = objects'[t][k] => u = t /\ l = k

LEMMA InitOwnership ==
  ASSUME Init
  PROVE  OwnershipOK
PROOF BY DEF Init, OwnershipOK, OwnersBeforeKey, OwnedPrivately, NoObjects

LEMMA KeepsOrBindsKeepsOwnership ==
  ASSUME TypeOK, TypeOK', OwnershipOK, KeepsOrBinds
  PROVE  OwnershipOK'
PROOF
<1> USE NoneAssumption
<1>1. \A t \in Spaces, k \in MemoryObjects :
        objects'[t][k] # None =>
          \/ objects'[t][k] = objects[t][k] /\ owner'[objects[t][k]] = owner[objects[t][k]]
          \/ /\ objects'[t][k] \notin BoundIn(objects) /\ owner'[objects'[t][k]] = cowKey[t]
             /\ \A u \in Spaces, l \in MemoryObjects :
                  objects'[u][l] = objects'[t][k] => u = t /\ l = k
  BY DEF KeepsOrBinds
<1>2. /\ live' \subseteq live /\ live \subseteq Spaces
      /\ \A t \in live' : cowKey'[t] = cowKey[t] /\ cowKey[t] \in Nat
  BY DEF KeepsOrBinds, TypeOK
<1>3. OwnersBeforeKey'
  BY <1>1, <1>2 DEF OwnershipOK, OwnersBeforeKey
<1>4. \A t \in Spaces, k \in MemoryObjects : objects[t][k] # None => objects[t][k] \in BoundIn(objects)
  BY DEF BoundIn, TypeOK
<1>5. OwnedPrivately'
  <2> SUFFICES ASSUME NEW t \in live', NEW u \in live', NEW k \in MemoryObjects, NEW l \in MemoryObjects,
                      objects'[t][k] # None, objects'[t][k] = objects'[u][l],
                      cowKey'[t] = owner'[objects'[t][k]]
               PROVE  t = u /\ k = l
    BY DEF OwnedPrivately, Owns
  <2>0. t \in Spaces /\ u \in Spaces /\ t \in live /\ u \in live
    BY <1>2
  <2>1. CASE objects'[t][k] \in BoundIn(objects)
    <3>1. /\ objects'[t][k] = objects[t][k] /\ owner'[objects[t][k]] = owner[objects[t][k]]
          /\ objects'[u][l] = objects[u][l]
      BY <1>1, <2>0, <2>1
    <3>2. objects[t][k] # None /\ objects[t][k] = objects[u][l] /\ Owns(t, objects[t][k])
      BY <1>2, <2>0, <3>1 DEF Owns
    <3> QED
      BY <2>0, <3>2 DEF OwnershipOK, OwnedPrivately
  <2>2. CASE objects'[t][k] \notin BoundIn(objects)
    BY <1>1, <1>4, <2>0, <2>2
  <2> QED
    BY <2>1, <2>2
<1> QED
  BY <1>3, <1>5 DEF OwnershipOK

(* Nothing is owned right after a fork. *)
LEMMA ForkKeepsOwnership ==
  ASSUME TypeOK, OwnershipOK, NEW s \in Spaces, NEW n \in Spaces, Fork(s, n)
  PROVE  OwnershipOK'
PROOF
<1> USE NoneAssumption
<1>1. /\ s \in live /\ n \notin live /\ s # n /\ live' = live \cup {n} /\ owner' = owner
      /\ live \subseteq Spaces
  BY DEF Fork, TypeOK
<1>2. objects' = [objects EXCEPT ![n] = objects[s]] /\ objects \in [Spaces -> [MemoryObjects -> ObjectStates \cup {None}]]
  BY DEF Fork, TypeOK
<1>3. objects'[n] = objects[s] /\ \A t \in live : objects'[t] = objects[t]
  BY <1>1, <1>2
<1>4. /\ cowKey'[n] = cowKey[s] + 1 /\ cowKey'[s] = cowKey[s] + 1
      /\ \A t \in live : t # s => cowKey'[t] = cowKey[t]
  BY <1>1 DEF Fork, ForkKeys, TypeOK
<1>5. /\ \A t \in live : cowKey[t] \in Nat
      /\ \A t \in live, k \in MemoryObjects : objects[t][k] # None => owner[objects[t][k]] \in Nat
  BY <1>1 DEF TypeOK
<1>6. OwnersBeforeKey'
  BY <1>1, <1>3, <1>4, <1>5 DEF OwnershipOK, OwnersBeforeKey
<1>7. OwnedPrivately'
  <2> SUFFICES ASSUME NEW t \in live', NEW u \in live', NEW k \in MemoryObjects, NEW l \in MemoryObjects,
                      objects'[t][k] # None, objects'[t][k] = objects'[u][l],
                      cowKey'[t] = owner[objects'[t][k]]
               PROVE  t = u /\ k = l
    BY <1>1 DEF OwnedPrivately, Owns
  <2>1. t # s /\ t # n
    BY <1>1, <1>3, <1>4, <1>5 DEF OwnershipOK, OwnersBeforeKey
  <2>2. t \in live /\ objects'[t] = objects[t] /\ cowKey[t] = owner[objects[t][k]]
    BY <1>1, <1>3, <1>4, <2>1
  <2>3. CASE u = n
    BY <1>1, <1>3, <2>1, <2>2, <2>3 DEF OwnershipOK, OwnedPrivately, Owns
  <2>4. CASE u # n
    BY <1>1, <1>3, <2>2, <2>4 DEF OwnershipOK, OwnedPrivately, Owns
  <2> QED
    BY <2>3, <2>4
<1> QED
  BY <1>6, <1>7 DEF OwnershipOK

(* Bindings that are only taken away. *)
LEMMA UnbindKeepsOrBinds ==
  ASSUME TypeOK, TypeOK',
         live' \subseteq live, \A t \in live' : cowKey'[t] = cowKey[t],
         \A t \in Spaces, k \in MemoryObjects :
           objects'[t][k] # None => objects'[t][k] = objects[t][k],
         Heap(owner, store)
  PROVE  KeepsOrBinds
PROOF
<1>1. \A t \in Spaces, k \in MemoryObjects :
        objects'[t][k] # None => objects'[t][k] \in ObjectStates /\ objects'[t][k] \in BoundIn(objects')
  BY DEF TypeOK, BoundIn
<1>2. \A t \in Spaces, k \in MemoryObjects :
        objects'[t][k] # None => owner'[objects'[t][k]] = owner[objects'[t][k]]
  BY <1>1 DEF Heap
<1> QED
  BY <1>2 DEF KeepsOrBinds

(* A new binding takes the place of what its object was bound to. *)
LEMMA BindKeepsOrBinds ==
  ASSUME TypeOK, TypeOK', NEW s \in Spaces, NEW m \in MemoryObjects,
         NEW o \in ObjectStates, NEW sto,
         UNCHANGED <<live, cowKey>>, o \notin BoundIn(objects), objects'[s][m] = o,
         \A t \in Spaces, k \in MemoryObjects :
           objects'[t][k] # None => objects'[t][k] = objects[t][k] \/ (t = s /\ k = m),
         Heap([owner EXCEPT ![o] = cowKey[s]], sto)
  PROVE  KeepsOrBinds
PROOF
<1> DEFINE own == [owner EXCEPT ![o] = cowKey[s]]
<1>1. \A t \in Spaces, k \in MemoryObjects :
        /\ objects'[t][k] # None => objects'[t][k] \in ObjectStates /\ objects'[t][k] \in BoundIn(objects')
        /\ objects[t][k] # None => objects[t][k] \in ObjectStates /\ objects[t][k] # o
  BY DEF TypeOK, BoundIn
<1>2. \A p \in BoundIn(objects') : p \in ObjectStates /\ owner'[p] = own[p]
  BY DEF Heap, BoundIn
<1>3. own[o] = cowKey[s] /\ \A p \in ObjectStates : p # o => own[p] = owner[p]
  BY DEF TypeOK
<1>4. \A t \in live' : cowKey'[t] = cowKey[t]
  OBVIOUS
<1> HIDE DEF own
<1>5. ASSUME NEW t \in Spaces, NEW k \in MemoryObjects, objects'[t][k] # None
      PROVE  \/ objects'[t][k] = objects[t][k] /\ owner'[objects[t][k]] = owner[objects[t][k]]
             \/ /\ objects'[t][k] \notin BoundIn(objects) /\ owner'[objects'[t][k]] = cowKey[t]
                /\ \A u \in Spaces, l \in MemoryObjects :
                     objects'[u][l] = objects'[t][k] => u = t /\ l = k
  <2>1. CASE t = s /\ k = m
    <3>1. \A u \in Spaces, l \in MemoryObjects : objects'[u][l] = o => u = s /\ l = m
      BY <1>1, <1>5, <2>1
    <3> QED
      BY <1>1, <1>2, <1>3, <1>5, <2>1, <3>1
  <2>2. CASE ~(t = s /\ k = m)
    BY <1>1, <1>2, <1>3, <1>5, <2>2
  <2> QED
    BY <2>1, <2>2
<1> QED
  BY <1>4, <1>5 DEF KeepsOrBinds

LEMMA WriteKeepsOrBinds ==
  ASSUME TypeOK, TypeOK', NEW s \in Spaces, NEW m \in MemoryObjects, NEW o, NEW v,
         UNCHANGED <<live, cowKey>>, WriteObject(s, m, o, v) \/ (\E n \in ObjectStates : Bind(s, m, n, v))
  PROVE  KeepsOrBinds
PROOF
<1>1. CASE \E n \in ObjectStates : Bind(s, m, n, v)
  <2>1. PICK n \in ObjectStates : Bind(s, m, n, v)
    BY <1>1
  <2>2. /\ objects' = [objects EXCEPT ![s] = [@ EXCEPT ![m] = n]]
        /\ n \notin BoundIn(objects)
        /\ Heap([owner EXCEPT ![n] = cowKey[s]], [store EXCEPT ![n] = v])
    BY <2>1 DEF Bind
  <2>3. /\ objects'[s][m] = n
        /\ \A t \in Spaces, k \in MemoryObjects : objects'[t][k] = objects[t][k] \/ (t = s /\ k = m)
    <3>1. objects'[s] = [objects[s] EXCEPT ![m] = n] /\ \A t \in Spaces : t # s => objects'[t] = objects[t]
      BY <2>2 DEF TypeOK
    <3>2. objects[s] \in [MemoryObjects -> ObjectStates \cup {None}]
      BY DEF TypeOK
    <3>3. \A k \in MemoryObjects : objects'[s][k] = IF k = m THEN n ELSE objects[s][k]
      BY <3>1, <3>2
    <3> QED
      BY <3>1, <3>3
  <2> QED
    BY <2>2, <2>3, BindKeepsOrBinds
<1>2. CASE UNCHANGED <<objects, owner>>
  BY <1>2 DEF KeepsOrBinds
<1> QED
  BY <1>1, <1>2 DEF WriteObject

LEMMA NextKeepsOwnership ==
  ASSUME TypeOK, TypeOK', OwnershipOK, [Next]_vars
  PROVE  OwnershipOK'
PROOF
<1>0. pending \in Operation /\ live \subseteq Spaces
  BY DEF TypeOK, Operation
<1>1. ASSUME NEW s \in live, Allocate(s)
      PROVE  KeepsOrBinds
  <2>1. PICK m \in MemoryObjects, o \in ObjectStates, v \in Values : Bind(s, m, o, v)
    BY <1>1 DEF Allocate
  <2> QED
    BY <1>0, <1>1, <2>1, WriteKeepsOrBinds DEF Allocate
<1>2. ASSUME NEW s \in live, MakeSymbolic(s)
      PROVE  KeepsOrBinds
  <2>1. PICK m \in MemoryObjects, o \in ObjectStates, v \in Values : Bind(s, m, o, v)
    BY <1>2 DEF MakeSymbolic
  <2> QED
    BY <1>0, <1>2, <2>1, WriteKeepsOrBinds DEF MakeSymbolic
<1>3. ASSUME NEW s \in live, WriteKnown(s)
      PROVE  KeepsOrBinds
  BY <1>0, <1>3, WriteKeepsOrBinds DEF WriteKnown
<1>4. ASSUME NEW s \in live, Return(s)
      PROVE  KeepsOrBinds
  <2>1. \A t \in Spaces, k \in MemoryObjects : objects'[t][k] # None => objects'[t][k] = objects[t][k]
    BY <1>4 DEF Return, TypeOK
  <2>2. Heap(owner, store) /\ UNCHANGED <<live, cowKey>>
    BY <1>4 DEF Return
  <2> QED
    BY <1>0, <2>1, <2>2, UnbindKeepsOrBinds
<1>5. ASSUME NEW s \in live, Delete(s)
      PROVE  KeepsOrBinds
  <2>1. /\ \A t \in Spaces, k \in MemoryObjects : objects'[t][k] # None => objects'[t][k] = objects[t][k]
        /\ live' = live \ {s}
    BY <1>5 DEF Delete, TypeOK, NoObjects
  <2>2. Heap(owner, store) /\ \A t \in live' : cowKey'[t] = cowKey[t]
    BY <1>0, <1>5, <2>1 DEF Delete, TypeOK
  <2> QED
    BY <2>1, <2>2, UnbindKeepsOrBinds
<1>6. ASSUME Access
      PROVE  KeepsOrBinds
  <2>1. CASE UNCHANGED <<objects, owner, store>>
    BY <1>6, <2>1 DEF Access, KeepsOrBinds
  <2>2. CASE \E v \in Values : WriteObject(Current.state, Current.mo, Current.os, v)
    <3>1. Current.state \in Spaces /\ Current.mo \in MemoryObjects /\ UNCHANGED <<live, cowKey>>
      BY <1>6, CurrentTypes DEF Access, Acting
    <3> QED
      BY <2>2, <3>1, WriteKeepsOrBinds
  <2> QED
    BY <1>6, <2>1, <2>2 DEF Access
<1>7. ASSUME Free
      PROVE  KeepsOrBinds
  <2>1. \A t \in Spaces, k \in MemoryObjects : objects'[t][k] # None => objects'[t][k] = objects[t][k]
    BY <1>7 DEF Free, TypeOK
  <2> QED
    <3>1. Heap(owner, store) /\ live' = live /\ cowKey' = cowKey
      BY <1>7 DEF Free
    <3> QED
      BY <2>1, <3>1, UnbindKeepsOrBinds
<1>8. ASSUME Realloc
      PROVE  KeepsOrBinds
  <2>0. /\ Current.state \in Spaces /\ Current.mo \in MemoryObjects
        /\ UNCHANGED <<live, cowKey>>
    BY <1>8, CurrentTypes DEF Realloc, Acting
  <2>1. PICK m \in MemoryObjects \ Allocated, o \in ObjectStates \ BoundIn(objects) :
          /\ objects' = [objects EXCEPT ![Current.state] = [@ EXCEPT ![m] = o, ![Current.mo] = None]]
          /\ Heap([owner EXCEPT ![o] = cowKey[Current.state]], [store EXCEPT ![o] = store[Current.os]])
    BY <1>8 DEF Realloc
  <2>2. \A t \in Spaces, k \in MemoryObjects :
          objects'[t][k] # None => objects'[t][k] = objects[t][k] \/ (t = Current.state /\ k = m)
    <3>1. /\ objects'[Current.state] = [objects[Current.state] EXCEPT ![m] = o, ![Current.mo] = None]
          /\ \A t \in Spaces : t # Current.state => objects'[t] = objects[t]
      BY <2>0, <2>1 DEF TypeOK
    <3>2. objects[Current.state] \in [MemoryObjects -> ObjectStates \cup {None}]
      BY <2>0 DEF TypeOK
    <3>3. \A k \in MemoryObjects : objects'[Current.state][k] =
            IF k = Current.mo THEN None ELSE IF k = m THEN o ELSE objects[Current.state][k]
      BY <2>0, <3>1, <3>2
    <3> QED
      BY <3>1, <3>3
  <2>3. CASE objects'[Current.state][m] = o
    <3> DEFINE sto == [store EXCEPT ![o] = store[Current.os]]
    <3>1. Heap([owner EXCEPT ![o] = cowKey[Current.state]], sto)
      BY <2>1
    <3> HIDE DEF sto
    <3> QED
      BY <2>0, <2>1, <2>2, <2>3, <3>1, BindKeepsOrBinds
  <2>4. CASE objects'[Current.state][m] # o
    <3>1. objects'[Current.state][m] = None
      BY <2>0, <2>1, <2>4 DEF TypeOK
    <3>2. \A t \in Spaces, k \in MemoryObjects : objects'[t][k] # None =>
            /\ objects'[t][k] = objects[t][k]
            /\ objects[t][k] \in BoundIn(objects') /\ objects[t][k] \in BoundIn(objects)
            /\ objects[t][k] \in ObjectStates
      BY <2>2, <3>1 DEF TypeOK, BoundIn
    <3>3. \A p \in BoundIn(objects') : owner'[p] = [owner EXCEPT ![o] = cowKey[Current.state]][p]
      BY <2>1 DEF Heap, BoundIn
    <3>4. \A p \in BoundIn(objects) : [owner EXCEPT ![o] = cowKey[Current.state]][p] = owner[p]
      BY <2>1 DEF TypeOK, BoundIn
    <3>5. \A t \in Spaces, k \in MemoryObjects : objects'[t][k] # None =>
            objects'[t][k] = objects[t][k] /\ owner'[objects[t][k]] = owner[objects[t][k]]
      BY <3>2, <3>3, <3>4
    <3>6. live' \subseteq live /\ \A t \in live' : cowKey'[t] = cowKey[t]
      BY <2>0
    <3> QED
      BY <3>5, <3>6 DEF KeepsOrBinds
  <2> QED
    BY <2>3, <2>4
<1>9. ASSUME UNCHANGED <<live, cowKey, objects, owner, store>>
      PROVE  KeepsOrBinds
  <2>1. live' \subseteq live /\ \A t \in live' : cowKey'[t] = cowKey[t]
    BY <1>9
  <2>2. \A t \in Spaces, k \in MemoryObjects :
          objects'[t][k] = objects[t][k] /\ owner'[objects[t][k]] = owner[objects[t][k]]
    BY <1>9
  <2> QED
    BY <2>1, <2>2 DEF KeepsOrBinds
<1>10. ASSUME NEW s, NEW n \in Spaces, Fork(s, n)
       PROVE  OwnershipOK'
  BY <1>0, <1>10, ForkKeepsOwnership DEF Fork
<1>11. CASE ResolveBoth \/ ReallocForks \/ \E s \in live : ForkState(s)
  BY <1>10, <1>11 DEF ResolveBoth, ReallocForks, ForkState
<1>12. CASE \/ ResolveInside \/ ResolveOutside \/ ResolveFails \/ ReallocFails \/ Resolved
            \/ UNCHANGED vars \/ \E s \in live : StartResolution(s)
  BY <1>12, <1>9, KeepsOrBindsKeepsOwnership DEF ResolveInside, ResolveOutside, ResolveFails,
     ReallocFails, Resolved, vars, StartResolution
<1> QED
  BY <1>1, <1>2, <1>3, <1>4, <1>5, <1>6, <1>7, <1>8, <1>11, <1>12, KeepsOrBindsKeepsOwnership DEF Next

(* The \invariant of AddressSpace.h. *)
THEOREM OwnersStayBeforeKey == Spec => []OwnersBeforeKey
PROOF
<1>1. Init => TypeOK /\ OwnershipOK
  BY InitTypes, InitOwnership
<1>2. TypeOK /\ OwnershipOK /\ [Next]_vars => (TypeOK /\ OwnershipOK)'
  BY NextTypes, NextKeepsOwnership
<1>3. TypeOK /\ OwnershipOK => OwnersBeforeKey
  BY DEF OwnershipOK
<1> QED
  BY <1>1, <1>2, <1>3, PTL DEF Spec

(* What a space may write in place is bound nowhere else. *)
THEOREM OwnedObjectsArePrivate == Spec => []OwnedPrivately
PROOF
<1>1. Init => TypeOK /\ OwnershipOK
  BY InitTypes, InitOwnership
<1>2. TypeOK /\ OwnershipOK /\ [Next]_vars => (TypeOK /\ OwnershipOK)'
  BY NextTypes, NextKeepsOwnership
<1>3. TypeOK /\ OwnershipOK => OwnedPrivately
  BY DEF OwnershipOK
<1> QED
  BY <1>1, <1>2, <1>3, PTL DEF Spec

(*-------------------------------------------------------------------------*)
(* What resolve() found.                                                   *)

(* The states of an operation differ, and exist. *)
StatesDiffer ==
  /\ \A i, j \in 1..Len(pending.found) :
       i # j => pending.found[i].state # pending.found[j].state
  /\ pending.unbound # None =>
       /\ pending.unbound \in live
       /\ \A i \in 1..Len(pending.found) : pending.found[i].state # pending.unbound

ResolutionOK == ResolvedIsCurrent /\ StatesDiffer

LEMMA IdleResolution ==
  ASSUME pending = Idle
  PROVE  ResolutionOK
PROOF BY DEF Idle, ResolutionOK, ResolvedIsCurrent, StatesDiffer, Forking

LEMMA TailFacts ==
  ASSUME TypeOK, pending.found # <<>>
  PROVE  /\ 1 \in 1..Len(pending.found) /\ Current = pending.found[1]
         /\ \A i \in 1..Len(Tail(pending.found)) :
              i + 1 \in 1..Len(pending.found) /\ Tail(pending.found)[i] = pending.found[i + 1]
PROOF
<1>1. pending.found \in Seq(Found)
  BY DEF TypeOK
<1> QED
  BY <1>1 DEF Current

LEMMA RlFacts ==
  ASSUME TypeOK, pending.rl # <<>>
  PROVE  /\ 1 \in 1..Len(pending.rl) /\ Head(pending.rl) = pending.rl[1]
         /\ \A i \in 1..Len(Tail(pending.rl)) :
              i + 1 \in 1..Len(pending.rl) /\ Tail(pending.rl)[i] = pending.rl[i + 1]
PROOF
<1>1. pending.rl \in Seq(Resolution)
  BY DEF TypeOK
<1> QED
  BY <1>1

LEMMA AppendFacts ==
  ASSUME TypeOK, NEW f \in Found, NEW new, new = Append(pending.found, f)
  PROVE  \A i \in 1..Len(new) :
           \/ i \in 1..Len(pending.found) /\ new[i] = pending.found[i]
           \/ i = Len(pending.found) + 1 /\ new[i] = f
PROOF
<1>1. pending.found \in Seq(Found)
  BY DEF TypeOK
<1> QED
  BY <1>1

(* The first of the objects found has been dealt with. *)
LEMMA ActedResolution ==
  ASSUME TypeOK, ResolutionOK, pending.found # <<>>, live' = live, pending' = Acted,
         \A t \in Spaces : t # Current.state => objects'[t] = objects[t]
  PROVE  ResolutionOK'
PROOF
<1>0. pending \in Operation /\ live \subseteq Spaces
  BY DEF TypeOK, Operation
<1>1. /\ pending'.found = Tail(pending.found) /\ pending'.rl = pending.rl
      /\ pending'.unbound = pending.unbound
  BY <1>0 DEF Acted, Operation
<1>2. \A i \in 1..Len(pending.found) : pending.found[i].state \in live
  BY DEF ResolutionOK, ResolvedIsCurrent
<1>3. \A i \in 1..Len(pending'.found) :
        /\ i + 1 \in 1..Len(pending.found) /\ pending'.found[i] = pending.found[i + 1]
        /\ pending.found[i + 1].state # Current.state
  <2> SUFFICES ASSUME NEW i \in 1..Len(pending'.found)
               PROVE  /\ i + 1 \in 1..Len(pending.found) /\ pending'.found[i] = pending.found[i + 1]
                      /\ pending.found[i + 1].state # Current.state
    OBVIOUS
  <2>1. i + 1 \in 1..Len(pending.found) /\ pending'.found[i] = pending.found[i + 1] /\ i + 1 # 1
    BY <1>1, TailFacts
  <2>2. 1 \in 1..Len(pending.found) /\ Current = pending.found[1]
    BY TailFacts
  <2> QED
    BY <2>1, <2>2 DEF ResolutionOK, StatesDiffer
<1>4. \A i \in 1..Len(pending'.found) :
        LET f == pending'.found[i]
        IN  f.state \in live' /\ objects'[f.state][f.mo] = f.os
  <2> SUFFICES ASSUME NEW i \in 1..Len(pending'.found)
               PROVE  /\ pending'.found[i].state \in live'
                      /\ objects'[pending'.found[i].state][pending'.found[i].mo] = pending'.found[i].os
    OBVIOUS
  <2>1. PICK j \in 1..Len(pending.found) :
          pending'.found[i] = pending.found[j] /\ pending.found[j].state # Current.state
    BY <1>3
  <2>2. pending.found[j].state \in live /\ pending.found[j].state \in Spaces
    BY <1>0, <1>2
  <2>3. objects[pending.found[j].state][pending.found[j].mo] = pending.found[j].os
    BY DEF ResolutionOK, ResolvedIsCurrent
  <2> QED
    BY <2>1, <2>2, <2>3
<1>5. pending.unbound # None => pending.unbound \in Spaces /\ pending.unbound # Current.state
  BY <1>0, TailFacts DEF ResolutionOK, StatesDiffer
<1>6. Forking' => \A i \in 1..Len(pending'.rl) :
                    objects'[pending'.unbound][pending'.rl[i].mo] = pending'.rl[i].os
  BY <1>1, <1>5 DEF ResolutionOK, ResolvedIsCurrent, Forking
<1>7. StatesDiffer'
  <2>1. \A i, j \in 1..Len(pending'.found) : i # j => pending'.found[i].state # pending'.found[j].state
    <3> SUFFICES ASSUME NEW i \in 1..Len(pending'.found), NEW j \in 1..Len(pending'.found), i # j
                 PROVE  pending'.found[i].state # pending'.found[j].state
      OBVIOUS
    <3>1. i + 1 # j + 1 /\ i + 1 \in 1..Len(pending.found) /\ j + 1 \in 1..Len(pending.found)
      BY <1>3
    <3> QED
      BY <1>3, <3>1 DEF ResolutionOK, StatesDiffer
  <2>2. pending'.unbound # None =>
          /\ pending'.unbound \in live'
          /\ \A i \in 1..Len(pending'.found) : pending'.found[i].state # pending'.unbound
    <3>1. pending.unbound # None =>
            /\ pending.unbound \in live
            /\ \A i \in 1..Len(pending.found) : pending.found[i].state # pending.unbound
      BY DEF ResolutionOK, StatesDiffer
    <3> QED
      BY <1>1, <1>3, <3>1
  <2> QED
    BY <2>1, <2>2 DEF StatesDiffer
<1> QED
  BY <1>4, <1>6, <1>7 DEF ResolutionOK, ResolvedIsCurrent

(* The unbound state is split, or found to be inside. *)
LEMMA FoundResolution ==
  ASSUME TypeOK, TypeOK', ResolutionOK, Forking, live \subseteq live',
         \A t \in live : objects'[t] = objects[t],
         pending'.rl = Tail(pending.rl),
         pending'.found = Append(pending.found, FoundFor(pending.unbound)),
         \/ pending'.unbound = None
         \/ /\ pending'.unbound \in live' \ live
            /\ objects'[pending'.unbound] = objects[pending.unbound]
  PROVE  ResolutionOK'
PROOF
<1>1. /\ pending.unbound \in live /\ pending.unbound \in Spaces /\ pending.rl # <<>>
      /\ None \notin live'
  BY NoneAssumption DEF TypeOK, Forking, ResolutionOK, StatesDiffer
<1> DEFINE f == FoundFor(pending.unbound)
<1>2. f \in Found /\ f.state = pending.unbound /\ f.mo = pending.rl[1].mo /\ f.os = pending.rl[1].os
      /\ 1 \in 1..Len(pending.rl)
  BY <1>1, ListTypes, RlFacts DEF FoundFor
<1>3. objects[f.state][f.mo] = f.os
  BY <1>2 DEF ResolutionOK, ResolvedIsCurrent
<1> HIDE DEF f
<1>4. \A i \in 1..Len(pending'.found) :
        \/ i \in 1..Len(pending.found) /\ pending'.found[i] = pending.found[i]
        \/ i = Len(pending.found) + 1 /\ pending'.found[i] = f
  BY <1>2, AppendFacts DEF f
<1>5. \A i \in 1..Len(pending'.found) :
        pending'.found[i].state \in live
        /\ objects'[pending'.found[i].state][pending'.found[i].mo] = pending'.found[i].os
  BY <1>1, <1>2, <1>3, <1>4 DEF ResolutionOK, ResolvedIsCurrent
<1>6. Forking' => \A i \in 1..Len(pending'.rl) :
                    objects'[pending'.unbound][pending'.rl[i].mo] = pending'.rl[i].os
  <2> SUFFICES ASSUME pending'.unbound # None, NEW i \in 1..Len(pending'.rl)
               PROVE  objects'[pending'.unbound][pending'.rl[i].mo] = pending'.rl[i].os
    BY DEF Forking
  <2>1. i + 1 \in 1..Len(pending.rl) /\ pending'.rl[i] = pending.rl[i + 1]
    BY <1>1, RlFacts
  <2>2. objects[pending.unbound][pending.rl[i + 1].mo] = pending.rl[i + 1].os
    BY <2>1 DEF ResolutionOK, ResolvedIsCurrent
  <2> QED
    BY <2>1, <2>2
<1>7. \A i, j \in 1..Len(pending'.found) : i # j => pending'.found[i].state # pending'.found[j].state
  <2>1. \A i \in 1..Len(pending.found) : pending.found[i].state # f.state
    BY <1>1, <1>2, NoneAssumption DEF ResolutionOK, StatesDiffer, TypeOK
  <2> QED
    BY <1>4, <2>1 DEF ResolutionOK, StatesDiffer
<1> QED
  BY <1>5, <1>6, <1>7 DEF ResolutionOK, ResolvedIsCurrent, StatesDiffer

LEMMA NextKeepsResolution ==
  ASSUME TypeOK, TypeOK', ResolutionOK, [Next]_vars
  PROVE  ResolutionOK'
PROOF
<1> USE NoneAssumption
<1>0. pending \in Operation /\ live \subseteq Spaces
  BY DEF TypeOK, Operation
<1>1. ASSUME pending = Idle, UNCHANGED pending
      PROVE  ResolutionOK'
  <2>1. pending' = Idle
    BY <1>1
  <2> QED
    BY <2>1 DEF Idle, ResolutionOK, ResolvedIsCurrent, StatesDiffer, Forking
<1>2. ASSUME NEW s \in live, Allocate(s) \/ MakeSymbolic(s) \/ WriteKnown(s) \/ Return(s) \/ ForkState(s)
      PROVE  ResolutionOK'
  BY <1>1, <1>2 DEF Allocate, MakeSymbolic, WriteKnown, Return, ForkState
<1>3. ASSUME NEW s \in live, Delete(s)
      PROVE  ResolutionOK'
  <2>1. /\ s # pending.unbound /\ (\A i \in 1..Len(pending.found) : pending.found[i].state # s)
        /\ live' = live \ {s} /\ pending' = pending
    BY <1>3 DEF Delete
  <2>2. \A t \in Spaces : t # s => objects'[t] = objects[t]
    BY <1>3 DEF Delete, TypeOK
  <2>3. /\ \A i \in 1..Len(pending.found) :
             /\ pending.found[i].state \in live'
             /\ objects'[pending.found[i].state] = objects[pending.found[i].state]
        /\ pending.unbound # None => objects'[pending.unbound] = objects[pending.unbound]
                                     /\ pending.unbound \in live'
    BY <1>0, <2>1, <2>2 DEF ResolutionOK, ResolvedIsCurrent, StatesDiffer
  <2> QED
    BY <2>1, <2>3 DEF ResolutionOK, ResolvedIsCurrent, StatesDiffer, Forking
<1>4. ASSUME NEW s \in live, StartResolution(s)
      PROVE  ResolutionOK'
  <2>1. PICK op \in Operations, m1 \in MemoryObjects, m2 \in MemoryObjects :
          pending' = [op |-> op, unbound |-> s, found |-> <<>>,
                      rl |-> IF m1 = m2 THEN <<[mo |-> m1, os |-> objects[s][m1]]>>
                             ELSE <<[mo |-> m1, os |-> objects[s][m1]],
                                    [mo |-> m2, os |-> objects[s][m2]]>>]
    BY <1>4 DEF StartResolution
  <2>2. UNCHANGED <<live, objects>>
    BY <1>4 DEF StartResolution
  <2>3. \A i \in 1..Len(pending'.rl) : objects[s][pending'.rl[i].mo] = pending'.rl[i].os
    <3>1. CASE m1 = m2
      BY <2>1, <3>1
    <3>2. CASE m1 # m2
      BY <2>1, <3>2
    <3> QED
      BY <3>1, <3>2
  <2>4. Len(pending'.found) = 0 /\ pending'.unbound = s
    BY <2>1
  <2> QED
    BY <1>0, <2>2, <2>3, <2>4 DEF ResolutionOK, ResolvedIsCurrent, StatesDiffer, Forking
<1>5. CASE ResolveBoth
  <2>1. PICK n \in Spaces :
          /\ Fork(pending.unbound, n)
          /\ pending' = [pending EXCEPT !.unbound = n, !.rl = Tail(@),
                                        !.found = Append(@, FoundFor(pending.unbound))]
    BY <1>5 DEF ResolveBoth
  <2>2. /\ pending.unbound \in live /\ n \notin live /\ live' = live \cup {n}
        /\ objects' = [objects EXCEPT ![n] = objects[pending.unbound]]
    BY <2>1 DEF Fork
  <2>3. objects'[n] = objects[pending.unbound] /\ \A t \in live : objects'[t] = objects[t]
    BY <1>0, <2>2 DEF TypeOK
  <2>4. /\ pending'.unbound = n /\ pending'.rl = Tail(pending.rl)
        /\ pending'.found = Append(pending.found, FoundFor(pending.unbound))
    BY <1>0, <2>1 DEF Operation
  <2> QED
    BY <1>5, <2>2, <2>3, <2>4, FoundResolution DEF ResolveBoth
<1>6. CASE ResolveInside
  <2>1. /\ pending'.unbound = None /\ pending'.rl = Tail(pending.rl)
        /\ pending'.found = Append(pending.found, FoundFor(pending.unbound))
    BY <1>0, <1>6 DEF ResolveInside, Operation
  <2>2. Forking /\ UNCHANGED <<live, objects>>
    BY <1>6 DEF ResolveInside
  <2> QED
    BY <2>1, <2>2, FoundResolution
<1>7. CASE ResolveOutside
  <2>1. /\ pending'.unbound = pending.unbound /\ pending'.rl = Tail(pending.rl)
        /\ pending'.found = pending.found /\ UNCHANGED <<live, objects>>
        /\ Forking /\ pending.rl # <<>>
    BY <1>0, <1>7 DEF ResolveOutside, Operation, Forking
  <2>2. \A i \in 1..Len(pending'.rl) :
          objects'[pending'.unbound][pending'.rl[i].mo] = pending'.rl[i].os
    <3> SUFFICES ASSUME NEW i \in 1..Len(pending'.rl)
                 PROVE  objects'[pending'.unbound][pending'.rl[i].mo] = pending'.rl[i].os
      OBVIOUS
    <3>1. i + 1 \in 1..Len(pending.rl) /\ pending'.rl[i] = pending.rl[i + 1]
      BY <2>1, RlFacts
    <3> QED
      BY <2>1, <3>1 DEF ResolutionOK, ResolvedIsCurrent
  <2> QED
    BY <2>1, <2>2 DEF ResolutionOK, ResolvedIsCurrent, StatesDiffer
<1>8. CASE ResolveFails
  <2>1. pending'.unbound = None /\ pending'.found = pending.found /\ UNCHANGED <<live, objects>>
    BY <1>0, <1>8 DEF ResolveFails, Operation
  <2> QED
    BY <2>1 DEF ResolutionOK, ResolvedIsCurrent, StatesDiffer, Forking
<1>9. CASE Access
  <2>1. live' = live /\ pending' = Acted /\ pending.found # <<>>
    BY <1>9 DEF Access, Acting
  <2>2. \A t \in Spaces : t # Current.state => objects'[t] = objects[t]
    BY <1>9 DEF Access, WriteObject, Bind, TypeOK
  <2> QED
    BY <2>1, <2>2, ActedResolution
<1>10. CASE Free
  <2>1. live' = live /\ pending' = Acted /\ pending.found # <<>>
    BY <1>10 DEF Free, Acting
  <2>2. \A t \in Spaces : t # Current.state => objects'[t] = objects[t]
    BY <1>10 DEF Free, TypeOK
  <2> QED
    BY <2>1, <2>2, ActedResolution
<1>11. CASE Realloc
  <2>1. live' = live /\ pending' = Acted /\ pending.found # <<>>
    BY <1>11 DEF Realloc, Acting
  <2>2. \A t \in Spaces : t # Current.state => objects'[t] = objects[t]
    BY <1>11 DEF Realloc, TypeOK
  <2> QED
    BY <2>1, <2>2, ActedResolution
<1>12. CASE ReallocFails
  BY <1>12, ActedResolution DEF ReallocFails, Acting
<1>13. CASE ReallocForks
  <2>1. PICK n \in Spaces :
          /\ Fork(Current.state, n)
          /\ pending' = [pending EXCEPT !.found = SizesOf(Current.state, n) \o Tail(@)]
    BY <1>13 DEF ReallocForks
  <2>2. /\ Current.state \in live /\ n \notin live /\ live' = live \cup {n}
        /\ objects' = [objects EXCEPT ![n] = objects[Current.state]]
        /\ pending.found # <<>>
    BY <1>13, <2>1 DEF Fork, ReallocForks, Acting
  <2>3. objects'[n] = objects[Current.state] /\ \A t \in live : objects'[t] = objects[t]
    BY <1>0, <2>2 DEF TypeOK
  <2>4. /\ pending'.unbound = pending.unbound /\ pending'.rl = pending.rl
        /\ pending'.found = SizesOf(Current.state, n) \o Tail(pending.found)
    BY <1>0, <2>1 DEF Operation
  <2> DEFINE c1 == [Current EXCEPT !.state = n]
             c2 == [Current EXCEPT !.state = Current.state]
  <2>5. /\ c1.state = n /\ c1.mo = Current.mo /\ c1.os = Current.os
        /\ c2.state = Current.state /\ c2.mo = Current.mo /\ c2.os = Current.os
        /\ c1 \in Found /\ c2 \in Found
    BY <2>2, CurrentTypes DEF Found
  <2>6. pending'.found = <<c1, c2>> \o Tail(pending.found)
    BY <2>4 DEF SizesOf
  <2> HIDE DEF c1, c2
  <2>7. \A i \in 1..Len(pending'.found) :
          \/ i = 1 /\ pending'.found[i] = c1
          \/ i = 2 /\ pending'.found[i] = c2
          \/ i - 1 \in 2..Len(pending.found) /\ pending'.found[i] = pending.found[i - 1]
    <3>1. pending.found \in Seq(Found)
      BY <1>0 DEF Operation
    <3> QED
      BY <2>2, <2>5, <2>6, <3>1
  <2>8. 1 \in 1..Len(pending.found) /\ Current = pending.found[1]
    BY <2>2, TailFacts
  <2>9. \A i \in 1..Len(pending.found) : pending.found[i].state \in live
    BY DEF ResolutionOK, ResolvedIsCurrent
  <2>10. objects[Current.state][Current.mo] = Current.os
    BY <2>8 DEF ResolutionOK, ResolvedIsCurrent
  <2>11. \A i \in 1..Len(pending'.found) :
           pending'.found[i].state \in live'
           /\ objects'[pending'.found[i].state][pending'.found[i].mo] = pending'.found[i].os
    <3> SUFFICES ASSUME NEW i \in 1..Len(pending'.found)
                 PROVE  /\ pending'.found[i].state \in live'
                        /\ objects'[pending'.found[i].state][pending'.found[i].mo] = pending'.found[i].os
      OBVIOUS
    <3>1. CASE i - 1 \in 2..Len(pending.found) /\ pending'.found[i] = pending.found[i - 1]
      <4>1. i - 1 \in 1..Len(pending.found)
        BY <3>1
      <4> QED
        BY <2>2, <2>3, <2>9, <3>1, <4>1 DEF ResolutionOK, ResolvedIsCurrent
    <3>2. CASE pending'.found[i] = c1 \/ pending'.found[i] = c2
      BY <2>2, <2>3, <2>5, <2>10, <3>2
    <3> QED
      BY <2>7, <3>1, <3>2
  <2>12. \A i, j \in 1..Len(pending'.found) : i # j => pending'.found[i].state # pending'.found[j].state
    <3>1. \A i \in 2..Len(pending.found) :
            /\ pending.found[i].state # n /\ pending.found[i].state # Current.state
            /\ \A j \in 2..Len(pending.found) : i # j => pending.found[i].state # pending.found[j].state
      BY <2>2, <2>8, <2>9 DEF ResolutionOK, StatesDiffer
    <3>2. ASSUME NEW i \in 1..Len(pending'.found), NEW j \in 1..Len(pending'.found), i # j
          PROVE  pending'.found[i].state # pending'.found[j].state
      <4>1. n # Current.state
        BY <2>2
      <4>2. \A k \in 1..Len(pending'.found) :
              k - 1 \in 2..Len(pending.found) => pending'.found[k] = pending.found[k - 1]
        <5>1. \A k \in 1..Len(pending'.found) : k - 1 \in 2..Len(pending.found) => k # 1 /\ k # 2
          OBVIOUS
        <5> QED
          BY <2>7, <5>1
      <4>3. CASE i - 1 \in 2..Len(pending.found) /\ j - 1 \in 2..Len(pending.found)
        <5>1. i - 1 # j - 1
          BY <3>2
        <5> QED
          BY <3>1, <4>2, <4>3, <5>1
      <4>4. CASE ~(i - 1 \in 2..Len(pending.found)) /\ j - 1 \in 2..Len(pending.found)
        <5>1. pending'.found[i] = c1 \/ pending'.found[i] = c2
          BY <2>7, <4>4
        <5> QED
          BY <2>5, <3>1, <4>2, <4>4, <5>1
      <4>5. CASE i - 1 \in 2..Len(pending.found) /\ ~(j - 1 \in 2..Len(pending.found))
        BY <2>5, <2>7, <3>1, <4>5
      <4>6. CASE ~(i - 1 \in 2..Len(pending.found)) /\ ~(j - 1 \in 2..Len(pending.found))
        <5>1. (i = 1 /\ j = 2) \/ (i = 2 /\ j = 1)
          BY <2>7, <3>2, <4>6
        <5>2. 1 - 1 \notin 2..Len(pending.found) /\ 2 - 1 \notin 2..Len(pending.found)
          OBVIOUS
        <5> QED
          BY <2>5, <2>7, <4>1, <5>1, <5>2
      <4> QED
        BY <4>3, <4>4, <4>5, <4>6
    <3> QED
      BY <3>2
  <2>13. pending'.unbound # None =>
           /\ pending'.unbound \in live'
           /\ \A i \in 1..Len(pending'.found) : pending'.found[i].state # pending'.unbound
    <3>1. \A i \in 2..Len(pending.found) : i \in 1..Len(pending.found)
      OBVIOUS
    <3> QED
      BY <2>2, <2>4, <2>5, <2>7, <2>8, <3>1 DEF ResolutionOK, StatesDiffer
  <2>14. Forking' => \A i \in 1..Len(pending'.rl) :
                       objects'[pending'.unbound][pending'.rl[i].mo] = pending'.rl[i].os
    BY <2>3, <2>4 DEF ResolutionOK, ResolvedIsCurrent, StatesDiffer, Forking
  <2> QED
    BY <2>11, <2>12, <2>13, <2>14 DEF ResolutionOK, ResolvedIsCurrent, StatesDiffer
<1>14. CASE Resolved
  BY <1>14 DEF Resolved, Idle, ResolutionOK, ResolvedIsCurrent, StatesDiffer, Forking
<1>15. CASE UNCHANGED vars
  BY <1>15 DEF vars, ResolutionOK, ResolvedIsCurrent, StatesDiffer, Forking
<1> QED
  BY <1>2, <1>3, <1>4, <1>5, <1>6, <1>7, <1>8, <1>9, <1>10, <1>11, <1>12, <1>13, <1>14, <1>15 DEF Next

(* An ObjectState that resolve() found is still its object's binding when  *)
(* it is used.                                                             *)
THEOREM ResolvedStaysCurrent == Spec => []ResolvedIsCurrent
PROOF
<1>1. Init => TypeOK /\ ResolutionOK
  BY InitTypes, IdleResolution DEF Init
<1>2. TypeOK /\ ResolutionOK /\ [Next]_vars => (TypeOK /\ ResolutionOK)'
  BY NextTypes, NextKeepsResolution
<1>3. TypeOK /\ ResolutionOK => ResolvedIsCurrent
  BY DEF ResolutionOK
<1> QED
  BY <1>1, <1>2, <1>3, PTL DEF Spec

(*-------------------------------------------------------------------------*)
(* Every state has a memory of its own.                                    *)

(* A deleted state holds nothing, and what a state holds has contents. *)
MemoryOK ==
  /\ \A s \in Spaces \ live : objects[s] = NoObjects
  /\ \A s \in Spaces, m \in MemoryObjects :
       objects[s][m] # None => store[objects[s][m]] \in Values

RefinementOK == TypeOK /\ OwnershipOK /\ ResolutionOK /\ MemoryOK

PrivateStep == Private!Next \/ UNCHANGED <<live, Memory>>

At(s, m) == IF objects[s][m] = None THEN None ELSE store[objects[s][m]]

LEMMA MemoryIsAt == Memory = [s \in Spaces |-> [m \in MemoryObjects |-> At(s, m)]]
PROOF BY DEF Memory, At

LEMMA MemoryIsAtPrimed == Memory' = [s \in Spaces |-> [m \in MemoryObjects |-> At(s, m)']]
PROOF BY DEF Memory, At

(* What is bound after a step has the contents the step gives it. *)
LEMMA HeapKeeps ==
  ASSUME TypeOK', NEW own, NEW sto, Heap(own, sto),
         NEW t \in Spaces, NEW k \in MemoryObjects, objects'[t][k] # None
  PROVE  store'[objects'[t][k]] = sto[objects'[t][k]]
PROOF
<1>1. objects'[t][k] \in ObjectStates /\ objects'[t][k] \in BoundIn(objects')
  BY DEF TypeOK, BoundIn
<1> QED
  BY <1>1 DEF Heap

(* A new object o with contents v is bound at (s, m); what was bound at    *)
(* (s, d) may go.                                                          *)
LEMMA BindAt ==
  ASSUME TypeOK, TypeOK', NEW s \in Spaces, NEW m \in MemoryObjects, NEW d \in MemoryObjects,
         NEW o \in ObjectStates, NEW v \in Values, NEW own, o \notin BoundIn(objects),
         \A t \in Spaces, k \in MemoryObjects :
           objects'[t][k] = IF t = s /\ k = d /\ d # m THEN None
                            ELSE IF t = s /\ k = m THEN o ELSE objects[t][k],
         Heap(own, [store EXCEPT ![o] = v])
  PROVE  \A t \in Spaces, k \in MemoryObjects :
           At(t, k)' = IF t = s /\ k = d /\ d # m THEN None
                       ELSE IF t = s /\ k = m THEN v ELSE At(t, k)
PROOF
<1> SUFFICES ASSUME NEW t \in Spaces, NEW k \in MemoryObjects
             PROVE  At(t, k)' = IF t = s /\ k = d /\ d # m THEN None
                                ELSE IF t = s /\ k = m THEN v ELSE At(t, k)
  OBVIOUS
<1> DEFINE sto == [store EXCEPT ![o] = v]
<1>1. sto[o] = v /\ \A p \in ObjectStates : p # o => sto[p] = store[p]
  BY DEF TypeOK
<1>2. objects[t][k] # None => objects[t][k] \in ObjectStates /\ objects[t][k] # o
  BY DEF TypeOK, BoundIn
<1>3. Heap(own, sto)
  OBVIOUS
<1> HIDE DEF sto
<1>4. objects'[t][k] # None => store'[objects'[t][k]] = sto[objects'[t][k]]
  BY <1>3, HeapKeeps
<1>5. o # None
  BY NoneAssumption
<1>6. CASE t = s /\ k = d /\ d # m
  BY <1>6 DEF At
<1>7. CASE ~(t = s /\ k = d /\ d # m) /\ t = s /\ k = m
  BY <1>1, <1>4, <1>5, <1>7 DEF At
<1>8. CASE ~(t = s /\ k = d /\ d # m) /\ ~(t = s /\ k = m)
  BY <1>1, <1>2, <1>4, <1>8 DEF At
<1> QED
  BY <1>6, <1>7, <1>8

(* Bindings that are only taken away. *)
LEMMA UnbindAt ==
  ASSUME TypeOK', NEW own, Heap(own, store),
         NEW t \in Spaces, NEW k \in MemoryObjects,
         objects'[t][k] # None => objects'[t][k] = objects[t][k]
  PROVE  At(t, k)' = IF objects'[t][k] = None THEN None ELSE At(t, k)
PROOF
<1>1. objects'[t][k] # None => store'[objects'[t][k]] = store[objects'[t][k]]
  BY HeapKeeps
<1> QED
  BY <1>1 DEF At

(* What Bind() does to every binding. *)
LEMMA BindObjects ==
  ASSUME TypeOK, NEW s \in Spaces, NEW m \in MemoryObjects, NEW o \in ObjectStates, NEW v,
         Bind(s, m, o, v)
  PROVE  \A t \in Spaces, k \in MemoryObjects :
           objects'[t][k] = IF t = s /\ k = m THEN o ELSE objects[t][k]
PROOF
<1>1. objects' = [objects EXCEPT ![s] = [@ EXCEPT ![m] = o]]
  BY DEF Bind
<1>2. objects'[s] = [objects[s] EXCEPT ![m] = o] /\ \A t \in Spaces : t # s => objects'[t] = objects[t]
  BY <1>1 DEF TypeOK
<1>3. objects[s] \in [MemoryObjects -> ObjectStates \cup {None}]
  BY DEF TypeOK
<1>4. \A k \in MemoryObjects : objects'[s][k] = IF k = m THEN o ELSE objects[s][k]
  BY <1>2, <1>3
<1> QED
  BY <1>2, <1>4

LEMMA BindIsChange ==
  ASSUME TypeOK, TypeOK', NEW s \in live, NEW m \in MemoryObjects, NEW o \in ObjectStates,
         NEW v \in Values, Bind(s, m, o, v), live' = live
  PROVE  /\ Private!Change(s, m, v)
         /\ MemoryOK => MemoryOK'
PROOF
<1>0. s \in Spaces
  BY DEF TypeOK
<1>1. \A t \in Spaces, k \in MemoryObjects :
        objects'[t][k] = IF t = s /\ k = m THEN o ELSE objects[t][k]
  BY <1>0, BindObjects
<1>2. o \notin BoundIn(objects) /\ Heap([owner EXCEPT ![o] = cowKey[s]], [store EXCEPT ![o] = v])
  BY DEF Bind
<1>3. \A t \in Spaces, k \in MemoryObjects : At(t, k)' = IF t = s /\ k = m THEN v ELSE At(t, k)
  <2> DEFINE own == [owner EXCEPT ![o] = cowKey[s]]
  <2>1. Heap(own, [store EXCEPT ![o] = v])
    BY <1>2
  <2> HIDE DEF own
  <2>2. \A t \in Spaces, k \in MemoryObjects :
          objects'[t][k] = IF t = s /\ k = m /\ m # m THEN None
                           ELSE IF t = s /\ k = m THEN o ELSE objects[t][k]
    BY <1>1
  <2>3. \A t \in Spaces, k \in MemoryObjects :
          At(t, k)' = IF t = s /\ k = m /\ m # m THEN None
                      ELSE IF t = s /\ k = m THEN v ELSE At(t, k)
    BY <1>0, <1>2, <2>1, <2>2, BindAt
  <2> QED
    BY <2>3
<1>4. Memory' = [Memory EXCEPT ![s] = [@ EXCEPT ![m] = v]]
  BY <1>0, <1>3, MemoryIsAt, MemoryIsAtPrimed
<1>5. MemoryOK => MemoryOK'
  <2>1. \A t \in Spaces \ live' : objects'[t] = objects[t]
    BY <1>0 DEF Bind, TypeOK
  <2>2. MemoryOK => \A t \in Spaces, k \in MemoryObjects :
          objects'[t][k] # None => store'[objects'[t][k]] \in Values
    <3> SUFFICES ASSUME MemoryOK, NEW t \in Spaces, NEW k \in MemoryObjects, objects'[t][k] # None
                 PROVE  At(t, k)' \in Values
      BY DEF At
    <3>1. CASE t = s /\ k = m
      BY <1>3, <3>1
    <3>2. CASE ~(t = s /\ k = m)
      BY <1>1, <1>3, <3>2 DEF At, MemoryOK
    <3> QED
      BY <3>1, <3>2
  <2> QED
    BY <2>1, <2>2 DEF MemoryOK
<1> QED
  BY <1>4, <1>5 DEF Private!Change

LEMMA WriteIsChange ==
  ASSUME RefinementOK, TypeOK', NEW s \in live, NEW m \in MemoryObjects, NEW o \in ObjectStates,
         NEW v \in Values, objects[s][m] = o, WriteObject(s, m, o, v), live' = live, cowKey' = cowKey
  PROVE  PrivateStep /\ MemoryOK'
PROOF
<1>0. /\ s \in Spaces /\ live \subseteq Spaces /\ TypeOK /\ MemoryOK
      /\ objects \in [Spaces -> [MemoryObjects -> ObjectStates \cup {None}]]
  BY DEF TypeOK, RefinementOK
<1>1. CASE Owns(s, o)
  <2>1. /\ objects' = objects
        /\ store' = [store EXCEPT ![o] = v]
    BY <1>1 DEF WriteObject
  <2>2. \A p \in ObjectStates : store'[p] = IF p = o THEN v ELSE store[p]
    BY <1>0, <2>1 DEF TypeOK
  <2>3. ASSUME NEW t \in Spaces, NEW k \in MemoryObjects, objects[t][k] = o
        PROVE  t = s /\ k = m
    <3>1. o # None
      BY NoneAssumption
    <3>2. t \in live
      BY <1>0, <2>3, <3>1 DEF MemoryOK, NoObjects
    <3> QED
      BY <1>1, <2>3, <3>1, <3>2 DEF RefinementOK, OwnershipOK, OwnedPrivately
  <2>4. \A t \in Spaces, k \in MemoryObjects : At(t, k)' = IF t = s /\ k = m THEN v ELSE At(t, k)
    <3> SUFFICES ASSUME NEW t \in Spaces, NEW k \in MemoryObjects
                 PROVE  At(t, k)' = IF t = s /\ k = m THEN v ELSE At(t, k)
      OBVIOUS
    <3>1. objects[t][k] \in ObjectStates \cup {None} /\ None # o
      BY <1>0, NoneAssumption
    <3> QED
      BY <2>1, <2>2, <2>3, <3>1 DEF At
  <2>5. Memory' = [Memory EXCEPT ![s] = [@ EXCEPT ![m] = v]]
    BY <1>0, <2>4, MemoryIsAt, MemoryIsAtPrimed
  <2>6. Private!Change(s, m, v)
    BY <2>5 DEF Private!Change
  <2>7. MemoryOK'
    BY <1>0, <2>1, <2>2 DEF MemoryOK
  <2> QED
    BY <1>0, <2>6, <2>7 DEF PrivateStep, Private!Next
<1>2. CASE ~Owns(s, o)
  <2>1. PICK n \in ObjectStates : Bind(s, m, n, v)
    BY <1>2 DEF WriteObject
  <2>2. Private!Change(s, m, v) /\ MemoryOK'
    BY <1>0, <2>1, BindIsChange
  <2> QED
    BY <1>0, <2>2 DEF PrivateStep, Private!Next
<1> QED
  BY <1>1, <1>2

LEMMA ForkIsFork ==
  ASSUME TypeOK, MemoryOK, NEW s \in Spaces, NEW n \in Spaces, Fork(s, n)
  PROVE  PrivateStep /\ MemoryOK'
PROOF
<1>1. /\ s \in live /\ n \notin live /\ live' = live \cup {n} /\ UNCHANGED <<owner, store>>
      /\ objects' = [objects EXCEPT ![n] = objects[s]]
  BY DEF Fork
<1>2. \A t \in Spaces : objects'[t] = IF t = n THEN objects[s] ELSE objects[t]
  BY <1>1 DEF TypeOK
<1>3. \A t \in Spaces, k \in MemoryObjects : At(t, k)' = IF t = n THEN At(s, k) ELSE At(t, k)
  BY <1>1, <1>2 DEF At
<1>4. Memory' = [Memory EXCEPT ![n] = Memory[s]]
  BY <1>3, MemoryIsAt, MemoryIsAtPrimed
<1>5. Private!Fork(s, n)
  BY <1>1, <1>4 DEF Private!Fork
<1>6. MemoryOK'
  BY <1>1, <1>2 DEF MemoryOK
<1> QED
  BY <1>5, <1>6 DEF PrivateStep, Private!Next

(* Unbinding keeps what stays bound. *)
LEMMA UnbindMemory ==
  ASSUME MemoryOK, TypeOK', NEW own, Heap(own, store), live' \subseteq live,
         \A t \in Spaces, k \in MemoryObjects :
           objects'[t][k] # None => objects'[t][k] = objects[t][k],
         \A t \in Spaces \ live' : t \in live => objects'[t] = NoObjects
  PROVE  MemoryOK'
PROOF
<1>1. \A t \in Spaces \ live' : objects'[t] = NoObjects
  <2> SUFFICES ASSUME NEW t \in Spaces \ live'
               PROVE  objects'[t] = NoObjects
    OBVIOUS
  <2>1. CASE t \in live
    BY <2>1
  <2>2. CASE t \notin live
    <3>1. \A k \in MemoryObjects : objects'[t][k] = None
      BY <2>2 DEF MemoryOK, NoObjects
    <3>2. objects'[t] \in [MemoryObjects -> ObjectStates \cup {None}]
      BY DEF TypeOK
    <3> QED
      BY <3>1, <3>2 DEF NoObjects
  <2> QED
    BY <2>1, <2>2
<1>2. \A t \in Spaces, k \in MemoryObjects :
        objects'[t][k] # None => store'[objects'[t][k]] = store[objects[t][k]]
  BY HeapKeeps
<1> QED
  BY <1>1, <1>2 DEF MemoryOK

(* Unbinding one object, or those of a function that returns. *)
LEMMA UnbindIsUnbind ==
  ASSUME TypeOK, MemoryOK, TypeOK', NEW s \in live, NEW L \in SUBSET MemoryObjects,
         objects' = [objects EXCEPT ![s] = [m \in MemoryObjects |->
                       IF m \in L THEN None ELSE @[m]]],
         Heap(owner, store), live' = live
  PROVE  PrivateStep /\ MemoryOK'
PROOF
<1>0. s \in Spaces /\ live \subseteq Spaces
  BY DEF TypeOK
<1>1. \A t \in Spaces, k \in MemoryObjects :
        objects'[t][k] = IF t = s /\ k \in L THEN None ELSE objects[t][k]
  BY <1>0 DEF TypeOK
<1>2. \A t \in Spaces, k \in MemoryObjects :
        At(t, k)' = IF objects'[t][k] = None THEN None ELSE At(t, k)
  BY <1>1, UnbindAt
<1>3. \A t \in Spaces, k \in MemoryObjects :
        At(t, k)' = IF t = s /\ k \in L THEN None ELSE At(t, k)
  BY <1>1, <1>2 DEF At
<1>4. Memory' = [Memory EXCEPT ![s] = [m \in MemoryObjects |-> IF m \in L THEN None ELSE @[m]]]
  BY <1>0, <1>3, MemoryIsAt, MemoryIsAtPrimed
<1>5. Private!Unbind(s, L)
  BY <1>4 DEF Private!Unbind
<1>6. MemoryOK'
  <2>1. \A t \in Spaces, k \in MemoryObjects : objects'[t][k] # None => objects'[t][k] = objects[t][k]
    BY <1>1
  <2> QED
    BY <2>1, UnbindMemory
<1> QED
  BY <1>0, <1>5, <1>6 DEF PrivateStep, Private!Next

LEMMA DeleteIsDelete ==
  ASSUME TypeOK, MemoryOK, TypeOK', NEW s \in live, Delete(s)
  PROVE  PrivateStep /\ MemoryOK'
PROOF
<1>0. s \in Spaces /\ live \subseteq Spaces
  BY DEF TypeOK
<1>1. /\ live' = live \ {s} /\ Heap(owner, store)
      /\ objects' = [objects EXCEPT ![s] = NoObjects]
  BY DEF Delete
<1>2. /\ \A t \in Spaces, k \in MemoryObjects :
           objects'[t][k] = IF t = s THEN None ELSE objects[t][k]
      /\ objects'[s] = NoObjects
  BY <1>0, <1>1 DEF TypeOK, NoObjects
<1>3. \A t \in Spaces, k \in MemoryObjects :
        At(t, k)' = IF objects'[t][k] = None THEN None ELSE At(t, k)
  BY <1>1, <1>2, UnbindAt
<1>4. \A t \in Spaces, k \in MemoryObjects : At(t, k)' = IF t = s THEN None ELSE At(t, k)
  BY <1>2, <1>3 DEF At
<1>5. Memory' = [Memory EXCEPT ![s] = [m \in MemoryObjects |-> None]]
  BY <1>0, <1>4, MemoryIsAt, MemoryIsAtPrimed
<1>6. Private!Delete(s)
  BY <1>1, <1>5 DEF Private!Delete, Private!NoMemory
<1>7. MemoryOK'
  <2>1. \A t \in Spaces, k \in MemoryObjects : objects'[t][k] # None => objects'[t][k] = objects[t][k]
    BY <1>2
  <2>2. \A t \in Spaces \ live' : t \in live => objects'[t] = NoObjects
    BY <1>1, <1>2
  <2> QED
    BY <1>1, <2>1, <2>2, UnbindMemory
<1> QED
  BY <1>0, <1>6, <1>7 DEF PrivateStep, Private!Next

(* The pair an operation goes on with is bound in its state. *)
LEMMA CurrentIsBound ==
  ASSUME RefinementOK, pending.found # <<>>
  PROVE  /\ Current.state \in live /\ Current.mo \in MemoryObjects
         /\ Current.os \in ObjectStates
         /\ objects[Current.state][Current.mo] = Current.os
         /\ store[Current.os] \in Values
PROOF
<1>1. Current.state \in Spaces /\ Current.mo \in MemoryObjects /\ Current.os \in ObjectStates
  BY CurrentTypes DEF RefinementOK
<1>2. 1 \in 1..Len(pending.found) /\ Current = pending.found[1]
  BY TailFacts DEF RefinementOK
<1>3. Current.state \in live /\ objects[Current.state][Current.mo] = Current.os
  BY <1>2 DEF RefinementOK, ResolutionOK, ResolvedIsCurrent
<1> QED
  BY <1>1, <1>3, NoneAssumption DEF RefinementOK, MemoryOK

LEMMA ReallocIsMove ==
  ASSUME RefinementOK, TypeOK', Realloc
  PROVE  PrivateStep /\ MemoryOK'
PROOF
<1> DEFINE s == Current.state
           d == Current.mo
           v == store[Current.os]
<1>0. /\ s \in live /\ s \in Spaces /\ d \in MemoryObjects /\ v \in Values
      /\ objects[s][d] \in ObjectStates /\ TypeOK /\ MemoryOK
  BY CurrentIsBound DEF RefinementOK, Realloc, Acting, TypeOK
<1>1. live' = live
  BY DEF Realloc
<1>2. PICK m \in MemoryObjects \ Allocated, o \in ObjectStates \ BoundIn(objects) :
        /\ objects' = [objects EXCEPT ![s] = [@ EXCEPT ![m] = o, ![d] = None]]
        /\ Heap([owner EXCEPT ![o] = cowKey[s]], [store EXCEPT ![o] = v])
  BY DEF Realloc
<1> HIDE DEF s, d, v
<1>3. m # d
  BY <1>0, NoneAssumption DEF Allocated
<1>4. \A t \in Spaces, k \in MemoryObjects :
        objects'[t][k] = IF t = s /\ k = d /\ d # m THEN None
                         ELSE IF t = s /\ k = m THEN o ELSE objects[t][k]
  <2>1. /\ objects'[s] = [objects[s] EXCEPT ![m] = o, ![d] = None]
        /\ \A t \in Spaces : t # s => objects'[t] = objects[t]
    BY <1>0, <1>2 DEF TypeOK
  <2>2. objects[s] \in [MemoryObjects -> ObjectStates \cup {None}]
    BY <1>0 DEF TypeOK
  <2>3. \A k \in MemoryObjects :
          objects'[s][k] = IF k = d THEN None ELSE IF k = m THEN o ELSE objects[s][k]
    BY <1>0, <2>1, <2>2
  <2> QED
    BY <1>3, <2>1, <2>3
<1>5. \A t \in Spaces, k \in MemoryObjects :
        At(t, k)' = IF t = s /\ k = d /\ d # m THEN None
                    ELSE IF t = s /\ k = m THEN v ELSE At(t, k)
  <2> DEFINE own == [owner EXCEPT ![o] = cowKey[s]]
  <2>1. Heap(own, [store EXCEPT ![o] = v])
    BY <1>2
  <2> HIDE DEF own
  <2> QED
    BY <1>0, <1>2, <1>4, <2>1, BindAt
<1>6. Memory' = [Memory EXCEPT ![s] = [@ EXCEPT ![m] = v, ![d] = None]]
  BY <1>0, <1>3, <1>5, MemoryIsAt, MemoryIsAtPrimed
<1>7. Private!Move(s, d, m, v)
  BY <1>0, <1>1, <1>6 DEF Private!Move
<1>8. MemoryOK'
  <2>1. \A t \in Spaces \ live' : objects'[t] = objects[t]
    BY <1>0, <1>1, <1>2 DEF TypeOK
  <2>2. ASSUME NEW t \in Spaces, NEW k \in MemoryObjects, objects'[t][k] # None
        PROVE  store'[objects'[t][k]] \in Values
    <3>1. At(t, k)' = store'[objects'[t][k]]
      BY <2>2 DEF At
    <3>2. CASE t = s /\ k = m
      BY <1>0, <1>3, <1>5, <3>1, <3>2
    <3>3. CASE ~(t = s /\ k = m)
      BY <1>0, <1>4, <1>5, <2>2, <3>1, <3>3 DEF At, MemoryOK
    <3> QED
      BY <3>2, <3>3
  <2> QED
    BY <1>0, <1>1, <2>1, <2>2 DEF MemoryOK
<1> QED
  BY <1>0, <1>2, <1>7, <1>8 DEF PrivateStep, Private!Next

LEMMA QuietStep ==
  ASSUME MemoryOK, UNCHANGED <<live, objects, store>>
  PROVE  PrivateStep /\ MemoryOK'
PROOF
<1>1. Memory' = Memory
  BY DEF Memory
<1>2. MemoryOK'
  BY DEF MemoryOK
<1> QED
  BY <1>1, <1>2 DEF PrivateStep

LEMMA NextRefines ==
  ASSUME RefinementOK, TypeOK', [Next]_vars
  PROVE  PrivateStep /\ MemoryOK'
PROOF
<1>0. TypeOK /\ MemoryOK /\ live \subseteq Spaces
  BY DEF RefinementOK, TypeOK
<1>1. ASSUME NEW s \in live, NEW m \in MemoryObjects, NEW o \in ObjectStates, NEW v \in Values,
             Bind(s, m, o, v), live' = live
      PROVE  PrivateStep /\ MemoryOK'
  <2>1. Private!Change(s, m, v) /\ MemoryOK'
    BY <1>0, <1>1, BindIsChange
  <2> QED
    BY <1>0, <2>1 DEF PrivateStep, Private!Next
<1>2. ASSUME NEW s \in live, Allocate(s)
      PROVE  PrivateStep /\ MemoryOK'
  <2>1. PICK m \in MemoryObjects, o \in ObjectStates, v \in Values : Bind(s, m, o, v)
    BY <1>2 DEF Allocate
  <2>2. live' = live
    BY <1>2 DEF Allocate
  <2> QED
    BY <1>1, <2>1, <2>2
<1>3. ASSUME NEW s \in live, MakeSymbolic(s)
      PROVE  PrivateStep /\ MemoryOK'
  <2>1. PICK m \in MemoryObjects, o \in ObjectStates, v \in Values : Bind(s, m, o, v)
    BY <1>3 DEF MakeSymbolic
  <2>2. live' = live
    BY <1>3 DEF MakeSymbolic
  <2> QED
    BY <1>1, <2>1, <2>2
<1>4. ASSUME NEW s \in live, WriteKnown(s)
      PROVE  PrivateStep /\ MemoryOK'
  <2>1. PICK m \in MemoryObjects, v \in Values :
          objects[s][m] # None /\ WriteObject(s, m, objects[s][m], v)
    BY <1>4 DEF WriteKnown
  <2>2. objects[s][m] \in ObjectStates /\ live' = live /\ cowKey' = cowKey
    BY <1>0, <1>4, <2>1 DEF TypeOK, WriteKnown
  <2> QED
    BY <2>1, <2>2, WriteIsChange
<1>5. ASSUME NEW s \in live, Return(s)
      PROVE  PrivateStep /\ MemoryOK'
  <2>1. allocas[s] \in SUBSET MemoryObjects
    BY <1>0 DEF TypeOK
  <2>2. /\ objects' = [objects EXCEPT ![s] = [m \in MemoryObjects |->
                         IF m \in allocas[s] THEN None ELSE @[m]]]
        /\ Heap(owner, store) /\ live' = live
    BY <1>5 DEF Return
  <2> QED
    BY <1>0, <2>1, <2>2, UnbindIsUnbind
<1>6. ASSUME NEW s \in live, Delete(s)
      PROVE  PrivateStep /\ MemoryOK'
  BY <1>0, <1>6, DeleteIsDelete
<1>7. CASE ResolveBoth \/ ReallocForks \/ \E s \in live : ForkState(s)
  <2>1. \A s, n : Fork(s, n) => s \in live
    BY DEF Fork
  <2>2. \E s \in live, n \in Spaces : Fork(s, n)
    BY <1>7, <2>1 DEF ResolveBoth, ReallocForks, ForkState
  <2> QED
    BY <1>0, <2>2, ForkIsFork
<1>8. CASE Access
  <2>1. CASE UNCHANGED <<objects, owner, store>>
    BY <1>0, <1>8, <2>1, QuietStep DEF Access
  <2>2. CASE \E v \in Values : WriteObject(Current.state, Current.mo, Current.os, v)
    <3>1. PICK v \in Values : WriteObject(Current.state, Current.mo, Current.os, v)
      BY <2>2
    <3>2. live' = live /\ cowKey' = cowKey /\ pending.found # <<>>
      BY <1>8 DEF Access, Acting
    <3> QED
      BY <3>1, <3>2, CurrentIsBound, WriteIsChange
  <2> QED
    BY <1>8, <2>1, <2>2 DEF Access
<1>9. CASE Free
  <2>1. Heap(owner, store) /\ live' = live /\ pending.found # <<>>
    BY <1>9 DEF Free, Acting
  <2>2. Current.state \in live /\ Current.mo \in MemoryObjects
    BY <2>1, CurrentIsBound
  <2>3. PICK L \in {{}, {Current.mo}} :
          objects' = [objects EXCEPT ![Current.state] = [m \in MemoryObjects |->
                        IF m \in L THEN None ELSE @[m]]]
    <3> DEFINE s == Current.state
               d == Current.mo
    <3>0. s \in Spaces /\ objects \in [Spaces -> [MemoryObjects -> ObjectStates \cup {None}]]
      BY <1>0, <2>2 DEF TypeOK
    <3>1. CASE MayFree(Current.state, Current.mo)
      <4>1. objects' = [objects EXCEPT ![s] = [@ EXCEPT ![d] = None]]
        BY <1>9, <3>1 DEF Free
      <4> HIDE DEF s, d
      <4>2. objects[s] \in [MemoryObjects -> ObjectStates \cup {None}]
        BY <3>0
      <4>3. [objects[s] EXCEPT ![d] = None]
              = [m \in MemoryObjects |-> IF m \in {d} THEN None ELSE objects[s][m]]
        BY <4>2
      <4>4. objects' = [objects EXCEPT ![s] = [m \in MemoryObjects |->
                          IF m \in {d} THEN None ELSE @[m]]]
        BY <4>1, <4>3
      <4> QED
        BY <4>4 DEF s, d
    <3>2. CASE ~MayFree(Current.state, Current.mo)
      <4>1. objects' = objects
        BY <1>9, <3>2 DEF Free
      <4> HIDE DEF s, d
      <4>2. objects[s] = [m \in MemoryObjects |-> IF m \in {} THEN None ELSE objects[s][m]]
        BY <3>0
      <4>3. objects' = [objects EXCEPT ![s] = [m \in MemoryObjects |->
                          IF m \in {} THEN None ELSE @[m]]]
        BY <3>0, <4>1, <4>2
      <4> QED
        BY <4>3 DEF s, d
    <3> QED
      BY <3>1, <3>2
  <2>4. L \in SUBSET MemoryObjects
    BY <2>2
  <2> QED
    BY <1>0, <2>1, <2>2, <2>3, <2>4, UnbindIsUnbind
<1>10. CASE Realloc
  BY <1>10, ReallocIsMove
<1>11. CASE \/ ResolveInside \/ ResolveOutside \/ ResolveFails \/ ReallocFails \/ Resolved
            \/ UNCHANGED vars \/ \E s \in live : StartResolution(s)
  BY <1>0, <1>11, QuietStep DEF ResolveInside, ResolveOutside, ResolveFails,
     ReallocFails, Resolved, vars, StartResolution
<1> QED
  BY <1>2, <1>3, <1>4, <1>5, <1>6, <1>7, <1>8, <1>9, <1>10, <1>11 DEF Next

LEMMA InitRefines ==
  ASSUME Init
  PROVE  Private!Init /\ MemoryOK
PROOF
<1>1. Memory = [s \in Spaces |-> [m \in MemoryObjects |-> None]]
  BY DEF Init, Memory, NoObjects
<1>2. MemoryOK
  BY DEF Init, MemoryOK, NoObjects
<1> QED
  BY <1>1, <1>2 DEF Init, Private!Init, Private!NoMemory

(* Copy on write is invisible: the address spaces implement memories that  *)
(* nothing is shared between.                                              *)
THEOREM SharingIsInvisible == Spec => ImplementsPrivateMemory
PROOF
<1>1. Init => RefinementOK /\ Private!Init
  BY InitTypes, InitOwnership, IdleResolution, InitRefines DEF Init, RefinementOK
<1>2. RefinementOK /\ [Next]_vars => RefinementOK' /\ [Private!Next]_<<live, Memory>>
  <2> SUFFICES ASSUME RefinementOK, [Next]_vars
               PROVE  RefinementOK' /\ [Private!Next]_<<live, Memory>>
    OBVIOUS
  <2>1. TypeOK'
    BY NextTypes DEF RefinementOK
  <2>2. OwnershipOK' /\ ResolutionOK'
    BY <2>1, NextKeepsOwnership, NextKeepsResolution DEF RefinementOK
  <2>3. PrivateStep /\ MemoryOK'
    BY <2>1, NextRefines
  <2> QED
    BY <2>1, <2>2, <2>3 DEF RefinementOK, PrivateStep
<1> QED
  BY <1>1, <1>2, PTL DEF Spec, ImplementsPrivateMemory, Private!Spec
=============================================================================
