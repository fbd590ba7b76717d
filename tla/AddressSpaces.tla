--------------------------- MODULE AddressSpaces ---------------------------
(***************************************************************************)
(* The memories of the execution states (AddressSpace, lib/klee/Core/      *)
(* AddressSpace.cpp) and the executor's operations on them.  States share  *)
(* ObjectStates until one of them writes: a space may write to an object   *)
(* in place when its cowKey is the object's copyOnWriteOwner, and copies   *)
(* it first otherwise.                                                     *)
(*                                                                         *)
(* An object's contents are one value (ObjectState has the bytes).  An     *)
(* ObjectState is deleted with the last map that holds it, a MemoryObject  *)
(* with its last ObjectState and the last symbolics entry: what the        *)
(* reference counters count stands for the counters.                       *)
(***************************************************************************)
EXTENDS Integers, Sequences

CONSTANTS
  Spaces,         \* addresses of execution states
  MemoryObjects,  \* addresses of MemoryObjects
  ObjectStates,   \* addresses of ObjectStates
  Values,         \* contents of an object
  None,           \* no object, no state
  ReallocsLocals, \* may the program call realloc() with a local object
  MaxKey          \* bound: the largest cowKey

ASSUME NoneAssumption ==
  /\ None \notin Spaces /\ None \notin MemoryObjects
  /\ None \notin ObjectStates /\ None \notin Values
ASSUME LimitsAssumption == MaxKey \in Nat /\ ReallocsLocals \in BOOLEAN

VARIABLES
  live,      \* the execution states that exist
  cowKey,    \* AddressSpace::cowKey
  objects,   \* AddressSpace::objects
  owner,     \* ObjectState::copyOnWriteOwner
  store,     \* the contents of an ObjectState
  symbolics, \* ExecutionState::symbolics, as a set
  allocas,   \* StackFrame::allocas of the innermost function
  pending    \* the memory operation that is being resolved

vars == <<live, cowKey, objects, owner, store, symbolics, allocas, pending>>

(* No operation; or one on the objects of rl, with the state that none of  *)
(* them was found to be for so far, and the pairs found and not yet used.  *)
Idle == [op |-> "none", unbound |-> None, rl |-> <<>>, found |-> <<>>]
Resolution == [mo : MemoryObjects, os : ObjectStates]
Found == [mo : MemoryObjects, os : ObjectStates, state : Spaces]

BoundIn(objs) ==
  {o \in ObjectStates : \E s \in Spaces, m \in MemoryObjects : objs[s][m] = o}

Allocated ==
  {m \in MemoryObjects : \E s \in Spaces : objects[s][m] # None \/ m \in symbolics[s]}

NoObjects == [m \in MemoryObjects |-> None]

Init ==
  /\ \E s \in Spaces : /\ live = {s}
                       /\ cowKey = [t \in Spaces |-> IF t = s THEN 1 ELSE 0]
  /\ objects = [s \in Spaces |-> NoObjects]
  /\ owner = [o \in ObjectStates |-> 0]
  /\ store = [o \in ObjectStates |-> None]
  /\ symbolics = [s \in Spaces |-> {}] /\ allocas = [s \in Spaces |-> {}]
  /\ pending = Idle
-----------------------------------------------------------------------------
(* Operations of AddressSpace. *)

(* ObjectHolder: an ObjectState that no map holds any more is deleted.     *)
Heap(own, sto) ==
  LET held == BoundIn(objects')
  IN  /\ owner' = [o \in ObjectStates |-> IF o \in held THEN own[o] ELSE 0]
      /\ store' = [o \in ObjectStates |-> IF o \in held THEN sto[o] ELSE None]

(* bindObject(): os is new, and s becomes its owner.  getWriteable() binds *)
(* the copy it makes in the same way.                                      *)
Bind(s, m, o, v) ==
  /\ o \notin BoundIn(objects)
  /\ objects' = [objects EXCEPT ![s] = [@ EXCEPT ![m] = o]]
  /\ Heap([owner EXCEPT ![o] = cowKey[s]], [store EXCEPT ![o] = v])

(* Mutant: every object that is not newer than the space is its own.       *)
OwnsOlder(s, o) == owner[o] <= cowKey[s]

Owns(s, o) == cowKey[s] = owner[o]

(* A write through getWriteable(mo, os).                                   *)
WriteObject(s, m, o, v) ==
  \/ /\ Owns(s, o)
     /\ store' = [store EXCEPT ![o] = v]
     /\ UNCHANGED <<objects, owner>>
  \/ /\ ~Owns(s, o)
     /\ \E n \in ObjectStates : Bind(s, m, n, v)

(* Mutant: only the copy has a new key. *)
ForkKeysOfCopy(s, n) == [cowKey EXCEPT ![n] = cowKey[s] + 1]

(* The copy constructor gives both spaces a key no object has yet.         *)
ForkKeys(s, n) == [cowKey EXCEPT ![s] = @ + 1, ![n] = cowKey[s] + 1]

(* ExecutionState::branch() *)
Fork(s, n) ==
  /\ s \in live /\ n \in Spaces \ live
  /\ cowKey[s] < MaxKey                               \* bound
  /\ live' = live \cup {n}
  /\ cowKey' = ForkKeys(s, n)
  /\ objects' = [objects EXCEPT ![n] = objects[s]]
  /\ symbolics' = [symbolics EXCEPT ![n] = symbolics[s]]
  /\ allocas' = [allocas EXCEPT ![n] = allocas[s]]
  /\ UNCHANGED <<owner, store>>
-----------------------------------------------------------------------------
(* Instructions that need no resolution. *)

(* executeAlloc() with a constant size; isLocal for an alloca.             *)
Allocate(s) ==
  /\ pending = Idle
  /\ \E m \in MemoryObjects \ Allocated, o \in ObjectStates, v \in Values,
        isLocal \in BOOLEAN :
       /\ Bind(s, m, o, v)
       /\ allocas' = [allocas EXCEPT ![s] = IF isLocal THEN @ \cup {m} ELSE @]
  /\ UNCHANGED <<live, cowKey, symbolics, pending>>

(* executeMakeSymbolic(): a new ObjectState takes the place of the old.    *)
MakeSymbolic(s) ==
  /\ pending = Idle
  /\ \E m \in MemoryObjects, o \in ObjectStates, v \in Values :
       /\ objects[s][m] # None
       /\ Bind(s, m, o, v)
       /\ symbolics' = [symbolics EXCEPT ![s] = @ \cup {m}]
  /\ UNCHANGED <<live, cowKey, allocas, pending>>

(* copyInConcretes() after an external call, for an object it changed; the *)
(* fast path of executeMemoryOperation() for a write does the same.        *)
WriteKnown(s) ==
  /\ pending = Idle
  /\ \E m \in MemoryObjects, v \in Values :
       /\ objects[s][m] # None
       /\ WriteObject(s, m, objects[s][m], v)
  /\ UNCHANGED <<live, cowKey, symbolics, allocas, pending>>

(* popFrame() *)
Return(s) ==
  /\ pending = Idle
  /\ objects' = [objects EXCEPT ![s] = [m \in MemoryObjects |->
                   IF m \in allocas[s] THEN None ELSE @[m]]]
  /\ Heap(owner, store)
  /\ allocas' = [allocas EXCEPT ![s] = {}]
  /\ UNCHANGED <<live, cowKey, symbolics, pending>>

ForkState(s) ==
  /\ pending = Idle
  /\ \E n \in Spaces : Fork(s, n)
  /\ UNCHANGED pending

(* A state is deleted, unless the operation that is under way needs it.    *)
Delete(s) ==
  /\ s # pending.unbound
  /\ \A i \in 1..Len(pending.found) : pending.found[i].state # s
  /\ live' = live \ {s}
  /\ cowKey' = [cowKey EXCEPT ![s] = 0]
  /\ objects' = [objects EXCEPT ![s] = NoObjects]
  /\ Heap(owner, store)
  /\ symbolics' = [symbolics EXCEPT ![s] = {}]
  /\ allocas' = [allocas EXCEPT ![s] = {}]
  /\ UNCHANGED pending
-----------------------------------------------------------------------------
(* Operations through a symbolic pointer: the state forks for each object  *)
(* that resolve() found.  A read or a write happens as soon as its state   *)
(* is known (executeMemoryOperation()), free() and realloc() when all of   *)
(* them are (resolveExact()).                                              *)

Operations == {"access", "free", "realloc"}

(* executeFree(): "free of alloca" ends the path. *)
MayFree(s, m) == m \notin allocas[s]

StartResolution(s) ==
  /\ pending = Idle
  /\ \E op \in Operations, m1, m2 \in {m \in MemoryObjects : objects[s][m] # None} :
       pending' = [op |-> op, unbound |-> s, found |-> <<>>,
                   rl |-> IF m1 = m2 THEN <<[mo |-> m1, os |-> objects[s][m1]]>>
                          ELSE <<[mo |-> m1, os |-> objects[s][m1]],
                                 [mo |-> m2, os |-> objects[s][m2]]>>]
  /\ UNCHANGED <<live, cowKey, objects, owner, store, symbolics, allocas>>

Forking == pending.rl # <<>> /\ pending.unbound # None
MustActFirst == pending.op = "access" /\ pending.found # <<>>

FoundFor(s) == [mo |-> Head(pending.rl).mo, os |-> Head(pending.rl).os, state |-> s]

(* fork() of the unbound state: the original is the one inside.            *)
ResolveBoth ==
  /\ Forking /\ ~MustActFirst
  /\ \E n \in Spaces :
       /\ Fork(pending.unbound, n)
       /\ pending' = [pending EXCEPT !.unbound = n, !.rl = Tail(@),
                                     !.found = Append(@, FoundFor(pending.unbound))]

ResolveInside ==
  /\ Forking /\ ~MustActFirst
  /\ pending' = [pending EXCEPT !.unbound = None, !.rl = Tail(@),
                                !.found = Append(@, FoundFor(pending.unbound))]
  /\ UNCHANGED <<live, cowKey, objects, owner, store, symbolics, allocas>>

ResolveOutside ==
  /\ Forking /\ ~MustActFirst
  /\ pending' = [pending EXCEPT !.rl = Tail(@)]
  /\ UNCHANGED <<live, cowKey, objects, owner, store, symbolics, allocas>>

(* The solver failed, or --max-depth ended both sides.                     *)
ResolveFails ==
  /\ Forking /\ ~MustActFirst
  /\ pending' = [pending EXCEPT !.unbound = None, !.rl = <<>>]
  /\ UNCHANGED <<live, cowKey, objects, owner, store, symbolics, allocas>>

Acting == pending.found # <<>> /\ (pending.op = "access" \/ ~Forking)
Current == Head(pending.found)
Acted == [pending EXCEPT !.found = Tail(@)]

Access ==
  /\ Acting /\ pending.op = "access"
  /\ \/ \E v \in Values : WriteObject(Current.state, Current.mo, Current.os, v)
     \/ UNCHANGED <<objects, owner, store>>                        \* a read
  /\ pending' = Acted
  /\ UNCHANGED <<live, cowKey, symbolics, allocas>>

Free ==
  /\ Acting /\ pending.op = "free"
  /\ objects' = IF MayFree(Current.state, Current.mo)
                THEN [objects EXCEPT ![Current.state] = [@ EXCEPT ![Current.mo] = None]]
                ELSE objects
  /\ Heap(owner, store)
  /\ pending' = Acted
  /\ UNCHANGED <<live, cowKey, symbolics, allocas>>

(* Mutant: both sizes are given to the same state. *)
SizesOfOne(s, n) == <<[Current EXCEPT !.state = s], [Current EXCEPT !.state = s]>>

(* executeAlloc() with a symbolic size: the state of the other sizes first.*)
SizesOf(s, n) == <<[Current EXCEPT !.state = n], [Current EXCEPT !.state = s]>>

ReallocForks ==
  /\ Acting /\ pending.op = "realloc"
  /\ \E n \in Spaces :
       /\ Fork(Current.state, n)
       /\ pending' = [pending EXCEPT !.found = SizesOf(Current.state, n) \o Tail(@)]

(* executeAlloc() with reallocFrom: the contents move to a new object.     *)
Realloc ==
  /\ Acting /\ pending.op = "realloc"
  /\ ReallocsLocals \/ Current.mo \notin allocas[Current.state]
  /\ \E m \in MemoryObjects \ Allocated, o \in ObjectStates \ BoundIn(objects) :
       /\ objects' = [objects EXCEPT ![Current.state] =
                        [@ EXCEPT ![m] = o, ![Current.mo] = None]]
       /\ Heap([owner EXCEPT ![o] = cowKey[Current.state]],
               [store EXCEPT ![o] = store[Current.os]])
  /\ pending' = Acted
  /\ UNCHANGED <<live, cowKey, symbolics, allocas>>

(* The allocation fails, or the size ends the path.                        *)
ReallocFails ==
  /\ Acting /\ pending.op = "realloc"
  /\ pending' = Acted
  /\ UNCHANGED <<live, cowKey, objects, owner, store, symbolics, allocas>>

(* What is left unbound has no object to access: it ends.                  *)
Resolved ==
  /\ pending # Idle /\ ~Forking /\ pending.found = <<>>
  /\ pending' = Idle
  /\ UNCHANGED <<live, cowKey, objects, owner, store, symbolics, allocas>>

Next ==
  \/ \E s \in live : \/ Allocate(s) \/ MakeSymbolic(s) \/ WriteKnown(s)
                     \/ Return(s) \/ ForkState(s) \/ Delete(s) \/ StartResolution(s)
  \/ ResolveBoth \/ ResolveInside \/ ResolveOutside \/ ResolveFails
  \/ Access \/ Free \/ ReallocForks \/ Realloc \/ ReallocFails
  \/ Resolved

Spec == Init /\ [][Next]_vars
-----------------------------------------------------------------------------
TypeOK ==
  /\ live \subseteq Spaces /\ cowKey \in [Spaces -> Nat]
  /\ objects \in [Spaces -> [MemoryObjects -> ObjectStates \cup {None}]]
  /\ owner \in [ObjectStates -> Nat]
  /\ store \in [ObjectStates -> Values \cup {None}]
  /\ symbolics \in [Spaces -> SUBSET MemoryObjects]
  /\ allocas \in [Spaces -> SUBSET MemoryObjects]
  /\ pending \in [op : Operations \cup {"none"}, unbound : Spaces \cup {None},
                  rl : Seq(Resolution), found : Seq(Found)]

(* "forall o in objects, o->copyOnWriteOwner <= cowKey" (AddressSpace.h).  *)
OwnersBeforeKey ==
  \A s \in live, m \in MemoryObjects :
    objects[s][m] # None => owner[objects[s][m]] <= cowKey[s]

(* "The set of objects where o->copyOnWriteOwner == cowKey are the objects *)
(* that we own": no other state, and no other object of the same state,    *)
(* sees what is written to them in place.                                  *)
OwnedPrivately ==
  \A s, t \in live, m, k \in MemoryObjects :
    /\ objects[s][m] # None /\ objects[s][m] = objects[t][k]
    /\ Owns(s, objects[s][m])
    => s = t /\ m = k

(* An ObjectState found by resolve() is still the binding of its object    *)
(* when the state it was found for is written, freed or moved, although    *)
(* states forked, wrote and were deleted in between.                       *)
ResolvedIsCurrent ==
  /\ \A i \in 1..Len(pending.found) :
       LET f == pending.found[i]
       IN  f.state \in live /\ objects[f.state][f.mo] = f.os
  /\ Forking => \A i \in 1..Len(pending.rl) :
                  objects[pending.unbound][pending.rl[i].mo] = pending.rl[i].os

(* Sharing is invisible: every state has a memory of its own.              *)
Memory ==
  [s \in Spaces |-> [m \in MemoryObjects |->
     IF objects[s][m] = None THEN None ELSE store[objects[s][m]]]]

Private == INSTANCE PrivateMemory WITH memory <- Memory, Unbound <- None

ImplementsPrivateMemory == Private!Spec
=============================================================================
