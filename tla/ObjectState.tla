---------------------------- MODULE ObjectState ----------------------------
(***************************************************************************)
(* The contents of one memory object (ObjectState, lib/klee/Core/          *)
(* Memory.cpp).  Every byte is cached as a concrete value or as a known    *)
(* symbolic one, or it is flushed to the update list that accesses at      *)
(* symbolic offsets need, or both.                                         *)
(*                                                                         *)
(* The model follows one assignment to the program's inputs: an expression *)
(* is its value there, a symbolic offset the byte it denotes, and the      *)
(* update list the array it denotes.  What holds for every assignment      *)
(* holds for the expressions.                                              *)
(***************************************************************************)
EXTENDS Integers

CONSTANTS
  Size,              \* bytes of the object
  Values,            \* values of a byte
  Zero,              \* the value 0
  NoValue,           \* no cached symbolic value
  ExternalCalls      \* does the program call functions KLEE does not run

ASSUME SizeAssumption == Size \in Nat
ASSUME ValuesAssumption ==
  Zero \in Values /\ NoValue \notin Values /\ ExternalCalls \in BOOLEAN

VARIABLES
  concreteStore,  \* the concrete cache
  concreteMask,   \* the bytes the concrete cache is valid for
  flushed,        \* the bytes the update list is valid for (flushMask)
  knownSymbolics, \* the symbolic cache
  updates,        \* the array the update list denotes
  contents,       \* history: what was last written at each byte
  missed          \* history: flushed bytes an external call has changed

vars == <<concreteStore, concreteMask, flushed, knownSymbolics, updates,
          contents, missed>>

Bytes == 0..Size - 1
NoSymbolics == [i \in Bytes |-> NoValue]

(* initializeToZero(), initializeToRandom(): every byte is concrete.       *)
InitConcrete ==
  /\ \E v \in Values : concreteStore = [i \in Bytes |-> v]
  /\ concreteMask = Bytes /\ flushed = {} /\ knownSymbolics = NoSymbolics
  /\ updates = [i \in Bytes |-> Zero]
  /\ contents = concreteStore

(* makeSymbolic(): every byte is that of the array given.                  *)
InitSymbolic ==
  /\ concreteStore = [i \in Bytes |-> Zero]
  /\ concreteMask = {} /\ flushed = Bytes /\ knownSymbolics = NoSymbolics
  /\ updates \in [Bytes -> Values]
  /\ contents = updates

Init == (InitConcrete \/ InitSymbolic) /\ missed = {}
-----------------------------------------------------------------------------
Cached(i) == IF i \in concreteMask THEN concreteStore[i] ELSE knownSymbolics[i]

(* The update list once flushRangeForRead() or flushRangeForWrite() has    *)
(* added the bytes that were not flushed.                                  *)
Flushing == [i \in Bytes |-> IF i \in flushed THEN updates[i] ELSE Cached(i)]

(* read8() at a constant offset: the cache first.  NoValue stands for the  *)
(* assertion "unflushed byte without cache value".                         *)
ReadConstant(i) ==
  IF i \in concreteMask THEN concreteStore[i]
  ELSE IF knownSymbolics[i] # NoValue THEN knownSymbolics[i]
  ELSE IF i \in flushed THEN updates[i] ELSE NoValue

(* read8() at a symbolic offset reads the flushed update list.             *)
ReadSymbolic(i) == Flushing[i]

(* read() at a symbolic offset flushes all of the object.                  *)
Read ==
  /\ updates' = Flushing /\ flushed' = Bytes
  /\ UNCHANGED <<concreteStore, concreteMask, knownSymbolics, contents, missed>>

(* The values of n bytes that start at offset. *)
Overwrite(a, offset, vs) ==
  [i \in Bytes |-> IF i - offset \in DOMAIN vs THEN vs[i - offset] ELSE a[i]]

Written(offset, vs) == {i \in Bytes : i - offset \in DOMAIN vs}

(* Mutant: a byte written over stays marked as flushed. *)
StaysFlushed(W) == flushed

(* markByteUnflushed() for the bytes written over. *)
Unflushed(W) == flushed \ W

(* Mutant: a constant leaves the symbolic value it replaces in its cache.  *)
SymbolicsAfterAll(W, C, written) ==
  [i \in Bytes |-> IF i \in W \ C THEN written[i] ELSE knownSymbolics[i]]

(* The symbolic cache after a write over W, of constants over C. *)
SymbolicsAfter(W, C, written) ==
  [i \in Bytes |-> IF i \in C THEN NoValue
                   ELSE IF i \in W THEN written[i] ELSE knownSymbolics[i]]

(* write() at a constant offset: write8() for each byte.  A byte whose     *)
(* value is a constant goes to the concrete cache, another to the symbolic *)
(* cache.                                                                  *)
WriteConstant(offset, vs, constants) ==
  LET W == Written(offset, vs)
      C == {i \in W : i - offset \in constants}
  IN  /\ concreteStore' = [i \in Bytes |-> IF i \in C THEN vs[i - offset]
                                           ELSE concreteStore[i]]
      /\ concreteMask' = (concreteMask \ W) \cup C
      /\ contents' = Overwrite(contents, offset, vs)
      /\ knownSymbolics' = SymbolicsAfter(W, C, contents')
      /\ flushed' = Unflushed(W)
      /\ missed' = missed \ W
      /\ UNCHANGED updates

(* What flushRangeForWrite() leaves of the concrete cache. *)
MaskAfterWrite == {}

(* write() at a symbolic offset: write8() for each byte flushes the object *)
(* and takes every byte out of the caches, then extends the update list.   *)
WriteSymbolic(offset, vs) ==
  /\ updates' = Overwrite(Flushing, offset, vs)
  /\ flushed' = Bytes /\ concreteMask' = MaskAfterWrite
  /\ knownSymbolics' = NoSymbolics
  /\ contents' = Overwrite(contents, offset, vs)
  /\ missed' = missed \ Written(offset, vs)
  /\ UNCHANGED concreteStore

Write ==
  \E offset \in Bytes : \E n \in 1..Size - offset :
    \E vs \in [0..n - 1 -> Values] :
      \/ \E constants \in SUBSET (0..n - 1) : WriteConstant(offset, vs, constants)
      \/ WriteSymbolic(offset, vs)

(* An external call: copyOutConcretes() puts concreteStore where the       *)
(* program's memory really is, the function called writes there, and       *)
(* copyInConcretes() takes it back, without a look at the masks: what the  *)
(* function wrote over a symbolic byte is not used.                        *)
CopyInConcretes ==
  /\ ExternalCalls
  /\ \E memory \in [Bytes -> Values] :
       LET J == {i \in concreteMask : memory[i] # concreteStore[i]}
       IN  /\ concreteStore' = memory
           /\ contents' = [i \in Bytes |-> IF i \in J THEN memory[i] ELSE contents[i]]
           /\ missed' = missed \cup (J \cap flushed)
  /\ UNCHANGED <<concreteMask, flushed, knownSymbolics, updates>>

Next == Read \/ Write \/ CopyInConcretes

Spec == Init /\ [][Next]_vars
-----------------------------------------------------------------------------
TypeOK ==
  /\ concreteStore \in [Bytes -> Values] /\ concreteMask \subseteq Bytes
  /\ knownSymbolics \in [Bytes -> Values \cup {NoValue}]
  /\ flushed \subseteq Bytes /\ updates \in [Bytes -> Values]
  /\ contents \in [Bytes -> Values] /\ missed \subseteq Bytes

(* The "Cache Invariants" of Memory.cpp: no byte is in both caches, and a  *)
(* byte that is not flushed is in one of them, so no read of the object    *)
(* meets a byte without a value.                                           *)
CacheInvariants ==
  \A i \in Bytes :
    /\ ~(i \in concreteMask /\ knownSymbolics[i] # NoValue)
    /\ i \notin flushed => i \in concreteMask \/ knownSymbolics[i] # NoValue

(* A read returns what was last written, at a constant offset and at a     *)
(* symbolic one, however the bytes moved between the caches and the update *)
(* list in between.  Bytes that an external call changed are an exception: *)
(* they have their new value while they stay in the concrete cache.        *)
ReadsAsWritten ==
  \A i \in Bytes :
    /\ i \notin missed => /\ ReadConstant(i) = contents[i]
                          /\ ReadSymbolic(i) = contents[i]
    /\ i \in missed \cap concreteMask => ReadConstant(i) = contents[i]
=============================================================================
