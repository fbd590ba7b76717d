------------------------- MODULE ObjectStateProofs -------------------------
(* Proofs about ObjectState, for objects of any size. *)
EXTENDS ObjectState, TLAPS

ReadsOK == TypeOK /\ CacheInvariants /\ ReadsAsWritten

(* The flushed update list has a value for every byte. *)
LEMMA FlushingTypes ==
  ASSUME TypeOK, CacheInvariants
  PROVE  Flushing \in [Bytes -> Values]
PROOF
<1>1. ASSUME NEW i \in Bytes
      PROVE  (IF i \in flushed THEN updates[i] ELSE Cached(i)) \in Values
  BY <1>1 DEF Cached, TypeOK, CacheInvariants
<1> QED
  BY <1>1 DEF Flushing

LEMMA InitReads ==
  ASSUME Init
  PROVE  ReadsOK
PROOF
<1> USE ValuesAssumption
<1>1. CASE InitConcrete
  BY <1>1 DEF Init, InitConcrete, ReadsOK, TypeOK, CacheInvariants, ReadsAsWritten,
     NoSymbolics, ReadConstant, ReadSymbolic, Flushing, Cached
<1>2. CASE InitSymbolic
  BY <1>2 DEF Init, InitSymbolic, ReadsOK, TypeOK, CacheInvariants, ReadsAsWritten,
     NoSymbolics, ReadConstant, ReadSymbolic, Flushing, Cached
<1> QED
  BY <1>1, <1>2 DEF Init

LEMMA ReadKeepsReads ==
  ASSUME ReadsOK, Read
  PROVE  ReadsOK'
PROOF
<1>1. TypeOK'
  BY FlushingTypes DEF ReadsOK, Read, TypeOK
<1> QED
  BY <1>1 DEF ReadsOK, Read, TypeOK, CacheInvariants, ReadsAsWritten, ReadConstant,
     ReadSymbolic, Flushing, Cached

LEMMA OverwriteTypes ==
  ASSUME NEW a \in [Bytes -> Values], NEW offset \in Bytes, NEW n \in 1..Size - offset,
         NEW vs \in [0..n - 1 -> Values]
  PROVE  Overwrite(a, offset, vs) \in [Bytes -> Values]
PROOF BY DEF Overwrite

LEMMA WriteConstantKeepsReads ==
  ASSUME ReadsOK, NEW offset \in Bytes, NEW n \in 1..Size - offset,
         NEW vs \in [0..n - 1 -> Values], NEW constants \in SUBSET (0..n - 1),
         WriteConstant(offset, vs, constants)
  PROVE  ReadsOK'
PROOF
<1> DEFINE W == Written(offset, vs)
           C == {i \in W : i - offset \in constants}
<1>1. W \subseteq Bytes /\ C \subseteq W /\ \A i \in W : vs[i - offset] \in Values
  BY DEF Written
<1>2. /\ concreteStore' = [i \in Bytes |-> IF i \in C THEN vs[i - offset] ELSE concreteStore[i]]
      /\ concreteMask' = (concreteMask \ W) \cup C
      /\ knownSymbolics' = [i \in Bytes |-> IF i \in C THEN NoValue
                                           ELSE IF i \in W THEN contents'[i] ELSE knownSymbolics[i]]
      /\ flushed' = flushed \ W /\ missed' = missed \ W /\ updates' = updates
  BY DEF WriteConstant, SymbolicsAfter, Unflushed
<1>3. contents' = [i \in Bytes |-> IF i \in W THEN vs[i - offset] ELSE contents[i]]
  BY DEF WriteConstant, Overwrite, Written
<1> HIDE DEF W, C
<1>4. TypeOK'
  BY <1>1, <1>2, <1>3 DEF ReadsOK, TypeOK
<1>5. CacheInvariants'
  BY <1>1, <1>2, <1>3, ValuesAssumption DEF ReadsOK, TypeOK, CacheInvariants
<1>6. ReadsAsWritten'
  <2> SUFFICES ASSUME NEW i \in Bytes
               PROVE  /\ i \notin missed' => ReadConstant(i)' = contents'[i] /\ ReadSymbolic(i)' = contents'[i]
                      /\ i \in missed' \cap concreteMask' => ReadConstant(i)' = contents'[i]
    BY DEF ReadsAsWritten
  <2>1. CASE i \in W
    BY <1>1, <1>2, <1>3, <2>1, ValuesAssumption DEF ReadConstant, ReadSymbolic, Flushing, Cached
  <2>2. CASE i \notin W
    BY <1>1, <1>2, <1>3, <2>2 DEF ReadsOK, ReadsAsWritten, ReadConstant, ReadSymbolic, Flushing, Cached
  <2> QED
    BY <2>1, <2>2
<1> QED
  BY <1>4, <1>5, <1>6 DEF ReadsOK

LEMMA WriteSymbolicKeepsReads ==
  ASSUME ReadsOK, NEW offset \in Bytes, NEW n \in 1..Size - offset,
         NEW vs \in [0..n - 1 -> Values], WriteSymbolic(offset, vs)
  PROVE  ReadsOK'
PROOF
<1>1. TypeOK'
  BY FlushingTypes, OverwriteTypes, ValuesAssumption
     DEF ReadsOK, TypeOK, WriteSymbolic, NoSymbolics, MaskAfterWrite, Written
<1>2. CacheInvariants'
  BY DEF WriteSymbolic, CacheInvariants, NoSymbolics, MaskAfterWrite
<1>3. \A i \in Bytes : ReadConstant(i)' = updates'[i] /\ ReadSymbolic(i)' = updates'[i]
  BY DEF WriteSymbolic, ReadConstant, ReadSymbolic, Flushing, NoSymbolics, MaskAfterWrite
<1>4. \A i \in Bytes : i \notin missed' => updates'[i] = contents'[i]
  BY DEF ReadsOK, WriteSymbolic, Overwrite, Written, ReadsAsWritten, ReadSymbolic
<1> QED
  BY <1>1, <1>2, <1>3, <1>4 DEF ReadsOK, ReadsAsWritten, WriteSymbolic, MaskAfterWrite

LEMMA CopyInKeepsReads ==
  ASSUME ReadsOK, CopyInConcretes
  PROVE  ReadsOK'
PROOF
<1>1. PICK memory \in [Bytes -> Values] :
        LET J == {i \in concreteMask : memory[i] # concreteStore[i]}
        IN  /\ concreteStore' = memory
            /\ contents' = [i \in Bytes |-> IF i \in J THEN memory[i] ELSE contents[i]]
            /\ missed' = missed \cup (J \cap flushed)
  BY DEF CopyInConcretes
<1>2. UNCHANGED <<concreteMask, flushed, knownSymbolics, updates>>
  BY DEF CopyInConcretes
<1>3. TypeOK' /\ CacheInvariants'
  BY <1>1, <1>2 DEF ReadsOK, TypeOK, CacheInvariants
<1> QED
  BY <1>1, <1>2, <1>3 DEF ReadsOK, TypeOK, ReadsAsWritten, ReadConstant, ReadSymbolic, Flushing, Cached

LEMMA ReadsInvariant == Spec => []ReadsOK
PROOF
<1>1. Init => ReadsOK
  BY InitReads
<1>2. ReadsOK /\ [Next]_vars => ReadsOK'
  <2> SUFFICES ASSUME ReadsOK, [Next]_vars PROVE ReadsOK'
    OBVIOUS
  <2>1. CASE Read
    BY <2>1, ReadKeepsReads
  <2>2. CASE Write
    BY <2>2, WriteConstantKeepsReads, WriteSymbolicKeepsReads DEF Write
  <2>3. CASE CopyInConcretes
    BY <2>3, CopyInKeepsReads
  <2>4. CASE UNCHANGED vars
    BY <2>4 DEF vars, ReadsOK, TypeOK, CacheInvariants, ReadsAsWritten, ReadConstant,
       ReadSymbolic, Flushing, Cached
  <2> QED
    BY <2>1, <2>2, <2>3, <2>4 DEF Next
<1> QED
  BY <1>1, <1>2, PTL DEF Spec

(* Every read meets a cached or flushed byte: the assertions of read8()    *)
(* and flushRange*() hold in objects of any size.                          *)
THEOREM CachesAreConsistent == Spec => []CacheInvariants
PROOF
<1>1. ReadsOK => CacheInvariants
  BY DEF ReadsOK
<1> QED
  BY <1>1, ReadsInvariant, PTL

(* Both kinds of read return what was written, whatever the order of       *)
(* constant and symbolic accesses, except behind an external call.         *)
THEOREM ReadsReturnWrites == Spec => []ReadsAsWritten
PROOF
<1>1. ReadsOK => ReadsAsWritten
  BY DEF ReadsOK
<1> QED
  BY <1>1, ReadsInvariant, PTL

=============================================================================
