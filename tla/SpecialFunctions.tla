-------------------------- MODULE SpecialFunctions --------------------------
(***************************************************************************)
(* Core/SpecialFunctionHandler.cpp: the functions the interpreter itself   *)
(* carries out when the program calls them, in the state s that e no       *)
(* longer holds; a: their arguments.  A string argument is known.          *)
(***************************************************************************)
EXTENDS ExecutorState

The(v) == CHOOSE x \in Range(v) : TRUE

\* The handlers whose call has a value, and those whose call has none.
New == {"malloc", "_Znwm", "_Znam"}
Delete == {"free", "_ZdlPv", "_ZdaPv"}
Tell == {"klee_warning", "klee_print_range"}
GivesValue == New \cup {"calloc", "realloc", "klee_get_value_i32", "klee_is_symbolic", "klee_get_obj_size"}
Messages == [n \in DOMAIN Fails \ {"exit", "crash"} |-> Fails[n]]
IsVoid == Delete \cup Tell \cup {"exit", "klee_report_error", "klee_silent_exit", "klee_assume", "klee_make_symbolic", "klee_mark_global",
           "klee_prefer_cex", "klee_set_forking", "klee_alias_function", "klee_check_memory_access"} \cup DOMAIN Messages
Handlers == GivesValue \cup IsVoid

-----------------------------------------------------------------------------
(* Memory.                                                                 *)

HandleCalloc(e, s, dest, a) ==
  ExecuteAlloc(e, s, [i \in Inputs |-> V!Wrap(a[1][i] * a[2][i], PtrW)], [OnHeap EXCEPT !.zero = TRUE], dest)

\* No size: freed.  No pointer: allocated.  Else every object the pointer
\* may be is replaced by one of the new size.
HandleRealloc(e, s, dest, a) ==
  LET Replace(e1, t, o) == ExecuteAlloc(e1, t, a[2], [OnHeap EXCEPT !.from = o], dest)
      Reallocated(r) == IF r.f = {} THEN {r.e} ELSE UNION {EachResolved(r.e, t, a[1], "realloc", Replace) : t \in r.f}
      Sized(e1, t) == UNION {LET worlds == IF r.t = {} THEN {r.e} ELSE ExecuteAlloc(r.e, CHOOSE u \in r.t : TRUE, a[2], OnHeap, dest)
                             IN  UNION {Reallocated([r EXCEPT !.e = e2]) : e2 \in worlds}
                               : r \in Fork(e1, t, Where(a[1], 0), TRUE)}
      Zeroed(r) == IF r.t = {} THEN {r.e} ELSE ExecuteFree(r.e, CHOOSE t \in r.t : TRUE, a[1], dest)
  IN  UNION {UNION {IF r.f = {} THEN {e1} ELSE Sized(e1, CHOOSE t \in r.f : TRUE) : e1 \in Zeroed(r)}
               : r \in Fork(e, s, Where(a[2], 0), TRUE)}

HandleGetObjSize(e, s, dest, a) ==
  LET Size(e1, t, o) == {Keep(e1, {BindLocal(t, dest, K(Len(t.mem[o])))})}
  IN  EachResolved(e, s, a[1], "klee_get_obj_size", Size)
\* The object is marked, for every state that holds it.
HandleMarkGlobal(e, s, a) ==
  LET Mark(e1, t, o) == {IF e1.objects[o].place = "local" THEN [Keep(e1, {t}) EXCEPT !.aborted = TRUE]
                         ELSE Keep([e1 EXCEPT !.objects[o].place = "global"], {t})}
  IN  EachResolved(e, s, a[1], "mark_global", Mark)

HandleCheckMemoryAccess(e, s, a) ==
  LET addresses == ValuesOn(s.cond, a[1])
      sizes == ValuesOn(s.cond, a[2])
      address == CHOOSE x \in addresses : TRUE
      size == CHOOSE x \in sizes : TRUE
      found == \E o \in DOMAIN s.mem : ResolvesTo(s, o, address) /\ (address % ObjSpace) + size <= Len(s.mem[o])
  IN  CASE Cardinality(addresses) # 1 \/ Cardinality(sizes) # 1 -> {TerminateStateOnError(e, s, "check_memory_access requires constant args")}
        [] Cardinality(addresses) = 1 /\ Cardinality(sizes) = 1 /\ ~found -> {TerminateStateOnError(e, s, "check_memory_access: memory error")}
        [] OTHER -> {Keep(e, {s})}

-----------------------------------------------------------------------------
(* Symbolic objects and conditions.                                        *)

\* The first of name, name_1, name_2, ... the path has no array of.
RECURSIVE UniqueName(_, _, _)
UniqueName(used, name, id) ==
  LET unique == IF id = 0 THEN name ELSE name \o "_" \o ToString(id)
  IN  IF unique \in used THEN UniqueName(used, name, id + 1) ELSE unique
ExecuteMakeSymbolic(s, o, name) ==
  LET array == UniqueName({s.symbolics[j].array : j \in DOMAIN s.symbolics}, name, 0)
  IN  [s EXCEPT !.mem[o] = [c \in DOMAIN @ |-> [i \in Inputs |-> ArrayInput[array][i][c]]],
                !.symbolics = Append(@, [object |-> o, array |-> array, name |-> name])]
\* The name is given to the object, for every state that holds it; one that
\* is read only ends the handler.
HandleMakeSymbolic(e, s, a) ==
  LET name == The(a[3])
      Make(w, p) ==
        LET e1 == [w.e EXCEPT !.objects[p.o].name = name]
        IN  CASE w.left -> [w EXCEPT !.e = Keep(@, {p.s})]
              [] ~w.left /\ e1.objects[p.o].readOnly ->
                   [left |-> TRUE, e |-> TerminateStateOnError(e1, p.s, "cannot make readonly object symbolic")]
              [] OTHER -> [w EXCEPT !.e = IF p.s.cond \subseteq Where(a[2], Len(p.s.mem[p.o])) THEN Keep(e1, {ExecuteMakeSymbolic(p.s, p.o, name)})
                                          ELSE TerminateStateOnError(e1, p.s, "wrong size given to klee_make_symbolic")]
  IN  {FoldLeft(Make, [e |-> r.e, left |-> FALSE], r.rl).e
         : r \in ResolveExact(e, s, a[1], SetToSortSeq(MayPointInto(s, a[1]), <), "make_symbolic")}

Holds(v) == {i \in Inputs : v[i] # 0}
HandleAssume(e, s, a) ==
  IF s.cond \intersect Holds(a[1]) = {} THEN {TerminateStateOnError(e, s, "invalid klee_assume")}
  ELSE {Keep([e EXCEPT !.dropped = @ \union (s.cond \ Holds(a[1]))],
             {[AddConstraint(s, Holds(a[1])) EXCEPT !.splits = @ \/ ~(s.cond \subseteq Holds(a[1]))]})}
\* The preference is the object's: one object, or the assertion fails.
HandlePreferCex(e, s, a) ==
  LET Prefer(r) == IF Len(r.rl) # 1 THEN [r.e EXCEPT !.aborted = TRUE]
                   ELSE Keep([r.e EXCEPT !.objects[r.rl[1].o].prefs = Append(@, Holds(a[2]))], {r.rl[1].s})
  IN  {Prefer(r) : r \in ResolveExact(e, s, a[1], SetToSortSeq(MayPointInto(s, a[1]), <), "prefex_cex")}
HandleIsSymbolic(e, s, dest, a) == {Keep(e, {BindLocal(s, dest, K(V!Bool - (IF IsConstant(a[1]) THEN 1 ELSE 0)))})}
\* One of the values it can have; nothing is assumed of it.
ExecuteGetValue(e, s, dest, a) == {Keep(e, {BindLocal(s, dest, K(x))}) : x \in ValuesOn(s.cond, a[1])}

-----------------------------------------------------------------------------
(* The state itself.                                                       *)

HandleSetForking(e, s, a) ==
  LET values == ValuesOn(s.cond, a[1])
  IN  IF Cardinality(values) # 1 THEN {TerminateStateOnError(e, s, "klee_set_forking requires a constant arg")}
      ELSE {Keep(e, {[s EXCEPT !.forkDisabled = values = {0}]})}
HandleAliasFunction(e, s, a) ==
  LET old == The(a[1])
      new == The(a[2])
  IN  {Keep(e, {[s EXCEPT !.aliases = IF old = new THEN Restrict(@, DOMAIN @ \ {old}) ELSE (old :> new) @@ @]})}

-----------------------------------------------------------------------------
(* handle(): what is not a handler's is called outside.                    *)

Handle(e, s, ins, fn, a) ==
  IF fn \in IsVoid /\ ins.dest # "" THEN {TerminateStateOnError(e, s, "expected return value from void special function")}
  ELSE CASE
       fn \in DOMAIN Messages        -> {TerminateStateOnError(e, s, Messages[fn])}
    [] fn = "exit"                  -> {TerminateStateOnExit(e, s, <<>>)}
    [] fn = "klee_report_error"     -> {TerminateStateOnError(e, s, The(a[1]))}
    [] fn = "klee_silent_exit"      -> {TerminateState(e, s, "silent", <<>>, FALSE)}
    [] fn \in New                   -> ExecuteAlloc(e, s, a[1], OnHeap, ins.dest)
    [] fn = "calloc"                -> HandleCalloc(e, s, ins.dest, a)
    [] fn = "realloc"               -> HandleRealloc(e, s, ins.dest, a)
    [] fn \in Tell                  -> {Keep(e, {s})}
    [] fn \in Delete                -> ExecuteFree(e, s, a[1], "")
    [] fn = "klee_get_value_i32"    -> ExecuteGetValue(e, s, ins.dest, a)
    [] fn = "klee_is_symbolic"      -> HandleIsSymbolic(e, s, ins.dest, a)
    [] fn = "klee_get_obj_size"     -> HandleGetObjSize(e, s, ins.dest, a)
    [] fn = "klee_assume"           -> HandleAssume(e, s, a)
    [] fn = "klee_make_symbolic"    -> HandleMakeSymbolic(e, s, a)
    [] fn = "klee_mark_global"      -> HandleMarkGlobal(e, s, a)
    [] fn = "klee_prefer_cex"       -> HandlePreferCex(e, s, a)
    [] fn = "klee_set_forking"      -> HandleSetForking(e, s, a)
    [] fn = "klee_alias_function"   -> HandleAliasFunction(e, s, a)
    [] fn = "klee_check_memory_access" -> HandleCheckMemoryAccess(e, s, a)

=============================================================================
