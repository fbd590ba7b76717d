---------------------------- MODULE PathStreams ----------------------------
(***************************************************************************)
(* lib/Support/TreeStream.cpp: one file for the branch decisions of every  *)
(* path.  A stream is opened from another and shares what that one held    *)
(* at that moment; what a stream is given is buffered until another stream *)
(* writes, a stream is opened or the buffer is full.                       *)
(*                                                                         *)
(* A writer is [file, buffer, last, ids]; an entry of the file is          *)
(* [id, fork, data], fork the stream opened from id (0: none, data).       *)
(***************************************************************************)
EXTENDS Naturals, Sequences, SequencesExt

CONSTANT BufferSize

NewWriter == [file |-> <<>>, buffer |-> <<>>, last |-> 0, ids |-> 1]
Data(id, s) == [id |-> id, fork |-> 0, data |-> s]
ForkOf(id, child) == [id |-> id, fork |-> child, data |-> <<>>]

FlushBuffer(t) ==
  IF t.buffer = <<>> THEN t ELSE [t EXCEPT !.file = Append(@, Data(t.last, t.buffer)), !.buffer = <<>>]

\* The new stream is the writer's `ids` before the call.
OpenFrom(t, id) ==
  LET u == FlushBuffer(t) IN [u EXCEPT !.file = Append(@, ForkOf(id, u.ids)), !.ids = @ + 1]
Opened(t) == t.ids

\* Mutant: what is buffered for another stream is not written out first.
FlushWhenFull(t, id, s) == t.buffer # <<>> /\ Len(s) + Len(t.buffer) > BufferSize
MustFlush(t, id, s) == t.buffer # <<>> /\ (id # t.last \/ Len(s) + Len(t.buffer) > BufferSize)
Put(t, id, s) ==
  IF t.buffer # <<>> THEN [t EXCEPT !.buffer = @ \o s]
  ELSE IF Len(s) < BufferSize THEN [t EXCEPT !.last = id, !.buffer = s]
  ELSE [t EXCEPT !.file = Append(@, Data(id, s))]
Write(t, id, s) == Put(IF MustFlush(t, id, s) THEN FlushBuffer(t) ELSE t, id, s)

\* The streams from id up to the first one, as far as they are opened
\* before it; then one pass over the file that follows them down again.
RECURSIVE Parents(_, _)
Parents(file, chain) ==
  IF file = <<>> THEN Front(chain)
  ELSE Parents(Front(file), IF Last(file).fork = Last(chain) THEN Append(chain, Last(file).id) ELSE chain)

RECURSIVE ReadDown(_, _, _)
ReadDown(file, roots, out) ==
  IF file = <<>> THEN out
  ELSE LET e == Head(file)
           leads == /\ e.fork # 0 /\ e.id = Last(roots)
                    /\ Len(roots) > 1 /\ e.fork = roots[Len(roots) - 1]
       IN  ReadDown(Tail(file), IF leads THEN Front(roots) ELSE roots,
                    IF e.fork = 0 /\ e.id = Last(roots) THEN out \o e.data ELSE out)

ReadFile(file, id) == ReadDown(file, Parents(file, <<id>>), <<>>)
ReadStream(t, id) == ReadFile(FlushBuffer(t).file, id)

=============================================================================
