------------------------------- MODULE PosixFd -------------------------------
(***************************************************************************)
(* runtime/POSIX: the file system a program under test runs on.  Symbolic  *)
(* files live in memory and have a fixed size; everything else is passed   *)
(* to the operating system below (external), whose descriptors are reached *)
(* through a table of the runtime's own.  Calls fail on purpose when the   *)
(* user allows failures.                                                   *)
(*                                                                         *)
(* A directory's offsets are counted in entries: Pad of them (4096 bytes)  *)
(* are the runtime's, what follows is the operating system's.              *)
(***************************************************************************)
EXTENDS Integers, Sequences, FiniteSets, FiniteSetsExt, SequencesExt

CONSTANTS
  Programs,       \* what is run: [line |-> its options, attrs |-> what its symbolic files may be,
                  \*   calls |-> those it makes, opens |-> how it opens files, steps |-> a bound]
  OsPaths,        \* paths that are not symbolic files; "dir" is a directory
  OsEntries,      \* what the operating system finds in "dir", in order
  MaxFds,         \* bound: descriptors (32)
  Pad,            \* entries in front of the operating system's
  MaxOff,         \* bound: offsets
  MaxCalls        \* bound: on which call a failure may be put

ASSUME FdsAssumption == MaxFds \in Nat /\ MaxFds >= 3 /\ "dir" \in OsPaths

Fds == 0 .. MaxFds - 1
NoFd == -1
AT_FDCWD == -2
NoFile == "none"
Names == <<"A", "B", "C">>
ModeBits == {"ur", "uw", "or", "ow"}
FailOps == {"read", "write", "close", "ftruncate", "getcwd", "chmod", "fchmod"}

\* The operating system lists nothing twice and nothing under a symbolic file's name;
\* the symbolic files fit in front of what it lists.
ASSUME DirectoryAssumption ==
  /\ OsEntries \in Seq(STRING) /\ IsInjective(OsEntries)
  /\ ToSet(OsEntries) \cap (ToSet(Names) \cup {"stdin", "stdout"}) = {}
  /\ Pad \in Nat /\ Pad >= Len(Names)

\* Options that take a number are given one; there are no more files than Names.
ASSUME ProgramsAssumption ==
  \A p \in Programs :
    /\ p.line \in Seq(ToSet(p.line))
    /\ \A o \in ToSet(p.line) :
         /\ o.opt \in {"max-fail", "sym-stdin"} => o.n \in Nat
         /\ o.opt = "sym-files" => o.n \in 0..Len(Names) /\ o.len \in Nat
    /\ p.attrs \subseteq [type : {"reg", "dir", "chr", "lnk"}, mode : SUBSET ModeBits, mine : BOOLEAN]
    /\ \A o \in p.opens : o.mode \subseteq ModeBits

VARIABLES
  fds,       \* __exe_env.fds
  files,     \* the symbolic files there are, stdin and stdout among them
  umask,     \* __exe_env.umask
  saveAll,   \* __exe_env.save_all_writes
  stdoutWrites,
  nSym,      \* n_sym_files
  maxFailures,
  failAt,    \* which call of an operation is to fail; for some there is no such variable
  calls,     \* each function's n_calls
  last,      \* the last call's answer
  scan,      \* what each descriptor's directory has listed since its beginning
  budget,    \* [allowed |-> failures allowed, injected |-> failures so far]
  outcome,   \* is the program still running?
  program,   \* which of Programs is run
  steps      \* its calls so far that changed something

vars == <<fds, files, umask, saveAll, stdoutWrites, nSym, maxFailures, failAt, calls, last, scan,
          budget, outcome, program, steps>>

-----------------------------------------------------------------------------
(* The command line.                                                       *)

Defaults == [opt |-> "none", n |-> 0, len |-> 0]

\* A later option overrides an earlier one.
Given(line, names) == {i \in DOMAIN line : line[i].opt \in names}
LastGiven(line, names) ==
  IF Given(line, names) = {} THEN Defaults ELSE line[Max(Given(line, names))]

\* How many arguments the program gets for an option; what is no option is kept.
Arguments(o) ==
  CASE o.opt = "sym-args" -> o.n
    [] o.opt \in {"sym-files", "sym-stdin", "sym-stdout", "save-all-writes", "fd-fail", "max-fail"} -> 0
    [] OTHER -> 1

\* klee_init_env()
InitEnv(line) ==
  LET symbolic == LastGiven(line, {"sym-files"})
      fail == LastGiven(line, {"fd-fail", "max-fail"})
  IN  [symFiles |-> symbolic.n, fileLen |-> symbolic.len,
       stdinLen |-> LastGiven(line, {"sym-stdin"}).n,
       symStdout |-> Given(line, {"sym-stdout"}) # {},
       saveAll |-> Given(line, {"save-all-writes"}) # {},
       maxFail |-> IF fail.opt = "fd-fail" THEN 1 ELSE fail.n,
       args |-> MapThenSumSet(LAMBDA i : Arguments(line[i]), DOMAIN line)]

Blank == [fd |-> 0, open |-> FALSE, cloexec |-> FALSE, readable |-> FALSE, writeable |-> FALSE,
          off |-> 0, dfile |-> NoFile]
Std(i) == [Blank EXCEPT !.fd = i, !.open = TRUE, !.readable = i = 0, !.writeable = i # 0]

NewDfile(size, a) == [size |-> size, exists |-> TRUE, type |-> a.type, mode |-> a.mode, mine |-> a.mine]

StdoutSize == 3   \* 1024 bytes
FreshScan == [seen |-> <<>>, gone |-> {}, ended |-> FALSE, whole |-> TRUE]

\* klee_init_fds().  Where chmod() and fchmod() are to fail is never set.
InitFds(s) ==
  LET names == {Names[i] : i \in 1..s.symFiles}
              \cup (IF s.stdinLen > 0 THEN {"stdin"} ELSE {})
              \cup (IF s.symStdout THEN {"stdout"} ELSE {})
      Size(f) == IF f = "stdin" THEN s.stdinLen ELSE IF f = "stdout" THEN StdoutSize ELSE s.fileLen
  IN  /\ nSym = s.symFiles
      /\ \E attr \in [names -> program.attrs] :
           files = [f \in names |-> NewDfile(Size(f), attr[f])]
      /\ fds = [i \in Fds |->
                 IF i > 2 THEN Blank
                 ELSE IF i = 0 /\ s.stdinLen > 0 THEN [Std(0) EXCEPT !.dfile = "stdin"]
                 ELSE IF i = 1 /\ s.symStdout THEN [Std(1) EXCEPT !.dfile = "stdout"]
                 ELSE Std(i)]
      /\ maxFailures = s.maxFail
      /\ failAt \in IF s.maxFail = 0 THEN {[op \in {} |-> 0]}
                    ELSE {g \in [FailOps \ {"chmod", "fchmod"} -> 0..MaxCalls] :
                            \A op \in DOMAIN g \ program.calls : g[op] = 0}
      /\ saveAll = s.saveAll
      /\ budget = [allowed |-> s.maxFail, injected |-> 0]

-----------------------------------------------------------------------------
(* What the functions share.                                               *)

Running(call) == outcome = "running" /\ call \in program.calls /\ steps < program.steps
Counted(op) == calls' = [calls EXCEPT ![op] = IF @ > MaxCalls THEN @ ELSE @ + 1]
GetFile(fd) == IF fd \in Fds /\ fds[fd].open THEN {fds[fd]} ELSE {}
Symbolic(f) == f.dfile # NoFile

\* __get_sym_file(): a deleted file is looked for in the operating system.
GetSymFile(path) ==
  IF path \in {Names[i] : i \in 1..nSym} /\ files[path].exists THEN path ELSE NoFile

Answer(r) == last' = r
Errno(e) == [ret |-> -1, errno |-> e]
Ret(n) == [ret |-> n, errno |-> "0"]
Keep == UNCHANGED <<fds, files, umask, stdoutWrites, scan>>
Settings == UNCHANGED <<saveAll, nSym, failAt>>
NoFailure == UNCHANGED <<maxFailures, budget, outcome>>

\* Is this call, the n-th of its kind, to fail?  Looking is an error if nothing
\* says which call it is.
Fails(op) == op \in DOMAIN failAt /\ maxFailures > 0 /\ failAt[op] = calls'[op]
Crashes(op) == op \notin DOMAIN failAt /\ maxFailures > 0
\* Mutant: the failures allowed are not used up.
InjectForFree(e) ==
  /\ UNCHANGED <<maxFailures, outcome>>
  /\ budget' = [budget EXCEPT !.injected = @ + 1]
  /\ Answer(Errno(e))
  /\ Keep
Inject(e) ==
  /\ maxFailures' = maxFailures - 1
  /\ budget' = [budget EXCEPT !.injected = @ + 1]
  /\ Answer(Errno(e))
  /\ Keep /\ UNCHANGED outcome
Abort(why) ==
  /\ outcome' = why
  /\ Answer(Errno("none"))
  /\ Keep /\ UNCHANGED <<maxFailures, budget>>

\* A call that may be made to fail: first that, then what it does.
MayFail(op, e, body) ==
  IF Crashes(op) THEN Abort("null pointer")
  ELSE IF Fails(op) THEN Inject(e)
  ELSE body /\ NoFailure

-----------------------------------------------------------------------------
(* open(), close(), dup().                                                 *)

FreeFds == {i \in Fds : ~fds[i].open}

HasR(mode) == mode \cap {"ur", "or"} # {}
HasW(mode) == mode \cap {"uw", "ow"} # {}

\* O_RDONLY is 0, so only O_RDWR asks to read: and is refused what can be read.
HasPermission(acc, mode) ==
  /\ ~(acc = "RDWR" /\ HasR(mode))
  /\ acc \in {"WRONLY", "RDWR"} => HasW(mode)

\* Why a symbolic file is not opened, if so.
Refusal(df, acc, opts) ==
  IF {"CREAT", "EXCL"} \subseteq opts THEN "EEXIST"
  ELSE IF "EXCL" \in opts THEN "EACCES"
  ELSE IF ~HasPermission(acc, files[df].mode) THEN "EACCES" ELSE "0"

Opened(f, acc) ==
  [f EXCEPT !.open = TRUE, !.readable = acc # "WRONLY", !.writeable = acc # "RDONLY"]

\* A descriptor of the operating system: the directory's, or that of some file.
OsFd(path) == IF path = "dir" THEN 100 ELSE 101

OpenOs(path, acc) ==
  LET fd == Min(FreeFds)
  IN  \/ /\ fds' = [fds EXCEPT ![fd] = Blank]
         /\ Answer(Errno("os")) /\ UNCHANGED <<files, umask, stdoutWrites, scan>>
      \/ /\ fds' = [fds EXCEPT ![fd] = Opened([Blank EXCEPT !.fd = OsFd(path)], acc)]
         /\ scan' = [scan EXCEPT ![fd] = FreshScan]
         /\ Answer(Ret(fd)) /\ UNCHANGED <<files, umask, stdoutWrites>>

\* The permissions are set anew whether or not the file is created.
OpenSym(df, acc, opts, mode) ==
  LET fd == Min(FreeFds)
      f == [Blank EXCEPT !.dfile = df]
      e == Refusal(df, acc, opts)
  IN  /\ UNCHANGED <<umask, stdoutWrites, scan>>
      /\ IF e # "0"
         THEN fds' = [fds EXCEPT ![fd] = f] /\ Answer(Errno(e)) /\ UNCHANGED files
         ELSE /\ fds' = [fds EXCEPT ![fd] = Opened(f, acc)]
              /\ files' = [files EXCEPT ![df].mode = mode \ umask]
              /\ Answer(Ret(fd))

FdOpen(path, acc, opts, mode) ==
  IF FreeFds = {} THEN Answer(Errno("EMFILE")) /\ Keep
  ELSE IF GetSymFile(path) = NoFile THEN OpenOs(path, acc)
  ELSE OpenSym(GetSymFile(path), acc, opts, mode)

\* open(): no mode without O_CREAT.
Open(path, acc, opts, mode) ==
  /\ Running("open")
  /\ mode # {} => "CREAT" \in opts
  /\ FdOpen(path, acc, opts, mode)
  /\ Settings /\ NoFailure /\ UNCHANGED calls

OpenAt(base, path, acc, opts, mode) ==
  /\ Running("open")
  /\ mode # {} => "CREAT" \in opts
  /\ IF base # AT_FDCWD /\ GetFile(base) = {} THEN Answer(Errno("EBADF")) /\ Keep
     ELSE IF \E f \in GetFile(base) : Symbolic(f) THEN Answer(Errno("ENOENT")) /\ Keep
     ELSE FdOpen(path, acc, opts, mode)
  /\ Settings /\ NoFailure /\ UNCHANGED calls

Close(fd) ==
  /\ Running("close")
  /\ Counted("close")
  /\ IF GetFile(fd) = {} THEN Answer(Errno("EBADF")) /\ Keep /\ NoFailure
     ELSE MayFail("close", "EIO",
            /\ fds' = [fds EXCEPT ![fd] = Blank]
            /\ Answer(Ret(0)) /\ UNCHANGED <<files, umask, stdoutWrites, scan>>)
  /\ Settings

\* The new descriptor is closed first, in vain if that is made to fail; the copy has an
\* offset of its own.
Duplicated(old, new) ==
  /\ fds' = [fds EXCEPT ![new] = [fds[old] EXCEPT !.cloexec = FALSE]]
  /\ scan' = [scan EXCEPT ![new] = scan[old]]
  /\ Answer(Ret(new))
  /\ UNCHANGED <<files, umask, stdoutWrites>>

Dup2(old, new) ==
  /\ Running("dup2")
  /\ IF GetFile(old) = {} \/ new \notin Fds
     THEN Answer(Errno("EBADF")) /\ Keep /\ NoFailure /\ UNCHANGED calls
     ELSE IF ~fds[new].open THEN Duplicated(old, new) /\ NoFailure /\ UNCHANGED calls
     ELSE /\ Counted("close")
          /\ IF old = new   \* closed before it is copied
             THEN IF Fails("close")
                  THEN /\ Duplicated(old, new) /\ UNCHANGED outcome
                       /\ maxFailures' = maxFailures - 1
                       /\ budget' = [budget EXCEPT !.injected = @ + 1]
                  ELSE /\ fds' = [fds EXCEPT ![new] = Blank]
                       /\ Answer(Ret(new)) /\ NoFailure
                       /\ UNCHANGED <<files, umask, stdoutWrites, scan>>
             ELSE /\ Duplicated(old, new) /\ UNCHANGED outcome
                  /\ maxFailures' = IF Fails("close") THEN maxFailures - 1 ELSE maxFailures
                  /\ budget' = IF Fails("close") THEN [budget EXCEPT !.injected = @ + 1] ELSE budget
  /\ Settings

Dup(old) ==
  /\ Running("dup")
  /\ IF GetFile(old) = {} THEN Answer(Errno("EBADF")) /\ Keep
     ELSE IF FreeFds = {} THEN Answer(Errno("EMFILE")) /\ Keep
     ELSE Duplicated(old, Min(FreeFds))
  /\ Settings /\ NoFailure /\ UNCHANGED calls

-----------------------------------------------------------------------------
(* read(), write(), lseek().                                               *)

\* The operating system's files are never at their end, and may fail; a directory is not read.
ReadOs(fd, count) ==
  \/ Answer(Errno("os")) /\ Keep
  \/ \E r \in 0..count :
       /\ fds[fd].fd # OsFd("dir")
       /\ fds' = IF fds[fd].fd = 0 THEN fds ELSE [fds EXCEPT ![fd].off = @ + r]
       /\ Answer(Ret(r)) /\ UNCHANGED <<files, umask, stdoutWrites, scan>>

ReadSym(fd, count) ==
  LET f == fds[fd]
      left == files[f.dfile].size - f.off
      n == Min({count, left})
  IN  IF left < 0 THEN Answer(Ret(0)) /\ Keep
      ELSE /\ fds' = [fds EXCEPT ![fd].off = @ + n]
           /\ Answer(Ret(n)) /\ UNCHANGED <<files, umask, stdoutWrites, scan>>

Read(fd, count, null) ==
  /\ Running("read")
  /\ Counted("read")
  /\ IF count = 0 THEN Answer(Ret(0)) /\ Keep /\ NoFailure
     ELSE IF null THEN Answer(Errno("EFAULT")) /\ Keep /\ NoFailure
     ELSE IF GetFile(fd) = {} THEN Answer(Errno("EBADF")) /\ Keep /\ NoFailure
     ELSE MayFail("read", "EIO", IF Symbolic(fds[fd]) THEN ReadSym(fd, count) ELSE ReadOs(fd, count))
  /\ Settings

WriteOs(fd, count) ==
  \/ Answer(Errno("os")) /\ Keep
  \/ \E r \in 0..count :
       /\ fds[fd].fd # OsFd("dir")
       /\ fds' = IF fds[fd].fd \in {1, 2} THEN fds ELSE [fds EXCEPT ![fd].off = @ + r]
       /\ Answer(Ret(r)) /\ UNCHANGED <<files, umask, stdoutWrites, scan>>

\* How much of a write a symbolic file takes: its size never changes.
Taken(f, count) == Max({0, Min({count, files[f.dfile].size - f.off})})
WriteSym(fd, count) ==
  LET f == fds[fd]
  IN  /\ fds' = [fds EXCEPT ![fd].off = @ + count]
      /\ stdoutWrites' = IF f.dfile = "stdout" THEN stdoutWrites + Taken(f, count) ELSE stdoutWrites
      /\ Answer(Ret(count)) /\ UNCHANGED <<files, umask, scan>>

Write(fd, count) ==
  /\ Running("write")
  /\ Counted("write")
  /\ IF GetFile(fd) = {} THEN Answer(Errno("EBADF")) /\ Keep /\ NoFailure
     ELSE IF /\ Symbolic(fds[fd]) /\ saveAll /\ ~Fails("write")
             /\ fds[fd].off + count > files[fds[fd].dfile].size
          THEN Abort("assertion")
     ELSE MayFail("write", "EIO", IF Symbolic(fds[fd]) THEN WriteSym(fd, count) ELSE WriteOs(fd, count))
  /\ Settings

\* Going back to where the directory listing has been, or to the beginning.
Rewound(s, off) ==
  LET kept == {n \in 0..Len(s.seen) : n = 0 \/ s.seen[n].off <= off}
      at == (off = 0) \/ (\E n \in DOMAIN s.seen : s.seen[n].off = off)
  IN  [s EXCEPT !.seen = SubSeq(@, 1, IF off = 0 THEN 0 ELSE Max(kept)), !.ended = FALSE,
                !.gone = IF off = 0 THEN {} ELSE @, !.whole = (@ \/ off = 0) /\ at]

\* Where a seek ends up, or NoFd if it is refused.
Target(fd, offset, whence) ==
  LET new == CASE whence = "SET" -> offset
               [] whence = "CUR" -> fds[fd].off + offset
               [] whence = "END" -> IF Symbolic(fds[fd]) THEN files[fds[fd].dfile].size + offset
                                    ELSE Pad + offset
  IN  IF new < 0 THEN NoFd ELSE new

LSeek(fd, offset, whence) ==
  /\ Running("lseek")
  /\ IF GetFile(fd) = {} THEN Answer(Errno("EBADF")) /\ Keep
     ELSE LET new == Target(fd, offset, whence)
          IN  \/ /\ new = NoFd \/ ~Symbolic(fds[fd])
                 /\ Answer(Errno("EINVAL")) /\ Keep
              \/ /\ new # NoFd /\ new <= MaxOff
                 /\ fds' = [fds EXCEPT ![fd].off = new]
                 /\ scan' = [scan EXCEPT ![fd] = Rewound(@, new)]
                 /\ Answer(Ret(new)) /\ UNCHANGED <<files, umask, stdoutWrites>>
  /\ Settings /\ NoFailure /\ UNCHANGED calls

-----------------------------------------------------------------------------
(* getdents(): the symbolic files, a deleted entry that fills up the rest  *)
(* of the 4096 bytes, then what the operating system lists, its offsets    *)
(* moved.  A listing buffer holds count entries; one with no room for the  *)
(* symbolic files and the deleted entry is written past its end, which the *)
(* program's memory does not survive (Memory, not this module).            *)

\* A set of numbers in order, each at its rank.
Ascending(S) == [k \in 1..Cardinality(S) |-> CHOOSE i \in S : Cardinality({j \in S : j <= i}) = k]

Listed(i) == [name |-> Names[i], off |-> i]
Present(i) == files[Names[i]].exists

GetDentsOwn(fd, count) ==
  LET from == fds[fd].off
      shown == Ascending({i \in from + 1 .. nSym : Present(i)})
  IN  IF from > nSym THEN Answer(Errno("EINVAL")) /\ Keep
      ELSE /\ count > nSym - from
           /\ fds' = [fds EXCEPT ![fd].off = Min({count, Pad})]
           /\ scan' = [scan EXCEPT ![fd].seen = @ \o [k \in DOMAIN shown |-> Listed(shown[k])],
                                   ![fd].whole = @ /\ count >= Pad]
           /\ Answer(Ret(Min({count, Pad}))) /\ UNCHANGED <<files, umask, stdoutWrites>>

\* Mutant: the operating system's offset is taken as it is.
GetDentsUnmoved(fd, count) ==
  \E n \in 0 .. Min({count, Len(OsEntries) - (fds[fd].off - Pad)}) :
    LET from == fds[fd].off - Pad
    IN  /\ n = 0 => from = Len(OsEntries)
        /\ fds' = [fds EXCEPT ![fd].off = from + n]
        /\ scan' = [scan EXCEPT ![fd].seen = @ \o [k \in 1..n |->
                                   [name |-> OsEntries[from + k], off |-> Pad + from + k]],
                                ![fd].ended = n = 0]
        /\ Answer(Ret(n)) /\ UNCHANGED <<files, umask, stdoutWrites>>

GetDentsOs(fd, count) ==
  \E n \in 0 .. Min({count, Len(OsEntries) - (fds[fd].off - Pad)}) :
    LET from == fds[fd].off - Pad
    IN  /\ n = 0 => from = Len(OsEntries)
        /\ fds' = [fds EXCEPT ![fd].off = Pad + from + n]
        /\ scan' = [scan EXCEPT ![fd].seen = @ \o [k \in 1..n |->
                                   [name |-> OsEntries[from + k], off |-> Pad + from + k]],
                                ![fd].ended = n = 0]
        /\ Answer(Ret(n)) /\ UNCHANGED <<files, umask, stdoutWrites>>

GetDents(fd, count) ==
  /\ Running("getdents")
  /\ IF GetFile(fd) = {} THEN Answer(Errno("EBADF")) /\ Keep
     ELSE IF Symbolic(fds[fd]) THEN Answer(Errno("EINVAL")) /\ Keep
     ELSE IF fds[fd].off < Pad THEN GetDentsOwn(fd, count)
     ELSE IF fds[fd].fd # OsFd("dir") \/ fds[fd].off - Pad > Len(OsEntries)
          THEN Answer(Errno("os")) /\ Keep
     ELSE GetDentsOs(fd, count)
  /\ Settings /\ NoFailure /\ UNCHANGED calls

-----------------------------------------------------------------------------
(* Permissions, deletion, descriptor flags.                                *)

UMask(mask) ==
  /\ Running("umask")
  /\ umask' = mask
  /\ Answer([ret |-> 0, errno |-> "0"])
  /\ UNCHANGED <<fds, files, stdoutWrites, scan, calls>> /\ Settings /\ NoFailure

\* __df_chmod()
DfChMod(df, mode) ==
  IF ~files[df].mine THEN Answer(Errno("EPERM")) /\ Keep
  ELSE /\ files' = [files EXCEPT ![df].mode = mode]
       /\ Answer(Ret(0)) /\ UNCHANGED <<fds, umask, stdoutWrites, scan>>

PassedOn == (Answer(Errno("os")) \/ Answer(Ret(0))) /\ Keep

ChMod(path, mode) ==
  /\ Running("chmod")
  /\ Counted("chmod")
  /\ MayFail("chmod", "EIO",
       IF GetSymFile(path) = NoFile THEN PassedOn ELSE DfChMod(GetSymFile(path), mode))
  /\ Settings

FChMod(fd, mode) ==
  /\ Running("fchmod")
  /\ IF GetFile(fd) = {} THEN Answer(Errno("EBADF")) /\ Keep /\ NoFailure /\ UNCHANGED calls
     ELSE /\ Counted("fchmod")
          /\ MayFail("fchmod", "EIO",
               IF Symbolic(fds[fd]) THEN DfChMod(fds[fd].dfile, mode) ELSE PassedOn)
  /\ Settings

FTruncate(fd) ==
  /\ Running("ftruncate")
  /\ Counted("ftruncate")
  /\ IF GetFile(fd) = {} THEN Answer(Errno("EBADF")) /\ Keep /\ NoFailure
     ELSE MayFail("ftruncate", "EIO",
            IF Symbolic(fds[fd]) THEN Answer(Errno("EIO")) /\ Keep ELSE PassedOn)
  /\ Settings

GetCwd ==
  /\ Running("getcwd")
  /\ Counted("getcwd")
  /\ MayFail("getcwd", "ERANGE", PassedOn)
  /\ Settings

\* rmdir() and unlink(): only what is symbolic is ever deleted; descriptors stay.
Deleted(df) ==
  /\ files' = [files EXCEPT ![df].exists = FALSE]
  /\ scan' = [fd \in Fds |-> [scan[fd] EXCEPT !.gone = @ \cup {df}]]
  /\ Answer(Ret(0)) /\ UNCHANGED <<fds, umask, stdoutWrites>>

RmDir(path) ==
  LET df == GetSymFile(path)
  IN  /\ Running("rmdir")
      /\ IF df = NoFile THEN Answer(Errno("EPERM")) /\ Keep
         ELSE IF files[df].type = "dir" THEN Deleted(df)
         ELSE Answer(Errno("ENOTDIR")) /\ Keep
      /\ Settings /\ NoFailure /\ UNCHANGED calls

\* unlink(), unlinkat()
Unlink(path) ==
  LET df == GetSymFile(path)
  IN  /\ Running("unlink")
      /\ IF df = NoFile THEN Answer(Errno("EPERM")) /\ Keep
         ELSE IF files[df].type = "reg" THEN Deleted(df)
         ELSE Answer(Errno(IF files[df].type = "dir" THEN "EISDIR" ELSE "EPERM")) /\ Keep
      /\ Settings /\ NoFailure /\ UNCHANGED calls

SetFd(fd, cloexec) ==
  /\ Running("fcntl")
  /\ IF GetFile(fd) = {} THEN Answer(Errno("EBADF")) /\ Keep
     ELSE IF ~Symbolic(fds[fd]) THEN PassedOn
     ELSE /\ fds' = [fds EXCEPT ![fd].cloexec = cloexec]
          /\ Answer(Ret(0)) /\ UNCHANGED <<files, umask, stdoutWrites, scan>>
  /\ Settings /\ NoFailure /\ UNCHANGED calls

-----------------------------------------------------------------------------
(* select(): symbolic files are always ready; the operating system is      *)
(* asked about its own descriptors, and its answer translated back.        *)

Sets == {a \in [read : SUBSET Fds, write : SUBSET Fds] : Cardinality(a.read) + Cardinality(a.write) = 2}
AskedFor(asked) == asked.read \cup asked.write
OsOf(S) == {fds[i].fd : i \in {j \in S : fds[j].open /\ ~Symbolic(fds[j])}}
SymOf(S) == {i \in S : fds[i].open /\ Symbolic(fds[i])}

\* Mutant: the operating system's numbers are taken for the program's.
BackByNumber(asked, ready) == {i \in 0 .. Max(AskedFor(asked)) : i \in ready}

\* All descriptors up to the last one asked for that the operating system finds ready.
Back(asked, ready) == {i \in 0 .. Max(AskedFor(asked)) : fds[i].open /\ ~Symbolic(fds[i]) /\ fds[i].fd \in ready}

Selected(asked, got, count) ==
  /\ Answer([ret |-> count, errno |-> "0", asked |-> asked, got |-> got])
  /\ Keep

Select(asked) ==
  LET own == [read |-> SymOf(asked.read), write |-> SymOf(asked.write)]
      count == Cardinality(own.read \cup own.write)
  IN  /\ Running("select")
      /\ AskedFor(asked) # {}
      /\ IF \E i \in AskedFor(asked) : ~fds[i].open THEN Answer(Errno("EBADF")) /\ Keep
         ELSE IF OsOf(AskedFor(asked)) = {} THEN Selected(asked, own, count)
         ELSE \/ IF count = 0 THEN Answer(Errno("os")) /\ Keep ELSE Selected(asked, own, count)
              \/ \E r \in SUBSET OsOf(asked.read), w \in SUBSET OsOf(asked.write) :
                   Selected(asked,
                     [read  |-> own.read \cup (IF asked.read = {} THEN {} ELSE Back(asked, r)),
                      write |-> own.write \cup (IF asked.write = {} THEN {} ELSE Back(asked, w))],
                     count + Cardinality(r) + Cardinality(w))
      /\ Settings /\ NoFailure /\ UNCHANGED calls

-----------------------------------------------------------------------------
(* Calls that change nothing here: what they answer about a symbolic file. *)

PathAnswers ==
  [access |-> "0", stat |-> "0", lstat |-> "0", utimes |-> "0", chdir |-> "ENOENT",
   statfs |-> "ENOENT", chown |-> "EPERM", lchown |-> "EPERM"]
FdAnswers ==
  [fstat |-> "0", fsync |-> "0", getfl |-> "0", fchdir |-> "ENOENT", fchown |-> "EPERM",
   fstatfs |-> "EBADF", fcntl |-> "EINVAL"]

Told(e) == Answer(IF e = "0" THEN Ret(0) ELSE Errno(e)) /\ Keep

AskPath(call, path) ==
  /\ Running("ask")
  /\ IF GetSymFile(path) = NoFile THEN PassedOn ELSE Told(PathAnswers[call])
  /\ Settings /\ NoFailure /\ UNCHANGED calls

AskFd(call, fd) ==
  /\ Running("ask")
  /\ IF GetFile(fd) = {} THEN Told("EBADF")
     ELSE IF Symbolic(fds[fd]) THEN Told(FdAnswers[call]) ELSE PassedOn
  /\ Settings /\ NoFailure /\ UNCHANGED calls

\* fstatat(), futimesat()
AskAt(base, path) ==
  /\ Running("ask")
  /\ IF base # AT_FDCWD /\ GetFile(base) = {} THEN Told("EBADF")
     ELSE IF \E f \in GetFile(base) : Symbolic(f) THEN Told("ENOENT")
     ELSE IF GetSymFile(path) = NoFile THEN PassedOn ELSE Told("0")
  /\ Settings /\ NoFailure /\ UNCHANGED calls

ReadLink(path) ==
  LET df == GetSymFile(path)
  IN  /\ Running("ask")
      /\ IF df = NoFile THEN PassedOn
         ELSE Told(IF files[df].type = "lnk" THEN "0" ELSE "EINVAL")
      /\ Settings /\ NoFailure /\ UNCHANGED calls

Requests == {"TCGETS", "TCSETS", "TCSETSF", "TIOCGWINSZ", "TCSETSW", "TIOCSWINSZ", "FIONREAD", "MTIOCGET"}
IoCtlAnswer(fd, request) ==
  LET chr == files[fds[fd].dfile].type = "chr"
  IN  CASE request = "MTIOCGET"   -> Errno("EINVAL")
        [] request = "TCSETSW"    -> IF fd = 0 THEN Ret(0) ELSE Errno("ENOTTY")
        [] request = "TIOCSWINSZ" -> Errno(IF chr THEN "EINVAL" ELSE "ENOTTY")
        [] request = "FIONREAD"   -> IF chr THEN Ret(Max({0, files[fds[fd].dfile].size - fds[fd].off}))
                                     ELSE Errno("ENOTTY")
        [] OTHER                  -> IF chr THEN Ret(0) ELSE Errno("ENOTTY")

IoCtl(fd, request) ==
  /\ Running("ask")
  /\ IF GetFile(fd) = {} THEN Told("EBADF")
     ELSE IF Symbolic(fds[fd]) THEN Answer(IoCtlAnswer(fd, request)) /\ Keep ELSE PassedOn
  /\ Settings /\ NoFailure /\ UNCHANGED calls

\* Calls that only ever fail (or only ever succeed).
ProcessStubs ==
  [kill |-> "EPERM", exec |-> "EACCES", fork |-> "ENOMEM", vfork |-> "ENOMEM",
   wait |-> "ECHILD", sigaction |-> "0", sigprocmask |-> "0"]
FileStubs ==
  [mkdir |-> "EIO", mkfifo |-> "EIO", mknod |-> "EIO", pipe |-> "ENFILE", link |-> "EPERM",
   symlink |-> "EPERM", rename |-> "EPERM", fdatasync |-> "0", utime |-> "EPERM", futimes |-> "EBADF"]
SystemStubs ==
  [mount |-> "EPERM", umount |-> "EPERM", swapon |-> "EPERM", swapoff |-> "EPERM", setgid |-> "0",
   setuid |-> "0", setgroups |-> "EPERM", sethostname |-> "EPERM", setpgid |-> "EPERM",
   setpriority |-> "EPERM", setresuid |-> "EPERM", setrlimit |-> "EPERM", setsid |-> "EPERM",
   settimeofday |-> "EPERM", clock_settime |-> "EPERM", nanosleep |-> "0", reboot |-> "EPERM",
   mlock |-> "EPERM", munlock |-> "EPERM", pause |-> "EPERM", readahead |-> "EPERM", mmap |-> "EPERM"]

Stub(table, call) ==
  /\ Running("ask")
  /\ Told(table[call])
  /\ Settings /\ NoFailure /\ UNCHANGED calls

-----------------------------------------------------------------------------
Init ==
  /\ program \in Programs
  /\ InitFds(InitEnv(program.line))
  /\ umask = {"ow"}
  /\ stdoutWrites = 0
  /\ calls = [op \in FailOps |-> 0]
  /\ last = Ret(0)
  /\ scan = [fd \in Fds |-> FreshScan]
  /\ outcome = "running"
  /\ steps = 0

Accs == {"RDONLY", "WRONLY", "RDWR"}
Paths == {Names[i] : i \in 1..nSym} \cup OsPaths
SomeModes == {{}, {"ur", "uw"}}

Call ==
  \/ \E path \in Paths, o \in program.opens :
       \/ Open(path, o.acc, o.opts, o.mode)
       \/ \E base \in Fds \cup {AT_FDCWD} : OpenAt(base, path, o.acc, o.opts, o.mode)
  \/ \E path \in Paths, mode \in SomeModes : ChMod(path, mode)
  \/ \E fd \in Fds :
       \/ Close(fd) \/ Dup(fd) \/ (\E new \in Fds : Dup2(fd, new)) \/ FTruncate(fd)
       \/ \E count \in 0..2 : Read(fd, count, FALSE) \/ Read(fd, count, TRUE) \/ Write(fd, count)
       \/ \E offset \in -1..1 : \E whence \in {"SET", "CUR", "END"} : LSeek(fd, offset, whence)
       \/ \E count \in 1..Pad : GetDents(fd, count)
       \/ \E mode \in SomeModes : FChMod(fd, mode)
       \/ \E cloexec \in BOOLEAN : SetFd(fd, cloexec)
       \/ \E call \in DOMAIN FdAnswers : AskFd(call, fd)
       \/ \E request \in Requests : IoCtl(fd, request)
  \/ \E path \in Paths :
       \/ RmDir(path) \/ Unlink(path) \/ ReadLink(path)
       \/ \E call \in DOMAIN PathAnswers : AskPath(call, path)
       \/ \E base \in Fds \cup {AT_FDCWD} : AskAt(base, path)
  \/ \E mask \in SomeModes : UMask(mask)
  \/ \E asked \in Sets : Select(asked)
  \/ \E call \in DOMAIN ProcessStubs : Stub(ProcessStubs, call)
  \/ \E call \in DOMAIN FileStubs : Stub(FileStubs, call)
  \/ \E call \in DOMAIN SystemStubs : Stub(SystemStubs, call)
  \/ GetCwd

Count ==
  steps' = IF UNCHANGED <<fds, files, umask, stdoutWrites, maxFailures, scan, outcome>>
           THEN steps ELSE steps + 1

Next == Call /\ Count /\ UNCHANGED program

Spec == Init /\ [][Next]_vars

-----------------------------------------------------------------------------
(* What programs, and the user, rely on.                                   *)

\* No more calls are made to fail than the user allows, and none is forgotten.
FailuresAreBudgeted == maxFailures >= 0 /\ budget.injected + maxFailures = budget.allowed

\* Reading a directory, with seeks back to where the reading has been, lists no file
\* twice, and to the end all of them, but those deleted meanwhile: in buffers of Pad
\* entries.  A smaller one leaves the offset among the runtime's own entries, where the
\* next call fails, lists files again, or lists nothing for ever.
ScanIsComplete ==
  \A fd \in Fds :
    LET s == scan[fd]
        names == {s.seen[n].name : n \in DOMAIN s.seen}
    IN  s.whole =>
          /\ Len(s.seen) = Cardinality(names)
          /\ s.ended => /\ ToSet(OsEntries) \subseteq names
                        /\ {f \in {Names[i] : i \in 1..nSym} : files[f].exists} \subseteq names
          /\ \A f \in names : f \in DOMAIN files /\ ~files[f].exists => f \in s.gone

\* What select() reports was asked for, itself or under another number, and every
\* symbolic file asked for is ready.
SelectAnswersWhatWasAsked ==
  "got" \in DOMAIN last =>
    \A kind \in {"read", "write"} :
      /\ SymOf(last.asked[kind]) \subseteq last.got[kind]
      /\ \A i \in last.got[kind] : i \in last.asked[kind] \/ fds[i].fd \in OsOf(last.asked[kind])
      /\ (last.ret = 0) <=> (last.got.read \cup last.got.write = {})

=============================================================================
