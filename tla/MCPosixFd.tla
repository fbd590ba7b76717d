----------------------------- MODULE MCPosixFd -----------------------------
(* TLC instance of PosixFd: what is run, and which of the calls it makes.  *)
EXTENDS PosixFd

Files(k, size) == [opt |-> "sym-files", n |-> k, len |-> size]
Stdin == [opt |-> "sym-stdin", n |-> 1]
Stdout == [opt |-> "sym-stdout"]
MaxFail(k) == [opt |-> "max-fail", n |-> k]
Program(line, attrs, made, opens, bound) ==
  [line |-> line, attrs |-> attrs, calls |-> made, opens |-> opens, steps |-> bound]

Mine(type) == [type |-> type, mode |-> {"ur", "uw"}, mine |-> TRUE]
Other(type) == [type |-> type, mode |-> {"uw", "or"}, mine |-> FALSE]
ReadOnly == [acc |-> "RDONLY", opts |-> {}, mode |-> {}]
WriteOnly == [acc |-> "WRONLY", opts |-> {}, mode |-> {}]
ReadWrite == [acc |-> "RDWR", opts |-> {"CREAT"}, mode |-> {"uw", "ow"}]
New == [acc |-> "WRONLY", opts |-> {"CREAT", "EXCL"}, mode |-> {"uw"}]
Exclusive == [acc |-> "RDONLY", opts |-> {"EXCL"}, mode |-> {}]

MCPrograms ==
  {Program(<<Files(2, 1), [opt |-> "sym-arg"]>>, {Mine("reg")},
           {"open", "getdents", "lseek", "unlink"}, {ReadOnly}, 5),
   Program(<<Stdin>>, {Mine("chr")},
           {"open", "close", "dup", "dup2", "select", "fcntl"}, {ReadOnly}, 2),
   Program(<<[opt |-> "fd-fail"], Stdin, MaxFail(2), [opt |-> "sym-args", n |-> 2]>>, {Mine("chr")},
           {"read", "write", "close", "dup2"}, {}, 2),
   Program(<<MaxFail(2), [opt |-> "other"]>>, {Mine("reg")},
           {"ftruncate", "getcwd", "chmod", "fchmod"}, {}, 3),
   Program(<<Files(1, 2)>>, {Mine("reg"), Other("dir"), Mine("chr"), Other("lnk")},
           {"open", "umask", "chmod", "fchmod", "unlink", "rmdir", "ask"},
           {WriteOnly, ReadWrite, New, Exclusive}, 2),
   Program(<<Files(1, 2)>>, {Mine("reg")}, {"open", "ftruncate", "getcwd"}, {WriteOnly}, 1),
   Program(<<Stdout, [opt |-> "save-all-writes"]>>, {Mine("chr")},
           {"write", "lseek"}, {}, 3)}
MCOsEntries == <<"x", "y">>
=============================================================================
