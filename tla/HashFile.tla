------------------------------ MODULE HashFile ------------------------------
(***************************************************************************)
(* src-std/b0_hash.ml, file, and the stubs it calls, b0_hash_stubs.c: a    *)
(* file is opened, its size asked, mapped, hashed through the mapping,     *)
(* unmapped and closed.  Other programs write and truncate it meanwhile.   *)
(*                                                                         *)
(* Sizes are in pages; the page i of a file is the write it comes from.    *)
(* What a call holds is counted over all the calls of the program: b0      *)
(* hashes many files in a build.                                           *)
(***************************************************************************)
EXTENDS Integers, Sequences

CONSTANTS
  Platform,  \* of "posix" (with Darwin), "windows", "other"
  Impl,      \* of "xxhash", "murmur3": B0_HASH
  IntMax,    \* the pages of 2^31 bytes, what an int cannot count
  MaxSize,   \* bound on the size of the file
  MaxWrites, \* bound on the writes of other programs
  MaxCalls   \* bound on the calls of file

ASSUME Builds == Platform \subseteq {"posix", "windows", "other"} /\ Impl \subseteq {"xxhash", "murmur3"}
ASSUME IntMaxIsPositive == IntMax \in Nat \ {0}

VARIABLES
  build,   \* [platform, impl]: how the program was built and started
  file,    \* the pages of the file
  writes,  \* the writes of other programs so far
  calls,   \* the calls so far
  pc,      \* where file is: "idle", a system call, "hash", or "killed"
  size,    \* *size
  read,    \* the pages the function read
  held,    \* what was got and not given back: [fd, handle, view -> Int]
  raised,  \* the calls that ended with an exception
  steady,  \* no write since the file was opened
  result   \* of the last call

fileVars == <<build, file, writes, calls, pc, size, read, held, raised, steady, result>>

None == [kind |-> "none"]
Error == [kind |-> "error"]
Raised == [kind |-> "raised"]
Posix == build.platform = "posix"
Windows == build.platform = "windows"

FileInit ==
  /\ build \in [platform : Platform, impl : Impl]
  /\ file \in UNION {[1 .. n -> {0}] : n \in 0 .. MaxSize}
  /\ writes = 0 /\ calls = 0 /\ pc = "idle" /\ size = 0 /\ read = <<>>
  /\ held = [fd |-> 0, handle |-> 0, view |-> 0]
  /\ raised = 0 /\ steady = TRUE /\ result = None

Get(r) == held' = [held EXCEPT ![r] = @ + 1]
Give(r) == held' = [held EXCEPT ![r] = @ - 1]

Return(r) == pc' = "idle" /\ result' = r /\ raised' = IF r = Raised THEN raised + 1 ELSE raised

\* OCAML_B0_RAISE_SYS_ERROR: file catches Unix.Unix_error only, the exception
\* leaves it and fd stays open.
RaiseSysError == Return(Raised) /\ UNCHANGED held

\* The step goes on to another one.
Goto(l) == pc' = l /\ UNCHANGED <<raised, result>>

Same == UNCHANGED <<build, file, writes, calls, size, read, steady>>

\* Unix.openfile: a missing file, or too many open ones.
Open ==
  /\ pc = "idle" /\ calls < MaxCalls
  /\ calls' = calls + 1 /\ read' = <<>> /\ steady' = TRUE
  /\ \/ Goto("stat") /\ Get("fd")
     \/ Return(Error) /\ UNCHANGED held
  /\ UNCHANGED <<build, file, writes, size>>

\* fstat or GetFileSizeEx.  "Mapping fails on empty files": there is none.  On
\* other platforms the stub answers a null pointer and leaves size at 0.
Stat ==
  /\ pc = "stat"
  /\ \/ /\ size' = IF Posix \/ Windows THEN Len(file) ELSE 0
        /\ Goto(IF size' = 0 THEN "hash" ELSE "map") /\ UNCHANGED held
     \/ (Posix \/ Windows) /\ RaiseSysError /\ UNCHANGED size
  /\ UNCHANGED <<build, file, writes, calls, read, steady>>

\* mmap does not look at the size of the file, but fails on a directory.
Mmap ==
  /\ pc = "map" /\ Posix
  /\ \/ Goto("advise") /\ Get("view")
     \/ RaiseSysError
  /\ Same

Madvise ==
  /\ pc = "advise"
  /\ \/ Goto("hash") /\ UNCHANGED held
     \/ RaiseSysError
  /\ Same

\* It fails on a file that became empty.
CreateFileMapping ==
  /\ pc = "map" /\ Windows
  /\ \/ file # <<>> /\ Goto("view") /\ Get("handle")
     \/ RaiseSysError
  /\ Same

\* It fails on a file that became smaller.  The error path closes c, the place
\* of the handle, and not the handle, which stays.
MapViewOfFile ==
  /\ pc = "view"
  /\ \/ size <= Len(file) /\ Goto("hash") /\ Get("view")
     \/ RaiseSysError
  /\ Same

\* Mutant: both functions count in an int.
LengthInt == LET n == size % (2 * IntMax) IN IF n < IntMax THEN n ELSE n - 2 * IntMax

\* The length the function is called with: MurmurHash3_x64_128 has an int for
\* it, XXH64 a size_t.
Length ==
  LET n == size % (2 * IntMax)
  IN  IF build.impl = "xxhash" THEN size ELSE IF n < IntMax THEN n ELSE n - 2 * IntMax

\* Mutant: a page too many.
ReadPast ==
  /\ pc = "hash" /\ Len(read) <= Length
  /\ \/ /\ Len(read) < Len(file)
        /\ read' = Append(read, file[Len(read) + 1]) /\ UNCHANGED pc
     \/ /\ Len(read) >= Len(file)
        /\ pc' = "killed" /\ UNCHANGED read
  /\ UNCHANGED <<build, file, writes, calls, size, held, raised, steady, result>>

\* The next page.  It may be gone by now: the program gets SIGBUS.  On Windows a
\* mapped file cannot be truncated.
ReadPage ==
  /\ pc = "hash" /\ Len(read) < Length
  /\ \/ /\ Len(read) < Len(file)
        /\ read' = Append(read, file[Len(read) + 1]) /\ UNCHANGED pc
     \/ /\ Len(read) >= Len(file)
        /\ pc' = "killed" /\ UNCHANGED read
  /\ UNCHANGED <<build, file, writes, calls, size, held, raised, steady, result>>

\* With a negative length there is no block, and up to 15 bytes are read from
\* before the mapping: the program may be killed.
ReadBefore ==
  /\ pc = "hash" /\ Length < 0
  /\ pc' = "killed"
  /\ UNCHANGED <<build, file, writes, calls, size, read, held, raised, steady, result>>

Hashed ==
  /\ pc = "hash" /\ Len(read) >= Length
  /\ Goto(IF size = 0 THEN "close" ELSE "unmap") /\ UNCHANGED held
  /\ Same

\* Mutant: the handle of the mapping is not closed.
UnmapKeepsHandle ==
  /\ pc = "unmap"
  /\ \/ Give("view") /\ Goto("close")
     \/ RaiseSysError
  /\ Same

\* munmap, or UnmapViewOfFile.
Unmap ==
  /\ pc = "unmap"
  /\ \/ Give("view") /\ Goto(IF Windows THEN "closemap" ELSE "close")
     \/ RaiseSysError
  /\ Same

CloseMapping ==
  /\ pc = "closemap"
  /\ \/ Give("handle") /\ Goto("close")
     \/ RaiseSysError
  /\ Same

\* Mutant: nothing is closed when there was nothing to map.
CloseIfMapped ==
  /\ pc = "close"
  /\ IF size = 0 THEN UNCHANGED held ELSE Give("fd")
  /\ Return([kind |-> "ok", len |-> Length, pages |-> read]) \/ Return(Error)
  /\ Same

\* An error of close, an I/O error for instance, is one of file.  The
\* descriptor is not open any more.
Close ==
  /\ pc = "close"
  /\ Give("fd")
  /\ Return([kind |-> "ok", len |-> Length, pages |-> read]) \/ Return(Error)
  /\ Same

-----------------------------------------------------------------------------
(* Other programs *)

Written(f) ==
  /\ writes < MaxWrites
  /\ file' = f /\ writes' = writes + 1 /\ steady' = FALSE
  /\ UNCHANGED <<build, calls, pc, size, read, held, raised, result>>

WritePage ==
  /\ file # <<>>
  /\ \E i \in 1 .. Len(file) : Written([file EXCEPT ![i] = writes + 1])
Extend == Len(file) < MaxSize /\ Written(Append(file, writes + 1))
Truncate ==
  /\ file # <<>> /\ ~ (Windows /\ held.view > 0)
  /\ \E n \in 0 .. Len(file) - 1 : Written(SubSeq(file, 1, n))

-----------------------------------------------------------------------------
File ==
  \/ Open \/ Stat \/ Mmap \/ Madvise \/ CreateFileMapping \/ MapViewOfFile
  \/ ReadPage \/ ReadBefore \/ Hashed \/ Unmap \/ CloseMapping \/ Close

FileNext == File \/ WritePage \/ Extend \/ Truncate

FileSpec == FileInit /\ [][FileNext]_fileVars

-----------------------------------------------------------------------------
(* Properties *)

TypeOK ==
  /\ build \in [platform : Platform, impl : Impl]
  /\ file \in Seq(0 .. MaxWrites) /\ read \in Seq(0 .. MaxWrites)
  /\ writes \in 0 .. MaxWrites /\ calls \in 0 .. MaxCalls /\ size \in 0 .. MaxSize
  /\ pc \in {"idle", "stat", "map", "advise", "view", "hash", "unmap", "closemap", "close", "killed"}
  /\ held \in [{"fd", "handle", "view"} -> Nat]
  /\ raised \in 0 .. calls /\ steady \in BOOLEAN
  /\ result.kind \in {"none", "ok", "error", "raised"}

\* The hash of a file that is not written meanwhile is the one of its whole
\* content, as long as the length type of the function holds its size and the
\* platform is supported.
OkIsTheContent ==
  (/\ pc = "idle" /\ result.kind = "ok" /\ steady
   /\ build.platform # "other"
   /\ build.impl = "murmur3" => Len(file) < IntMax)
    => result.len = Len(file) /\ result.pages = file

\* Between calls, what is still held is what the calls that ended with an
\* exception left, those of fstat, mmap, madvise, munmap and their counterparts on
\* Windows that failed: each its descriptor, and one view and one handle at most.
\* On Windows no view is left without its mapping.  A call that answers, be it an
\* error, leaves nothing.
LeftByRaised ==
  pc = "idle" =>
    /\ held.fd = raised
    /\ held.view \in 0 .. raised /\ held.handle \in 0 .. raised
    /\ IF Windows THEN held.view <= held.handle ELSE held.handle = 0

\* The functions read the mapping and nothing beyond it: the program is killed
\* only if the file was cut below its size, or if its length is not an int.
ReadsTheMapping ==
  [][pc # "killed" /\ pc' = "killed" =>
       Len(file) < size \/ (build.impl = "murmur3" /\ size >= IntMax)]_fileVars

\* "[file p] is the hash of file path [p]", a result: its errors are of that
\* type (b0.mli:2182).
FailuresAreResults == result # Raised
=============================================================================
