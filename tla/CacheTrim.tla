------------------------------ MODULE CacheTrim ------------------------------
(***************************************************************************)
(* bzsize (src-exe/bzsize.ml) and the deletion functions it calls in       *)
(* src-lib/b0_cache.ml: a cache directory is brought down to a size, the   *)
(* files no build directory links to first.                                *)
(*                                                                         *)
(* The directory is listed, each file is examined, then files are deleted  *)
(* one by one; other runs of bzsize and builds act between two of these    *)
(* steps.  Cache has each deletion as its action Delete, at any time.      *)
(***************************************************************************)
EXTENDS Integers, Sequences, FiniteSets

CONSTANTS
  Proc,     \* runs of bzsize
  Listing,  \* the names of cache files, in the order Dir.contents gives them
  Size,     \* byte size, by name
  Atime,    \* time of last access, by name
  Options,  \* command lines: [unused : BOOLEAN, pct : 0 .. 100, bytes : Nat or NoSize]
  NoSize

File == {Listing[i] : i \in DOMAIN Listing}
BytesOf(fs) == UNION {{f} \X (1 .. Size[f]) : f \in fs}
Bytes(fs) == Cardinality(BytesOf(fs))

FilesOfCache ==
  /\ Listing \in Seq(File)
  /\ \A i, j \in DOMAIN Listing : Listing[i] = Listing[j] => i = j
  /\ \A f \in File : Size[f] \in Nat /\ Atime[f] \in Nat
CommandLines ==
  /\ Options \subseteq [unused : BOOLEAN, pct : 0 .. 100, bytes : Nat \cup {NoSize}]
  /\ NoSize \notin Nat

VARIABLES
  cache,   \* the files in the directory
  linked,  \* those with a link count above 1
  opts,    \* Proc -> its command line
  pc,      \* Proc -> "start", "unused", "unlink", "stat", "trim", "exit"
  todo,    \* Proc -> the files still to visit
  found,   \* Proc -> what stat gave for the others: [file, unused]
  current, \* Proc -> current of delete_files
  budget,  \* Proc -> the size to reach
  listed,  \* Proc -> history: the files it listed that were not put again since
  alone    \* Proc -> history: only trims deleted files since, and links stayed

vars == <<cache, linked, opts, pc, todo, found, current, budget, listed, alone>>
locals == <<opts, pc, todo, found, current, budget>>

NoOption == [unused |-> FALSE, pct |-> 100, bytes |-> NoSize]

Init ==
  /\ cache = {} /\ linked = {}
  /\ opts = [p \in Proc |-> NoOption]
  /\ pc = [p \in Proc |-> "start"]
  /\ todo = [p \in Proc |-> {}] /\ found = [p \in Proc |-> {}]
  /\ current = [p \in Proc |-> 0] /\ budget = [p \in Proc |-> 0]
  /\ listed = [p \in Proc |-> {}] /\ alone = [p \in Proc |-> FALSE]

-----------------------------------------------------------------------------
(* The size to reach *)

Log2(n) == CHOOSE k \in 0 .. n : 2^k <= n /\ n < 2^(k + 1)

\* The exponent that brings t / 100 between 1 and 2.
Shift(t) == IF t >= 100 THEN - Log2(t \div 100)
            ELSE CHOOSE s \in 1 .. 7 : t * 2^s \in 100 .. 199

\* truncate ((float total /. 100.) *. float pct) in double precision, for a
\* total below 2^45.  The quotient has 53 bits: it is below total / 100 if the
\* remainder of total * 2^(52 + Shift) by 100 is rounded down (the powers of 2
\* from 2^2 on repeat modulo 100 after 20).  A product that is a whole number
\* but for that is truncated to the one before, if what was lost is more than
\* half the distance of doubles there.
PctSize(total, pct) ==
  LET n == (total * pct) \div 100
      lost == ((total % 100) * 2^(2 + ((50 + Shift(total)) % 20))) % 100
      ulp == 2^(Log2(n) + Shift(total) + (IF n = 2^Log2(n) THEN 0 ELSE 1))
  IN IF n > 0 /\ n * 100 = total * pct /\ lost < 50 /\ lost * pct > 25 * ulp
     THEN n - 1 ELSE n

Budget(o, total) ==
  LET size == PctSize(total, o.pct)
  IN IF o.bytes # NoSize /\ o.bytes < size THEN o.bytes ELSE size

-----------------------------------------------------------------------------
(* A run of bzsize *)

\* Dir.contents, for delete_unused_files or for sort_files_by_deletion.
List(p, next) ==
  /\ pc' = [pc EXCEPT ![p] = next]
  /\ todo' = [todo EXCEPT ![p] = cache]
  /\ listed' = [listed EXCEPT ![p] = cache]
  /\ alone' = [alone EXCEPT ![p] = TRUE]

Trims(o) == o.pct # 100 \/ o.bytes # NoSize

Start(p, o) ==
  /\ pc[p] = "start"
  /\ o.unused \/ Trims(o)
  /\ opts' = [opts EXCEPT ![p] = o]
  /\ List(p, IF o.unused THEN "unused" ELSE "stat")
  /\ UNCHANGED <<cache, linked, found, current, budget>>

Goto(p, next) == pc' = [pc EXCEPT ![p] = next]
Index == [f \in File |-> CHOOSE i \in DOMAIN Listing : Listing[i] = f]
First(p) ==
  Listing[CHOOSE i \in DOMAIN Listing :
            Listing[i] \in todo[p] /\ \A j \in 1 .. (i - 1) : Listing[j] \notin todo[p]]

Visiting(p, at) == pc[p] = at /\ todo[p] # {}
Visited(p) == todo' = [todo EXCEPT ![p] = @ \ {First(p)}]

\* bzsize exits.
Exit(p) ==
  /\ Goto(p, "exit")
  /\ opts' = [opts EXCEPT ![p] = NoOption]
  /\ todo' = [todo EXCEPT ![p] = {}] /\ found' = [found EXCEPT ![p] = {}]
  /\ current' = [current EXCEPT ![p] = 0] /\ budget' = [budget EXCEPT ![p] = 0]
  /\ listed' = [listed EXCEPT ![p] = {}] /\ alone' = [alone EXCEPT ![p] = FALSE]
  /\ UNCHANGED <<cache, linked>>

\* stat, or unlink but for ENOENT, fails: the error ends the run.
Fail(p) ==
  /\ \/ pc[p] \in {"unused", "stat"} /\ todo[p] # {} /\ First(p) \notin cache
     \/ pc[p] = "unlink"
     \/ pc[p] = "trim" /\ found[p] # {} /\ current[p] > budget[p]
  /\ Exit(p)

\* delete_unused_files: a file that is linked stays.
Unused(p) ==
  /\ Visiting(p, "unused") /\ First(p) \in cache
  /\ \/ First(p) \in linked /\ Visited(p) /\ UNCHANGED pc
     \/ First(p) \notin linked /\ Goto(p, "unlink") /\ UNCHANGED todo
  /\ UNCHANGED <<cache, linked, opts, found, current, budget, listed, alone>>

Without(f) == cache' = cache \ {f} /\ linked' = linked \ {f}

\* It may have been linked since it was examined.
UnlinkUnused(p) ==
  /\ pc[p] = "unlink"
  /\ Without(First(p))
  /\ Visited(p) /\ Goto(p, "unused")
  /\ alone' = [q \in Proc |-> alone[q] /\ (q = p \/ cache' = cache)]
  /\ UNCHANGED <<opts, found, current, budget, listed>>

UnusedEnd(p) ==
  /\ pc[p] = "unused" /\ todo[p] = {}
  /\ \/ ~ Trims(opts[p]) /\ Exit(p)
     \/ /\ Trims(opts[p]) /\ List(p, "stat")
        /\ UNCHANGED <<cache, linked, opts, found, current, budget>>

\* sort_files_by_deletion: the loop that examines the files.
Stat(p) ==
  /\ Visiting(p, "stat") /\ First(p) \in cache
  /\ LET f == First(p)
     IN found' = [found EXCEPT ![p] = @ \cup {[file |-> f, unused |-> f \notin linked]}]
  /\ Visited(p)
  /\ UNCHANGED <<cache, linked, opts, pc, current, budget, listed, alone>>

Files(found_p) == {r.file : r \in found_p}

StatEnd(p) ==
  /\ pc[p] = "stat" /\ todo[p] = {}
  /\ LET total == Bytes(Files(found[p]))
     IN /\ current' = [current EXCEPT ![p] = total]
        /\ budget' = [budget EXCEPT ![p] = Budget(opts[p], total)]
  /\ Goto(p, "trim")
  /\ UNCHANGED <<cache, linked, opts, todo, found, listed, alone>>

Age(r) == IF r.unused THEN -1 ELSE Atime[r.file]

\* Mutant: the smallest first.
SmallFirst(r, q) ==
  \/ Age(r) < Age(q)
  \/ Age(r) = Age(q) /\ Size[r.file] < Size[q.file]
  \/ Age(r) = Age(q) /\ Size[r.file] = Size[q.file] /\ Index[r.file] > Index[q.file]

\* order_atime_size; the sort leaves equal files in the order of its list, the
\* reverse of the listing.
Before(r, q) ==
  \/ Age(r) < Age(q)
  \/ Age(r) = Age(q) /\ Size[r.file] > Size[q.file]
  \/ Age(r) = Age(q) /\ Size[r.file] = Size[q.file] /\ Index[r.file] > Index[q.file]

\* A run that was misled itself misleads the others.
Misleads(p) == alone' = [q \in Proc |-> alone[q] /\ (alone[p] \/ cache' = cache)]

Coldest(p) == CHOOSE r \in found[p] : \A q \in found[p] \ {r} : Before(r, q)

\* Mutant: the size is that before the deletion.
TrimUncounted(p) ==
  /\ pc[p] = "trim" /\ found[p] # {} /\ current[p] > budget[p]
  /\ Without(Coldest(p).file)
  /\ found' = [found EXCEPT ![p] = @ \ {Coldest(p)}]
  /\ Misleads(p)
  /\ UNCHANGED <<opts, pc, todo, current, budget, listed>>

\* The loop of delete_files: a file that is gone (ENOENT) counts as deleted.
Trim(p) ==
  /\ pc[p] = "trim" /\ found[p] # {} /\ current[p] > budget[p]
  /\ Without(Coldest(p).file)
  /\ found' = [found EXCEPT ![p] = @ \ {Coldest(p)}]
  /\ current' = [current EXCEPT ![p] = @ - Size[Coldest(p).file]]
  /\ Misleads(p)
  /\ UNCHANGED <<opts, pc, todo, budget, listed>>

\* Mutant: the loop ends before the file that exceeds the size.
TrimEndEarly(p) ==
  /\ pc[p] = "trim"
  /\ found[p] # {} => current[p] - Size[Coldest(p).file] <= budget[p]
  /\ Exit(p)

TrimEnd(p) ==
  /\ pc[p] = "trim"
  /\ found[p] = {} \/ current[p] <= budget[p]
  /\ Exit(p)

-----------------------------------------------------------------------------
(* Builds *)

\* put makes a cache file, that is linked if it is not a copy.
Put(f) ==
  /\ f \notin cache
  /\ cache' = cache \cup {f}
  /\ linked' \in {linked, linked \cup {f}}
  /\ listed' = [p \in Proc |-> listed[p] \ {f}]
  /\ alone' = [p \in Proc |-> FALSE]
  /\ UNCHANGED locals

\* put makes a link to it, or its last link is trashed with a build directory.
Relink(f) ==
  /\ f \in cache
  /\ linked' = IF f \in linked THEN linked \ {f} ELSE linked \cup {f}
  /\ alone' = [p \in Proc |-> FALSE]
  /\ UNCHANGED <<cache, listed>>
  /\ UNCHANGED locals

-----------------------------------------------------------------------------
Next ==
  \/ \E p \in Proc : \/ \E o \in Options : Start(p, o)
                     \/ Unused(p) \/ UnlinkUnused(p) \/ UnusedEnd(p)
                     \/ Stat(p) \/ StatEnd(p) \/ Trim(p) \/ TrimEnd(p) \/ Fail(p)
  \/ \E f \in File : Put(f) \/ Relink(f)

Spec == Init /\ [][Next]_vars

-----------------------------------------------------------------------------
(* Properties *)

TypeOK ==
  /\ linked \subseteq cache /\ cache \subseteq File
  /\ pc \in [Proc -> {"start", "unused", "unlink", "stat", "trim", "exit"}]
  /\ \A p \in Proc : Files(found[p]) \subseteq File /\ listed[p] \subseteq File
  /\ current \in [Proc -> 0 .. Bytes(File)] /\ budget \in [Proc -> 0 .. Bytes(File)]

\* p deletes f in delete_files, and nothing misled it.
Trimmed(p, f) ==
  /\ pc[p] = "trim" /\ alone[p]
  /\ found[p] # found'[p] /\ f \in cache \ cache'

\* "deletes files in [c]'s directory until it either weights at most
\* [dir_byte_size] (if specified) or is [pct] of the current size"
\* (b0.mli:2961-2963): a run that ends with success leaves of the files it
\* listed what fits, whatever builds and other runs do in the meantime.
TrimmedToBudget ==
  [][\A p \in Proc : TrimEnd(p) => Bytes(listed[p] \cap cache) <= budget[p]]_vars

\* Nor does it delete more, even if another run deletes the same files: no file
\* goes once the directory fits, if builds leave the cache alone.  The files go
\* in the order of the deletion policy (b0.mli:2964-2967): "Files whose link
\* count is [1], starting with the largest file size. Remaining files, starting
\* with the oldest file access time."
DeletesByPolicy ==
  [][\A p \in Proc : \A f \in File : Trimmed(p, f) =>
       /\ Bytes(cache) > budget[p]
       /\ f \in linked => cache \subseteq linked /\ \A g \in cache : Atime[f] <= Atime[g]
       /\ f \notin linked => \A g \in cache \ linked : Size[f] >= Size[g]]_vars

\* bzsize -m trims "the cache to at most" a size: a directory that weighs no
\* more loses nothing (b0.mli:2961-2964, the current size being all of it).
NothingIfItFits ==
  [][\A p \in Proc : \A f \in File :
       Trimmed(p, f) /\ opts[p].pct = 100 => Bytes(cache) > opts[p].bytes]_vars
=============================================================================
