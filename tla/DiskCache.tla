------------------------------- MODULE DiskCache -------------------------------
(***************************************************************************)
(* The on-disk cache (semantics/resolve/cache.rs) as several processes use *)
(* it at once: Cache::get and Cache::insert are sequences of system calls  *)
(* on a directory that nobody locks, and a process may die between any two *)
(* of them.                                                                *)
(*                                                                         *)
(* A file is found under the digest it is filed by: the directory binds a  *)
(* digest to a node of the file system, which a process that has it open   *)
(* keeps although its name is removed.  The contents are a sequence of     *)
(* blocks, the units that one call to read or to write transfers.          *)
(***************************************************************************)
EXTENDS Naturals, Sequences

CONSTANTS
    Procs,      \* processes
    Hashes,     \* digests that imports ask for
    Nodes,      \* nodes of the file system
    NoNode,
    Blocks,     \* what a block holds
    Hole,       \* a block nobody wrote
    Encodings,  \* what processes write: encoded expressions, as blocks
    Found,      \* what the files found in the directory at first may hold
    Digest(_)   \* the digest of a sequence of blocks

ASSUME CacheAssumption ==
    /\ NoNode \notin Nodes /\ Hole \in Blocks
    /\ Encodings \subseteq Seq(Blocks) /\ Found \subseteq Seq(Blocks)

VARIABLES
    writable,   \* whether files can be created in and removed from the directory
    entry,      \* the directory: the node each digest names
    content,    \* the blocks of each node
    pc,         \* where each process is in its call of get or insert
    hash,       \* the digest of the call
    file,       \* the node the process has open
    at,         \* the next block it reads or writes
    data,       \* what it has read, or what it writes
    (* For the properties only, by node:                                    *)
    written,    \* the encodings written since the file was last truncated
    torn        \* the nodes a writer has left unfinished

files == <<writable, entry, content>>
call == <<hash, at, data>>
history == <<written, torn>>
vars == <<files, pc, file, call, history>>

Writers(n) == {p \in Procs : pc[p] = "writing" /\ file[p] = n}
Free(n) ==
    /\ \A h \in Hashes : entry[h] # n
    /\ \A p \in Procs : file[p] # n

Goto(p, label) == pc' = [pc EXCEPT ![p] = label]
Hold(p, n) == file' = [file EXCEPT ![p] = n]
Buffer(p, i, blocks) ==
    at' = [at EXCEPT ![p] = i] /\ data' = [data EXCEPT ![p] = blocks]

(* The call is over: the file is closed and its bytes are dropped.          *)
Leave(p) == Goto(p, "idle") /\ Hold(p, NoNode) /\ Buffer(p, 1, <<>>)

-----------------------------------------------------------------------------
(* Cache::get                                                               *)

(* File::open in read_binary_file.                                          *)
StartGet(p, h) ==
    /\ pc[p] = "idle"
    /\ Goto(p, IF entry[h] = NoNode THEN "failed" ELSE "reading")
    /\ Hold(p, entry[h])
    /\ hash' = [hash EXCEPT ![p] = h]
    /\ UNCHANGED <<files, at, data, history>>

(* read_to_end, which stops where the file ends at that moment.             *)
ReadBlock(p) ==
    /\ pc[p] = "reading" /\ at[p] <= Len(content[file[p]])
    /\ Buffer(p, at[p] + 1, Append(data[p], content[file[p]][at[p]]))
    /\ UNCHANGED <<files, pc, file, hash, history>>

(* read_cache_file: the digest is that of the bytes in memory.              *)
(* Mutant: it is taken of the file once more.                               *)
VerifiedAgain(p) == Digest(content[file[p]]) = hash[p]
Verified(p) == Digest(data[p]) = hash[p]

EndRead(p) ==
    /\ pc[p] = "reading" /\ at[p] > Len(content[file[p]])
    /\ Goto(p, IF Verified(p) THEN "hit" ELSE "failed")
    /\ Hold(p, NoNode)
    /\ Buffer(p, 1, IF Verified(p) THEN data[p] ELSE <<>>)
    /\ UNCHANGED <<files, hash, history>>

(* `res.is_err() && path.exists()`                                          *)
CheckExists(p) ==
    /\ pc[p] = "failed"
    /\ Goto(p, IF entry[hash[p]] = NoNode THEN "missed" ELSE "removing")
    /\ UNCHANGED <<files, file, call, history>>

(* `let _ = remove_file(&path)`: whatever has the name by now is removed;   *)
(* that nothing has it, or that it cannot be removed, is ignored.           *)
(* Mutants: the file is left alone; the removal is repeated until it works. *)
Removed(h) == IF writable THEN [entry EXCEPT ![h] = NoNode] ELSE entry
RemoveNothing(p) ==
    /\ pc[p] = "removing" /\ Goto(p, "missed")
    /\ UNCHANGED <<files, file, call, history>>
RemoveInsisting(p) ==
    /\ pc[p] = "removing" /\ Goto(p, IF writable THEN "missed" ELSE "failed")
    /\ entry' = Removed(hash[p])
    /\ UNCHANGED <<writable, content, file, call, history>>
Remove(p) ==
    /\ pc[p] = "removing" /\ Goto(p, "missed")
    /\ entry' = Removed(hash[p])
    /\ UNCHANGED <<writable, content, file, call, history>>

-----------------------------------------------------------------------------
(* Cache::insert, which follows a get that found nothing.                   *)

(* The value is used, or the import could not be had elsewhere either.      *)
Finish(p) ==
    /\ pc[p] \in {"hit", "missed"} /\ Leave(p)
    /\ UNCHANGED <<files, hash, history>>

(* File::create: the file is truncated if there is one, and made otherwise. *)
(* Processes that write it already keep their places in it.                 *)
Create(p, e, n) ==
    /\ pc[p] = "missed"
    /\ IF entry[hash[p]] = NoNode
          THEN Free(n) /\ writable /\ entry' = [entry EXCEPT ![hash[p]] = n]
          ELSE n = entry[hash[p]] /\ entry' = entry
    /\ Goto(p, "writing") /\ Hold(p, n)
    /\ content' = [content EXCEPT ![n] = <<>>]
    /\ Buffer(p, 1, e)
    /\ written' = [written EXCEPT ![n] = {e} \cup {data[w] : w \in Writers(n)}]
    /\ torn' = torn \ {n}
    /\ UNCHANGED <<writable, hash>>

(* write_all, at the place in the file that is the process's own.           *)
(* Mutant: the file is opened for appending.                                *)
Put(s, i, b) ==
    [k \in 1..(IF i > Len(s) THEN i ELSE Len(s)) |->
        IF k = i THEN b ELSE IF k <= Len(s) THEN s[k] ELSE Hole]
PutAtEnd(s, i, b) == Append(s, b)
Written(s, i, b) == Put(s, i, b)

WriteBlock(p) ==
    /\ pc[p] = "writing" /\ at[p] <= Len(data[p])
    /\ content' = [content EXCEPT ![file[p]] = Written(@, at[p], data[p][at[p]])]
    /\ at' = [at EXCEPT ![p] = @ + 1]
    /\ UNCHANGED <<writable, entry, pc, file, hash, data, history>>

EndWrite(p) ==
    /\ pc[p] = "writing" /\ at[p] > Len(data[p])
    /\ Leave(p)
    /\ UNCHANGED <<files, hash, history>>

(* A write may fail, on a full disk for one, and the error is dropped by    *)
(* ImportEnv::write_to_disk_cache; or the process may die, anywhere.        *)
Interrupted(p) ==
    /\ Leave(p)
    /\ torn' = IF pc[p] = "writing" THEN torn \cup {file[p]} ELSE torn
    /\ UNCHANGED <<files, hash, written>>
WriteFails(p) == pc[p] = "writing" /\ at[p] <= Len(data[p]) /\ Interrupted(p)
Crash(p) == pc[p] # "idle" /\ Interrupted(p)

-----------------------------------------------------------------------------
(* A directory at rest, in which some digests have a file.                  *)
Init ==
    /\ writable \in BOOLEAN
    /\ entry \in [Hashes -> Nodes \cup {NoNode}]
    /\ \A g, h \in Hashes : entry[g] = entry[h] /\ g # h => entry[g] = NoNode
    /\ content \in [Nodes -> Found \cup {<<>>}]
    /\ \A n \in Nodes : content[n] = <<>> \/ \E h \in Hashes : entry[h] = n
    /\ pc = [p \in Procs |-> "idle"]
    /\ hash \in [Procs -> Hashes]
    /\ file = [p \in Procs |-> NoNode]
    /\ at = [p \in Procs |-> 1]
    /\ data = [p \in Procs |-> <<>>]
    /\ written = [n \in Nodes |-> {}]
    /\ torn = {}

Continue(p) ==
    \/ ReadBlock(p) \/ EndRead(p) \/ CheckExists(p) \/ Remove(p)
    \/ Finish(p)
    \/ \E e \in Encodings, n \in Nodes : Create(p, e, n)
    \/ WriteBlock(p) \/ EndWrite(p) \/ WriteFails(p)
Next ==
    \E p \in Procs :
        \/ \E h \in Hashes : StartGet(p, h)
        \/ Continue(p)
        \/ Crash(p)

(* A process that is not killed goes on with its call; nobody need make one *)
(* and nobody need die.                                                     *)
Spec == Init /\ [][Next]_vars /\ \A p \in Procs : WF_vars(Continue(p))

-----------------------------------------------------------------------------
(* Nodes are open exactly while they are read or written.                   *)
TypeOK ==
    /\ writable \in BOOLEAN
    /\ entry \in [Hashes -> Nodes \cup {NoNode}]
    /\ content \in [Nodes -> Seq(Blocks)]
    /\ pc \in [Procs -> {"idle", "reading", "failed", "removing", "hit",
                         "missed", "writing"}]
    /\ hash \in [Procs -> Hashes]
    /\ file \in [Procs -> Nodes \cup {NoNode}]
    /\ at \in [Procs -> Nat \ {0}]
    /\ data \in [Procs -> Seq(Blocks)]
    /\ written \in [Nodes -> SUBSET Seq(Blocks)]
    /\ torn \subseteq Nodes
    /\ \A p \in Procs : file[p] # NoNode <=> pc[p] \in {"reading", "writing"}

(* What a process takes from the cache has the digest it asked for, although*)
(* others may rewrite the file under it: what is checked is what is used.   *)
HitsAreVerified ==
    \A p \in Procs : pc[p] = "hit" => Digest(data[p]) = hash[p]

(* Processes that store the same value at the same time do no harm to one   *)
(* another: once all are done the file holds just that value, unless one of *)
(* them was cut short (Cache::insert truncates and writes in place).        *)
WholeUnlessInterrupted ==
    \A n \in Nodes \ torn, e \in Encodings :
        written[n] = {e} /\ Writers(n) = {} => content[n] = e

(* No call of get or insert goes on for ever, whatever others do and whether*)
(* or not the file it finds to be wrong can be removed.                     *)
CallsEnd == \A p \in Procs : pc[p] # "idle" ~> pc[p] = "idle"

(* A file that does not verify does not stay, if calls of get for its digest*)
(* keep coming to an end and files can be removed: crashed and failed writes*)
(* are recovered from.                                                      *)
Damaged(h) ==
    /\ entry[h] # NoNode /\ Writers(entry[h]) = {}
    /\ Digest(content[entry[h]]) # h
Heals ==
    \A h \in Hashes :
        /\ []<>(\E p \in Procs : pc[p] \in {"hit", "missed"} /\ hash[p] = h)
        /\ []writable
        => []<>~Damaged(h)
=============================================================================
