---------------------------- MODULE CatalogStore ----------------------------
(***************************************************************************)
(* cached_store_connection of src/data/store.rs for one api_version: the   *)
(* catalog embedded in the binary is extracted to a path in the temp dir   *)
(* that all processes of the host share, copied from there into memory and *)
(* kept for the life of the process.  Processes run builds that may embed  *)
(* different catalogs, start at any time, and may die at any point; the    *)
(* calls of a process run concurrently.                                    *)
(*                                                                         *)
(* Other versions have files and map entries of their own.  The temporary  *)
(* name holds the process id and a counter, so a file left behind under    *)
(* such a name is never read again.                                        *)
(***************************************************************************)
EXTENDS Naturals

CONSTANTS
  Processes,
  Calls,           \* calls of cached_store_connection
  Process,         \* the process each call runs in
  Builds,          \* builds, each stands for the catalog embedded in it too
  RenameRetries,   \* 5 in the code
  Absent, Torn,    \* no file, and a file that is not a complete catalog
  None

ASSUME CatalogStoreAssumption ==
  /\ Process \in [Calls -> Processes]
  /\ RenameRetries \in Nat
  /\ Absent \notin Builds /\ Torn \notin Builds /\ Absent # Torn
  /\ None \notin Calls

VARIABLES
  windows,      \* whether rename fails while the destination is open
  build,        \* the build each process runs
  file,         \* what is at the shared path
  tmp,          \* what is at the temporary path of each call
  extracted,    \* whether EXTRACTED holds the path
  lock,         \* the call that holds the mutex of EXTRACTED
  cache,        \* CACHE: the connection of each process
  pc,           \* the stage each call is in
  tries,        \* rename_attempts of each call
  data,         \* what each call reads from disk, until it is in the cache
  result,       \* the connection each call returns
  since         \* history: what was put in place since a process extracted

processVars == <<windows, build>>
callVars == <<pc, tries, data, result>>
vars == <<processVars, file, tmp, extracted, lock, cache, callVars, since>>

FileContents == Builds \cup {Absent, Torn}
Connections == [leaked_by : Calls, catalog : Builds \cup {Torn}]
NoConnection == [leaked_by |-> None, catalog |-> Absent]

\* Mutant: an existing file is taken for the extracted one.
ExtractedUnlessPresent(p) == extracted[p] \/ file # Absent

\* The lookup in EXTRACTED.
Extracted(p) == extracted[p]

\* Whatever an earlier process, or a power failure, left at the shared path.
Init ==
  /\ windows \in BOOLEAN
  /\ build \in [Processes -> Builds]
  /\ file \in FileContents
  /\ tmp = [c \in Calls |-> Absent]
  /\ extracted = [p \in Processes |-> FALSE]
  /\ lock = [p \in Processes |-> None]
  /\ cache = [p \in Processes |-> NoConnection]
  /\ pc = [c \in Calls |-> "start"]
  /\ tries = [c \in Calls |-> 0]
  /\ data = [c \in Calls |-> Absent]
  /\ result = [c \in Calls |-> NoConnection]
  /\ since = [p \in Processes |-> {}]

Move(c, from, to) == pc[c] = from /\ pc' = [pc EXCEPT ![c] = to]

Release(c) == lock' = [lock EXCEPT ![Process[c]] = None]
-----------------------------------------------------------------------------
(* resolve_store_path.                                                     *)

\* A tool invocation, or main at startup, asks for the connection.
Request(c) ==
  /\ Move(c, "start", "locking")
  /\ UNCHANGED <<processVars, file, tmp, extracted, lock, cache, tries, data,
                 result, since>>

\* Mutant: the extraction is not kept to one call at a time.
LockUnguarded(c) ==
  /\ IF Extracted(Process[c])
       THEN Move(c, "locking", "lookup") /\ UNCHANGED lock
       ELSE /\ Move(c, "locking", "writing")
            /\ lock' = [lock EXCEPT ![Process[c]] = c]
  /\ UNCHANGED <<processVars, file, tmp, extracted, cache, tries, data, result,
                 since>>

\* The mutex is free.  The path is known and the mutex free again, or it
\* stays locked for the extraction.
Lock(c) ==
  /\ lock[Process[c]] = None
  /\ IF Extracted(Process[c])
       THEN Move(c, "locking", "lookup") /\ UNCHANGED lock
       ELSE /\ Move(c, "locking", "writing")
            /\ lock' = [lock EXCEPT ![Process[c]] = c]
  /\ UNCHANGED <<processVars, file, tmp, extracted, cache, tries, data, result,
                 since>>

\* Unknown version, no directory, corrupt payload, or the disk is full, which
\* may leave a part of the file.
ExtractFails(c) ==
  /\ pc[c] \in {"writing", "written"}
  /\ pc' = [pc EXCEPT ![c] = "failed"]
  /\ Release(c)
  /\ UNCHANGED <<processVars, file, tmp, extracted, cache, tries, data, result,
                 since>>

\* Mutant: the file is moved before it is complete.
BeginWriteUnfinished(c) ==
  /\ Move(c, "writing", "renaming")
  /\ tmp' = [tmp EXCEPT ![c] = Torn]
  /\ UNCHANGED <<processVars, file, extracted, lock, cache, tries, data, result,
                 since>>

\* fs::write has created the temporary file and not yet filled it.
BeginWrite(c) ==
  /\ Move(c, "writing", "written")
  /\ tmp' = [tmp EXCEPT ![c] = Torn]
  /\ UNCHANGED <<processVars, file, extracted, lock, cache, tries, data, result,
                 since>>

EndWrite(c) ==
  /\ Move(c, "written", "renaming")
  /\ tmp' = [tmp EXCEPT ![c] = build[Process[c]]]
  /\ UNCHANGED <<processVars, file, extracted, lock, cache, tries, data, result,
                 since>>

\* A call between open_store and the end of the backup.
HasOpen(c) == pc[c] = "copying"

\* The file is in place, the path is recorded, the mutex is free.
Rename(c) ==
  LET p == Process[c] IN
  /\ windows => \A d \in Calls : ~HasOpen(d)
  /\ Move(c, "renaming", "lookup")
  /\ file' = tmp[c]
  /\ tmp' = [tmp EXCEPT ![c] = Absent]
  /\ extracted' = [extracted EXCEPT ![p] = TRUE]
  /\ Release(c)
  /\ since' = [q \in Processes |->
                 IF q = p THEN {tmp[c]}
                 ELSE IF extracted[q] THEN since[q] \cup {tmp[c]}
                 ELSE since[q]]
  /\ UNCHANGED <<processVars, cache, tries, data, result>>

\* Mutant: off by one.
MoreTriesOff(c) == tries[c] <= RenameRetries

MoreTries(c) == tries[c] < RenameRetries

\* Mutant: the attempts are not counted.
BackOffForever(c) ==
  /\ MoreTries(c)
  /\ Move(c, "renaming", "backing_off")
  /\ UNCHANGED <<processVars, file, tmp, extracted, lock, cache, tries, data,
                 result, since>>

\* rename failed, because the file is open or for a reason of the system's:
\* sleep, with the mutex locked, and try again.
BackOff(c) ==
  /\ MoreTries(c)
  /\ Move(c, "renaming", "backing_off")
  /\ tries' = [tries EXCEPT ![c] = @ + 1]
  /\ UNCHANGED <<processVars, file, tmp, extracted, lock, cache, data, result,
                 since>>

WakeUp(c) ==
  /\ Move(c, "backing_off", "renaming")
  /\ UNCHANGED <<processVars, file, tmp, extracted, lock, cache, tries, data,
                 result, since>>

\* It failed once more after the last retry.
RenameFails(c) ==
  /\ ~MoreTries(c)
  /\ Move(c, "renaming", "failed")
  /\ Release(c)
  /\ UNCHANGED <<processVars, file, tmp, extracted, cache, tries, data, result,
                 since>>
-----------------------------------------------------------------------------
(* cached_in_memory_connection.                                            *)

\* CACHE holds a connection.
Hit(c) ==
  /\ cache[Process[c]] # NoConnection
  /\ Move(c, "lookup", "done")
  /\ result' = [result EXCEPT ![c] = cache[Process[c]]]
  /\ UNCHANGED <<processVars, file, tmp, extracted, lock, cache, tries, data,
                 since>>

\* CACHE is unlocked before the file is opened.
Miss(c) ==
  /\ cache[Process[c]] = NoConnection
  /\ Move(c, "lookup", "opening")
  /\ UNCHANGED <<processVars, file, tmp, extracted, lock, cache, tries, data,
                 result, since>>

\* open_store.  A handle stays with the file it was opened on, whatever is
\* renamed over its path later.
Open(c) ==
  /\ file # Absent
  /\ Move(c, "opening", "copying")
  /\ data' = [data EXCEPT ![c] = file]
  /\ UNCHANGED <<processVars, file, tmp, extracted, lock, cache, tries, result,
                 since>>

\* The backup is complete and disk_conn dropped.
Copy(c) ==
  /\ Move(c, "copying", "inserting")
  /\ UNCHANGED <<processVars, file, tmp, extracted, lock, cache, tries, data,
                 result, since>>

\* The file cannot be opened or read.
CopyFails(c) ==
  /\ pc[c] \in {"opening", "copying"}
  /\ pc' = [pc EXCEPT ![c] = "failed"]
  /\ data' = [data EXCEPT ![c] = Absent]
  /\ UNCHANGED <<processVars, file, tmp, extracted, lock, cache, tries, result,
                 since>>

OwnConnection(c) == [leaked_by |-> c, catalog |-> data[c]]

\* Mutant: insert in place of or_insert.
EntryOverwritten(c) == OwnConnection(c)

\* or_insert: the first connection stays, a later one is leaked unused.
Entry(c) ==
  IF cache[Process[c]] = NoConnection THEN OwnConnection(c)
                                      ELSE cache[Process[c]]

Insert(c) ==
  /\ Move(c, "inserting", "done")
  /\ cache' = [cache EXCEPT ![Process[c]] = Entry(c)]
  /\ result' = [result EXCEPT ![c] = Entry(c)]
  /\ data' = [data EXCEPT ![c] = Absent]
  /\ UNCHANGED <<processVars, file, tmp, extracted, lock, tries, since>>
-----------------------------------------------------------------------------
\* The calls a process takes with it.
Lost(p) == {c \in Calls : Process[c] = p /\ pc[c] # "start"}

\* A process dies, with its calls and everything static in it, and another
\* one starts in its place, of a rebuilt binary or of the same.
Restart(p) ==
  /\ \E b \in Builds : build' = [build EXCEPT ![p] = b]
  /\ tmp' = [c \in Calls |-> IF Process[c] = p THEN Absent ELSE tmp[c]]
  /\ extracted' = [extracted EXCEPT ![p] = FALSE]
  /\ lock' = [lock EXCEPT ![p] = None]
  /\ cache' = [cache EXCEPT ![p] = NoConnection]
  /\ pc' = [c \in Calls |-> IF c \in Lost(p) THEN "gone" ELSE pc[c]]
  /\ tries' = [c \in Calls |-> IF c \in Lost(p) THEN 0 ELSE tries[c]]
  /\ data' = [c \in Calls |-> IF c \in Lost(p) THEN Absent ELSE data[c]]
  /\ result' = [c \in Calls |-> IF c \in Lost(p) THEN NoConnection
                                                 ELSE result[c]]
  /\ since' = [since EXCEPT ![p] = {}]
  /\ UNCHANGED <<windows, file>>

Serve(c) ==
  \/ Lock(c) \/ ExtractFails(c) \/ BeginWrite(c) \/ EndWrite(c)
  \/ Rename(c) \/ BackOff(c) \/ WakeUp(c) \/ RenameFails(c)
  \/ Hit(c) \/ Miss(c) \/ Open(c) \/ Copy(c) \/ CopyFails(c) \/ Insert(c)

Next ==
  \/ \E c \in Calls : Request(c) \/ Serve(c)
  \/ \E p \in Processes : Restart(p)

Spec == Init /\ [][Next]_vars

\* The threads of a live process run and its system calls return.
FairSpec == Spec /\ \A c \in Calls : WF_vars(Serve(c))
-----------------------------------------------------------------------------
\* The stages in which a call holds the mutex of EXTRACTED.
Extracting == {"writing", "written", "renaming", "backing_off"}
Stages == Extracting \cup {"start", "locking", "lookup", "opening", "copying",
                           "inserting", "done", "failed", "gone"}

TypeOK ==
  /\ windows \in BOOLEAN
  /\ build \in [Processes -> Builds]
  /\ file \in FileContents
  /\ tmp \in [Calls -> FileContents]
  /\ extracted \in [Processes -> BOOLEAN]
  /\ lock \in [Processes -> Calls \cup {None}]
  /\ cache \in [Processes -> Connections \cup {NoConnection}]
  /\ pc \in [Calls -> Stages]
  /\ tries \in [Calls -> 0..RenameRetries]
  /\ data \in [Calls -> FileContents]
  /\ result \in [Calls -> Connections \cup {NoConnection}]
  /\ since \in [Processes -> SUBSET FileContents]

\* No call ever reads a file that is empty or half written, whatever a crash
\* left at the shared path and however other processes replace the file in
\* the meantime (the temporary file and its rename in resolve_store_path).
NeverPartial ==
  \A c \in Calls : pc[c] \in {"copying", "inserting"} => data[c] \in Builds

\* A process serves a catalog that was put in place when it extracted its
\* own, or later: never a leftover of an earlier installation
\* (resolve_store_path, which extracts once per process, present or not).
NotStale ==
  \A p \in Processes :
    cache[p] # NoConnection => cache[p].catalog \in since[p]

\* All calls of a process work on one connection, although the cache is
\* unlocked between the lookup and the insertion (cached_in_memory_connection).
OneConnection ==
  \A c \in Calls : pc[c] = "done" => result[c] = cache[Process[c]]

\* A process never renames over a file that a call of its own has open, which
\* would make the rename fail on Windows (the mutex of resolve_store_path,
\* held across the extraction).
NoRenameUnderOwnReader ==
  \A c, d \in Calls :
    pc[c] = "renaming" /\ HasOpen(d) => Process[c] # Process[d]

\* Every call comes back, with a connection or an error, or dies with its
\* process: neither the mutex nor the rename loop keeps it forever
\* (resolve_store_path).
EveryCallEnds ==
  \A c \in Calls :
    pc[c] = "locking" ~> pc[c] \in {"done", "failed", "gone"}
=============================================================================
