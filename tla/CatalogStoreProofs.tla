------------------------- MODULE CatalogStoreProofs -------------------------
(***************************************************************************)
(* Theorems about CatalogStore for every number of processes, calls and    *)
(* builds, and every number of rename attempts.                            *)
(***************************************************************************)
EXTENDS CatalogStore, TLAPS

\* The stages that follow the extraction.
Resolved == {"lookup", "opening", "copying", "inserting", "done"}

\* Who extracts holds the mutex, and holds the mutex only to extract.
MutexHeld ==
  \A c \in Calls : pc[c] \in Extracting <=> lock[Process[c]] = c

\* The map of paths separates the two halves of the way of a call.
PathKnown ==
  \A c \in Calls :
    /\ pc[c] \in Extracting => ~extracted[Process[c]]
    /\ pc[c] \in Resolved => extracted[Process[c]]

\* A temporary file is complete before it is moved.
Complete ==
  \A c \in Calls :
    pc[c] \in {"renaming", "backing_off"} => tmp[c] = build[Process[c]]

\* What is at the path after an extraction was put there by it or later.
InPlace ==
  \A p \in Processes :
    /\ since[p] \subseteq Builds
    /\ extracted[p] => file \in since[p]

\* So is what a call read from there.
ReadInPlace ==
  \A c \in Calls :
    pc[c] \in {"copying", "inserting"} => data[c] \in since[Process[c]]

\* What is in the cache was read there, after the extraction.
Cached ==
  \A p \in Processes :
    cache[p] # NoConnection => extracted[p] /\ cache[p].catalog \in since[p]

\* Whoever is done has the connection in the cache.
Shared ==
  \A c \in Calls :
    pc[c] = "done" => result[c] = cache[Process[c]] /\ result[c] # NoConnection

IInv == /\ TypeOK /\ MutexHeld /\ PathKnown /\ Complete
        /\ InPlace /\ ReadInPlace /\ Cached /\ Shared
-----------------------------------------------------------------------------
\* The facts every step needs of the constants.
LEMMA Constants ==
  /\ \A c \in Calls : Process[c] \in Processes /\ c # None
  /\ \A b \in Builds : b # Absent /\ b # Torn
BY CatalogStoreAssumption DEF CatalogStoreAssumption

USE CatalogStoreAssumption DEF CatalogStoreAssumption

\* Every step keeps the types; a connection has a catalog because what was
\* read is not absent.
LEMMA TypeStep ==
  ASSUME TypeOK, InPlace, ReadInPlace, [Next]_vars
  PROVE  TypeOK'
<1> USE DEF TypeOK, FileContents, Stages, Extracting, Move, Release,
            processVars
<1>1. ASSUME NEW c \in Calls, Request(c) PROVE TypeOK'
  BY <1>1 DEF Request
<1>2. ASSUME NEW c \in Calls, Lock(c) PROVE TypeOK'
  BY <1>2 DEF Lock, Extracted
<1>3. ASSUME NEW c \in Calls, ExtractFails(c) PROVE TypeOK'
  BY <1>3 DEF ExtractFails
<1>4. ASSUME NEW c \in Calls, BeginWrite(c) PROVE TypeOK'
  BY <1>4 DEF BeginWrite
<1>5. ASSUME NEW c \in Calls, EndWrite(c) PROVE TypeOK'
  BY <1>5 DEF EndWrite
<1>6. ASSUME NEW c \in Calls, Rename(c) PROVE TypeOK'
  BY <1>6 DEF Rename
<1>7. ASSUME NEW c \in Calls, BackOff(c) PROVE TypeOK'
  BY <1>7 DEF BackOff, MoreTries
<1>8. ASSUME NEW c \in Calls, WakeUp(c) PROVE TypeOK'
  BY <1>8 DEF WakeUp
<1>9. ASSUME NEW c \in Calls, RenameFails(c) PROVE TypeOK'
  BY <1>9 DEF RenameFails
<1>10. ASSUME NEW c \in Calls, Hit(c) PROVE TypeOK'
  BY <1>10 DEF Hit
<1>11. ASSUME NEW c \in Calls, Miss(c) PROVE TypeOK'
  BY <1>11 DEF Miss
<1>12. ASSUME NEW c \in Calls, Open(c) PROVE TypeOK'
  BY <1>12 DEF Open
<1>13. ASSUME NEW c \in Calls, Copy(c) PROVE TypeOK'
  BY <1>13 DEF Copy
<1>14. ASSUME NEW c \in Calls, CopyFails(c) PROVE TypeOK'
  BY <1>14 DEF CopyFails
<1>15. ASSUME NEW c \in Calls, Insert(c) PROVE TypeOK'
  <2>1. data[c] \in Builds
    BY <1>15 DEF Insert, InPlace, ReadInPlace
  <2>2. OwnConnection(c) \in Connections
    BY <2>1 DEF OwnConnection, Connections
  <2>3. Entry(c) \in Connections \cup {NoConnection}
    BY <2>2 DEF Entry
  <2> QED
    BY <1>15, <2>3 DEF Insert
<1>16. ASSUME NEW p \in Processes, Restart(p) PROVE TypeOK'
  BY <1>16 DEF Restart, Lost
<1>17. CASE UNCHANGED vars
  BY <1>17 DEF vars, processVars, callVars
<1> QED
  BY <1>1, <1>2, <1>3, <1>4, <1>5, <1>6, <1>7, <1>8, <1>9,
     <1>10, <1>11, <1>12, <1>13, <1>14, <1>15, <1>16, <1>17 DEF Next, Serve

\* The mutex is taken and left with the stages that need it.
LEMMA MutexStep ==
  ASSUME TypeOK, MutexHeld, [Next]_vars
  PROVE  MutexHeld'
<1> USE DEF TypeOK, MutexHeld, Stages, Extracting, Move, Release
<1>1. ASSUME NEW c \in Calls, Request(c) PROVE MutexHeld'
  BY <1>1 DEF Request
<1>2. ASSUME NEW c \in Calls, Lock(c) PROVE MutexHeld'
  BY <1>2 DEF Lock, Extracted
<1>3. ASSUME NEW c \in Calls, ExtractFails(c) PROVE MutexHeld'
  BY <1>3 DEF ExtractFails
<1>4. ASSUME NEW c \in Calls, BeginWrite(c) PROVE MutexHeld'
  BY <1>4 DEF BeginWrite
<1>5. ASSUME NEW c \in Calls, EndWrite(c) PROVE MutexHeld'
  BY <1>5 DEF EndWrite
<1>6. ASSUME NEW c \in Calls, Rename(c) PROVE MutexHeld'
  BY <1>6 DEF Rename
<1>7. ASSUME NEW c \in Calls, BackOff(c) PROVE MutexHeld'
  BY <1>7 DEF BackOff
<1>8. ASSUME NEW c \in Calls, WakeUp(c) PROVE MutexHeld'
  BY <1>8 DEF WakeUp
<1>9. ASSUME NEW c \in Calls, RenameFails(c) PROVE MutexHeld'
  BY <1>9 DEF RenameFails
<1>10. ASSUME NEW c \in Calls, Hit(c) PROVE MutexHeld'
  BY <1>10 DEF Hit
<1>11. ASSUME NEW c \in Calls, Miss(c) PROVE MutexHeld'
  BY <1>11 DEF Miss
<1>12. ASSUME NEW c \in Calls, Open(c) PROVE MutexHeld'
  BY <1>12 DEF Open
<1>13. ASSUME NEW c \in Calls, Copy(c) PROVE MutexHeld'
  BY <1>13 DEF Copy
<1>14. ASSUME NEW c \in Calls, CopyFails(c) PROVE MutexHeld'
  BY <1>14 DEF CopyFails
<1>15. ASSUME NEW c \in Calls, Insert(c) PROVE MutexHeld'
  BY <1>15 DEF Insert
<1>16. ASSUME NEW p \in Processes, Restart(p) PROVE MutexHeld'
  BY <1>16 DEF Restart, Lost
<1>17. CASE UNCHANGED vars
  BY <1>17 DEF vars, processVars, callVars
<1> QED
  BY <1>1, <1>2, <1>3, <1>4, <1>5, <1>6, <1>7, <1>8, <1>9,
     <1>10, <1>11, <1>12, <1>13, <1>14, <1>15, <1>16, <1>17 DEF Next, Serve

\* The path is recorded by who extracts, and by nobody else meanwhile.
LEMMA PathStep ==
  ASSUME TypeOK, MutexHeld, PathKnown, [Next]_vars
  PROVE  PathKnown'
<1> USE DEF TypeOK, MutexHeld, PathKnown, Stages, Extracting, Resolved, Move, Release
<1>1. ASSUME NEW c \in Calls, Request(c) PROVE PathKnown'
  BY <1>1 DEF Request
<1>2. ASSUME NEW c \in Calls, Lock(c) PROVE PathKnown'
  BY <1>2 DEF Lock, Extracted
<1>3. ASSUME NEW c \in Calls, ExtractFails(c) PROVE PathKnown'
  BY <1>3 DEF ExtractFails
<1>4. ASSUME NEW c \in Calls, BeginWrite(c) PROVE PathKnown'
  BY <1>4 DEF BeginWrite
<1>5. ASSUME NEW c \in Calls, EndWrite(c) PROVE PathKnown'
  BY <1>5 DEF EndWrite
<1>6. ASSUME NEW c \in Calls, Rename(c) PROVE PathKnown'
  BY <1>6 DEF Rename
<1>7. ASSUME NEW c \in Calls, BackOff(c) PROVE PathKnown'
  BY <1>7 DEF BackOff
<1>8. ASSUME NEW c \in Calls, WakeUp(c) PROVE PathKnown'
  BY <1>8 DEF WakeUp
<1>9. ASSUME NEW c \in Calls, RenameFails(c) PROVE PathKnown'
  BY <1>9 DEF RenameFails
<1>10. ASSUME NEW c \in Calls, Hit(c) PROVE PathKnown'
  BY <1>10 DEF Hit
<1>11. ASSUME NEW c \in Calls, Miss(c) PROVE PathKnown'
  BY <1>11 DEF Miss
<1>12. ASSUME NEW c \in Calls, Open(c) PROVE PathKnown'
  BY <1>12 DEF Open
<1>13. ASSUME NEW c \in Calls, Copy(c) PROVE PathKnown'
  BY <1>13 DEF Copy
<1>14. ASSUME NEW c \in Calls, CopyFails(c) PROVE PathKnown'
  BY <1>14 DEF CopyFails
<1>15. ASSUME NEW c \in Calls, Insert(c) PROVE PathKnown'
  BY <1>15 DEF Insert
<1>16. ASSUME NEW p \in Processes, Restart(p) PROVE PathKnown'
  BY <1>16 DEF Restart, Lost
<1>17. CASE UNCHANGED vars
  BY <1>17 DEF vars, processVars, callVars
<1> QED
  BY <1>1, <1>2, <1>3, <1>4, <1>5, <1>6, <1>7, <1>8, <1>9,
     <1>10, <1>11, <1>12, <1>13, <1>14, <1>15, <1>16, <1>17 DEF Next, Serve

\* EndWrite completes the file before the first attempt to move it.
LEMMA CompleteStep ==
  ASSUME TypeOK, Complete, [Next]_vars
  PROVE  Complete'
<1> USE DEF TypeOK, Complete, Stages, Extracting, Move, Release, processVars
<1>1. ASSUME NEW c \in Calls, Request(c) PROVE Complete'
  BY <1>1 DEF Request
<1>2. ASSUME NEW c \in Calls, Lock(c) PROVE Complete'
  BY <1>2 DEF Lock
<1>3. ASSUME NEW c \in Calls, ExtractFails(c) PROVE Complete'
  BY <1>3 DEF ExtractFails
<1>4. ASSUME NEW c \in Calls, BeginWrite(c) PROVE Complete'
  BY <1>4 DEF BeginWrite
<1>5. ASSUME NEW c \in Calls, EndWrite(c) PROVE Complete'
  BY <1>5 DEF EndWrite
<1>6. ASSUME NEW c \in Calls, Rename(c) PROVE Complete'
  BY <1>6 DEF Rename
<1>7. ASSUME NEW c \in Calls, BackOff(c) PROVE Complete'
  BY <1>7 DEF BackOff
<1>8. ASSUME NEW c \in Calls, WakeUp(c) PROVE Complete'
  BY <1>8 DEF WakeUp
<1>9. ASSUME NEW c \in Calls, RenameFails(c) PROVE Complete'
  BY <1>9 DEF RenameFails
<1>10. ASSUME NEW c \in Calls, Hit(c) PROVE Complete'
  BY <1>10 DEF Hit
<1>11. ASSUME NEW c \in Calls, Miss(c) PROVE Complete'
  BY <1>11 DEF Miss
<1>12. ASSUME NEW c \in Calls, Open(c) PROVE Complete'
  BY <1>12 DEF Open
<1>13. ASSUME NEW c \in Calls, Copy(c) PROVE Complete'
  BY <1>13 DEF Copy
<1>14. ASSUME NEW c \in Calls, CopyFails(c) PROVE Complete'
  BY <1>14 DEF CopyFails
<1>15. ASSUME NEW c \in Calls, Insert(c) PROVE Complete'
  BY <1>15 DEF Insert
<1>16. ASSUME NEW p \in Processes, Restart(p) PROVE Complete'
  BY <1>16 DEF Restart, Lost
<1>17. CASE UNCHANGED vars
  BY <1>17 DEF vars, processVars, callVars
<1> QED
  BY <1>1, <1>2, <1>3, <1>4, <1>5, <1>6, <1>7, <1>8, <1>9,
     <1>10, <1>11, <1>12, <1>13, <1>14, <1>15, <1>16, <1>17 DEF Next, Serve

\* Rename is the only step that replaces the file.
LEMMA InPlaceStep ==
  ASSUME TypeOK, PathKnown, Complete, InPlace, [Next]_vars
  PROVE  InPlace'
<1> USE DEF TypeOK, PathKnown, Complete, InPlace, Stages, Extracting, Resolved, Move, Release
<1>1. ASSUME NEW c \in Calls, Request(c) PROVE InPlace'
  BY <1>1 DEF Request
<1>2. ASSUME NEW c \in Calls, Lock(c) PROVE InPlace'
  BY <1>2 DEF Lock
<1>3. ASSUME NEW c \in Calls, ExtractFails(c) PROVE InPlace'
  BY <1>3 DEF ExtractFails
<1>4. ASSUME NEW c \in Calls, BeginWrite(c) PROVE InPlace'
  BY <1>4 DEF BeginWrite
<1>5. ASSUME NEW c \in Calls, EndWrite(c) PROVE InPlace'
  BY <1>5 DEF EndWrite
<1>6. ASSUME NEW c \in Calls, Rename(c) PROVE InPlace'
  BY <1>6 DEF Rename
<1>7. ASSUME NEW c \in Calls, BackOff(c) PROVE InPlace'
  BY <1>7 DEF BackOff
<1>8. ASSUME NEW c \in Calls, WakeUp(c) PROVE InPlace'
  BY <1>8 DEF WakeUp
<1>9. ASSUME NEW c \in Calls, RenameFails(c) PROVE InPlace'
  BY <1>9 DEF RenameFails
<1>10. ASSUME NEW c \in Calls, Hit(c) PROVE InPlace'
  BY <1>10 DEF Hit
<1>11. ASSUME NEW c \in Calls, Miss(c) PROVE InPlace'
  BY <1>11 DEF Miss
<1>12. ASSUME NEW c \in Calls, Open(c) PROVE InPlace'
  BY <1>12 DEF Open
<1>13. ASSUME NEW c \in Calls, Copy(c) PROVE InPlace'
  BY <1>13 DEF Copy
<1>14. ASSUME NEW c \in Calls, CopyFails(c) PROVE InPlace'
  BY <1>14 DEF CopyFails
<1>15. ASSUME NEW c \in Calls, Insert(c) PROVE InPlace'
  BY <1>15 DEF Insert
<1>16. ASSUME NEW p \in Processes, Restart(p) PROVE InPlace'
  BY <1>16 DEF Restart, Lost
<1>17. CASE UNCHANGED vars
  BY <1>17 DEF vars, processVars, callVars
<1> QED
  BY <1>1, <1>2, <1>3, <1>4, <1>5, <1>6, <1>7, <1>8, <1>9,
     <1>10, <1>11, <1>12, <1>13, <1>14, <1>15, <1>16, <1>17 DEF Next, Serve

\* What is read is at the path, and a path that is known stays known.
LEMMA ReadStep ==
  ASSUME TypeOK, PathKnown, InPlace, ReadInPlace, [Next]_vars
  PROVE  ReadInPlace'
<1> USE DEF TypeOK, PathKnown, InPlace, ReadInPlace, Stages, Extracting, Resolved, Move, Release
<1>1. ASSUME NEW c \in Calls, Request(c) PROVE ReadInPlace'
  BY <1>1 DEF Request
<1>2. ASSUME NEW c \in Calls, Lock(c) PROVE ReadInPlace'
  BY <1>2 DEF Lock
<1>3. ASSUME NEW c \in Calls, ExtractFails(c) PROVE ReadInPlace'
  BY <1>3 DEF ExtractFails
<1>4. ASSUME NEW c \in Calls, BeginWrite(c) PROVE ReadInPlace'
  BY <1>4 DEF BeginWrite
<1>5. ASSUME NEW c \in Calls, EndWrite(c) PROVE ReadInPlace'
  BY <1>5 DEF EndWrite
<1>6. ASSUME NEW c \in Calls, Rename(c) PROVE ReadInPlace'
  BY <1>6 DEF Rename
<1>7. ASSUME NEW c \in Calls, BackOff(c) PROVE ReadInPlace'
  BY <1>7 DEF BackOff
<1>8. ASSUME NEW c \in Calls, WakeUp(c) PROVE ReadInPlace'
  BY <1>8 DEF WakeUp
<1>9. ASSUME NEW c \in Calls, RenameFails(c) PROVE ReadInPlace'
  BY <1>9 DEF RenameFails
<1>10. ASSUME NEW c \in Calls, Hit(c) PROVE ReadInPlace'
  BY <1>10 DEF Hit
<1>11. ASSUME NEW c \in Calls, Miss(c) PROVE ReadInPlace'
  BY <1>11 DEF Miss
<1>12. ASSUME NEW c \in Calls, Open(c) PROVE ReadInPlace'
  BY <1>12 DEF Open
<1>13. ASSUME NEW c \in Calls, Copy(c) PROVE ReadInPlace'
  BY <1>13 DEF Copy
<1>14. ASSUME NEW c \in Calls, CopyFails(c) PROVE ReadInPlace'
  BY <1>14 DEF CopyFails
<1>15. ASSUME NEW c \in Calls, Insert(c) PROVE ReadInPlace'
  BY <1>15 DEF Insert
<1>16. ASSUME NEW p \in Processes, Restart(p) PROVE ReadInPlace'
  BY <1>16 DEF Restart, Lost
<1>17. CASE UNCHANGED vars
  BY <1>17 DEF vars, processVars, callVars
<1> QED
  BY <1>1, <1>2, <1>3, <1>4, <1>5, <1>6, <1>7, <1>8, <1>9,
     <1>10, <1>11, <1>12, <1>13, <1>14, <1>15, <1>16, <1>17 DEF Next, Serve

\* Insert caches what was read; Rename by its process comes before.
LEMMA CachedStep ==
  ASSUME TypeOK, PathKnown, InPlace, ReadInPlace, Cached, [Next]_vars
  PROVE  Cached'
<1> USE DEF TypeOK, PathKnown, InPlace, ReadInPlace, Cached, Stages, Extracting, Resolved, Move, Release
<1>1. ASSUME NEW c \in Calls, Request(c) PROVE Cached'
  BY <1>1 DEF Request
<1>2. ASSUME NEW c \in Calls, Lock(c) PROVE Cached'
  BY <1>2 DEF Lock
<1>3. ASSUME NEW c \in Calls, ExtractFails(c) PROVE Cached'
  BY <1>3 DEF ExtractFails
<1>4. ASSUME NEW c \in Calls, BeginWrite(c) PROVE Cached'
  BY <1>4 DEF BeginWrite
<1>5. ASSUME NEW c \in Calls, EndWrite(c) PROVE Cached'
  BY <1>5 DEF EndWrite
<1>6. ASSUME NEW c \in Calls, Rename(c) PROVE Cached'
  BY <1>6 DEF Rename
<1>7. ASSUME NEW c \in Calls, BackOff(c) PROVE Cached'
  BY <1>7 DEF BackOff
<1>8. ASSUME NEW c \in Calls, WakeUp(c) PROVE Cached'
  BY <1>8 DEF WakeUp
<1>9. ASSUME NEW c \in Calls, RenameFails(c) PROVE Cached'
  BY <1>9 DEF RenameFails
<1>10. ASSUME NEW c \in Calls, Hit(c) PROVE Cached'
  BY <1>10 DEF Hit
<1>11. ASSUME NEW c \in Calls, Miss(c) PROVE Cached'
  BY <1>11 DEF Miss
<1>12. ASSUME NEW c \in Calls, Open(c) PROVE Cached'
  BY <1>12 DEF Open
<1>13. ASSUME NEW c \in Calls, Copy(c) PROVE Cached'
  BY <1>13 DEF Copy
<1>14. ASSUME NEW c \in Calls, CopyFails(c) PROVE Cached'
  BY <1>14 DEF CopyFails
<1>15. ASSUME NEW c \in Calls, Insert(c) PROVE Cached'
  BY <1>15 DEF Insert, Entry, OwnConnection
<1>16. ASSUME NEW p \in Processes, Restart(p) PROVE Cached'
  BY <1>16 DEF Restart, Lost
<1>17. CASE UNCHANGED vars
  BY <1>17 DEF vars, processVars, callVars
<1> QED
  BY <1>1, <1>2, <1>3, <1>4, <1>5, <1>6, <1>7, <1>8, <1>9,
     <1>10, <1>11, <1>12, <1>13, <1>14, <1>15, <1>16, <1>17 DEF Next, Serve

\* The first entry stays, so that all calls return it.
LEMMA SharedStep ==
  ASSUME TypeOK, Shared, [Next]_vars
  PROVE  Shared'
<1> USE DEF TypeOK, Shared, Stages, Extracting, Move, Release
<1>1. ASSUME NEW c \in Calls, Request(c) PROVE Shared'
  BY <1>1 DEF Request
<1>2. ASSUME NEW c \in Calls, Lock(c) PROVE Shared'
  BY <1>2 DEF Lock
<1>3. ASSUME NEW c \in Calls, ExtractFails(c) PROVE Shared'
  BY <1>3 DEF ExtractFails
<1>4. ASSUME NEW c \in Calls, BeginWrite(c) PROVE Shared'
  BY <1>4 DEF BeginWrite
<1>5. ASSUME NEW c \in Calls, EndWrite(c) PROVE Shared'
  BY <1>5 DEF EndWrite
<1>6. ASSUME NEW c \in Calls, Rename(c) PROVE Shared'
  BY <1>6 DEF Rename
<1>7. ASSUME NEW c \in Calls, BackOff(c) PROVE Shared'
  BY <1>7 DEF BackOff
<1>8. ASSUME NEW c \in Calls, WakeUp(c) PROVE Shared'
  BY <1>8 DEF WakeUp
<1>9. ASSUME NEW c \in Calls, RenameFails(c) PROVE Shared'
  BY <1>9 DEF RenameFails
<1>10. ASSUME NEW c \in Calls, Hit(c) PROVE Shared'
  BY <1>10 DEF Hit
<1>11. ASSUME NEW c \in Calls, Miss(c) PROVE Shared'
  BY <1>11 DEF Miss
<1>12. ASSUME NEW c \in Calls, Open(c) PROVE Shared'
  BY <1>12 DEF Open
<1>13. ASSUME NEW c \in Calls, Copy(c) PROVE Shared'
  BY <1>13 DEF Copy
<1>14. ASSUME NEW c \in Calls, CopyFails(c) PROVE Shared'
  BY <1>14 DEF CopyFails
<1>15. ASSUME NEW c \in Calls, Insert(c) PROVE Shared'
  BY <1>15 DEF Insert, Entry, OwnConnection, NoConnection
<1>16. ASSUME NEW p \in Processes, Restart(p) PROVE Shared'
  BY <1>16 DEF Restart, Lost
<1>17. CASE UNCHANGED vars
  BY <1>17 DEF vars, processVars, callVars
<1> QED
  BY <1>1, <1>2, <1>3, <1>4, <1>5, <1>6, <1>7, <1>8, <1>9,
     <1>10, <1>11, <1>12, <1>13, <1>14, <1>15, <1>16, <1>17 DEF Next, Serve

LEMMA Inductive == Spec => []IInv
<1>1. Init => IInv
  BY DEF Init, IInv, TypeOK, MutexHeld, PathKnown, Complete, InPlace,
         ReadInPlace, Cached, Shared, FileContents, Stages, Extracting, Resolved
<1>2. IInv /\ [Next]_vars => IInv'
  BY TypeStep, MutexStep, PathStep, CompleteStep, InPlaceStep, ReadStep,
     CachedStep, SharedStep DEF IInv
<1> QED
  BY <1>1, <1>2, PTL DEF Spec

\* Type correctness.
THEOREM TypeCorrect == Spec => []TypeOK
<1>1. IInv => TypeOK
  BY DEF IInv
<1> QED
  BY <1>1, Inductive, PTL

\* No call reads an incomplete file, whatever was at the path at first and
\* whenever processes die (resolve_store_path).
THEOREM NothingPartial == Spec => []NeverPartial
<1>1. IInv => NeverPartial
  BY Constants DEF IInv, ReadInPlace, InPlace, NeverPartial
<1> QED
  BY <1>1, Inductive, PTL

\* No process serves a catalog that was in place before its own extraction
\* (resolve_store_path).
THEOREM NothingStale == Spec => []NotStale
<1>1. IInv => NotStale
  BY DEF IInv, Cached, NotStale
<1> QED
  BY <1>1, Inductive, PTL

\* All calls of a process share one connection
\* (cached_in_memory_connection).
THEOREM ConnectionShared == Spec => []OneConnection
<1>1. IInv => OneConnection
  BY DEF IInv, Shared, OneConnection
<1> QED
  BY <1>1, Inductive, PTL

\* A process does not rename over a file it has open itself
\* (resolve_store_path).
THEOREM RenameUndisturbed == Spec => []NoRenameUnderOwnReader
<1>1. IInv => NoRenameUnderOwnReader
  BY DEF IInv, PathKnown, NoRenameUnderOwnReader, HasOpen, Extracting, Resolved
<1> QED
  BY <1>1, Inductive, PTL
=============================================================================
