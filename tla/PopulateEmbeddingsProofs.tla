---------------------- MODULE PopulateEmbeddingsProofs ----------------------
(***************************************************************************)
(* Theorems about PopulateEmbeddings for any number of catalogs, rows and  *)
(* interrupted runs.                                                       *)
(***************************************************************************)
EXTENDS PopulateEmbeddings, TLAPS

\* The stages that are about one target, and those of them in which its
\* working copy can be read.
Working == {"ensure", "fill", "select", "embed", "insert", "recompress",
            "write", "remove"}
Reading == {"embed", "insert", "recompress", "write", "remove"}

\* The loop has taken its target out of those to come.
AtTarget == pc \in Working => target \in Targets /\ target \in goal \ targets

\* The working copy is filled from its compressed file, and read afterwards.
FromZst == pc = "fill" => IsCatalog(zst[target])
Readable == pc \in Reading => IsCatalog(raw[target])

\* Rows that have had their turn have their embedding, so that what is
\* compressed is complete, and the copy is removed when it is not needed.
Embedded ==
  /\ pc \in {"embed", "insert"} => Operations \ rows \subseteq raw[target]
  /\ pc = "insert" => row \in rows
  /\ pc \in {"recompress", "write", "remove"} => raw[target] = Operations
  /\ pc = "write" => buffer = Operations
  /\ pc = "remove" => zst[target] = Operations

\* The targets the loop has been at, as long as the run has not stopped.
Finished ==
  /\ pc # "failed" =>
       \A t \in goal \ targets :
         (pc \in Working => t # target)
           => zst[t] = Operations /\ raw[t] = Absent
  /\ pc = "succeeded" => targets = {}

IInv == /\ TypeOK /\ AtTarget /\ FromZst /\ Readable
        /\ Embedded /\ NothingLost /\ Finished
-----------------------------------------------------------------------------
\* A file that is neither absent nor damaged is a set of embedded operations.
LEMMA FileKinds ==
  /\ \A f \in Files : IsCatalog(f) <=> f \in Catalogs
  /\ Operations \in Catalogs /\ IsCatalog(Operations)
  /\ ~IsCatalog(Absent) /\ ~IsCatalog(Damaged)
  /\ Absent # Damaged
BY PopulateAssumption DEF PopulateAssumption, Files, Catalogs, IsCatalog

LEMMA InitIInv == Init => IInv
<1> SUFFICES ASSUME Init PROVE IInv
  OBVIOUS
<1> USE DEF Init
<1>1. TypeOK
  BY PopulateAssumption
  DEF TypeOK, Files, Stages, Catalogs, PopulateAssumption
<1>2. NothingLost
  BY FileKinds DEF NothingLost, IsCatalog, Files
<1>3. AtTarget /\ FromZst /\ Readable /\ Embedded /\ Finished
  BY DEF AtTarget, FromZst, Readable, Embedded, Finished, Working, Reading
<1> QED
  BY <1>1, <1>2, <1>3 DEF IInv

\* A file of the target changes to another file.
LEMMA FilesTyped ==
  ASSUME NEW f \in [Targets -> Files], NEW t \in Targets, NEW c \in Files
  PROVE  [f EXCEPT ![t] = c] \in [Targets -> Files]
OBVIOUS

\* A row is deleted or inserted in a file that is a catalog and stays one.
LEMMA RowChanges ==
  ASSUME TypeOK, AtTarget, Readable, Embedded,
         (\E o \in Operations : DeleteOld(o)) \/ InsertNew
  PROVE  \E c \in Catalogs : raw' = [raw EXCEPT ![target] = c]
<1>1. target \in Targets /\ raw[target] \in Catalogs
  BY FileKinds
  DEF DeleteOld, InsertNew, TypeOK, AtTarget, Working, Readable, Reading
<1>2. ASSUME NEW o \in Operations, DeleteOld(o)
      PROVE  \E c \in Catalogs : raw' = [raw EXCEPT ![target] = c]
  <2>1. raw[target] \ {o} \in Catalogs
    BY <1>1 DEF Catalogs
  <2> QED
    BY <1>2, <2>1 DEF DeleteOld
<1>3. CASE InsertNew
  <2>1. raw[target] \cup {row} \in Catalogs
    BY <1>1, <1>3 DEF InsertNew, Embedded, TypeOK, Catalogs
  <2> QED
    BY <1>3, <2>1 DEF InsertNew
<1> QED
  BY <1>2, <1>3

\* Every step keeps the types; rows are deleted and inserted only in a file
\* that is a catalog.
LEMMA TypeStep ==
  ASSUME TypeOK, AtTarget, Readable, Embedded, [Next]_vars
  PROVE  TypeOK'
<1> USE DEF TypeOK, Stages, fileVars, runVars
<1>1. CASE Start
  BY <1>1, PopulateAssumption
  DEF Start, Ended, Catalogs, PopulateAssumption
<1>2. ASSUME NEW t \in Targets, NextTarget(t) PROVE TypeOK'
  BY <1>2 DEF NextTarget
<1>3. CASE Finish
  BY <1>3 DEF Finish
<1>4. CASE UseRaw
  BY <1>4 DEF UseRaw
<1>5. CASE Decompress
  <2>1. /\ target \in Targets
        /\ buffer' = zst[target] /\ raw' = [raw EXCEPT ![target] = Damaged]
    BY <1>5 DEF Decompress, AtTarget, Working
  <2>2. buffer' \in Catalogs
    BY <1>5, <2>1, FileKinds DEF Decompress
  <2>3. raw' \in [Targets -> Files]
    BY <2>1, FilesTyped DEF Files
  <2> QED
    BY <1>5, <2>2, <2>3 DEF Decompress
<1>6. CASE FillRaw
  <2>1. target \in Targets /\ buffer \in Files
    BY <1>6 DEF FillRaw, AtTarget, Working, Files
  <2>2. raw' \in [Targets -> Files]
    BY <1>6, <2>1, FilesTyped DEF FillRaw
  <2> QED
    BY <1>6, <2>2 DEF FillRaw
<1>7. CASE SelectRows
  BY <1>7 DEF SelectRows
<1>8. CASE RefuseDamaged
  BY <1>8 DEF RefuseDamaged
<1>9. ASSUME NEW o \in Operations, DeleteOld(o) PROVE TypeOK'
  <2>1. raw' \in [Targets -> Files]
    BY <1>9, RowChanges DEF Files
  <2> QED
    BY <1>9, <2>1 DEF DeleteOld
<1>10. CASE InsertNew
  <2>1. raw' \in [Targets -> Files]
    BY <1>10, RowChanges DEF Files
  <2> QED
    BY <1>10, <2>1 DEF InsertNew
<1>11. CASE CheckParity
  BY <1>11 DEF CheckParity, missing_operation_ids
<1>12. CASE CreateZst
  <2>1. target \in Targets /\ raw[target] \in Catalogs
    BY <1>12, FileKinds DEF CreateZst, AtTarget, Working, Readable, Reading
  <2>2. zst' \in [Targets -> Files]
    BY <1>12, <2>1, FilesTyped DEF CreateZst, Files
  <2> QED
    BY <1>12, <2>1, <2>2 DEF CreateZst
<1>13. CASE WriteZst
  <2>1. target \in Targets /\ buffer \in Files
    BY <1>13 DEF WriteZst, AtTarget, Working, Files
  <2>2. zst' \in [Targets -> Files]
    BY <1>13, <2>1, FilesTyped DEF WriteZst
  <2> QED
    BY <1>13, <2>2 DEF WriteZst
<1>14. CASE RemoveRaw
  <2>1. target \in Targets
    BY <1>14 DEF RemoveRaw, AtTarget, Working
  <2>2. raw' \in [Targets -> Files]
    BY <1>14, <2>1, FilesTyped DEF RemoveRaw, Files
  <2> QED
    BY <1>14, <2>2 DEF RemoveRaw
<1>15. CASE Stop
  BY <1>15 DEF Stop
<1>16. ASSUME NEW t \in Targets, CleanUp(t) PROVE TypeOK'
  <2>1. raw' \in [Targets -> Files]
    BY <1>16, FilesTyped DEF CleanUp, Files
  <2> QED
    BY <1>16, <2>1 DEF CleanUp, Ended
<1>17. CASE UNCHANGED vars
  BY <1>17 DEF vars
<1> QED
  BY <1>1, <1>2, <1>3, <1>4, <1>5, <1>6, <1>7, <1>8, <1>9, <1>10, <1>11,
     <1>12, <1>13, <1>14, <1>15, <1>16, <1>17 DEF Next, Run

\* The loop takes a target out of the list before it works on it.
LEMMA AtTargetStep ==
  ASSUME TypeOK, AtTarget, [Next]_vars
  PROVE  AtTarget'
<1> USE DEF TypeOK, AtTarget, Working, fileVars, runVars
<1>1. CASE Start
  BY <1>1 DEF Start, Ended
<1>2. ASSUME NEW t \in Targets, NextTarget(t) PROVE AtTarget'
  BY <1>2 DEF NextTarget
<1>3. CASE Finish
  BY <1>3 DEF Finish
<1>4. CASE UseRaw
  BY <1>4 DEF UseRaw
<1>5. CASE Decompress
  BY <1>5 DEF Decompress
<1>6. CASE FillRaw
  BY <1>6 DEF FillRaw
<1>7. CASE SelectRows
  BY <1>7 DEF SelectRows
<1>8. CASE RefuseDamaged
  BY <1>8 DEF RefuseDamaged
<1>9. ASSUME NEW o \in Operations, DeleteOld(o) PROVE AtTarget'
  BY <1>9 DEF DeleteOld
<1>10. CASE InsertNew
  BY <1>10 DEF InsertNew
<1>11. CASE CheckParity
  BY <1>11 DEF CheckParity, missing_operation_ids
<1>12. CASE CreateZst
  BY <1>12 DEF CreateZst
<1>13. CASE WriteZst
  BY <1>13 DEF WriteZst
<1>14. CASE RemoveRaw
  BY <1>14 DEF RemoveRaw
<1>15. CASE Stop
  BY <1>15 DEF Stop
<1>16. ASSUME NEW t \in Targets, CleanUp(t) PROVE AtTarget'
  BY <1>16 DEF CleanUp, Ended
<1>17. CASE UNCHANGED vars
  BY <1>17 DEF vars
<1> QED
  BY <1>1, <1>2, <1>3, <1>4, <1>5, <1>6, <1>7, <1>8, <1>9, <1>10, <1>11,
     <1>12, <1>13, <1>14, <1>15, <1>16, <1>17 DEF Next, Run


\* The compressed file is there as long as it is being copied.
LEMMA FromZstStep ==
  ASSUME TypeOK, FromZst, AtTarget, [Next]_vars
  PROVE  FromZst'
<1> USE DEF TypeOK, FromZst, AtTarget, Working, IsCatalog, fileVars, runVars
<1>1. CASE Start
  BY <1>1 DEF Start, Ended
<1>2. ASSUME NEW t \in Targets, NextTarget(t) PROVE FromZst'
  BY <1>2 DEF NextTarget
<1>3. CASE Finish
  BY <1>3 DEF Finish
<1>4. CASE UseRaw
  BY <1>4 DEF UseRaw
<1>5. CASE Decompress
  BY <1>5 DEF Decompress
<1>6. CASE FillRaw
  BY <1>6 DEF FillRaw
<1>7. CASE SelectRows
  BY <1>7 DEF SelectRows
<1>8. CASE RefuseDamaged
  BY <1>8 DEF RefuseDamaged
<1>9. ASSUME NEW o \in Operations, DeleteOld(o) PROVE FromZst'
  BY <1>9 DEF DeleteOld
<1>10. CASE InsertNew
  BY <1>10 DEF InsertNew
<1>11. CASE CheckParity
  BY <1>11 DEF CheckParity, missing_operation_ids
<1>12. CASE CreateZst
  BY <1>12 DEF CreateZst
<1>13. CASE WriteZst
  BY <1>13 DEF WriteZst
<1>14. CASE RemoveRaw
  BY <1>14 DEF RemoveRaw
<1>15. CASE Stop
  BY <1>15 DEF Stop
<1>16. ASSUME NEW t \in Targets, CleanUp(t) PROVE FromZst'
  BY <1>16 DEF CleanUp, Ended
<1>17. CASE UNCHANGED vars
  BY <1>17 DEF vars
<1> QED
  BY <1>1, <1>2, <1>3, <1>4, <1>5, <1>6, <1>7, <1>8, <1>9, <1>10, <1>11,
     <1>12, <1>13, <1>14, <1>15, <1>16, <1>17 DEF Next, Run


\* The working copy stays a catalog until it is removed.
LEMMA ReadableStep ==
  ASSUME TypeOK, AtTarget, Readable, Embedded, [Next]_vars
  PROVE  Readable'
<1> USE FileKinds DEF TypeOK, AtTarget, Working, Readable, Reading,
                      fileVars, runVars
<1>1. CASE Start
  BY <1>1 DEF Start, Ended
<1>2. ASSUME NEW t \in Targets, NextTarget(t) PROVE Readable'
  BY <1>2 DEF NextTarget
<1>3. CASE Finish
  BY <1>3 DEF Finish
<1>4. CASE UseRaw
  BY <1>4 DEF UseRaw
<1>5. CASE Decompress
  BY <1>5 DEF Decompress
<1>6. CASE FillRaw
  BY <1>6 DEF FillRaw
<1>7. CASE SelectRows
  BY <1>7 DEF SelectRows
<1>8. CASE RefuseDamaged
  BY <1>8 DEF RefuseDamaged
<1>9. ASSUME NEW o \in Operations, DeleteOld(o) PROVE Readable'
  <2>1. PICK c \in Catalogs : raw' = [raw EXCEPT ![target] = c]
    BY <1>9, RowChanges
  <2>2. IsCatalog(c)
    BY FileKinds DEF Files
  <2>3. pc \in Reading /\ target' = target
    BY <1>9 DEF DeleteOld, Reading
  <2> QED
    BY <2>1, <2>2, <2>3
<1>10. CASE InsertNew
  <2>1. PICK c \in Catalogs : raw' = [raw EXCEPT ![target] = c]
    BY <1>10, RowChanges
  <2>2. IsCatalog(c)
    BY FileKinds DEF Files
  <2>3. pc \in Reading /\ target' = target
    BY <1>10 DEF InsertNew, Reading
  <2> QED
    BY <2>1, <2>2, <2>3
<1>11. CASE CheckParity
  BY <1>11 DEF CheckParity, missing_operation_ids
<1>12. CASE CreateZst
  BY <1>12 DEF CreateZst
<1>13. CASE WriteZst
  BY <1>13 DEF WriteZst
<1>14. CASE RemoveRaw
  BY <1>14 DEF RemoveRaw
<1>15. CASE Stop
  BY <1>15 DEF Stop
<1>16. ASSUME NEW t \in Targets, CleanUp(t) PROVE Readable'
  BY <1>16 DEF CleanUp, Ended
<1>17. CASE UNCHANGED vars
  BY <1>17 DEF vars
<1> QED
  BY <1>1, <1>2, <1>3, <1>4, <1>5, <1>6, <1>7, <1>8, <1>9, <1>10, <1>11,
     <1>12, <1>13, <1>14, <1>15, <1>16, <1>17 DEF Next, Run


\* Each turn of the loop over the rows leaves an embedding behind.
LEMMA EmbeddedStep ==
  ASSUME TypeOK, AtTarget, Readable, Embedded, [Next]_vars
  PROVE  Embedded'
<1> USE FileKinds DEF TypeOK, AtTarget, Working, Readable, Reading, Embedded,
                      fileVars, runVars
<1>1. CASE Start
  BY <1>1 DEF Start, Ended
<1>2. ASSUME NEW t \in Targets, NextTarget(t) PROVE Embedded'
  BY <1>2 DEF NextTarget
<1>3. CASE Finish
  BY <1>3 DEF Finish
<1>4. CASE UseRaw
  BY <1>4 DEF UseRaw
<1>5. CASE Decompress
  BY <1>5 DEF Decompress
<1>6. CASE FillRaw
  BY <1>6 DEF FillRaw
<1>7. CASE SelectRows
  BY <1>7 DEF SelectRows
<1>8. CASE RefuseDamaged
  BY <1>8 DEF RefuseDamaged
<1>9. ASSUME NEW o \in Operations, DeleteOld(o) PROVE Embedded'
  BY <1>9 DEF DeleteOld
<1>10. CASE InsertNew
  BY <1>10 DEF InsertNew
<1>11. CASE CheckParity
  <2>1. rows = {} /\ raw[target] \in Catalogs
    BY <1>11 DEF CheckParity, missing_operation_ids
  <2>2. raw[target] = Operations
    BY <1>11, <2>1 DEF CheckParity, missing_operation_ids, Catalogs
  <2> QED
    BY <1>11, <2>2 DEF CheckParity, missing_operation_ids
<1>12. CASE CreateZst
  BY <1>12 DEF CreateZst
<1>13. CASE WriteZst
  BY <1>13 DEF WriteZst
<1>14. CASE RemoveRaw
  BY <1>14 DEF RemoveRaw
<1>15. CASE Stop
  BY <1>15 DEF Stop
<1>16. ASSUME NEW t \in Targets, CleanUp(t) PROVE Embedded'
  BY <1>16 DEF CleanUp, Ended
<1>17. CASE UNCHANGED vars
  BY <1>17 DEF vars
<1> QED
  BY <1>1, <1>2, <1>3, <1>4, <1>5, <1>6, <1>7, <1>8, <1>9, <1>10, <1>11,
     <1>12, <1>13, <1>14, <1>15, <1>16, <1>17 DEF Next, Run


\* One of the two files is always a catalog.
LEMMA NothingLostStep ==
  ASSUME TypeOK, AtTarget, FromZst, Readable, Embedded, NothingLost, [Next]_vars
  PROVE  NothingLost'
<1> USE FileKinds DEF TypeOK, AtTarget, Working, FromZst, Readable, Reading,
                      Embedded, NothingLost, fileVars, runVars
<1>1. CASE Start
  BY <1>1 DEF Start, Ended
<1>2. ASSUME NEW t \in Targets, NextTarget(t) PROVE NothingLost'
  BY <1>2 DEF NextTarget
<1>3. CASE Finish
  BY <1>3 DEF Finish
<1>4. CASE UseRaw
  BY <1>4 DEF UseRaw
<1>5. CASE Decompress
  BY <1>5 DEF Decompress
<1>6. CASE FillRaw
  BY <1>6 DEF FillRaw
<1>7. CASE SelectRows
  BY <1>7 DEF SelectRows
<1>8. CASE RefuseDamaged
  BY <1>8 DEF RefuseDamaged
<1>9. ASSUME NEW o \in Operations, DeleteOld(o) PROVE NothingLost'
  <2>1. PICK c \in Catalogs : raw' = [raw EXCEPT ![target] = c]
    BY <1>9, RowChanges
  <2>2. IsCatalog(c)
    BY FileKinds DEF Files
  <2>3. pc \in Reading /\ zst' = zst
    BY <1>9 DEF DeleteOld, Reading
  <2> QED
    BY <2>1, <2>2, <2>3
<1>10. CASE InsertNew
  <2>1. PICK c \in Catalogs : raw' = [raw EXCEPT ![target] = c]
    BY <1>10, RowChanges
  <2>2. IsCatalog(c)
    BY FileKinds DEF Files
  <2>3. pc \in Reading /\ zst' = zst
    BY <1>10 DEF InsertNew, Reading
  <2> QED
    BY <2>1, <2>2, <2>3
<1>11. CASE CheckParity
  BY <1>11 DEF CheckParity, missing_operation_ids
<1>12. CASE CreateZst
  BY <1>12 DEF CreateZst
<1>13. CASE WriteZst
  BY <1>13 DEF WriteZst
<1>14. CASE RemoveRaw
  BY <1>14 DEF RemoveRaw
<1>15. CASE Stop
  BY <1>15 DEF Stop
<1>16. ASSUME NEW t \in Targets, CleanUp(t) PROVE NothingLost'
  BY <1>16 DEF CleanUp, Ended
<1>17. CASE UNCHANGED vars
  BY <1>17 DEF vars
<1> QED
  BY <1>1, <1>2, <1>3, <1>4, <1>5, <1>6, <1>7, <1>8, <1>9, <1>10, <1>11,
     <1>12, <1>13, <1>14, <1>15, <1>16, <1>17 DEF Next, Run


\* Nothing touches a target that is finished, until another run starts.
LEMMA FinishedStep ==
  ASSUME TypeOK, AtTarget, Embedded, Finished, [Next]_vars
  PROVE  Finished'
<1> USE FileKinds DEF TypeOK, AtTarget, Working, Embedded, Finished,
                      fileVars, runVars
<1>1. CASE Start
  BY <1>1 DEF Start, Ended
<1>2. ASSUME NEW t \in Targets, NextTarget(t) PROVE Finished'
  BY <1>2 DEF NextTarget
<1>3. CASE Finish
  BY <1>3 DEF Finish
<1>4. CASE UseRaw
  BY <1>4 DEF UseRaw
<1>5. CASE Decompress
  BY <1>5 DEF Decompress
<1>6. CASE FillRaw
  BY <1>6 DEF FillRaw
<1>7. CASE SelectRows
  BY <1>7 DEF SelectRows
<1>8. CASE RefuseDamaged
  BY <1>8 DEF RefuseDamaged
<1>9. ASSUME NEW o \in Operations, DeleteOld(o) PROVE Finished'
  BY <1>9 DEF DeleteOld
<1>10. CASE InsertNew
  BY <1>10 DEF InsertNew
<1>11. CASE CheckParity
  BY <1>11 DEF CheckParity, missing_operation_ids
<1>12. CASE CreateZst
  BY <1>12 DEF CreateZst
<1>13. CASE WriteZst
  BY <1>13 DEF WriteZst
<1>14. CASE RemoveRaw
  BY <1>14 DEF RemoveRaw
<1>15. CASE Stop
  BY <1>15 DEF Stop
<1>16. ASSUME NEW t \in Targets, CleanUp(t) PROVE Finished'
  BY <1>16 DEF CleanUp, Ended
<1>17. CASE UNCHANGED vars
  BY <1>17 DEF vars
<1> QED
  BY <1>1, <1>2, <1>3, <1>4, <1>5, <1>6, <1>7, <1>8, <1>9, <1>10, <1>11,
     <1>12, <1>13, <1>14, <1>15, <1>16, <1>17 DEF Next, Run

-----------------------------------------------------------------------------
LEMMA Inductive == Spec => []IInv
<1>1. IInv /\ [Next]_vars => IInv'
  BY TypeStep, AtTargetStep, FromZstStep, ReadableStep, EmbeddedStep,
     NothingLostStep, FinishedStep DEF IInv
<1> QED
  BY InitIInv, <1>1, PTL DEF Spec

\* Every reachable state is well typed: files are read and changed only where
\* they are what the program takes them for.
THEOREM TypeCorrect == Spec => []TypeOK
BY Inductive, PTL DEF IInv

\* Wherever a run stops, one of the two files of each target is a catalog.
THEOREM CatalogsSurvive == Spec => []NothingLost
BY Inductive, PTL DEF IInv

\* A run that ends well has finished all that it was asked for.
THEOREM SuccessIsTrue == Spec => []SuccessIsComplete
<1>1. IInv => SuccessIsComplete
  <2> SUFFICES ASSUME IInv, pc = "succeeded", NEW t \in goal
               PROVE  zst[t] = Operations /\ raw[t] = Absent
    BY DEF SuccessIsComplete
  <2>1. targets = {}
    BY DEF IInv, Finished
  <2> QED
    BY <2>1 DEF IInv, Finished, Working
<1> QED
  BY Inductive, <1>1, PTL

\* No step puts an incomplete catalog in the place of a published one.
THEOREM PublicationIsComplete == Spec => PublishedIsComplete
<1>1. IInv /\ [Next]_vars
        => \A t \in Targets :
             zst'[t] # zst[t] /\ zst'[t] # Damaged => zst'[t] = Operations
  <2> SUFFICES ASSUME IInv, [Next]_vars, NEW t \in Targets,
                      zst'[t] # zst[t], zst'[t] # Damaged
               PROVE  zst'[t] = Operations
    OBVIOUS
  <2>1. CreateZst \/ WriteZst
    BY DEF Next, Run, Start, NextTarget, Finish, UseRaw, Decompress, FillRaw,
           SelectRows, RefuseDamaged, DeleteOld, InsertNew, CheckParity,
           RemoveRaw, Stop, CleanUp, fileVars, vars
  <2>2. CASE CreateZst
    BY <2>2 DEF CreateZst, IInv, TypeOK
  <2>3. CASE WriteZst
    BY <2>3 DEF WriteZst, IInv, TypeOK, Embedded
  <2> QED
    BY <2>1, <2>2, <2>3
<1> QED
  BY Inductive, <1>1, PTL DEF Spec, PublishedIsComplete
=============================================================================
