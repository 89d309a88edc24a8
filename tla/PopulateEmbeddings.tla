------------------------- MODULE PopulateEmbeddings -------------------------
(***************************************************************************)
(* topdesk-mcp-populate-embeddings (src/bin/populate_embeddings.rs) and    *)
(* what it leaves on disk.  Each target is a catalog in two files, the     *)
(* working copy <name>.db and the compressed <name>.db.zst that is built   *)
(* into the binary.  A run works off its targets one by one: decompress,   *)
(* embed every operation, compress, remove the working copy.  It may end   *)
(* with an error or die before any step, and is then started again.        *)
(*                                                                         *)
(* A file is Absent, Damaged (created or emptied, not yet filled), or a    *)
(* catalog.  What matters of a catalog is the set of its operations that   *)
(* have an embedding.  One run at a time; the number of runs that stop     *)
(* early is bounded by MaxFailures.                                        *)
(***************************************************************************)
EXTENDS Integers

CONSTANTS
  Targets,      \* the catalogs of VERSION_STORE_FILES
  Operations,   \* the rows of the table endpoints, the same in each catalog
  Absent, Damaged, NoTarget, NoOperation,
  MaxFailures   \* how many runs may stop early

Catalogs == SUBSET Operations
Files == {Absent, Damaged} \cup Catalogs
IsCatalog(f) == f # Absent /\ f # Damaged

ASSUME PopulateAssumption ==
  /\ \A s \in Catalogs : IsCatalog(s)
  /\ Absent # Damaged
  /\ NoTarget \notin Targets
  /\ NoOperation \notin Operations
  /\ MaxFailures \in Nat

VARIABLES
  raw,            \* <name>.db of each target
  zst,            \* <name>.db.zst of each target
  pc,             \* where the run is
  goal,           \* history: the targets this run was asked for
  targets,        \* those it has not begun
  target,         \* the path the loop is at
  rows,           \* operations of it that are still to be embedded
  row,            \* the operation whose old row is deleted already
  buffer,         \* contents read from one file, for the other
  had_mismatch,   \* the flag of main
  failures        \* how many runs stopped early

fileVars == <<raw, zst>>
runVars == <<goal, targets, target, rows, row, buffer, had_mismatch>>
vars == <<raw, zst, pc, goal, targets, target, rows, row, buffer,
          had_mismatch, failures>>

\* A new catalog has no embeddings and only its working copy; a published one
\* has only its compressed file; both may be there if an earlier run failed.
Init ==
  /\ raw \in [Targets -> {Absent} \cup Catalogs]
  /\ zst \in [Targets -> {Absent} \cup Catalogs]
  /\ \A t \in Targets : raw[t] = Absent => zst[t] # Absent
  /\ pc = "failed"
  /\ goal = {}
  /\ targets = {}
  /\ target = NoTarget
  /\ rows = {}
  /\ row = NoOperation
  /\ buffer = {}
  /\ had_mismatch = FALSE
  /\ failures = 0

Ended == pc \in {"failed", "succeeded"}

\* Mutant: the argument names the goal and is then forgotten.
StartAll ==
  /\ Ended
  /\ goal' \in {Targets} \cup {{t} : t \in Targets}
  /\ targets' = Targets
  /\ target' = NoTarget
  /\ rows' = {}
  /\ row' = NoOperation
  /\ buffer' = {}
  /\ had_mismatch' = FALSE
  /\ pc' = "next"
  /\ UNCHANGED <<fileVars, failures>>

\* targets_from: all of them, or the one given as the argument.
Start ==
  /\ Ended
  /\ goal' \in {Targets} \cup {{t} : t \in Targets}
  /\ targets' = goal'
  /\ target' = NoTarget
  /\ rows' = {}
  /\ row' = NoOperation
  /\ buffer' = {}
  /\ had_mismatch' = FALSE
  /\ pc' = "next"
  /\ UNCHANGED <<fileVars, failures>>

NextTarget(t) ==
  /\ pc = "next"
  /\ t \in targets
  /\ target' = t
  /\ targets' = targets \ {t}
  /\ pc' = "ensure"
  /\ UNCHANGED <<fileVars, goal, rows, row, buffer, had_mismatch, failures>>

\* main bails out at the very end when some catalog was incomplete.
Finish ==
  /\ pc = "next"
  /\ targets = {}
  /\ pc' = IF had_mismatch THEN "failed" ELSE "succeeded"
  /\ UNCHANGED <<fileVars, runVars, failures>>
-----------------------------------------------------------------------------
(* ensure_raw_db.                                                          *)

\* Mutant: two files for one target are an error.
RefuseBoth ==
  /\ pc = "ensure"
  /\ raw[target] # Absent
  /\ pc' = IF zst[target] = Absent THEN "select" ELSE "failed"
  /\ UNCHANGED <<fileVars, runVars, failures>>

\* A working copy is taken as it is, whatever the other file holds.
UseRaw ==
  /\ pc = "ensure"
  /\ raw[target] # Absent
  /\ pc' = "select"
  /\ UNCHANGED <<fileVars, runVars, failures>>

\* The compressed file is read and decoded; fs::write creates the other one.
Decompress ==
  /\ pc = "ensure"
  /\ raw[target] = Absent
  /\ IsCatalog(zst[target])
  /\ buffer' = zst[target]
  /\ raw' = [raw EXCEPT ![target] = Damaged]
  /\ pc' = "fill"
  /\ UNCHANGED <<zst, goal, targets, target, rows, row, had_mismatch, failures>>

FillRaw ==
  /\ pc = "fill"
  /\ raw' = [raw EXCEPT ![target] = buffer]
  /\ pc' = "select"
  /\ UNCHANGED <<zst, runVars, failures>>
-----------------------------------------------------------------------------
(* populate_one and missing_operation_ids.                                 *)

\* SELECT ... FROM endpoints.
SelectRows ==
  /\ pc = "select"
  /\ IsCatalog(raw[target])
  /\ rows' = Operations
  /\ pc' = "embed"
  /\ UNCHANGED <<fileVars, goal, targets, target, row, buffer, had_mismatch,
                 failures>>

\* SQLite finds no such table, or a file shorter than its header says.
RefuseDamaged ==
  /\ pc = "select"
  /\ raw[target] = Damaged
  /\ pc' = "failed"
  /\ UNCHANGED <<fileVars, runVars, failures>>

\* embed returned a vector; DELETE commits by itself.
DeleteOld(o) ==
  /\ pc = "embed"
  /\ o \in rows
  /\ row' = o
  /\ raw' = [raw EXCEPT ![target] = @ \ {o}]
  /\ pc' = "insert"
  /\ UNCHANGED <<zst, goal, targets, target, rows, buffer, had_mismatch,
                 failures>>

\* Mutant: a row that cannot be embedded is skipped silently.
InsertOrSkip ==
  /\ pc = "insert"
  /\ \/ raw' = [raw EXCEPT ![target] = @ \cup {row}]
     \/ UNCHANGED raw
  /\ rows' = rows \ {row}
  /\ row' = NoOperation
  /\ pc' = "embed"
  /\ UNCHANGED <<zst, goal, targets, target, buffer, had_mismatch, failures>>

InsertNew ==
  /\ pc = "insert"
  /\ raw' = [raw EXCEPT ![target] = @ \cup {row}]
  /\ rows' = rows \ {row}
  /\ row' = NoOperation
  /\ pc' = "embed"
  /\ UNCHANGED <<zst, goal, targets, target, buffer, had_mismatch, failures>>

missing_operation_ids == Operations \ raw[target]

CheckParity ==
  /\ pc = "embed"
  /\ rows = {}
  /\ had_mismatch' = (had_mismatch \/ missing_operation_ids # {})
  /\ pc' = "recompress"
  /\ UNCHANGED <<fileVars, goal, targets, target, rows, row, buffer, failures>>
-----------------------------------------------------------------------------
(* recompress_and_remove_raw.                                              *)

\* Mutant: the working copy is removed as soon as it has been read.
MoveToZst ==
  /\ pc = "recompress"
  /\ buffer' = raw[target]
  /\ raw' = [raw EXCEPT ![target] = Absent]
  /\ zst' = [zst EXCEPT ![target] = Damaged]
  /\ pc' = "write"
  /\ UNCHANGED <<goal, targets, target, rows, row, had_mismatch, failures>>

\* The working copy is read and encoded; File::create empties the other file.
CreateZst ==
  /\ pc = "recompress"
  /\ buffer' = raw[target]
  /\ zst' = [zst EXCEPT ![target] = Damaged]
  /\ pc' = "write"
  /\ UNCHANGED <<raw, goal, targets, target, rows, row, had_mismatch, failures>>

WriteZst ==
  /\ pc = "write"
  /\ zst' = [zst EXCEPT ![target] = buffer]
  /\ pc' = "remove"
  /\ UNCHANGED <<raw, runVars, failures>>

\* Mutant: the working copy stays.
KeepRaw ==
  /\ pc = "remove"
  /\ pc' = "next"
  /\ UNCHANGED <<fileVars, runVars, failures>>

RemoveRaw ==
  /\ pc = "remove"
  /\ raw' = [raw EXCEPT ![target] = Absent]
  /\ pc' = "next"
  /\ UNCHANGED <<zst, runVars, failures>>
-----------------------------------------------------------------------------
\* The next step returns an error (no disk space, no model, a busy database)
\* or the process dies before it: what was done so far stays on disk.
Stop ==
  /\ ~Ended
  /\ failures < MaxFailures
  /\ failures' = failures + 1
  /\ pc' = "failed"
  /\ UNCHANGED <<fileVars, runVars>>

\* Somebody inspects what is left and removes a working copy that is damaged.
CleanUp(t) ==
  /\ Ended
  /\ raw[t] = Damaged
  /\ raw' = [raw EXCEPT ![t] = Absent]
  /\ UNCHANGED <<zst, pc, runVars, failures>>

Run ==
  \/ \E t \in Targets : NextTarget(t)
  \/ Finish
  \/ UseRaw \/ Decompress \/ FillRaw
  \/ SelectRows \/ RefuseDamaged
  \/ \E o \in Operations : DeleteOld(o)
  \/ InsertNew \/ CheckParity
  \/ CreateZst \/ WriteZst \/ RemoveRaw

Next == Start \/ Run \/ Stop \/ \E t \in Targets : CleanUp(t)

Spec == Init /\ [][Next]_vars

\* The process runs until it ends, and somebody starts it again.
FairSpec == Spec /\ WF_vars(Run) /\ WF_vars(Start)
-----------------------------------------------------------------------------
Stages == {"next", "ensure", "fill", "select", "embed", "insert",
           "recompress", "write", "remove", "failed", "succeeded"}

TypeOK ==
  /\ raw \in [Targets -> Files]
  /\ zst \in [Targets -> Files]
  /\ pc \in Stages
  /\ goal \subseteq Targets
  /\ targets \subseteq goal
  /\ target \in Targets \cup {NoTarget}
  /\ rows \subseteq Operations
  /\ row \in Operations \cup {NoOperation}
  /\ buffer \in Catalogs
  /\ had_mismatch \in BOOLEAN
  /\ failures \in Nat

\* Wherever runs are interrupted and whatever they find, no catalog is ever
\* lost: a damaged working copy has its compressed file, and a damaged or
\* missing compressed file a working copy, which the next run prefers
\* (ensure_raw_db; the order of recompress_and_remove_raw).
NothingLost ==
  \A t \in Targets :
    /\ ~IsCatalog(raw[t]) => IsCatalog(zst[t])
    /\ ~IsCatalog(zst[t]) => IsCatalog(raw[t])

\* A run that reports success has left, for every target it was asked for, a
\* compressed file with an embedding for every operation and no working copy,
\* even when it took up what interrupted runs had left half done
\* (main, populate_one, recompress_and_remove_raw).
SuccessIsComplete ==
  pc = "succeeded" =>
    \A t \in goal : zst[t] = Operations /\ raw[t] = Absent

\* A step that changes a published catalog into another one publishes a
\* complete one: no row-by-row state of the working copy, left by this run or
\* by an earlier one, ever gets into the compressed file (main, lines 227-230:
\* "only a fully processed path gets folded back").
PublishedIsComplete ==
  [][\A t \in Targets :
       zst'[t] # zst[t] /\ zst'[t] # Damaged => zst'[t] = Operations]_vars

\* Run again often enough, the program heals what its failures left, with one
\* exception: a working copy that was created and not filled is taken for the
\* real one by every later run, until somebody removes it (ensure_raw_db).
RerunHeals ==
  []<>(\/ pc = "succeeded"
       \/ pc = "failed" /\ \E t \in Targets : raw[t] = Damaged)
=============================================================================
