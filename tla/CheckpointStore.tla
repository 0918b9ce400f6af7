--------------------------- MODULE CheckpointStore ---------------------------
(***************************************************************************)
(* The checkpoint stores behind the Store trait: InMemoryStore, FileStore, *)
(* PostgresStore and S3Store, one of them per behaviour.  The server saves *)
(* a model for each round it completes, one save at a time; beside it a    *)
(* reader loads the latest model (run_round, fetch_task) or one round's    *)
(* (cflux checkpoint show).                                                *)
(*                                                                         *)
(* A step is one call to the outside: an SQL statement, an S3 request, a   *)
(* file system operation.  A file is torn while it is being written.  The  *)
(* server may crash between two steps.  A model is a number, in the order  *)
(* they were produced, and 0 is what the store held at the start.          *)
(***************************************************************************)
EXTENDS Integers, FiniteSetsExt

CONSTANTS
  FirstRound,      \* the round the server is at when the behaviour starts
  PageSize,        \* keys in one page of an S3 listing (1000)
  MaxModel,        \* bound: models saved
  MaxStoreCrashes  \* bound: crashes of the server

ASSUME StoreAssumption ==
  /\ FirstRound \in Nat \ {0}
  /\ PageSize \in Nat \ {0} /\ MaxModel \in Nat /\ MaxStoreCrashes \in Nat

VARIABLES
  backend,      \* which implementation of Store
  held,         \* round |-> what is stored for it
  tmp,          \* round |-> a checkpoint-<round>.bin.tmp beside the files
  nextRound,    \* the round the server will save
  saving,       \* the save in progress
  loading,      \* the load in progress, or its answer
  models,       \* models produced so far
  storeCrashes

storeVars == <<backend, held, tmp, nextRound, saving, loading, models, storeCrashes>>

\* What a load may answer besides a model.
NoCheckpoint == -1
MalformedCheckpoint == -2
BackendError == -3

Latest == 0   \* what load_latest_weights asks for; load_checkpoint names a round
Blob == [model : Nat, whole : BOOLEAN]
Idle == [stage |-> "idle", model |-> 0]
NoLoad == [stage |-> "idle", target |-> 0, listed |-> {}, answer |-> 0, right |-> {}]

StoreTypeOK ==
  /\ backend \in {"memory", "file", "postgres", "s3"}
  /\ \A r \in DOMAIN held : held[r] \in Blob
  /\ \A r \in DOMAIN tmp : tmp[r] \in Blob
  /\ nextRound \in Nat
  /\ saving.stage \in {"idle", "put", "create", "write", "rename"}
  /\ loading.stage \in {"idle", "query", "page", "read", "done"}

\* InMemoryStore::new files its seed under round 0; the other stores hold what
\* earlier rounds left, nothing at all when the store is new.
StoreInit ==
  /\ backend \in {"memory", "file", "postgres", "s3"}
  /\ nextRound = FirstRound
  /\ LET last == IF backend = "memory" THEN 0 ELSE FirstRound - 1
     IN  held \in {[r \in kept |-> [model |-> 0, whole |-> TRUE]] :
                     kept \in {{last}} \cup (IF backend = "memory" THEN {} ELSE {{}})}
  /\ tmp = [r \in {} |-> [model |-> 0, whole |-> TRUE]]
  /\ saving = Idle /\ loading = NoLoad
  /\ models = 0 /\ storeCrashes = 0

-----------------------------------------------------------------------------
(* What the store answers, were it asked in one step *)

Answer(target, files) ==
  LET asked == IF target = Latest THEN (IF DOMAIN files = {} THEN {} ELSE {Max(DOMAIN files)})
                                  ELSE {target} \cap DOMAIN files
  IN  IF asked = {} THEN NoCheckpoint ELSE files[Max(asked)].model

\* The files change; a load in progress may now answer with the new state too.
Becomes(files) ==
  /\ held' = files
  /\ loading' = IF loading.stage \in {"idle", "done"} THEN loading
                ELSE [loading EXCEPT !.right = @ \cup {Answer(loading.target, files)}]

With(files, r, blob) == [s \in DOMAIN files \cup {r} |-> IF s = r THEN blob ELSE files[s]]

-----------------------------------------------------------------------------
(* save_checkpoint *)

\* FileStore goes through a temporary file; the others write in one request.
FirstWrite == IF backend = "file" THEN "create" ELSE "put"

BeginSave ==
  /\ saving.stage = "idle"
  /\ models < MaxModel
  /\ models' = models + 1
  /\ saving' = [stage |-> FirstWrite, model |-> models + 1]
  /\ UNCHANGED <<backend, held, tmp, nextRound, loading, storeCrashes>>

SaveReturns == saving' = Idle /\ nextRound' = nextRound + 1

\* InMemoryStore keeps the highest round only; Postgres updates on conflict
\* and S3 overwrites.
Stored(r, blob) ==
  IF backend = "memory"
    THEN IF \A s \in DOMAIN held : s <= r THEN [s \in {r} |-> blob] ELSE held
    ELSE With(held, r, blob)

Put ==
  /\ saving.stage = "put"
  /\ Becomes(Stored(nextRound, [model |-> saving.model, whole |-> TRUE]))
  /\ SaveReturns
  /\ UNCHANGED <<backend, tmp, models, storeCrashes>>

\* Mutation: the file is renamed into place before its bytes are written.
CreateTmp_RenamedEarly ==
  /\ saving.stage = "create"
  /\ tmp' = With(tmp, nextRound, [model |-> saving.model, whole |-> FALSE])
  /\ saving' = [saving EXCEPT !.stage = "rename"]
  /\ UNCHANGED <<backend, held, nextRound, loading, models, storeCrashes>>

\* fs::write creates or truncates the temporary file, ...
CreateTmp ==
  /\ saving.stage = "create"
  /\ tmp' = With(tmp, nextRound, [model |-> saving.model, whole |-> FALSE])
  /\ saving' = [saving EXCEPT !.stage = "write"]
  /\ UNCHANGED <<backend, held, nextRound, loading, models, storeCrashes>>

\* ... and fills it, ...
WriteTmp ==
  /\ saving.stage = "write"
  /\ tmp' = [tmp EXCEPT ![nextRound].whole = TRUE]
  /\ saving' = [saving EXCEPT !.stage = "rename"]
  /\ UNCHANGED <<backend, held, nextRound, loading, models, storeCrashes>>

\* ... and fs::rename puts it in place.
RenameTmp ==
  /\ saving.stage = "rename"
  /\ Becomes(With(held, nextRound, tmp[nextRound]))
  /\ tmp' = [r \in DOMAIN tmp \ {nextRound} |-> tmp[r]]
  /\ SaveReturns
  /\ UNCHANGED <<backend, models, storeCrashes>>

\* The save returns an error: nothing was stored, or the answer was lost.  The
\* round will be tried again under the same number.
SaveFails ==
  /\ saving.stage # "idle" /\ backend # "memory"
  /\ saving' = Idle
  /\ \/ UNCHANGED <<held, loading>>
     \/ /\ saving.stage = "put"
        /\ Becomes(Stored(nextRound, [model |-> saving.model, whole |-> TRUE]))
  /\ UNCHANGED <<backend, tmp, nextRound, models, storeCrashes>>

-----------------------------------------------------------------------------
(* load_latest_weights and load_checkpoint *)

BeginLoad(target) ==
  /\ loading.stage \in {"idle", "done"}
  /\ loading' = [stage |-> IF backend = "s3" THEN "page" ELSE "query",
                 target |-> target, listed |-> {}, answer |-> 0,
                 right |-> {Answer(target, held)}]
  /\ UNCHANGED <<backend, held, tmp, nextRound, saving, models, storeCrashes>>

Answered(a) == loading' = [loading EXCEPT !.stage = "done", !.answer = a]

\* Read the round the listing decides on, if there is one.
Chosen(rounds) ==
  LET asked == IF loading.target # Latest THEN {loading.target} \cap rounds
               ELSE IF rounds = {} THEN {} ELSE {Max(rounds)}
  IN  IF asked = {} THEN Answered(NoCheckpoint)
      ELSE loading' = [loading EXCEPT !.stage = "read", !.listed = asked]

\* InMemoryStore and PostgresStore answer in one step; FileStore scans its
\* directory, past any .bin.tmp, and reads the file it settles on afterwards.
Query ==
  /\ loading.stage = "query"
  /\ \/ /\ backend \in {"memory", "postgres"}
        /\ Answered(Answer(loading.target, held))
     \/ /\ backend = "file"
        /\ Chosen(DOMAIN held)
  /\ UNCHANGED <<backend, held, tmp, nextRound, saving, models, storeCrashes>>

\* The power of ten with one digit more than n.
Tens[n \in Nat] == IF n < 10 THEN 10 ELSE 10 * Tens[n \div 10]

\* S3 lists keys as text: checkpoint-10.bin comes before checkpoint-9.bin.
\* Numerals compare as the digits behind a decimal point do, and where they
\* differ in trailing zeros only, the shorter one ends in "." and comes first.
KeyBefore(r, s) ==
  LET a == r * Tens[s]
      b == s * Tens[r]
  IN  a < b \/ (a = b /\ r < s)

LastPage(rest) == Cardinality(rest) <= PageSize

\* One page of ListObjectsV2: the next keys after those already listed.
ListPage ==
  /\ loading.stage = "page"
  /\ LET rest == {r \in DOMAIN held : \A s \in loading.listed : KeyBefore(s, r)}
         page == {r \in rest : Cardinality({s \in rest : KeyBefore(s, r)}) < PageSize}
     IN  IF LastPage(rest) THEN Chosen(loading.listed \cup page)
         ELSE loading' = [loading EXCEPT !.listed = @ \cup page]
  /\ UNCHANGED <<backend, held, tmp, nextRound, saving, models, storeCrashes>>

\* get_object or fs::read, and the length check of the decoder.
ReadBlob ==
  /\ loading.stage = "read"
  /\ LET blob == held[Max(loading.listed)]
     IN  Answered(IF blob.whole THEN blob.model ELSE MalformedCheckpoint)
  /\ UNCHANGED <<backend, held, tmp, nextRound, saving, models, storeCrashes>>

LoadFails ==
  /\ loading.stage \in {"query", "page", "read"} /\ backend # "memory"
  /\ Answered(BackendError)
  /\ UNCHANGED <<backend, held, tmp, nextRound, saving, models, storeCrashes>>

-----------------------------------------------------------------------------
\* The server dies, and its own loads with it, and starts again at round 1.
\* The in-memory store starts again from its seed.
StoreCrash ==
  /\ storeCrashes < MaxStoreCrashes
  /\ storeCrashes' = storeCrashes + 1
  /\ saving' = Idle
  /\ nextRound' = 1
  /\ held' = IF backend = "memory" THEN [r \in {0} |-> [model |-> 0, whole |-> TRUE]] ELSE held
  /\ loading' = IF backend = "memory" \/ loading.target = Latest THEN NoLoad ELSE loading
  /\ UNCHANGED <<backend, tmp, models>>

StoreNext ==
  \/ BeginSave \/ Put \/ CreateTmp \/ WriteTmp \/ RenameTmp \/ SaveFails
  \/ \E target \in {Latest, FirstRound} : BeginLoad(target)
  \/ Query \/ ListPage \/ ReadBlob \/ LoadFails
  \/ StoreCrash

StoreSpec == StoreInit /\ [][StoreNext]_storeVars

-----------------------------------------------------------------------------
\* A load answers with something the store would have answered, in one step,
\* at some moment between the load's start and its end: never a torn file,
\* never an older model while a newer one was there all along, never
\* NoCheckpoint while there was a checkpoint - whatever was saved, failed or
\* crashed meanwhile (FileStore's rename, S3Store's paginated listing and its
\* fetch after it).
LoadsAnswerTheStore ==
  loading.stage = "done" => loading.answer \in loading.right \cup {BackendError}

-----------------------------------------------------------------------------
(* The inductive invariants behind it *)

\* No round is saved beyond the models produced since the first one.
LastRound == FirstRound + MaxModel
StoreRangeInv ==
  /\ backend \in {"memory", "file", "postgres", "s3"}
  /\ models \in Nat /\ models <= MaxModel /\ nextRound \in Nat
  /\ nextRound + (IF saving.stage = "idle" THEN 0 ELSE 1) <= FirstRound + models
  /\ saving \in [stage : {"idle", "put", "create", "write", "rename"}, model : Nat]
  /\ loading \in [stage : {"idle", "query", "page", "read", "done"}, target : Nat,
                  listed : SUBSET Nat, answer : Int, right : SUBSET Int]
  /\ DOMAIN held \subseteq 0 .. LastRound

\* Nothing torn is in place, and a temporary file is whole when it is renamed.
WholeInv ==
  /\ \A r \in DOMAIN held : held[r] \in Blob /\ held[r].whole
  /\ \A r \in DOMAIN tmp : tmp[r] \in Blob
  /\ saving.stage \in {"create", "write", "rename"} => backend = "file"
  /\ saving.stage \in {"write", "rename"} => nextRound \in DOMAIN tmp
  /\ saving.stage = "rename" => tmp[nextRound].whole

\* A round from which on every checkpoint is one the load may answer with: the
\* rounds above it, if any, were saved since the load began.
Floor(m) ==
  IF loading.target # Latest THEN m = loading.target
  ELSE \A r \in DOMAIN held : /\ r >= m => held[r].model \in loading.right
                              /\ r <= m \/ r <= nextRound

\* A listing has passed such a round, or is still to come to it; or there was
\* nothing to list when it began.
ListingInv ==
  /\ loading.listed \subseteq DOMAIN held
  /\ \/ /\ NoCheckpoint \in loading.right
        /\ loading.target = Latest =>
             \A r \in DOMAIN held : held[r].model \in loading.right /\ r <= nextRound
     \/ \E m \in DOMAIN held :
          /\ Floor(m)
          /\ m \in loading.listed \/ \A s \in loading.listed : KeyBefore(s, m)

LoadInv ==
  /\ loading.stage \in {"query", "page", "read"} => Answer(loading.target, held) \in loading.right
  /\ loading.stage = "query" => backend # "s3"
  /\ loading.stage = "page" => backend = "s3" /\ ListingInv
  /\ loading.stage = "read" =>
       /\ backend \in {"file", "s3"}
       /\ \E m \in DOMAIN held : loading.listed = {m} /\ Floor(m)
  /\ LoadsAnswerTheStore

StoreInv == StoreRangeInv /\ WholeInv /\ LoadInv
=============================================================================
