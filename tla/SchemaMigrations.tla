-------------------------- MODULE SchemaMigrations --------------------------
(***************************************************************************)
(* The database migrations: the directory of migration files, which all    *)
(* environments share, the copies of the files in S3, one prefix per       *)
(* environment, and the schema and the migrations table of each database.  *)
(* The steps of config/typeorm/README.md are taken one by one, by hand, in *)
(* any order.                                                              *)
(***************************************************************************)
EXTENDS MigrationFiles, FiniteSets

CONSTANTS
    Env,        \* the environments, "test" and "production"
    First,      \* the first file that is not yet executed anywhere
    MaxMissing, \* bound: files missing from the directory
    MaxStored,  \* bound: copies in S3, per environment
    MaxFailures \* bound: failed downloads

ASSUME ConstantsAssumption ==
    /\ First \in 1 .. Len(Migrations)
    /\ MaxMissing \in Nat /\ MaxStored \in Nat /\ MaxFailures \in Nat

VARIABLES
    generated, \* files 1 .. generated exist
    origin,    \* the environment each of them was generated against
    local,     \* the copies in the directory, the last modified one last
    s3,        \* the copies in S3, the last uploaded one last, per environment
    executed,  \* the migrations table, per environment
    schema,    \* the schema, per environment
    failures   \* failed downloads so far

dbVars == <<executed, schema>>
vars == <<generated, origin, local, s3, executed, schema, failures>>

File == 1 .. Len(Migrations)

\* A copy of a file is whole; a download that failed leaves it empty or cut off.
Text == {"whole", "empty", "cut"}
Copy(f, text) == [file |-> f, text |-> text]

NoEnv == "none"

FilesOf(copies) == {copies[k].file : k \in DOMAIN copies}
WholeFilesOf(copies) == {copies[k].file : k \in {j \in DOMAIN copies : copies[j].text = "whole"}}

Without(copies, f) == RemoveFirstMatch(copies, LAMBDA c : c.file = f)

\* Copy c replaces the one of the same name and becomes the latest.
Latest(copies, c) == Append(Without(copies, c.file), c)

\* Every command connects first, and for that loads each file of the directory.  One
\* that is cut off does not compile, and nothing else is done; an empty one loads, and
\* brings no migration.
Loads == \A k \in DOMAIN local : local[k].text # "cut"

\* The files that a run in environment e executes.
Pending(e) == WholeFilesOf(local) \ Range(executed[e])

\* Mutant: the files are executed as the directory may list them, the latest first.
RunNewestFirst(e) ==
    LET upTo[n \in 0 .. Len(Migrations)] ==
            LET f == Len(Migrations) + 1 - n
            IN  IF n = 0
                  THEN [ok |-> TRUE, schema |-> schema[e], executed |-> executed[e]]
                ELSE IF f \notin Pending(e) THEN upTo[n - 1]
                ELSE LET before == upTo[n - 1]
                         outcome == Outcome(before.schema, Migrations[f].up)
                     IN  [ok |-> before.ok /\ outcome.ok, schema |-> outcome.schema,
                          executed |-> Append(before.executed, f)]
    IN  upTo[Len(Migrations)]

\* What a run makes of the database of e: the files in the order of their names.
RunPending(e) ==
    LET upTo[f \in 0 .. Len(Migrations)] ==
            IF f = 0
              THEN [ok |-> TRUE, schema |-> schema[e], executed |-> executed[e]]
            ELSE IF f \notin Pending(e) THEN upTo[f - 1]
            ELSE LET before == upTo[f - 1]
                     outcome == Outcome(before.schema, Migrations[f].up)
                 IN  [ok |-> before.ok /\ outcome.ok, schema |-> outcome.schema,
                      executed |-> Append(before.executed, f)]
    IN  upTo[Len(Migrations)]

Init ==
    /\ generated = First - 1
    /\ origin = [f \in File |-> NoEnv]
    /\ local = [f \in 1 .. (First - 1) |-> Copy(f, "whole")]
    /\ s3 = [e \in Env |-> <<>>]
    /\ executed = [e \in Env |-> [f \in 1 .. (First - 1) |-> f]]
    /\ schema = [e \in Env |-> BaseSchema \cup UNION {Brings[f] : f \in 1 .. (First - 1)}]
    /\ failures = 0

-------------------------------------------------------------------------------
(* Running *)

\* migration-generate: the entities are compared with the database of e.
Generate(e) ==
    /\ Loads
    /\ generated < Len(Migrations)
    /\ generated' = generated + 1
    /\ origin' = [origin EXCEPT ![generated + 1] = e]
    /\ local' = Latest(local, Copy(generated + 1, "whole"))
    /\ UNCHANGED <<s3, dbVars, failures>>

\* Mutant: without a transaction, what was executed before a failure stays.
RunWithoutTransaction(e) ==
    LET ran == RunPending(e)
    IN  /\ Loads
        /\ Pending(e) # {}
        /\ schema' = [schema EXCEPT ![e] = ran.schema]
        /\ executed' = [executed EXCEPT ![e] = IF ran.ok THEN ran.executed ELSE @]
        /\ UNCHANGED <<generated, origin, local, s3, failures>>

RunSucceeds(e) == Loads /\ RunPending(e).ok

\* migration-run: whatever is in the directory and not in the migrations table of
\* e, in one transaction.  (A statement that fails rolls all of it back.)
MigrationRun(e) ==
    LET ran == RunPending(e)
    IN  /\ Pending(e) # {}
        /\ RunSucceeds(e)
        /\ schema' = [schema EXCEPT ![e] = ran.schema]
        /\ executed' = [executed EXCEPT ![e] = ran.executed]
        /\ UNCHANGED <<generated, origin, local, s3, failures>>

\* Mutant: the key is the prefix of the environment alone.
UploadUnderOneKey(e) ==
    /\ local # <<>>
    /\ Len(Latest(s3[e], Last(local))) <= MaxStored
    /\ s3' = [s3 EXCEPT ![e] = <<Last(local)>>]
    /\ UNCHANGED <<generated, origin, local, dbVars, failures>>

\* migration-upload: the file modified last goes to the prefix of e, over an
\* object of the same name.  The directory keeps it: deleteLocalFile is not called.
Upload(e) ==
    /\ local # <<>>
    /\ Len(Latest(s3[e], Last(local))) <= MaxStored
    /\ s3' = [s3 EXCEPT ![e] = Latest(@, Last(local))]
    /\ UNCHANGED <<generated, origin, local, dbVars, failures>>

\* A file is deleted by hand, or a working copy does not have it.
DeleteLocal(f) ==
    /\ f \in FilesOf(local)
    /\ generated - Len(local) < MaxMissing
    /\ local' = Without(local, f)
    /\ UNCHANGED <<generated, origin, s3, dbVars, failures>>

-------------------------------------------------------------------------------
(* Reverting *)

\* Mutant: the name of the local file is what comes after the last '-' of the key:
\* migration.ts, the name of no migration.
DownloadsUnderNoName(e) ==
    /\ s3[e] # <<>>
    /\ local' = Latest(local, [Last(s3[e]) EXCEPT !.file = 0])
    /\ UNCHANGED <<generated, origin, s3, dbVars, failures>>

\* migration-download: the object of e that was modified last.
Download(e) ==
    /\ s3[e] # <<>>
    /\ local' = Latest(local, Last(s3[e]))
    /\ UNCHANGED <<generated, origin, s3, dbVars, failures>>

\* The local file is opened, and emptied, before the object is asked for; what has come
\* when the transfer breaks off stays in it.
DownloadFails(e) ==
    /\ s3[e] # <<>>
    /\ failures < MaxFailures
    /\ failures' = failures + 1
    /\ \E text \in Text \ {"whole"} : local' = Latest(local, Copy(Last(s3[e]).file, text))
    /\ UNCHANGED <<generated, origin, s3, dbVars>>

\* Mutant: the down method is that of the latest file.
RevertsTheLatestFile(e) ==
    /\ Loads
    /\ executed[e] # <<>> /\ local # <<>>
    /\ Last(local).file \in WholeFilesOf(local)
    /\ LET outcome == Outcome(schema[e], Migrations[Last(local).file].down)
       IN  /\ outcome.ok
           /\ schema' = [schema EXCEPT ![e] = outcome.schema]
    /\ executed' = [executed EXCEPT ![e] = Front(@)]
    /\ UNCHANGED <<generated, origin, local, s3, failures>>

\* migration-revert: what was executed last, if the directory has its file.
MigrationRevert(e) ==
    /\ Loads
    /\ executed[e] # <<>>
    /\ Last(executed[e]) \in WholeFilesOf(local)
    /\ LET outcome == Outcome(schema[e], Migrations[Last(executed[e])].down)
       IN  /\ outcome.ok
           /\ schema' = [schema EXCEPT ![e] = outcome.schema]
    /\ executed' = [executed EXCEPT ![e] = Front(@)]
    /\ UNCHANGED <<generated, origin, local, s3, failures>>

Next ==
    \/ \E e \in Env :
          \/ Generate(e)
          \/ MigrationRun(e)
          \/ Upload(e)
          \/ Download(e)
          \/ DownloadFails(e)
          \/ MigrationRevert(e)
    \/ \E f \in File : DeleteLocal(f)

Spec == Init /\ [][Next]_vars

-------------------------------------------------------------------------------
(* Properties *)

\* Every variable stays in its set of values.
TypeOK ==
    /\ generated \in 0 .. Len(Migrations)
    /\ origin \in [File -> Env \cup {NoEnv}]
    /\ local \in Seq([file : File, text : Text])
    /\ s3 \in [Env -> Seq([file : File, text : Text])]
    /\ executed \in [Env -> Seq(File)]
    /\ schema \in [Env -> SUBSET Elements]
    /\ failures \in 0 .. MaxFailures

\* The migrations table tells the truth: the schema of a database is what the
\* executed files bring, whatever was run late, reverted and run again.
SchemaIsHistory ==
    \A e \in Env :
        schema[e] = BaseSchema \cup UNION {Brings[f] : f \in Range(executed[e])}

\* The database takes the down statements of what was executed last, in whichever
\* order the files were executed: with its file at hand, a revert can fail only where
\* the directory does not load.
RevertApplies ==
    \A e \in Env :
        executed[e] # <<>> =>
            Outcome(schema[e], Migrations[Last(executed[e])].down).ok

\* The files that bring something that f brings too.
Rivals == [f \in File |-> {g \in File \ {f} : Brings[f] \cap Brings[g] # {}}]

\* A run fails only for one of three reasons: a download has left a cut-off copy of any
\* file in the directory, be it executed or another environment's; or a file is missing
\* that an earlier run would have executed; or two files bring the same column, as
\* 1723603163916 and 1724046155950 do.  With one of such a pair left out, the rest runs.
RunApplies ==
    \A e \in Env :
        LET files == Pending(e) \cup Range(executed[e])
        IN  /\ \A k \in DOMAIN local : local[k].text # "cut"
            /\ \A f \in files : Rivals[f] \cap files = {}
            /\ \A f \in 1 .. generated : f \in files \/ Rivals[f] \cap files # {}
            => RunSucceeds(e)

\* A whole copy in S3 is lost only when what a failed download left of the same file is
\* uploaded over it; an upload never costs another file its copy.
StoredStaysWhole ==
    [][\A e \in Env :
          WholeFilesOf(s3[e]) \ WholeFilesOf(s3'[e]) \subseteq
              FilesOf(local) \ WholeFilesOf(local)]_vars

\* A file that was generated for one environment, and uploaded, is gone from the
\* directory (config/typeorm/README.md:42), so that the files of the environments
\* are kept apart (:61): no other environment executes it after that.
UploadedStaysInItsEnvironment ==
    [][\A d \in Env : \A e \in Env \ {d} :
          \A f \in Range(executed'[e]) \ Range(executed[e]) :
              ~(origin[f] = d /\ f \in FilesOf(s3[d]))]_vars
=============================================================================
