--------------------------- MODULE ContainerStart ---------------------------
(***************************************************************************)
(* docker/entrypoint.sh: wait for the database, apply the migration files  *)
(* of the image that schema_migrations does not list, one statement at a   *)
(* time, list them, and become the bot.  Every psql call may fail, which   *)
(* ends the script (set -e, ON_ERROR_STOP); the container is restarted     *)
(* (restart: unless-stopped).                                              *)
(***************************************************************************)
EXTENDS Integers, Sequences

CONSTANTS
  Stmts,     \* Stmts[f]: how many statements the f-th migration file has
  MaxStarts  \* bound: how often the container is started

ASSUME StartAssumption == Stmts \in Seq(Nat \ {0}) /\ MaxStarts \in Nat

VARIABLES
  step,      \* where the container is
  file, at,  \* the file and the statement the script is at
  tracked,   \* the table schema_migrations exists
  recorded,  \* the files it lists
  schema,    \* schema[f]: the statements of f in effect
  starts

startVars == <<step, file, at, tracked, recorded, schema, starts>>

Files == 1 .. Len(Stmts)
AllOf(f) == 1 .. Stmts[f]

-----------------------------------------------------------------------------
Boot ==
  /\ step = "down" /\ starts < MaxStarts
  /\ step' = "wait" /\ starts' = starts + 1
  /\ UNCHANGED <<file, at, tracked, recorded, schema>>

(* SELECT 1 succeeds at last.                                              *)
Connected ==
  /\ step = "wait"
  /\ step' = "create"
  /\ UNCHANGED <<file, at, tracked, recorded, schema, starts>>

CreateTable ==
  /\ step = "create"
  /\ tracked' = TRUE /\ file' = 1 /\ at' = 1
  /\ step' = "file"
  /\ UNCHANGED <<recorded, schema, starts>>

(* The next file of the loop, unless it is listed.                         *)
NextFile ==
  /\ step = "file" /\ file <= Len(Stmts)
  /\ IF file \in recorded
     THEN file' = file + 1 /\ UNCHANGED step
     ELSE step' = "apply" /\ UNCHANGED file
  /\ UNCHANGED <<at, tracked, recorded, schema, starts>>

(* Mutant of Apply: the file is listed when it is begun.                   *)
ApplyRecordsFirst ==
  /\ step = "apply"
  /\ schema' = [schema EXCEPT ![file] = @ \cup {at}]
  /\ recorded' = recorded \cup {file}
  /\ at' = at + 1
  /\ step' = IF at < Stmts[file] THEN "apply" ELSE "record"
  /\ UNCHANGED <<file, tracked, starts>>

(* One statement, IF NOT EXISTS, committed by itself.                      *)
Apply ==
  /\ step = "apply"
  /\ schema' = [schema EXCEPT ![file] = @ \cup {at}]
  /\ at' = at + 1
  /\ step' = IF at < Stmts[file] THEN "apply" ELSE "record"
  /\ UNCHANGED <<file, tracked, recorded, starts>>

(* ON CONFLICT DO NOTHING.                                                 *)
Record ==
  /\ step = "record"
  /\ recorded' = recorded \cup {file}
  /\ file' = file + 1 /\ at' = 1
  /\ step' = "file"
  /\ UNCHANGED <<tracked, schema, starts>>

Exec ==
  /\ step = "file" /\ file > Len(Stmts)
  /\ step' = "run"
  /\ UNCHANGED <<file, at, tracked, recorded, schema, starts>>

(* A call fails, the process ends, or the container is killed.             *)
Stop ==
  /\ step # "down"
  /\ step' = "down"
  /\ UNCHANGED <<file, at, tracked, recorded, schema, starts>>

(* The database has been used with an image of fewer files, or it is empty *)
(* or a volume of docker-compose, on which postgres once ran the files of  *)
(* then from docker-entrypoint-initdb.d, without listing them.             *)
StartInit ==
  /\ step = "down" /\ starts = 0 /\ file = 1 /\ at = 1
  /\ \E n \in 0 .. Len(Stmts) :
       /\ schema = [f \in Files |-> IF f <= n THEN AllOf(f) ELSE {}]
       /\ recorded \in {{}, 1 .. n}
       /\ tracked = (recorded # {})

StartStep == Boot \/ Connected \/ CreateTable \/ NextFile \/ Apply \/ Record \/ Exec

StartSpec == StartInit /\ [][StartStep \/ Stop]_startVars

-----------------------------------------------------------------------------
(* The bot runs on the whole schema only, wherever earlier starts were cut *)
(* off, and over whatever postgres ran itself.                             *)
SchemaReady ==
  step = "run" => tracked /\ \A f \in Files : schema[f] = AllOf(f)
=============================================================================
