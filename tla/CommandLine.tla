----------------------------- MODULE CommandLine -----------------------------
(***************************************************************************)
(* The commands of cli/main.py, each run by a process of its own or one    *)
(* after the other in a process that calls main() several times, over one  *)
(* runtime database, the files of its backups, and the root logger.  What  *)
(* `worker run-synthetic` does after setting up the log is SyntheticWorker;*)
(* the steps of opening the runtime database, and its failures, are        *)
(* Startup's: here an opening commits what the database still lacks.       *)
(*                                                                         *)
(* The processes share the count of commits, the files and nothing else.   *)
(*                                                                         *)
(* An operator Bug_... is a plausible wrong version of the definition that *)
(* follows it; only the mutation runs use it.                              *)
(***************************************************************************)
EXTENDS Backup, Logging, SourceRegistry

CONSTANTS
    Payloads,       \* <<contract, JSON payload>> to validate
    Registries,     \* source registries to list
    Migrations,     \* number of migration files
    MaxCommands     \* bound on the commands that open the database or set up the log

(* The commands that make a RuntimeRepositories, which applies migrations, *)
(* and those that go on to make a DetailFetchQueue, which registers the    *)
(* owner.  "status" stands for queue-status and proxy-usage.               *)
OpeningCommand == {"fixture-crawl", "recover-abandoned", "backup", "worker health", "status"}
QueueCommand == {"recover-abandoned", "worker health"}

ASSUME CommandAssumption ==
    /\ Interpreter = Process
    /\ MaxCommands \in Nat /\ Migrations \in Nat
    /\ Null \notin OpeningCommand
    /\ \A request \in Payloads :
          /\ request[1] \in ContractType
          /\ request[2] \in [Fields(request[1]) -> JsonValue]
    /\ \A r \in Registries : r.sources \in Seq([SourceField -> JsonValue])

VARIABLES
    schema,         \* the migrations the database has, and whether it has its owner
    opening,        \* [Process -> command that is opening the database, or Null]
    crawl,          \* [Process -> rows its fixture crawl has written, or Null]
    started,        \* commands started so far
    answer          \* what a command that only reads has just answered

commandVars == <<committed, file, call, returned, contested, setbacks,
                 handlers, configured, schema, opening, crawl, started, answer>>

openVars == <<schema, opening>>

Success == 0
Traceback == 1
Refused == 2

NoPayload == <<"", [f \in {"unknown"} |-> Plain("missing")]>>
NoRegistry == [f \in {"unknown"} |-> Plain("missing")]

Answer(document, exit) ==
    [document |-> document, exit |-> exit, request |-> NoPayload, registry |-> NoRegistry]
NoAnswer == Answer("nothing", Success)

CommandInit ==
    /\ BackupInit
    /\ LoggingInit
    /\ schema = [version |-> 0, owned |-> FALSE]
    /\ opening = [p \in Process |-> Null]
    /\ crawl = [p \in Process |-> Null]
    /\ started = 0
    /\ answer = NoAnswer

Idle(p) == call[p] = Null /\ opening[p] = Null /\ crawl[p] = Null

StartCommand(p) ==
    /\ Idle(p)
    /\ started < MaxCommands
    /\ started' = started + 1
    /\ answer' = NoAnswer

-----------------------------------------------------------------------------
(* Commands that open no database.                                         *)

(* Bytes that are no UTF-8, and a URL that urlparse refuses, raise a       *)
(* ValueError that nothing catches; no file at all is a call for help.     *)
Validate(document, request) ==
    CASE document = "none" -> Success
      [] document \in {"unreadable", "not JSON", "no object"} -> Refused
      [] document = "not UTF-8" -> Traceback
      [] document = "object" ->
            LET outcome == ValidateContractPayload(request[1], request[2])
            IN  CASE outcome = "ok" -> Success
                  [] outcome = "ContractValidationError" -> Refused
                  [] outcome = "ValueError" -> Traceback

(* A command without effect on anything is examined once, at the start.    *)
ContractValidate ==
    /\ answer = NoAnswer /\ started = 0
    /\ \/ \E request \in Payloads :
             answer' = [Answer("object", Validate("object", request)) EXCEPT !.request = request]
       \/ \E document \in {"none", "unreadable", "not JSON", "no object", "not UTF-8"} :
             answer' = Answer(document, Validate(document, NoPayload))
    /\ UNCHANGED <<backupVars, loggingVars, openVars, crawl, started>>

(* The registry is read as bytes; only its absence and its syntax are      *)
(* turned into a refusal.                                                  *)
SourceList ==
    /\ answer = NoAnswer /\ started = 0
    /\ \/ \E r \in Registries :
             answer' = [Answer("registry", IF LoadSourceRegistry(r) THEN Success ELSE Refused)
                        EXCEPT !.registry = r]
       \/ \E exit \in {Refused, Traceback} : answer' = Answer("no registry", exit)
    /\ UNCHANGED <<backupVars, loggingVars, openVars, crawl, started>>

(* `scraper health` prints a line. *)
Health ==
    /\ answer = NoAnswer /\ started = 0
    /\ answer' = Answer("health", Success)
    /\ UNCHANGED <<backupVars, loggingVars, openVars, crawl, started>>

-----------------------------------------------------------------------------
(* Commands that open the runtime database.                                *)

OpenDatabase(p) ==
    /\ StartCommand(p)
    /\ \E command \in OpeningCommand : opening' = [opening EXCEPT ![p] = command]
    /\ UNCHANGED <<backupVars, loggingVars, schema, crawl>>

(* The next migration, or the owner, each in a transaction of its own.     *)
Migrate(p) ==
    /\ opening[p] # Null
    /\ \/ /\ schema.version < Migrations
          /\ schema' = [schema EXCEPT !.version = @ + 1]
       \/ /\ schema.version = Migrations
          /\ opening[p] \in QueueCommand /\ ~schema.owned
          /\ schema' = [schema EXCEPT !.owned = TRUE]
    /\ Commit
    /\ UNCHANGED <<loggingVars, opening, crawl, started, answer>>

(* The database lacks nothing the command needs, and the command goes on.  *)
Opened(p, command) ==
    /\ opening[p] = command
    /\ schema.version = Migrations
    /\ command \in QueueCommand => schema.owned
    /\ opening' = [opening EXCEPT ![p] = Null]
    /\ UNCHANGED schema

(* Three commands then only read the database. *)
WorkerHealth(p) ==
    /\ Opened(p, "worker health")
    /\ UNCHANGED <<backupVars, loggingVars, crawl, started, answer>>

Status(p) ==
    /\ Opened(p, "status")
    /\ UNCHANGED <<backupVars, loggingVars, crawl, started, answer>>

(* The transactions of fixture-crawl, in their order.  The ids are fresh,  *)
(* so nothing but the database as a whole can make one of them fail.       *)
CrawlRows == <<"source", "run", "running", "partition", "observation", "job",
               "checkpoint">>

FixtureCrawl(p) ==
    /\ Opened(p, "fixture-crawl")
    /\ crawl' = [crawl EXCEPT ![p] = 0]
    /\ UNCHANGED <<backupVars, loggingVars, started, answer>>

CrawlWrite(p) ==
    /\ crawl[p] # Null
    /\ crawl[p] < Len(CrawlRows)
    /\ Commit
    /\ crawl' = [crawl EXCEPT ![p] = @ + 1]
    /\ UNCHANGED <<loggingVars, openVars, started, answer>>

CrawlReport(p) ==
    /\ crawl[p] = Len(CrawlRows)
    /\ crawl' = [crawl EXCEPT ![p] = Null]
    /\ UNCHANGED <<backupVars, loggingVars, openVars, started, answer>>

RecoverAbandoned(p) ==
    /\ Opened(p, "recover-abandoned")
    /\ Commit
    /\ UNCHANGED <<loggingVars, crawl, started, answer>>

BackupCommand(p) ==
    /\ Opened(p, "backup")
    /\ \E d \in Path : BeginBackup(p, d)
    /\ UNCHANGED <<loggingVars, crawl, started, answer>>

(* No command restores; a program that uses the package does. *)
Restore(p) ==
    /\ StartCommand(p)
    /\ \E b \in Path : \E d \in Path : BeginRestore(p, b, d)
    /\ UNCHANGED <<loggingVars, openVars, crawl>>

BackupStep(p) ==
    /\ Proceed(p)
    /\ UNCHANGED <<loggingVars, openVars, crawl, started, answer>>

(* Whatever the worker then does on the database of its runtime directory: *)
(* it returns, raises what main catches, or raises something else.         *)
RunSynthetic(p) ==
    /\ StartCommand(p)
    /\ \E opened \in BOOLEAN : ConfigureLogging(p, TRUE, opened)
    /\ UNCHANGED <<backupVars, openVars, crawl>>

(* A program around main() that sets its logging up without a log file.    *)
SetUpLogging(p) ==
    /\ StartCommand(p)
    /\ ConfigureLogging(p, FALSE, TRUE)
    /\ UNCHANGED <<backupVars, openVars, crawl>>

(* The unfinished backup is removed on the way out. *)
Bug_Leave(p) ==
    file' = IF call[p] # Null THEN [file EXCEPT ![call[p].destination] = Null] ELSE file

(* Nothing is cleaned up. *)
Leave(p) == UNCHANGED file

(* An exception ends the command; the end of the process also ends its     *)
(* logger, and the next command starts with a new one.                     *)
CutShort(p) ==
    /\ ~Idle(p)
    /\ setbacks < MaxSetbacks
    /\ setbacks' = setbacks + 1
    /\ call' = [call EXCEPT ![p] = Null]
    /\ opening' = [opening EXCEPT ![p] = Null]
    /\ crawl' = [crawl EXCEPT ![p] = Null]
    /\ Leave(p)
    /\ \/ UNCHANGED loggingVars
       \/ /\ handlers' = [handlers EXCEPT ![p] = ForeignHandlers(p)]
          /\ configured' = [configured EXCEPT ![p] = 0]
    /\ UNCHANGED <<committed, returned, contested, schema, started, answer>>

CommandStep(p) ==
    \/ OpenDatabase(p)     \/ Migrate(p)
    \/ WorkerHealth(p)     \/ Status(p)
    \/ FixtureCrawl(p)     \/ CrawlWrite(p)      \/ CrawlReport(p)
    \/ RecoverAbandoned(p)
    \/ BackupCommand(p)    \/ Restore(p)         \/ BackupStep(p)
    \/ RunSynthetic(p)     \/ SetUpLogging(p)
    \/ CutShort(p)

CommandNext ==
    \/ ContractValidate
    \/ SourceList
    \/ Health
    \/ \E p \in Process : CommandStep(p)

CommandSpec == CommandInit /\ [][CommandNext]_commandVars

-----------------------------------------------------------------------------
(* The variables keep their types; a process does one thing at a time. *)
CommandsTypeOK ==
    /\ BackupTypeOK
    /\ LoggingTypeOK
    /\ schema \in [version : 0 .. Migrations, owned : BOOLEAN]
    /\ opening \in [Process -> OpeningCommand \cup {Null}]
    /\ crawl \in [Process -> (0 .. Len(CrawlRows)) \cup {Null}]
    /\ \A p \in Process :
          \/ call[p] = Null /\ opening[p] = Null
          \/ call[p] = Null /\ crawl[p] = Null
          \/ opening[p] = Null /\ crawl[p] = Null
    /\ started \in 0 .. MaxCommands
    /\ answer.exit \in {Success, Traceback, Refused}

(* What the commands do to the database and the files is what Backup       *)
(* allows: a crawl, a recovery and a setback of any process included.      *)
UsesBackup == BackupSpec

(* What docs/data-contracts.md asks of a payload, field by field: all the  *)
(* fields it lists are required, texts identify, times are in UTC, the     *)
(* extensible mappings carry no credentials, hashes are lower-case SHA-256 *)
(* and the major version is the supported one.  Where it gives a field no  *)
(* type, the dataclasses of models.py do.  A name means the same in every  *)
(* contract.                                                               *)
TextField == {"job_id", "crawl_run_id", "source_name", "source_listing_key",
              "discovery_partition", "artifact_id", "fetch_method",
              "acquisition_version", "proxy_pool_label", "candidate_id",
              "parser_name", "parser_version", "batch_id", "batch_version",
              "snapshot_date", "records_path"}
CountField == {"priority", "attempt_number", "max_attempts", "duration_ms",
               "bytes_sent", "bytes_received", "record_count", "proxy_bytes_used"}
TimeField == {"scheduled_at", "observed_at", "fetched_at", "started_at",
              "finished_at", "parsed_at", "created_at"}
ObjectField == {"metadata", "visible_specs", "raw_fields", "field_evidence",
                "field_confidence", "terminal_state_counts"}
Extensible == {"metadata", "visible_specs", "raw_fields", "field_evidence"}
ArrayField == {"warnings", "failure_reasons", "acquisition_versions",
               "parser_versions", "known_limitations"}

FieldsAreDocumented(p) ==
    \A f \in DOMAIN p :
        /\ f = "unknown" <=> p[f].kind = "missing"
        /\ f \in TextField => p[f].kind \in StringKind \ {"empty", "blank"}
        /\ f \in CountField => p[f].kind = "number" /\ p[f].n >= 0
        /\ f \in TimeField => p[f].kind = "utc"
        /\ f \in ObjectField => p[f].kind = "object"
        /\ f \in ArrayField => p[f].kind = "list"
        /\ f \in Extensible => \A e \in p[f].entries : e.key # SensitiveKey /\ ~e.below
        /\ f = "contract_version" => p[f].kind = "version"
        /\ f = "listing_url" => p[f].kind = "url"
        /\ f \in {"records_checksum", "manifest_checksum"} => p[f].kind = "sha256"

Hundredths(e) == IF e.kind = "number" THEN 100 * e.n ELSE e.n

OneOf(v, words) == v.kind = "text" /\ v.text \in words

RelationsAreDocumented(contract, p) ==
    CASE contract = "DetailFetchJob" ->
            /\ OneOf(p.reason_code, DetailReasonCode)
            /\ 1 <= p.attempt_number.n /\ p.attempt_number.n <= p.max_attempts.n
      [] contract = "DiscoveryObservation" -> TRUE
      [] contract = "RawFetchArtifact" ->
            /\ OneOf(p.artifact_status, ArtifactStatus)
            /\ p.artifact_status.text = "SUCCESS" =>
                  /\ p.content_hash.kind = "sha256"
                  /\ p.snapshot_path.kind \in StringKind \ {"empty", "blank"}
            /\ p.response_status.kind # "null" =>
                  p.response_status.kind = "number" /\ p.response_status.n \in 100 .. 599
      [] contract = "FetchTelemetry" ->
            /\ OneOf(p.outcome, TelemetryOutcome)
            /\ p.attempt_number.n >= 1 /\ p.started_at.n <= p.finished_at.n
            /\ p.outcome.text = "SUCCESS" => p.error_class.kind = "null"
      [] contract = "ParsedListingCandidate" ->
            /\ OneOf(p.parse_status, ParseStatus)
            /\ \A e \in p.field_confidence.entries :
                  /\ e.key # "" /\ e.kind \in {"number", "fraction"}
                  /\ 0 <= Hundredths(e) /\ Hundredths(e) <= 100
      [] contract = "DatasetBatchManifest" ->
            /\ \A e \in p.terminal_state_counts.entries :
                  e.key \in TerminalState /\ e.kind = "number" /\ e.n >= 0
            /\ p.record_count.n = MapThenSumSet(LAMBDA e : e.n, p.terminal_state_counts.entries)

IsDocumented(contract, p) ==
    FieldsAreDocumented(p) /\ RelationsAreDocumented(contract, p)

(* The payload that the code goes by: of the required fields, metadata and *)
(* the arrays have defaults, and what can be iterated over is an array.    *)
WithDefaults(p) ==
    [f \in DOMAIN p |->
        IF f = "metadata" /\ p[f].kind = "missing" THEN Object({})
        ELSE IF f \in ArrayField /\ p[f].kind \in StringKind \cup {"object", "missing"}
        THEN Plain("list")
        ELSE p[f]]

(* contract validate accepts every payload that is documented.  It also    *)
(* accepts some that are not, against data-contracts.md:32, 136-137,       *)
(* 155-156 and 161: exactly those that are documented once a missing       *)
(* metadata is taken for an empty object, and a missing array, a text or   *)
(* an object in its place, for an array.  Its only other way out of an     *)
(* object than a refusal is a listing_url that urlparse raises for.        *)
(* source list succeeds only if every source has a name of its own, and a  *)
(* fallback identity has its notes.                                        *)
DocumentedUpToDefaults ==
    /\ answer.document = "object" =>
          LET contract == answer.request[1]  p == answer.request[2] IN
          /\ IsDocumented(contract, p) => answer.exit = Success
          /\ answer.exit = Success <=> IsDocumented(contract, WithDefaults(p))
          /\ answer.exit = Traceback => p.listing_url.kind = "unparsable"
    /\ answer.document = "registry" /\ answer.exit = Success =>
          LET sources == answer.registry.sources IN
          /\ Cardinality({sources[i].name.text : i \in DOMAIN sources}) = Len(sources)
          /\ \A i \in DOMAIN sources :
                sources[i].identity_strategy.text = "deterministic_url_fallback"
                => sources[i].identity_notes.kind \in StringKind \ {"empty"}
=============================================================================
