------------------------------ MODULE Contracts ------------------------------
(***************************************************************************)
(* The v0.1 contracts: what models.py and validation.py of src/contracts    *)
(* accept of a JSON payload, and with which exception they refuse it.      *)
(*                                                                         *)
(* A payload is a function from field names to values.  A value is what    *)
(* the checks can tell apart: its kind, the text or number it stands for,  *)
(* and the entries of an object.  Each contract lists its checks in the    *)
(* order the code makes them, so the first one that fails is the exception *)
(* that is raised.                                                         *)
(*                                                                         *)
(* An operator Bug_... is a plausible wrong version of the definition that *)
(* follows it; only the mutation runs use it.                              *)
(***************************************************************************)
EXTENDS Integers, Sequences, FiniteSetsExt

(* Kinds of strings: "text" is any other one that is not blank, "blank"    *)
(* one of white space, "major" a version number of another major version,  *)
(* "relative" a URL without scheme or host, "unparsable" one for which     *)
(* urlparse raises ValueError, "offset" and "naive" are timestamps that    *)
(* are not in UTC.  A "number" is an int, a "fraction" any other number.   *)
StringKind == {"text", "empty", "blank", "version", "major", "url", "relative",
               "unparsable", "sha256", "utc", "offset", "naive"}
Kind == StringKind \cup {"number", "fraction", "bool", "null", "list", "object", "missing"}

(* text is what a string says, n the int, the hundredths of a fraction, or *)
(* the time of a timestamp.                                                *)
Value(kind, text, n, entries) ==
    [kind |-> kind, text |-> text, n |-> n, entries |-> entries]

Plain(kind) == Value(kind, "", 0, {})
Text(text) == Value("text", text, 0, {})
Number(n) == Value("number", "", n, {})
Utc(n) == Value("utc", "", n, {})

(* An entry of an object: what its value is, its number if it is one, and  *)
(* below: whether a credential-shaped key occurs in the objects and lists  *)
(* nested in it.                                                           *)
EntryKind == {"number", "fraction", "bool", "other"}
Entry(key, kind, n, below) == [key |-> key, kind |-> kind, n |-> n, below |-> below]
Object(entries) == Value("object", "", 0, entries)

(* One text for every key that contains password, secret, token, ...       *)
SensitiveKey == "api_key"

(* Whatever the JSON parser can hand over; only an object has entries.     *)
JsonValue ==
    {v \in [kind : Kind, text : STRING, n : Int,
            entries : SUBSET [key : STRING, kind : EntryKind, n : Int, below : BOOLEAN]] :
        v.kind # "object" => v.entries = {}}

-----------------------------------------------------------------------------
(* validation.py: every check returns the exception it raises, or "ok".    *)

Require(condition) == IF condition THEN "ok" ELSE "ContractValidationError"

RequireText(v) == Require(v.kind \in StringKind \ {"empty", "blank"})

(* urlparse raises a ValueError that is no ContractValidationError.        *)
RequireHttpUrl(v) ==
    IF v.kind = "unparsable" THEN "ValueError" ELSE Require(v.kind = "url")

RequireContractVersion(v) == Require(v.kind = "version")

RequireSha256(v) == Require(v.kind = "sha256")

(* A bool, an int to Python, is refused.  v is a value or an entry.        *)
RequireNonNegativeInt(v) == Require(v.kind = "number" /\ v.n >= 0)

RequireObject(v) == Require(v.kind = "object")

(* Only the keys of the object itself are looked at. *)
Bug_Sensitive(v) == \E e \in v.entries : e.key = SensitiveKey

Sensitive(v) == \E e \in v.entries : e.key = SensitiveKey \/ e.below

RejectSensitiveKeys(v) == Require(~Sensitive(v))

(* Including require_utc_timestamp of what was parsed. *)
ParseUtcTimestamp(v) == Require(v.kind = "utc")

ParseEnum(enum, v) == Require(v.kind = "text" /\ v.text \in enum)

(* tuple(data.get(field, ())): a string becomes the tuple of its letters,  *)
(* an object the tuple of its keys; other values raise TypeError.          *)
ParseTuple(v) ==
    Require(v.kind \in StringKind \cup {"list", "object", "missing"})

(* The constructor: TypeError for a field that is missing or unknown.      *)
ParseFields(p, optional) ==
    Require(\A f \in DOMAIN p \ optional : (p[f].kind = "missing") = (f = "unknown"))

(* The exception of the first check that fails.                            *)
Outcome(checks) ==
    LET failed == {i \in DOMAIN checks : checks[i] # "ok"}
    IN  IF failed = {} THEN "ok" ELSE checks[Min(failed)]

-----------------------------------------------------------------------------
(* models.py: from_mapping and then __post_init__.                         *)

DetailReasonCode == {"NEW_LISTING", "MANUAL_REPROCESS_REQUEST"}   \* two of ten
ArtifactStatus == {"SUCCESS", "FAILED", "NOT_MODIFIED"}
TelemetryOutcome == {"SUCCESS", "FAILED", "SKIPPED"}
ParseStatus == {"SUCCESS", "PARTIAL", "FAILED"}
TerminalState == {"detail_success", "list_only_accepted", "excluded_with_reason",
                  "failed_classified", "manual_review"}

SourceIdentity(p) == <<RequireText(p.source_name),
                       RequireText(p.source_listing_key),
                       RequireHttpUrl(p.listing_url)>>

AttemptRange(p) ==
    Require(p.attempt_number.n >= 1 /\ p.max_attempts.n >= p.attempt_number.n)

DetailFetchJob(p) ==
    LET metadata == IF p.metadata.kind = "missing" THEN Object({}) ELSE p.metadata
    IN  <<ParseEnum(DetailReasonCode, p.reason_code),
          ParseUtcTimestamp(p.scheduled_at),
          ParseFields(p, {"metadata"}),
          RequireContractVersion(p.contract_version),
          RequireText(p.job_id),
          RequireText(p.crawl_run_id)>>
        \o SourceIdentity(p)
        \o <<RequireNonNegativeInt(p.priority),
             RequireNonNegativeInt(p.attempt_number),
             RequireNonNegativeInt(p.max_attempts),
             AttemptRange(p),
             RequireObject(metadata),
             RejectSensitiveKeys(metadata)>>

DiscoveryObservation(p) ==
    <<ParseUtcTimestamp(p.observed_at),
      ParseFields(p, {}),
      RequireContractVersion(p.contract_version),
      RequireText(p.crawl_run_id)>>
    \o SourceIdentity(p)
    \o <<RequireText(p.discovery_partition),
         RequireObject(p.visible_specs),
         RejectSensitiveKeys(p.visible_specs)>>

RawFetchArtifact(p) ==
    <<ParseUtcTimestamp(p.fetched_at),
      ParseEnum(ArtifactStatus, p.artifact_status),
      ParseFields(p, {}),
      RequireContractVersion(p.contract_version),
      RequireText(p.artifact_id), RequireText(p.job_id),
      RequireText(p.crawl_run_id), RequireText(p.fetch_method),
      RequireText(p.acquisition_version)>>
    \o SourceIdentity(p)
    \o <<Require(\/ p.response_status.kind = "null"
                 \/ p.response_status.kind = "number" /\ p.response_status.n \in 100 .. 599)>>
    \o (IF p.artifact_status.text = "SUCCESS"
        THEN <<RequireText(p.snapshot_path), RequireSha256(p.content_hash)>>
        ELSE << >>)

FetchTelemetry(p) ==
    <<ParseUtcTimestamp(p.started_at),
      ParseUtcTimestamp(p.finished_at),
      ParseEnum(TelemetryOutcome, p.outcome),
      ParseFields(p, {}),
      RequireContractVersion(p.contract_version),
      RequireText(p.job_id), RequireText(p.source_name),
      RequireNonNegativeInt(p.attempt_number),
      Require(p.attempt_number.n >= 1),
      Require(p.finished_at.n >= p.started_at.n),
      RequireNonNegativeInt(p.duration_ms),
      RequireNonNegativeInt(p.bytes_sent),
      RequireNonNegativeInt(p.bytes_received),
      RequireText(p.proxy_pool_label),
      Require(p.outcome.text = "SUCCESS" => p.error_class.kind = "null")>>

(* An int or a float, and no bool, between 0 and 1.                        *)
IsConfidence(e) ==
    \/ e.kind = "number" /\ e.n \in 0 .. 1
    \/ e.kind = "fraction" /\ e.n \in 0 .. 100

(* The keys of field_confidence are not looked at for credentials.         *)
ParsedListingCandidate(p) ==
    <<ParseUtcTimestamp(p.parsed_at),
      ParseEnum(ParseStatus, p.parse_status),
      ParseTuple(p.warnings), ParseTuple(p.failure_reasons),
      ParseFields(p, {"warnings", "failure_reasons"}),
      RequireContractVersion(p.contract_version),
      RequireText(p.candidate_id), RequireText(p.artifact_id),
      RequireText(p.parser_name), RequireText(p.parser_version)>>
    \o SourceIdentity(p)
    \o <<RequireObject(p.raw_fields), RequireObject(p.field_evidence),
         RequireObject(p.field_confidence),
         Require(\A e \in p.field_confidence.entries : e.key # "" /\ IsConfidence(e)),
         RejectSensitiveKeys(p.raw_fields), RejectSensitiveKeys(p.field_evidence)>>

DatasetBatchManifest(p) ==
    <<ParseUtcTimestamp(p.created_at),
      ParseTuple(p.acquisition_versions), ParseTuple(p.parser_versions),
      ParseTuple(p.known_limitations),
      ParseFields(p, {"acquisition_versions", "parser_versions", "known_limitations"}),
      RequireContractVersion(p.contract_version),
      RequireText(p.batch_id), RequireText(p.batch_version),
      RequireText(p.source_name), RequireText(p.snapshot_date),
      RequireText(p.records_path),
      RequireNonNegativeInt(p.record_count),
      RequireNonNegativeInt(p.proxy_bytes_used),
      RequireSha256(p.records_checksum), RequireSha256(p.manifest_checksum),
      RequireObject(p.terminal_state_counts),
      Require(\A e \in p.terminal_state_counts.entries :
                 e.key \in TerminalState /\ RequireNonNegativeInt(e) = "ok"),
      Require(MapThenSumSet(LAMBDA e : e.n, p.terminal_state_counts.entries)
              = p.record_count.n)>>

ContractType == {"DetailFetchJob", "DiscoveryObservation", "RawFetchArtifact",
                 "FetchTelemetry", "ParsedListingCandidate", "DatasetBatchManifest"}

(* The fields of the dataclasses; "unknown" stands for every other key.    *)
Fields(contract) ==
    {"contract_version", "source_name", "unknown"} \cup
    CASE contract = "DetailFetchJob" ->
            {"source_listing_key", "listing_url", "job_id", "crawl_run_id", "reason_code",
             "priority", "attempt_number", "max_attempts", "scheduled_at", "metadata"}
      [] contract = "DiscoveryObservation" ->
            {"source_listing_key", "listing_url", "crawl_run_id", "observed_at",
             "visible_title", "visible_price_text", "visible_currency", "visible_specs",
             "visible_status", "card_fingerprint", "discovery_partition"}
      [] contract = "RawFetchArtifact" ->
            {"source_listing_key", "listing_url", "artifact_id", "job_id", "crawl_run_id",
             "fetched_at", "fetch_method", "acquisition_version", "snapshot_path",
             "content_hash", "response_status", "mime_type", "artifact_status"}
      [] contract = "FetchTelemetry" ->
            {"job_id", "attempt_number", "started_at", "finished_at", "duration_ms",
             "bytes_sent", "bytes_received", "outcome", "error_class", "proxy_pool_label"}
      [] contract = "ParsedListingCandidate" ->
            {"source_listing_key", "listing_url", "candidate_id", "artifact_id", "parsed_at",
             "parser_name", "parser_version", "parse_status", "raw_fields",
             "field_evidence", "field_confidence", "warnings", "failure_reasons"}
      [] contract = "DatasetBatchManifest" ->
            {"batch_id", "batch_version", "created_at", "snapshot_date", "record_count",
             "terminal_state_counts", "acquisition_versions", "parser_versions",
             "records_path", "records_checksum", "manifest_checksum", "proxy_bytes_used",
             "known_limitations"}

(* validate_contract_payload *)
ValidateContractPayload(contract, p) ==
    Outcome(CASE contract = "DetailFetchJob" -> DetailFetchJob(p)
              [] contract = "DiscoveryObservation" -> DiscoveryObservation(p)
              [] contract = "RawFetchArtifact" -> RawFetchArtifact(p)
              [] contract = "FetchTelemetry" -> FetchTelemetry(p)
              [] contract = "ParsedListingCandidate" -> ParsedListingCandidate(p)
              [] contract = "DatasetBatchManifest" -> DatasetBatchManifest(p))
=============================================================================
