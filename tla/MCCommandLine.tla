---------------------------- MODULE MCCommandLine ----------------------------
(***************************************************************************)
(* A small instance of CommandLine: for every contract one payload that is *)
(* valid, every payload that differs from it in one field, and those that  *)
(* differ in two fields one check relates.                                 *)
(***************************************************************************)
EXTENDS CommandLine, TLC

MCForeign == [i \in Interpreter |-> 3]

MCSymmetry == Permutations(Process) \cup Permutations(Path)

Identity == [contract_version |-> Value("version", "0.1", 0, {}),
             source_name |-> Text("s"), unknown |-> Plain("missing")]
Listing == [source_listing_key |-> Text("k"), listing_url |-> Plain("url")]
Hash == Value("sha256", "h", 0, {})

BaseJob == Identity @@ Listing @@
    [job_id |-> Text("j"), crawl_run_id |-> Text("r"), reason_code |-> Text("NEW_LISTING"),
     priority |-> Number(0), attempt_number |-> Number(1), max_attempts |-> Number(1),
     scheduled_at |-> Utc(1), metadata |-> Object({Entry("x", "other", 0, FALSE)})]

BaseObservation == Identity @@ Listing @@
    [crawl_run_id |-> Text("r"), observed_at |-> Utc(1), visible_title |-> Text("t"),
     visible_price_text |-> Plain("null"), visible_currency |-> Plain("null"),
     visible_specs |-> Object({}), visible_status |-> Text("t"),
     card_fingerprint |-> Text("t"), discovery_partition |-> Text("d")]

BaseArtifact == Identity @@ Listing @@
    [artifact_id |-> Text("a"), job_id |-> Text("j"), crawl_run_id |-> Text("r"),
     fetched_at |-> Utc(1), fetch_method |-> Text("m"), acquisition_version |-> Text("v"),
     snapshot_path |-> Text("f"), content_hash |-> Hash, response_status |-> Number(200),
     mime_type |-> Plain("null"), artifact_status |-> Text("SUCCESS")]

BaseTelemetry == Identity @@
    [job_id |-> Text("j"), attempt_number |-> Number(1), started_at |-> Utc(1),
     finished_at |-> Utc(1), duration_ms |-> Number(0), bytes_sent |-> Number(0),
     bytes_received |-> Number(0), outcome |-> Text("SUCCESS"),
     error_class |-> Plain("null"), proxy_pool_label |-> Text("l")]

BaseCandidate == Identity @@ Listing @@
    [candidate_id |-> Text("c"), artifact_id |-> Text("a"), parsed_at |-> Utc(1),
     parser_name |-> Text("n"), parser_version |-> Text("v"), parse_status |-> Text("SUCCESS"),
     raw_fields |-> Object({}), field_evidence |-> Object({Entry("x", "other", 0, FALSE)}),
     field_confidence |-> Object({Entry("x", "fraction", 100, FALSE)}),
     warnings |-> Plain("list"), failure_reasons |-> Plain("list")]

BaseManifest == Identity @@
    [batch_id |-> Text("b"), batch_version |-> Text("v"), created_at |-> Utc(1),
     snapshot_date |-> Text("d"), record_count |-> Number(1),
     terminal_state_counts |-> Object({Entry("detail_success", "number", 1, FALSE)}),
     acquisition_versions |-> Plain("list"), parser_versions |-> Plain("list"),
     records_path |-> Text("p"), records_checksum |-> Hash, manifest_checksum |-> Hash,
     proxy_bytes_used |-> Number(0), known_limitations |-> Plain("list")]

Base == [DetailFetchJob |-> BaseJob, DiscoveryObservation |-> BaseObservation,
         RawFetchArtifact |-> BaseArtifact, FetchTelemetry |-> BaseTelemetry,
         ParsedListingCandidate |-> BaseCandidate, DatasetBatchManifest |-> BaseManifest]

(* Every kind of value, and the numbers and names next to a limit. *)
Alternative ==
    {Plain(k) : k \in Kind \ {"number", "text"}}
    \cup {Number(n) : n \in {-1, 0, 1, 2, 99, 100, 599, 600}}
    \cup {Text(t) : t \in {"t", "FAILED", "SUCCESS"}} \cup {Utc(2)}
    \cup {Object({e}) : e \in {Entry(SensitiveKey, "number", 1, FALSE),
                               Entry("x", "other", 0, TRUE), Entry("", "number", 1, FALSE),
                               Entry("x", "number", 2, FALSE), Entry("x", "fraction", 101, FALSE)}}
    \cup {Object({Entry("detail_success", k, 1, FALSE)}) : k \in EntryKind}
    \cup {Object({Entry("manual_review", "number", 1, FALSE), Entry("detail_success", "number", 1, FALSE)})}

(* Pairs of fields that a check relates, and the values it tells apart. *)
Related == {<<"attempt_number", "max_attempts">>, <<"artifact_status", "content_hash">>,
            <<"artifact_status", "snapshot_path">>, <<"started_at", "finished_at">>,
            <<"outcome", "error_class">>, <<"record_count", "terminal_state_counts">>}

Limit == {Number(n) : n \in 0 .. 3} \cup {Text("FAILED"), Plain("null"), Utc(2)}
         \cup {Object({Entry("manual_review", "number", 1, FALSE),
                        Entry("detail_success", "number", n, FALSE)})
               : n \in 1 .. 2}

Altered(p) ==
    {[p EXCEPT ![f] = v] : f \in DOMAIN p, v \in Alternative}
    \cup UNION {{[p EXCEPT ![pair[1]] = v, ![pair[2]] = w] : v, w \in Limit}
                : pair \in {q \in Related : {q[1], q[2]} \subseteq DOMAIN p}}

MCPayloads == UNION {{<<c, p>> : p \in {Base[c]} \cup Altered(Base[c])} : c \in ContractType}

Source(name, enabled, strategy, notes, unknown) ==
    [name |-> name, enabled |-> enabled, identity_strategy |-> strategy,
     identity_notes |-> notes, unknown |-> unknown]

Sources == {Source(Text(n), Plain("bool"), s, v, Plain("missing")) :
               n \in {"s", "t"},
               s \in {Text("stable_source_key"), Text("deterministic_url_fallback")},
               v \in {Plain("missing"), Plain("empty"), Plain("blank")}}

BadSources == LET good == Source(Text("s"), Plain("bool"), Text("stable_source_key"),
                                 Plain("missing"), Plain("missing"))
              IN  {[good EXCEPT ![f] = v] : f \in SourceField, v \in Alternative}

Registry(version, kind, sources, unknown) ==
    [registry_version |-> version, kind |-> kind, sources |-> sources, unknown |-> unknown]

MCRegistries ==
    LET current == Value("version", "0.1", 0, {})
        none == Plain("missing")
    IN  {Registry(current, "list", s, none) : s \in {<<x>> : x \in BadSources}}
        \cup {Registry(current, "list", <<x, y, z>>, none) : x, y, z \in
                 {w \in Sources : w.identity_notes.kind = "missing"}}
        \cup {Registry(current, "list", <<x>>, none) : x \in Sources}
        \cup {Registry(v, k, << >>, u) : v \in {current, Value("version", "0.2", 0, {}), none},
                 k \in {"missing", "list", "text"}, u \in {none, Text("t")}}
=============================================================================
