---------------------------- MODULE SourceRegistry ----------------------------
(***************************************************************************)
(* What load_source_registry (source_registry/config.py) accepts of a TOML *)
(* file.  A registry is the values of its keys, of which sources is a      *)
(* sequence of tables; values are those of Contracts.  Whatever it refuses *)
(* it refuses with SourceRegistryConfigError, so acceptance is all there   *)
(* is to tell.                                                             *)
(***************************************************************************)
EXTENDS Contracts

IdentityStrategies == {"stable_source_key", "deterministic_url_fallback"}

SourceField == {"name", "enabled", "identity_strategy", "identity_notes", "unknown"}

(* Blank notes are notes. *)
SourceDefinition(s) ==
    /\ s.name.kind \in {"text", "sha256"}
    /\ s.enabled.kind = "bool"
    /\ s.identity_strategy.kind = "text"
    /\ s.identity_strategy.text \in IdentityStrategies
    /\ s.identity_notes.kind \in StringKind \cup {"missing"}
    /\ s.identity_strategy.text = "deterministic_url_fallback" =>
          s.identity_notes.kind \notin {"empty", "missing"}

ReadSourceDefinition(s) ==
    /\ s.unknown.kind = "missing"
    /\ \A f \in {"name", "enabled", "identity_strategy"} : s[f].kind # "missing"
    /\ SourceDefinition(s)

UniqueNames(sources) ==
    \A i, j \in DOMAIN sources : sources[i].name.text = sources[j].name.text => i = j

(* sources may be left out; what is no array of tables has the kind of     *)
(* another value.                                                          *)
LoadSourceRegistry(r) ==
    /\ r.unknown.kind = "missing"
    /\ r.kind \in {"missing", "list"}
    /\ \A i \in DOMAIN r.sources : ReadSourceDefinition(r.sources[i])
    /\ r.registry_version = Value("version", "0.1", 0, {})
    /\ UniqueNames(r.sources)
=============================================================================
