-------------------------- MODULE CommandLineProofs --------------------------
(***************************************************************************)
(* Theorems about CommandLine, for any number of processes, paths, payloads*)
(* and commands, and for up to three handlers attached by others.          *)
(***************************************************************************)
EXTENDS CommandLine, BackupProofs, WellFoundedInduction, FiniteSetTheorems

-----------------------------------------------------------------------------
(* The commands use the files and the database as Backup allows.           *)

LEMMA CommandStepOnBackup ==
    ASSUME NEW p \in Process, CommandStep(p)
    PROVE  [BackupNext]_backupVars
<1>1. CASE \/ OpenDatabase(p) \/ WorkerHealth(p) \/ Status(p)
           \/ FixtureCrawl(p) \/ CrawlReport(p) \/ RunSynthetic(p) \/ SetUpLogging(p)
    BY <1>1 DEF OpenDatabase, WorkerHealth, Status, FixtureCrawl, CrawlReport, RunSynthetic,
       SetUpLogging
<1>2. CASE Migrate(p) \/ CrawlWrite(p) \/ RecoverAbandoned(p)
    BY <1>2 DEF Migrate, CrawlWrite, RecoverAbandoned, BackupNext
<1>3. CASE BackupCommand(p)
    BY <1>3 DEF BackupCommand, BackupNext
<1>4. CASE Restore(p)
    BY <1>4 DEF Restore, BackupNext
<1>5. CASE BackupStep(p)
    BY <1>5 DEF BackupStep, BackupNext
<1>6. CASE CutShort(p)
    <2>1. Abort(p)
        BY <1>6 DEF CutShort, Leave, Abort
    <2> QED BY <2>1 DEF BackupNext
<1> QED BY <1>1, <1>2, <1>3, <1>4, <1>5, <1>6 DEF CommandStep

(* Whatever the commands do to the database and to files is a behaviour of *)
(* Backup; what is proved of it holds of the command line.                 *)
THEOREM CommandsUseBackup == CommandSpec => UsesBackup
<1>1. CommandInit => BackupInit
    BY DEF CommandInit
<1>2. [CommandNext]_commandVars => [BackupNext]_backupVars
    <2>1. CASE \E p \in Process : CommandStep(p)
        BY <2>1, CommandStepOnBackup
    <2>2. CASE ContractValidate \/ SourceList \/ Health
        BY <2>2 DEF ContractValidate, SourceList, Health
    <2>3. CASE UNCHANGED commandVars
        BY <2>3 DEF commandVars, backupVars
    <2> QED BY <2>1, <2>2, <2>3 DEF CommandNext
<1> QED BY <1>1, <1>2, PTL DEF CommandSpec, UsesBackup, BackupSpec

-----------------------------------------------------------------------------
(* The handlers of the root logger.                                        *)

HandlersOK(h, n) ==
    /\ Len(h) \in 0 .. 3
    /\ n >= 1 => Len(h) >= 1
    /\ \A i \in 2 .. Len(h) : h[i].made = n
    /\ Len(h) >= 1 => h[1].made \in {n - 1, n}

LoggingInv ==
    LoggingTypeOK /\ \A p \in Interpreter : HandlersOK(handlers[p], configured[p])

LEMMA HalfOfThree ==
    \A k \in 0 .. 3 : k \div 2 \in 0 .. 1 /\ \A i \in 1 .. k \div 2 : i = 1 /\ 2 * i \in 2 .. k
<1> QED OBVIOUS

(* Of at most three handlers, at most the second one stays. *)
LEMMA SurvivorsOK ==
    ASSUME NEW h \in Seq(Handler), NEW n \in Nat, HandlersOK(h, n)
    PROVE  /\ Survivors(h) \in Seq(Handler)
           /\ Len(Survivors(h)) \in 0 .. 1
           /\ Len(Survivors(h)) = 1 => Survivors(h)[1].made = n
<1>1. Len(h) \in 0 .. 3 /\ h \in [1 .. Len(h) -> Handler]
    BY DEF HandlersOK
<1>2. Len(h) \div 2 \in 0 .. 1
    BY <1>1, HalfOfThree
<1>3. \A i \in 1 .. Len(h) \div 2 : i = 1 /\ 2 * i \in 2 .. Len(h)
    BY <1>1, HalfOfThree
<1>4. Survivors(h) \in Seq(Handler) /\ Len(Survivors(h)) = Len(h) \div 2
    BY <1>1, <1>2, <1>3 DEF Survivors
<1>5. Len(h) \div 2 = 1 => Survivors(h)[1] = h[2] /\ 2 \in 2 .. Len(h)
    BY <1>1, <1>3 DEF Survivors
<1> QED BY <1>2, <1>4, <1>5 DEF HandlersOK

LEMMA AppendHandler ==
    ASSUME NEW h \in Seq(Handler), NEW x \in Handler
    PROVE  /\ Append(h, x) \in Seq(Handler) /\ Len(Append(h, x)) = Len(h) + 1
           /\ \A i \in 1 .. Len(h) : Append(h, x)[i] = h[i]
           /\ Append(h, x)[Len(h) + 1] = x
<1> QED OBVIOUS

(* One or two new handlers after the one that may be left.                 *)
LEMMA AppendOK ==
    ASSUME NEW s \in Seq(Handler), NEW n \in Nat, NEW x \in Handler, NEW y \in Handler,
           x.made = n + 1, y.made = n + 1,
           Len(s) \in 0 .. 1, Len(s) = 1 => s[1].made = n
    PROVE  /\ Append(s, x) \in Seq(Handler) /\ HandlersOK(Append(s, x), n + 1)
           /\ Append(Append(s, x), y) \in Seq(Handler)
           /\ HandlersOK(Append(Append(s, x), y), n + 1)
<1>1. PICK one \in Seq(Handler) : /\ one = Append(s, x) /\ Len(one) = Len(s) + 1
                                  /\ \A i \in 1 .. Len(s) : one[i] = s[i]
                                  /\ one[Len(s) + 1] = x
    BY AppendHandler
<1>2. PICK two \in Seq(Handler) : /\ two = Append(one, y) /\ Len(two) = Len(one) + 1
                                  /\ \A i \in 1 .. Len(one) : two[i] = one[i]
                                  /\ two[Len(one) + 1] = y
    BY AppendHandler
<1>3. CASE Len(s) = 0
    <2>1. Len(one) = 1 /\ one[1] = x
        BY <1>1, <1>3
    <2>2. Len(two) = 2 /\ two[1] = x /\ two[2] = y
        BY <1>2, <2>1
    <2>3. HandlersOK(one, n + 1)
        BY <2>1 DEF HandlersOK
    <2>4. \A i \in 2 .. 2 : i = 2
        OBVIOUS
    <2>5. HandlersOK(two, n + 1)
        BY <2>2, <2>4 DEF HandlersOK
    <2> QED BY <1>1, <1>2, <2>3, <2>5
<1>4. CASE Len(s) = 1
    <2>1. Len(one) = 2 /\ one[1] = s[1] /\ one[2] = x
        BY <1>1, <1>4
    <2>2. Len(two) = 3 /\ two[1] = s[1] /\ two[2] = x /\ two[3] = y
        BY <1>2, <2>1
    <2>3. (\A i \in 2 .. 2 : i = 2) /\ \A i \in 2 .. 3 : i = 2 \/ i = 3
        OBVIOUS
    <2>4. s[1].made = n
        BY <1>4
    <2>5. HandlersOK(one, n + 1)
        BY <2>1, <2>3, <2>4 DEF HandlersOK
    <2>6. HandlersOK(two, n + 1)
        BY <2>2, <2>3, <2>4 DEF HandlersOK
    <2> QED BY <1>1, <1>2, <2>5, <2>6
<1>5. Len(s) = 0 \/ Len(s) = 1
    OBVIOUS
<1> QED BY <1>3, <1>4, <1>5

LEMMA ConfigureKeeps ==
    ASSUME LoggingInv, NEW p \in Interpreter, NEW toFile \in BOOLEAN, NEW opened \in BOOLEAN,
           ConfigureLogging(p, toFile, opened)
    PROVE  LoggingInv'
<1> DEFINE h == handlers[p]
           n == configured[p]
           stream == Append(Survivors(h), [made |-> n + 1, file |-> FALSE])
           both == Append(stream, [made |-> n + 1, file |-> TRUE])
<1>1. h \in Seq(Handler) /\ n \in Nat /\ n + 1 \in 0 .. MaxConfigured /\ HandlersOK(h, n)
    BY LoggingAssumption DEF LoggingInv, LoggingTypeOK, ConfigureLogging
<1>2. /\ Survivors(h) \in Seq(Handler) /\ Len(Survivors(h)) \in 0 .. 1
      /\ Len(Survivors(h)) = 1 => Survivors(h)[1].made = n
    BY <1>1, SurvivorsOK
<1>3. /\ [made |-> n + 1, file |-> FALSE] \in Handler
      /\ [made |-> n + 1, file |-> TRUE] \in Handler
    BY <1>1 DEF Handler
<1>4. /\ stream \in Seq(Handler) /\ HandlersOK(stream, n + 1)
      /\ both \in Seq(Handler) /\ HandlersOK(both, n + 1)
    <2> DEFINE x == [made |-> n + 1, file |-> FALSE]
               y == [made |-> n + 1, file |-> TRUE]
    <2>1. x.made = n + 1 /\ y.made = n + 1
        OBVIOUS
    <2> HIDE DEF x, y
    <2> QED BY <1>1, <1>2, <1>3, <2>1, AppendOK DEF x, y
<1>5. /\ handlers' = [handlers EXCEPT ![p] = IF toFile /\ opened THEN both ELSE stream]
      /\ configured' = [configured EXCEPT ![p] = n + 1]
    BY DEF ConfigureLogging
<1> QED BY <1>1, <1>4, <1>5 DEF LoggingInv, LoggingTypeOK

LEMMA ForeignOK ==
    ASSUME NEW p \in Interpreter
    PROVE  ForeignHandlers(p) \in Seq(Handler) /\ HandlersOK(ForeignHandlers(p), 0)
<1>1. Foreign[p] \in 0 .. 3
    BY LoggingAssumption
<1>2. [made |-> 0, file |-> FALSE] \in Handler
    BY DEF Handler
<1>3. /\ ForeignHandlers(p) \in [1 .. Foreign[p] -> Handler]
      /\ \A i \in 1 .. Foreign[p] : ForeignHandlers(p)[i].made = 0
    BY <1>2 DEF ForeignHandlers
<1>4. Foreign[p] \in Nat
    BY <1>1
<1>5. ForeignHandlers(p) \in Seq(Handler) /\ Len(ForeignHandlers(p)) = Foreign[p]
    BY <1>3, <1>4
<1> QED BY <1>1, <1>3, <1>5 DEF HandlersOK

LEMMA CommandStepOnLogging ==
    ASSUME LoggingInv, Interpreter = Process, NEW p \in Process, CommandStep(p)
    PROVE  LoggingInv'
<1>1. CASE RunSynthetic(p) \/ SetUpLogging(p)
    BY <1>1, ConfigureKeeps DEF RunSynthetic, SetUpLogging
<1>2. CASE UNCHANGED loggingVars
    BY <1>2 DEF loggingVars, LoggingInv, LoggingTypeOK
<1>3. CASE /\ handlers' = [handlers EXCEPT ![p] = ForeignHandlers(p)]
           /\ configured' = [configured EXCEPT ![p] = 0]
    <2>1. ForeignHandlers(p) \in Seq(Handler) /\ HandlersOK(ForeignHandlers(p), 0)
        BY ForeignOK
    <2> QED BY <1>3, <2>1, LoggingAssumption DEF LoggingInv, LoggingTypeOK
<1> QED BY <1>1, <1>2, <1>3 DEF CommandStep, OpenDatabase, Migrate, WorkerHealth, Status, FixtureCrawl,
           CrawlWrite, CrawlReport, RecoverAbandoned, BackupCommand, Restore, BackupStep,
           CutShort

LEMMA LoggingStays == CommandSpec => []LoggingInv
<1>1. CommandInit => LoggingInv
    <2> SUFFICES ASSUME CommandInit PROVE LoggingInv
        OBVIOUS
    <2>1. \A p \in Interpreter : ForeignHandlers(p) \in Seq(Handler) /\ HandlersOK(ForeignHandlers(p), 0)
        BY ForeignOK
    <2> QED BY <2>1, LoggingAssumption DEF CommandInit, LoggingInit, LoggingInv, LoggingTypeOK
<1>2. LoggingInv /\ [CommandNext]_commandVars => LoggingInv'
    <2> SUFFICES ASSUME LoggingInv, [CommandNext]_commandVars PROVE LoggingInv'
        OBVIOUS
    <2>1. CASE \E p \in Process : CommandStep(p)
        BY <2>1, CommandStepOnLogging, CommandAssumption
    <2>2. CASE UNCHANGED loggingVars
        BY <2>2 DEF loggingVars, LoggingInv, LoggingTypeOK
    <2> QED BY <2>1, <2>2 DEF CommandNext, ContractValidate, SourceList, Health,
               commandVars, loggingVars
<1> QED BY <1>1, <1>2, PTL DEF CommandSpec

(* However often a process configures its logging, and however often it is *)
(* restarted, its root logger has at most three handlers once configured,  *)
(* and none but the first can be older than the last call.                 *)
THEOREM HandlersStayFew == CommandSpec => []OneOldHandlerAtMost
<1>1. LoggingInv => OneOldHandlerAtMost
    <2> SUFFICES ASSUME LoggingInv, NEW p \in Interpreter, configured[p] >= 1
                 PROVE  /\ Len(handlers[p]) \in 1 .. 3
                        /\ \A i \in 2 .. Len(handlers[p]) : handlers[p][i].made = configured[p]
                        /\ handlers[p][1].made \in {configured[p] - 1, configured[p]}
        BY DEF OneOldHandlerAtMost
    <2> QED BY DEF LoggingInv, HandlersOK
<1> QED BY <1>1, LoggingStays, PTL

-----------------------------------------------------------------------------
(* The contracts: the outcome of a list of checks.                         *)

Result == {"ok", "ContractValidationError", "ValueError"}

Passed(checks) == \A i \in DOMAIN checks : checks[i] = "ok"

LEMMA LeastOfNaturals ==
    ASSUME NEW T \in SUBSET Nat, T # {}
    PROVE  Min(T) \in T
<1>1. PICK x \in T : \A y \in T : ~ (<<y, x>> \in OpToRel(<, Nat))
    BY NatLessThanWellFounded, WFMin
<1>2. \A y \in T : ~ (y < x)
    BY <1>1 DEF OpToRel
<1>3. \A y \in T : x <= y
    BY <1>2
<1> QED BY <1>3 DEF Min

(* The outcome is "ok" when every check passes, and otherwise the result   *)
(* of one that does not.                                                   *)
LEMMA OutcomeOfChecks ==
    ASSUME NEW S, NEW checks \in Seq(S)
    PROVE  /\ Outcome(checks) = "ok" <=> Passed(checks)
           /\ Outcome(checks) # "ok" => Outcome(checks) \in S
<1> DEFINE failed == {i \in DOMAIN checks : checks[i] # "ok"}
<1>1. DOMAIN checks \subseteq Nat /\ \A i \in DOMAIN checks : checks[i] \in S
    OBVIOUS
<1>2. CASE failed = {}
    BY <1>1, <1>2 DEF Outcome, Passed
<1>3. CASE failed # {}
    <2>1. Min(failed) \in failed
        BY <1>1, <1>3, LeastOfNaturals
    <2>2. Outcome(checks) = checks[Min(failed)]
        BY <1>3 DEF Outcome
    <2> QED BY <1>1, <2>1, <2>2 DEF Passed
<1> QED BY <1>2, <1>3

LEMMA PassedConcat ==
    ASSUME NEW S, NEW s \in Seq(S), NEW t \in Seq(S)
    PROVE  /\ s \o t \in Seq(S)
           /\ Passed(s \o t) <=> Passed(s) /\ Passed(t)
<1>1. PICK r \in Seq(S) :
          /\ r = s \o t
          /\ Len(r) = Len(s) + Len(t)
          /\ \A i \in 1 .. Len(s) : r[i] = s[i]
          /\ \A j \in 1 .. Len(t) : r[Len(s) + j] = t[j]
    <2>1. s \o t \in Seq(S) /\ Len(s \o t) = Len(s) + Len(t)
        OBVIOUS
    <2>2. \A i \in 1 .. Len(s) : (s \o t)[i] = s[i]
        OBVIOUS
    <2>3. \A j \in 1 .. Len(t) : (s \o t)[Len(s) + j] = t[j]
        OBVIOUS
    <2> QED BY <2>1, <2>2, <2>3
<1>2. DOMAIN r = 1 .. Len(s) + Len(t) /\ DOMAIN s = 1 .. Len(s) /\ DOMAIN t = 1 .. Len(t)
    BY <1>1
<1>3. Passed(r) => Passed(s) /\ Passed(t)
    <2>1. \A i \in DOMAIN s : i \in DOMAIN r
        BY <1>2
    <2>2. \A j \in DOMAIN t : Len(s) + j \in DOMAIN r
        BY <1>2
    <2> QED BY <1>1, <1>2, <2>1, <2>2 DEF Passed
<1>4. Passed(s) /\ Passed(t) => Passed(r)
    <2>1. \A i \in DOMAIN r :
            \/ i \in DOMAIN s
            \/ i - Len(s) \in DOMAIN t /\ i = Len(s) + (i - Len(s))
        BY <1>2
    <2> QED BY <1>1, <1>2, <2>1 DEF Passed
<1> QED BY <1>1, <1>3, <1>4

-----------------------------------------------------------------------------
(* The contracts: what a check that passes has found.                      *)

IsText(v) == v.kind \in StringKind \ {"empty", "blank"}
IsCount(v) == v.kind = "number" /\ v.n >= 0
NoCredentials(v) == \A e \in v.entries : e.key # SensitiveKey /\ ~e.below
OnlyUnknownMissing(p, optional) ==
    \A f \in DOMAIN p \ optional : p[f].kind = "missing" <=> f = "unknown"

LEMMA FoundByChecks ==
    \A v : /\ RequireText(v) = "ok" <=> IsText(v)
           /\ RequireContractVersion(v) = "ok" <=> v.kind = "version"
           /\ RequireHttpUrl(v) = "ok" <=> v.kind = "url"
           /\ RequireSha256(v) = "ok" <=> v.kind = "sha256"
           /\ RequireNonNegativeInt(v) = "ok" <=> IsCount(v)
           /\ RequireObject(v) = "ok" <=> v.kind = "object"
           /\ RejectSensitiveKeys(v) = "ok" <=> NoCredentials(v)
           /\ ParseUtcTimestamp(v) = "ok" <=> v.kind = "utc"
           /\ ParseTuple(v) = "ok" <=> v.kind \in StringKind \cup {"list", "object", "missing"}
<1> QED BY DEF Require, RequireText, RequireContractVersion, RequireHttpUrl, RequireSha256,
           RequireNonNegativeInt, RequireObject, RejectSensitiveKeys, Sensitive,
           ParseUtcTimestamp, ParseTuple, IsText, IsCount, NoCredentials

LEMMA FoundByConditions ==
    /\ \A c \in BOOLEAN : Require(c) = "ok" <=> c
    /\ \A v, words : ParseEnum(words, v) = "ok" <=> OneOf(v, words)
    /\ \A p, optional : ParseFields(p, optional) = "ok" <=> OnlyUnknownMissing(p, optional)
<1> QED BY DEF Require, ParseEnum, OneOf, ParseFields, OnlyUnknownMissing

Refusal == {"ok", "ContractValidationError"}

(* Only a URL can raise anything but a ContractValidationError.            *)
ResultsFor(url) ==
    IF url.kind = "unparsable" THEN Refusal \cup {"ValueError"} ELSE Refusal

LEMMA IdentityChecks ==
    ASSUME NEW p
    PROVE  /\ SourceIdentity(p) \in Seq(ResultsFor(p.listing_url))
           /\ Passed(SourceIdentity(p)) <=>
                 IsText(p.source_name) /\ IsText(p.source_listing_key) /\ p.listing_url.kind = "url"
<1>1. SourceIdentity(p) \in Seq(ResultsFor(p.listing_url))
    <2>1. /\ RequireText(p.source_name) \in ResultsFor(p.listing_url)
          /\ RequireText(p.source_listing_key) \in ResultsFor(p.listing_url)
          /\ RequireHttpUrl(p.listing_url) \in ResultsFor(p.listing_url)
        BY DEF RequireText, RequireHttpUrl, Require, ResultsFor, Refusal
    <2> QED BY <2>1 DEF SourceIdentity
<1>2. Passed(SourceIdentity(p)) <=> /\ RequireText(p.source_name) = "ok"
                                    /\ RequireText(p.source_listing_key) = "ok"
                                    /\ RequireHttpUrl(p.listing_url) = "ok"
    BY DEF Passed, SourceIdentity
<1> QED BY <1>1, <1>2, FoundByChecks

LEMMA ChecksAround ==
    ASSUME NEW head \in Seq(Refusal), NEW tail \in Seq(Refusal), NEW p
    PROVE  /\ head \o SourceIdentity(p) \o tail \in Seq(ResultsFor(p.listing_url))
           /\ Passed(head \o SourceIdentity(p) \o tail) <=>
                 /\ Passed(head) /\ Passed(tail)
                 /\ IsText(p.source_name) /\ IsText(p.source_listing_key)
                 /\ p.listing_url.kind = "url"
<1> DEFINE results == ResultsFor(p.listing_url)
<1>1. Refusal \subseteq results
    BY DEF ResultsFor
<1>2. PICK identity \in Seq(results) : identity = SourceIdentity(p)
    BY IdentityChecks
<1> HIDE DEF results
<1>3. head \in Seq(results) /\ tail \in Seq(results)
    BY <1>1
<1>4. PICK front \in Seq(results) :
          front = head \o identity /\ (Passed(front) <=> Passed(head) /\ Passed(identity))
    BY <1>2, <1>3, PassedConcat
<1>5. /\ front \o tail \in Seq(results)
      /\ Passed(front \o tail) <=> Passed(front) /\ Passed(tail)
    BY <1>3, <1>4, PassedConcat
<1> QED BY <1>2, <1>4, <1>5, IdentityChecks DEF results

(* What a field must be to be accepted.                                    *)
FieldIsAccepted(f, v) ==
    /\ f \in TextField => IsText(v)
    /\ f \in CountField => IsCount(v)
    /\ f \in TimeField => v.kind = "utc"
    /\ f \in ObjectField => v.kind = "object" \/ (f = "metadata" /\ v.kind = "missing")
    /\ f \in ArrayField => v.kind \in StringKind \cup {"list", "object", "missing"}
    /\ f \in Extensible => NoCredentials(v)
    /\ f = "contract_version" => v.kind = "version"
    /\ f = "listing_url" => v.kind = "url"
    /\ f \in {"records_checksum", "manifest_checksum"} => v.kind = "sha256"

DefaultedField == {"metadata"} \cup ArrayField

(* The fields are documented up to defaults if each of them is accepted.   *)
LEMMA AcceptedFields ==
    ASSUME NEW F, NEW p \in [F -> JsonValue], NEW optional, optional = DefaultedField \cap F
    PROVE  FieldsAreDocumented(WithDefaults(p)) <=>
              /\ OnlyUnknownMissing(p, optional)
              /\ \A f \in F : FieldIsAccepted(f, p[f])
<1> DEFINE q == WithDefaults(p)
           Documented(f, v) ==
              /\ f = "unknown" <=> v.kind = "missing"
              /\ f \in TextField => IsText(v)
              /\ f \in CountField => IsCount(v)
              /\ f \in TimeField => v.kind = "utc"
              /\ f \in ObjectField => v.kind = "object"
              /\ f \in ArrayField => v.kind = "list"
              /\ f \in Extensible => NoCredentials(v)
              /\ f = "contract_version" => v.kind = "version"
              /\ f = "listing_url" => v.kind = "url"
              /\ f \in {"records_checksum", "manifest_checksum"} => v.kind = "sha256"
<1>1. DOMAIN p = F /\ DOMAIN q = F
    BY DEF WithDefaults
<1>2. FieldsAreDocumented(q) <=> \A f \in F : Documented(f, q[f])
    BY <1>1 DEF FieldsAreDocumented, IsText, IsCount, NoCredentials
<1>3. ASSUME NEW f \in F
      PROVE  Documented(f, q[f]) <=>
                /\ f \notin optional => (p[f].kind = "missing" <=> f = "unknown")
                /\ FieldIsAccepted(f, p[f])
    <2>1. CASE f = "metadata"
        <3>1. q[f] = IF p[f].kind = "missing" THEN Object({}) ELSE p[f]
            BY <2>1 DEF WithDefaults, ArrayField
        <3>2. Object({}).kind = "object" /\ NoCredentials(Object({}))
            BY DEF Object, Value, NoCredentials
        <3>3. p[f].kind = "missing" => NoCredentials(p[f])
            BY DEF JsonValue, NoCredentials
        <3>4. f \in optional
            BY <2>1 DEF DefaultedField
        <3> HIDE DEF q
        <3>5. FieldIsAccepted(f, p[f]) <=>
                 p[f].kind \in {"object", "missing"} /\ NoCredentials(p[f])
            BY <2>1 DEF FieldIsAccepted, TextField, CountField, TimeField, ObjectField,
                        ArrayField, Extensible
        <3>6. Documented(f, q[f]) <=> q[f].kind = "object" /\ NoCredentials(q[f])
            BY <2>1 DEF TextField, CountField, TimeField, ObjectField, ArrayField, Extensible
        <3> HIDE DEF Documented
        <3> QED BY <3>1, <3>2, <3>3, <3>4, <3>5, <3>6
    <2>2. CASE f \in ArrayField
        <3>1. q[f] = IF p[f].kind \in StringKind \cup {"object", "missing"}
                     THEN Plain("list") ELSE p[f]
            BY <2>2 DEF WithDefaults, ArrayField
        <3>2. Plain("list").kind = "list"
            BY DEF Plain, Value
        <3>3. f \in optional
            BY <2>2 DEF DefaultedField
        <3> HIDE DEF q
        <3> QED BY <2>2, <3>1, <3>2, <3>3 DEF FieldIsAccepted, TextField, CountField,
                   TimeField, ObjectField, ArrayField, Extensible, StringKind
    <2>3. CASE f \notin DefaultedField
        <3>1. q[f] = p[f] /\ f \notin optional /\ f \notin ArrayField /\ f # "metadata"
            BY <2>3 DEF WithDefaults, DefaultedField
        <3> HIDE DEF q
        <3>2. Documented(f, p[f]) <=>
                 (f = "unknown" <=> p[f].kind = "missing") /\ FieldIsAccepted(f, p[f])
            BY <3>1, Zenon DEF FieldIsAccepted
        <3> HIDE DEF Documented
        <3> QED BY <3>1, <3>2
    <2> QED BY <2>1, <2>2, <2>3 DEF DefaultedField
<1> HIDE DEF q, Documented
<1> QED BY <1>1, <1>2, <1>3 DEF OnlyUnknownMissing, q

LEMMA TelemetryChecks ==
    ASSUME NEW p \in [Fields("FetchTelemetry") -> JsonValue]
    PROVE  /\ FetchTelemetry(p) \in Seq(Refusal)
           /\ Passed(FetchTelemetry(p)) <=>
                 FieldsAreDocumented(WithDefaults(p)) /\ RelationsAreDocumented("FetchTelemetry", p)
<1> DEFINE Found ==
      /\ p.started_at.kind = "utc" /\ p.finished_at.kind = "utc"
      /\ OneOf(p.outcome, TelemetryOutcome)
      /\ OnlyUnknownMissing(p, {})
      /\ p.contract_version.kind = "version"
      /\ IsText(p.job_id) /\ IsText(p.source_name)
      /\ IsCount(p.attempt_number)
      /\ p.attempt_number.n >= 1
      /\ p.finished_at.n >= p.started_at.n
      /\ IsCount(p.duration_ms) /\ IsCount(p.bytes_sent) /\ IsCount(p.bytes_received)
      /\ IsText(p.proxy_pool_label)
      /\ p.outcome.text = "SUCCESS" => p.error_class.kind = "null"
<1>1. FetchTelemetry(p) \in Seq(Refusal)
    BY DEF FetchTelemetry, RequireText, RequireNonNegativeInt, ParseFields, ParseUtcTimestamp,
           ParseEnum, RequireContractVersion, Require, Refusal
<1>2. Passed(FetchTelemetry(p)) <=>
      /\ ParseUtcTimestamp(p.started_at) = "ok"
      /\ ParseUtcTimestamp(p.finished_at) = "ok"
      /\ ParseEnum(TelemetryOutcome, p.outcome) = "ok"
      /\ ParseFields(p, {}) = "ok"
      /\ RequireContractVersion(p.contract_version) = "ok"
      /\ RequireText(p.job_id) = "ok" /\ RequireText(p.source_name) = "ok"
      /\ RequireNonNegativeInt(p.attempt_number) = "ok"
      /\ Require(p.attempt_number.n >= 1) = "ok"
      /\ Require(p.finished_at.n >= p.started_at.n) = "ok"
      /\ RequireNonNegativeInt(p.duration_ms) = "ok"
      /\ RequireNonNegativeInt(p.bytes_sent) = "ok"
      /\ RequireNonNegativeInt(p.bytes_received) = "ok"
      /\ RequireText(p.proxy_pool_label) = "ok"
      /\ Require(p.outcome.text = "SUCCESS" => p.error_class.kind = "null") = "ok"
    BY DEF Passed, FetchTelemetry
<1>3. Passed(FetchTelemetry(p)) <=> Found
    <2>1. /\ ParseEnum(TelemetryOutcome, p.outcome) = "ok" <=> OneOf(p.outcome, TelemetryOutcome)
          /\ ParseFields(p, {}) = "ok" <=> OnlyUnknownMissing(p, {})
        BY FoundByConditions
    <2>2. /\ Require(p.attempt_number.n >= 1) = "ok" <=> p.attempt_number.n >= 1
          /\ Require(p.finished_at.n >= p.started_at.n) = "ok"
               <=> p.finished_at.n >= p.started_at.n
          /\ Require(p.outcome.text = "SUCCESS" => p.error_class.kind = "null") = "ok"
             <=> (p.outcome.text = "SUCCESS" => p.error_class.kind = "null")
        BY DEF Require
    <2> QED BY <1>2, <2>1, <2>2, FoundByChecks
<1>4. DOMAIN p = Fields("FetchTelemetry")
    OBVIOUS
<1>5. {} = DefaultedField \cap DOMAIN p
    BY <1>4 DEF DefaultedField, ArrayField, Fields
<1>6. ASSUME Found PROVE FieldsAreDocumented(WithDefaults(p)) /\ RelationsAreDocumented("FetchTelemetry", p)
    <2>1. \A f \in DOMAIN p : FieldIsAccepted(f, p[f])
        BY <1>4, <1>6 DEF Fields, FieldIsAccepted, TextField, CountField, TimeField,
           ObjectField, ArrayField, Extensible
    <2> QED BY <1>5, <1>6, <2>1, AcceptedFields DEF RelationsAreDocumented
<1>7. ASSUME FieldsAreDocumented(WithDefaults(p)), RelationsAreDocumented("FetchTelemetry", p) PROVE Found
    <2>1. OnlyUnknownMissing(p, {}) /\ \A f \in DOMAIN p : FieldIsAccepted(f, p[f])
        BY <1>5, <1>7, AcceptedFields
    <2>2. /\ p.started_at.kind = "utc" /\ p.finished_at.kind = "utc"
          /\ p.contract_version.kind = "version"
          /\ IsText(p.job_id) /\ IsText(p.source_name) /\ IsText(p.proxy_pool_label)
          /\ IsCount(p.attempt_number) /\ IsCount(p.duration_ms)
          /\ IsCount(p.bytes_sent) /\ IsCount(p.bytes_received)
        BY <1>4, <2>1 DEF Fields, FieldIsAccepted, TextField, CountField, TimeField
    <2> QED BY <1>7, <2>1, <2>2 DEF RelationsAreDocumented
<1> QED BY <1>1, <1>3, <1>6, <1>7

LEMMA ObservationChecks ==
    ASSUME NEW p \in [Fields("DiscoveryObservation") -> JsonValue]
    PROVE  /\ DiscoveryObservation(p) \in Seq(ResultsFor(p.listing_url))
           /\ Passed(DiscoveryObservation(p)) <=>
                 FieldsAreDocumented(WithDefaults(p)) /\ RelationsAreDocumented("DiscoveryObservation", p)
<1> DEFINE head == <<ParseUtcTimestamp(p.observed_at), ParseFields(p, {}),
                     RequireContractVersion(p.contract_version), RequireText(p.crawl_run_id)>>
           tail == <<RequireText(p.discovery_partition), RequireObject(p.visible_specs),
                     RejectSensitiveKeys(p.visible_specs)>>
           HeadFound == /\ p.observed_at.kind = "utc" /\ OnlyUnknownMissing(p, {})
                        /\ p.contract_version.kind = "version" /\ IsText(p.crawl_run_id)
           TailFound == /\ IsText(p.discovery_partition) /\ p.visible_specs.kind = "object"
                        /\ NoCredentials(p.visible_specs)
           Found == /\ HeadFound /\ TailFound
                    /\ IsText(p.source_name) /\ IsText(p.source_listing_key) /\ p.listing_url.kind = "url"
<1>1. head \in Seq(Refusal) /\ tail \in Seq(Refusal)
    BY DEF RequireText, RequireNonNegativeInt, ParseFields, ParseUtcTimestamp, ParseEnum,
           ParseTuple, RequireContractVersion, RequireObject, RequireSha256,
           RejectSensitiveKeys,
           Require, Refusal
<1>2. Passed(head) <=> HeadFound
    <2>1. Passed(head) <=>
            /\ ParseUtcTimestamp(p.observed_at) = "ok" /\ ParseFields(p, {}) = "ok"
            /\ RequireContractVersion(p.contract_version) = "ok"
            /\ RequireText(p.crawl_run_id) = "ok"
        BY DEF Passed
    <2>2. ParseFields(p, {}) = "ok" <=> OnlyUnknownMissing(p, {})
        BY FoundByConditions
    <2> QED BY <2>1, <2>2, FoundByChecks
<1>3. Passed(tail) <=> TailFound
    <2>1. Passed(tail) <=>
            /\ RequireText(p.discovery_partition) = "ok"
            /\ RequireObject(p.visible_specs) = "ok"
            /\ RejectSensitiveKeys(p.visible_specs) = "ok"
        BY DEF Passed
    <2> QED BY <2>1, FoundByChecks
<1>4. DiscoveryObservation(p) = head \o SourceIdentity(p) \o tail
    BY DEF DiscoveryObservation
<1> HIDE DEF head, tail
<1>5. /\ DiscoveryObservation(p) \in Seq(ResultsFor(p.listing_url))
      /\ (Passed(DiscoveryObservation(p)) <=> Found)
    BY <1>1, <1>2, <1>3, <1>4, ChecksAround
<1>6. DOMAIN p = Fields("DiscoveryObservation") /\ \A f \in DOMAIN p : p[f] \in JsonValue
    OBVIOUS
<1>7. {} = DefaultedField \cap DOMAIN p
    BY <1>6 DEF DefaultedField, ArrayField, Fields
<1>8. ASSUME Found
      PROVE  FieldsAreDocumented(WithDefaults(p)) /\ RelationsAreDocumented("DiscoveryObservation", p)
    <2>1. \A f \in DOMAIN p : FieldIsAccepted(f, p[f])
        BY <1>6, <1>8 DEF Fields, FieldIsAccepted, TextField, CountField, TimeField,
                          ObjectField, ArrayField, Extensible
    <2> QED BY <1>7, <1>8, <2>1, AcceptedFields DEF RelationsAreDocumented
<1>9. ASSUME FieldsAreDocumented(WithDefaults(p)), RelationsAreDocumented("DiscoveryObservation", p)
      PROVE  Found
    <2>1. OnlyUnknownMissing(p, {}) /\ \A f \in DOMAIN p : FieldIsAccepted(f, p[f])
        BY <1>7, <1>9, AcceptedFields
    <2>2. /\ p.observed_at.kind = "utc" /\ p.contract_version.kind = "version"
          /\ IsText(p.crawl_run_id) /\ IsText(p.discovery_partition)
          /\ p.visible_specs.kind = "object" /\ NoCredentials(p.visible_specs)
          /\ IsText(p.source_name) /\ IsText(p.source_listing_key) /\ p.listing_url.kind = "url"
        BY <1>6, <2>1 DEF Fields, FieldIsAccepted, TextField, CountField, TimeField,
                          ObjectField, ArrayField, Extensible
    <2> QED BY <1>9, <2>1, <2>2 DEF RelationsAreDocumented
<1> QED BY <1>5, <1>8, <1>9

LEMMA JobChecks ==
    ASSUME NEW p \in [Fields("DetailFetchJob") -> JsonValue]
    PROVE  /\ DetailFetchJob(p) \in Seq(ResultsFor(p.listing_url))
           /\ Passed(DetailFetchJob(p)) <=>
                 FieldsAreDocumented(WithDefaults(p)) /\ RelationsAreDocumented("DetailFetchJob", p)
<1> DEFINE metadata == IF p.metadata.kind = "missing" THEN Object({}) ELSE p.metadata
           head == <<ParseEnum(DetailReasonCode, p.reason_code), ParseUtcTimestamp(p.scheduled_at),
                     ParseFields(p, {"metadata"}), RequireContractVersion(p.contract_version),
                     RequireText(p.job_id), RequireText(p.crawl_run_id)>>
           tail == <<RequireNonNegativeInt(p.priority), RequireNonNegativeInt(p.attempt_number),
                     RequireNonNegativeInt(p.max_attempts), AttemptRange(p),
                     RequireObject(metadata), RejectSensitiveKeys(metadata)>>
           HeadFound == /\ OneOf(p.reason_code, DetailReasonCode) /\ p.scheduled_at.kind = "utc"
                        /\ OnlyUnknownMissing(p, {"metadata"})
                        /\ p.contract_version.kind = "version" /\ IsText(p.job_id)
                        /\ IsText(p.crawl_run_id)
           TailFound == /\ IsCount(p.priority) /\ IsCount(p.attempt_number)
                        /\ IsCount(p.max_attempts)
                        /\ p.attempt_number.n >= 1 /\ p.max_attempts.n >= p.attempt_number.n
                        /\ metadata.kind = "object" /\ NoCredentials(metadata)
           Found == /\ HeadFound /\ TailFound
                    /\ IsText(p.source_name) /\ IsText(p.source_listing_key) /\ p.listing_url.kind = "url"
<1>1. head \in Seq(Refusal) /\ tail \in Seq(Refusal)
    BY DEF RequireText, RequireNonNegativeInt, ParseFields, ParseUtcTimestamp, ParseEnum,
           ParseTuple, RequireContractVersion, RequireObject, RequireSha256,
           RejectSensitiveKeys,
           AttemptRange, Require, Refusal
<1>2. Passed(head) <=> HeadFound
    <2>1. Passed(head) <=>
            /\ ParseEnum(DetailReasonCode, p.reason_code) = "ok"
            /\ ParseUtcTimestamp(p.scheduled_at) = "ok" /\ ParseFields(p, {"metadata"}) = "ok"
            /\ RequireContractVersion(p.contract_version) = "ok" /\ RequireText(p.job_id) = "ok"
            /\ RequireText(p.crawl_run_id) = "ok"
        BY DEF Passed
    <2>2. /\ ParseEnum(DetailReasonCode, p.reason_code) = "ok"
               <=> OneOf(p.reason_code, DetailReasonCode)
          /\ ParseFields(p, {"metadata"}) = "ok" <=> OnlyUnknownMissing(p, {"metadata"})
        BY FoundByConditions
    <2> QED BY <2>1, <2>2, FoundByChecks
<1>3. Passed(tail) <=> TailFound
    <2>1. Passed(tail) <=>
            /\ RequireNonNegativeInt(p.priority) = "ok"
            /\ RequireNonNegativeInt(p.attempt_number) = "ok"
            /\ RequireNonNegativeInt(p.max_attempts) = "ok" /\ AttemptRange(p) = "ok"
            /\ RequireObject(metadata) = "ok" /\ RejectSensitiveKeys(metadata) = "ok"
        BY DEF Passed
    <2>2. AttemptRange(p) = "ok" <=>
             p.attempt_number.n >= 1 /\ p.max_attempts.n >= p.attempt_number.n
        BY DEF AttemptRange, Require
    <2> QED BY <2>1, <2>2, FoundByChecks
<1>4. DetailFetchJob(p) = head \o SourceIdentity(p) \o tail
    BY DEF DetailFetchJob
<1> HIDE DEF head, tail
<1>5. /\ DetailFetchJob(p) \in Seq(ResultsFor(p.listing_url))
      /\ (Passed(DetailFetchJob(p)) <=> Found)
    BY <1>1, <1>2, <1>3, <1>4, ChecksAround
<1>6. DOMAIN p = Fields("DetailFetchJob") /\ \A f \in DOMAIN p : p[f] \in JsonValue
    OBVIOUS
<1>m. metadata.kind = "object" /\ NoCredentials(metadata) <=>
         p.metadata.kind \in {"object", "missing"} /\ NoCredentials(p.metadata)
    <2>1. p.metadata \in JsonValue
        BY <1>6 DEF Fields
    <2> QED BY <2>1 DEF NoCredentials, JsonValue, Object, Value
<1> HIDE DEF metadata
<1>7. {"metadata"} = DefaultedField \cap DOMAIN p
    BY <1>6 DEF DefaultedField, ArrayField, Fields
<1>8. ASSUME Found PROVE FieldsAreDocumented(WithDefaults(p)) /\ RelationsAreDocumented("DetailFetchJob", p)
    <2>1. \A f \in DOMAIN p : FieldIsAccepted(f, p[f])
        BY <1>6, <1>8, <1>m DEF Fields, FieldIsAccepted, TextField, CountField, TimeField,
                          ObjectField, ArrayField, Extensible
    <2> QED BY <1>7, <1>8, <2>1, AcceptedFields DEF RelationsAreDocumented
<1>9. ASSUME FieldsAreDocumented(WithDefaults(p)), RelationsAreDocumented("DetailFetchJob", p) PROVE Found
    <2>1. OnlyUnknownMissing(p, {"metadata"}) /\ \A f \in DOMAIN p : FieldIsAccepted(f, p[f])
        BY <1>7, <1>9, AcceptedFields
    <2>2. /\ p.scheduled_at.kind = "utc" /\ p.contract_version.kind = "version"
          /\ IsText(p.job_id) /\ IsText(p.crawl_run_id) /\ IsCount(p.priority)
          /\ IsCount(p.attempt_number) /\ IsCount(p.max_attempts) /\ metadata.kind = "object"
          /\ NoCredentials(metadata) /\ IsText(p.source_name) /\ IsText(p.source_listing_key)
          /\ p.listing_url.kind = "url"
        BY <1>6, <1>m, <2>1 DEF Fields, FieldIsAccepted, TextField, CountField, TimeField,
                          ObjectField, ArrayField, Extensible
    <2> QED BY <1>9, <2>1, <2>2 DEF RelationsAreDocumented
<1> QED BY <1>5, <1>8, <1>9

LEMMA CandidateChecks ==
    ASSUME NEW p \in [Fields("ParsedListingCandidate") -> JsonValue]
    PROVE  /\ ParsedListingCandidate(p) \in Seq(ResultsFor(p.listing_url))
           /\ Passed(ParsedListingCandidate(p)) <=>
                 FieldsAreDocumented(WithDefaults(p)) /\ RelationsAreDocumented("ParsedListingCandidate", p)
<1> DEFINE certain == \A e \in p.field_confidence.entries : e.key # "" /\ IsConfidence(e)
           head == <<ParseUtcTimestamp(p.parsed_at), ParseEnum(ParseStatus, p.parse_status), ParseTuple(p.warnings),
                     ParseTuple(p.failure_reasons),
                     ParseFields(p, {"warnings", "failure_reasons"}),
                     RequireContractVersion(p.contract_version), RequireText(p.candidate_id),
                     RequireText(p.artifact_id), RequireText(p.parser_name),
                     RequireText(p.parser_version)>>
           tail == <<RequireObject(p.raw_fields), RequireObject(p.field_evidence), RequireObject(p.field_confidence),
                     Require(certain),
                     RejectSensitiveKeys(p.raw_fields), RejectSensitiveKeys(p.field_evidence)>>
           HeadFound == /\ p.parsed_at.kind = "utc" /\ OneOf(p.parse_status, ParseStatus)
                        /\ p.warnings.kind \in StringKind \cup {"list", "object", "missing"}
                        /\ p.failure_reasons.kind \in StringKind \cup {"list", "object", "missing"}
                        /\ OnlyUnknownMissing(p, {"warnings", "failure_reasons"})
                        /\ p.contract_version.kind = "version" /\ IsText(p.candidate_id)
                        /\ IsText(p.artifact_id) /\ IsText(p.parser_name)
                        /\ IsText(p.parser_version)
           TailFound == /\ p.raw_fields.kind = "object" /\ p.field_evidence.kind = "object"
                        /\ p.field_confidence.kind = "object"
                        /\ certain
                        /\ NoCredentials(p.raw_fields) /\ NoCredentials(p.field_evidence)
           Found == /\ HeadFound /\ TailFound
                    /\ IsText(p.source_name) /\ IsText(p.source_listing_key) /\ p.listing_url.kind = "url"
<1> HIDE DEF certain
<1>1. head \in Seq(Refusal) /\ tail \in Seq(Refusal)
    BY DEF RequireText, RequireNonNegativeInt, ParseFields, ParseUtcTimestamp, ParseEnum,
           ParseTuple, RequireContractVersion, RequireObject, RequireSha256,
           RejectSensitiveKeys,
           Require, Refusal
<1>2. Passed(head) <=> HeadFound
    <2>1. Passed(head) <=>
            /\ ParseUtcTimestamp(p.parsed_at) = "ok"
            /\ ParseEnum(ParseStatus, p.parse_status) = "ok" /\ ParseTuple(p.warnings) = "ok"
            /\ ParseTuple(p.failure_reasons) = "ok"
            /\ ParseFields(p, {"warnings", "failure_reasons"}) = "ok"
            /\ RequireContractVersion(p.contract_version) = "ok"
            /\ RequireText(p.candidate_id) = "ok" /\ RequireText(p.artifact_id) = "ok"
            /\ RequireText(p.parser_name) = "ok" /\ RequireText(p.parser_version) = "ok"
        BY DEF Passed
    <2>2. /\ ParseEnum(ParseStatus, p.parse_status) = "ok"
               <=> OneOf(p.parse_status, ParseStatus)
          /\ ParseFields(p, {"warnings", "failure_reasons"}) = "ok"
               <=> OnlyUnknownMissing(p, {"warnings", "failure_reasons"})
        BY FoundByConditions
    <2> QED BY <2>1, <2>2, FoundByChecks
<1>3. Passed(tail) <=> TailFound
    <2>1. Passed(tail) <=>
            /\ RequireObject(p.raw_fields) = "ok" /\ RequireObject(p.field_evidence) = "ok"
            /\ RequireObject(p.field_confidence) = "ok"
            /\ Require(certain) = "ok"
            /\ RejectSensitiveKeys(p.raw_fields) = "ok"
            /\ RejectSensitiveKeys(p.field_evidence) = "ok"
        BY DEF Passed
    <2>2. Require(certain) = "ok" <=> certain
        BY DEF Require
    <2> QED BY <2>1, <2>2, FoundByChecks
<1>4. ParsedListingCandidate(p) = head \o SourceIdentity(p) \o tail
    BY DEF ParsedListingCandidate, certain
<1> HIDE DEF head, tail
<1>5. /\ ParsedListingCandidate(p) \in Seq(ResultsFor(p.listing_url))
      /\ (Passed(ParsedListingCandidate(p)) <=> Found)
    BY <1>1, <1>2, <1>3, <1>4, ChecksAround
<1>6. DOMAIN p = Fields("ParsedListingCandidate") /\ \A f \in DOMAIN p : p[f] \in JsonValue
    OBVIOUS
<1>7. {"warnings", "failure_reasons"} = DefaultedField \cap DOMAIN p
    BY <1>6 DEF DefaultedField, ArrayField, Fields
<1>r. RelationsAreDocumented("ParsedListingCandidate", p) <=>
         OneOf(p.parse_status, ParseStatus) /\ certain
    <2>1. \A e \in p.field_confidence.entries :
             IsConfidence(e) <=> /\ e.kind \in {"number", "fraction"}
                                 /\ 0 <= Hundredths(e) /\ Hundredths(e) <= 100
        <3>1. p.field_confidence \in JsonValue
            BY <1>6 DEF Fields
        <3>2. \A e \in p.field_confidence.entries : e.n \in Int
            BY <3>1 DEF JsonValue
        <3> QED BY <3>2 DEF IsConfidence, Hundredths
    <2>2. RelationsAreDocumented("ParsedListingCandidate", p) <=>
             /\ OneOf(p.parse_status, ParseStatus)
             /\ \A e \in p.field_confidence.entries :
                   /\ e.key # "" /\ e.kind \in {"number", "fraction"}
                   /\ 0 <= Hundredths(e) /\ Hundredths(e) <= 100
        BY Zenon DEF RelationsAreDocumented
    <2> QED BY <2>1, <2>2 DEF certain
<1>8. ASSUME Found
      PROVE  FieldsAreDocumented(WithDefaults(p)) /\ RelationsAreDocumented("ParsedListingCandidate", p)
    <2>1. \A f \in DOMAIN p : FieldIsAccepted(f, p[f])
        BY <1>6, <1>8 DEF Fields, FieldIsAccepted, TextField, CountField, TimeField,
                          ObjectField, ArrayField, Extensible
    <2> QED BY <1>7, <1>8, <1>r, <2>1, AcceptedFields
<1>9. ASSUME FieldsAreDocumented(WithDefaults(p)), RelationsAreDocumented("ParsedListingCandidate", p)
      PROVE  Found
    <2>1. OnlyUnknownMissing(p, {"warnings", "failure_reasons"}) /\ \A f \in DOMAIN p : FieldIsAccepted(f, p[f])
        BY <1>7, <1>9, AcceptedFields
    <2>2. /\ p.parsed_at.kind = "utc" /\ p.contract_version.kind = "version"
          /\ IsText(p.candidate_id) /\ IsText(p.artifact_id) /\ IsText(p.parser_name)
          /\ IsText(p.parser_version) /\ p.raw_fields.kind = "object"
          /\ p.field_evidence.kind = "object" /\ p.field_confidence.kind = "object"
          /\ NoCredentials(p.raw_fields) /\ NoCredentials(p.field_evidence)
          /\ p.warnings.kind \in StringKind \cup {"list", "object", "missing"}
          /\ p.failure_reasons.kind \in StringKind \cup {"list", "object", "missing"}
          /\ IsText(p.source_name) /\ IsText(p.source_listing_key) /\ p.listing_url.kind = "url"
        BY <1>6, <2>1 DEF Fields, FieldIsAccepted, TextField, CountField, TimeField,
                          ObjectField, ArrayField, Extensible
    <2> QED BY <1>9, <1>r, <2>1, <2>2
<1> QED BY <1>5, <1>8, <1>9

LEMMA ArtifactChecks ==
    ASSUME NEW p \in [Fields("RawFetchArtifact") -> JsonValue]
    PROVE  /\ RawFetchArtifact(p) \in Seq(ResultsFor(p.listing_url))
           /\ Passed(RawFetchArtifact(p)) <=>
                 FieldsAreDocumented(WithDefaults(p)) /\ RelationsAreDocumented("RawFetchArtifact", p)
<1> DEFINE status == \/ p.response_status.kind = "null"
                     \/ p.response_status.kind = "number" /\ p.response_status.n \in 100 .. 599
           evidence == p.artifact_status.text = "SUCCESS" =>
                          IsText(p.snapshot_path) /\ p.content_hash.kind = "sha256"
           rest == IF p.artifact_status.text = "SUCCESS"
                   THEN <<RequireText(p.snapshot_path), RequireSha256(p.content_hash)>>
                   ELSE << >>
           head == <<ParseUtcTimestamp(p.fetched_at), ParseEnum(ArtifactStatus, p.artifact_status),
                     ParseFields(p, {}), RequireContractVersion(p.contract_version),
                     RequireText(p.artifact_id), RequireText(p.job_id),
                     RequireText(p.crawl_run_id), RequireText(p.fetch_method),
                     RequireText(p.acquisition_version)>>
           tail == <<Require(status)>>
           HeadFound == /\ p.fetched_at.kind = "utc" /\ OneOf(p.artifact_status, ArtifactStatus)
                        /\ OnlyUnknownMissing(p, {}) /\ p.contract_version.kind = "version"
                        /\ IsText(p.artifact_id) /\ IsText(p.job_id) /\ IsText(p.crawl_run_id)
                        /\ IsText(p.fetch_method) /\ IsText(p.acquisition_version)
           TailFound == /\ status
           Found == /\ HeadFound /\ TailFound /\ evidence
                    /\ IsText(p.source_name) /\ IsText(p.source_listing_key) /\ p.listing_url.kind = "url"
<1> HIDE DEF status, evidence
<1>1. head \in Seq(Refusal) /\ tail \in Seq(Refusal)
    BY DEF RequireText, RequireNonNegativeInt, ParseFields, ParseUtcTimestamp, ParseEnum,
           ParseTuple, RequireContractVersion, RequireObject, RequireSha256,
           RejectSensitiveKeys,
           Require, Refusal
<1>2. Passed(head) <=> HeadFound
    <2>1. Passed(head) <=>
            /\ ParseUtcTimestamp(p.fetched_at) = "ok"
            /\ ParseEnum(ArtifactStatus, p.artifact_status) = "ok" /\ ParseFields(p, {}) = "ok"
            /\ RequireContractVersion(p.contract_version) = "ok"
            /\ RequireText(p.artifact_id) = "ok" /\ RequireText(p.job_id) = "ok"
            /\ RequireText(p.crawl_run_id) = "ok" /\ RequireText(p.fetch_method) = "ok"
            /\ RequireText(p.acquisition_version) = "ok"
        BY DEF Passed
    <2>2. /\ ParseEnum(ArtifactStatus, p.artifact_status) = "ok"
               <=> OneOf(p.artifact_status, ArtifactStatus)
          /\ ParseFields(p, {}) = "ok" <=> OnlyUnknownMissing(p, {})
        BY FoundByConditions
    <2> QED BY <2>1, <2>2, FoundByChecks
<1>3. Passed(tail) <=> TailFound
    <2>1. Passed(tail) <=> Require(status) = "ok"
        BY DEF Passed
    <2>2. Require(status) = "ok" <=> status
        BY DEF Require
    <2> QED BY <2>1, <2>2, FoundByChecks
<1>r. rest \in Seq(Refusal) /\ (Passed(rest) <=> evidence)
    <2>1. CASE p.artifact_status.text = "SUCCESS"
        <3>1. rest = <<RequireText(p.snapshot_path), RequireSha256(p.content_hash)>>
            BY <2>1
        <3> HIDE DEF rest
        <3>2. rest \in Seq(Refusal)
            BY <3>1 DEF RequireText, RequireSha256, Require, Refusal
        <3>3. Passed(rest) <=> RequireText(p.snapshot_path) = "ok" /\ RequireSha256(p.content_hash) = "ok"
            BY <3>1 DEF Passed
        <3> QED BY <2>1, <3>2, <3>3, FoundByChecks DEF evidence
    <2>2. CASE p.artifact_status.text # "SUCCESS"
        <3>1. rest = << >>
            BY <2>2
        <3> HIDE DEF rest
        <3> QED BY <2>2, <3>1 DEF Passed, evidence
    <2> QED BY <2>1, <2>2
<1>4. RawFetchArtifact(p) = head \o SourceIdentity(p) \o tail \o rest
    BY DEF RawFetchArtifact, status
<1> HIDE DEF head, tail, rest
<1>5. /\ RawFetchArtifact(p) \in Seq(ResultsFor(p.listing_url))
      /\ (Passed(RawFetchArtifact(p)) <=> Found)
    <2> DEFINE results == ResultsFor(p.listing_url)
               front == head \o SourceIdentity(p) \o tail
    <2>1. /\ front \in Seq(results)
          /\ Passed(front) <=>
                 /\ Passed(head) /\ Passed(tail)
                 /\ IsText(p.source_name) /\ IsText(p.source_listing_key)
                 /\ p.listing_url.kind = "url"
        BY <1>1, ChecksAround
    <2>2. rest \in Seq(results)
        <3>1. Refusal \subseteq results
            BY DEF ResultsFor
        <3> HIDE DEF results
        <3> QED BY <1>r, <3>1
    <2> HIDE DEF results, front
    <2>3. /\ front \o rest \in Seq(results)
          /\ (Passed(front \o rest) <=> Passed(front) /\ Passed(rest))
        BY <2>1, <2>2, PassedConcat
    <2> QED BY <1>2, <1>3, <1>4, <1>r, <2>1, <2>3 DEF front, results
<1>6. DOMAIN p = Fields("RawFetchArtifact") /\ \A f \in DOMAIN p : p[f] \in JsonValue
    OBVIOUS
<1>7. {} = DefaultedField \cap DOMAIN p
    BY <1>6 DEF DefaultedField, ArrayField, Fields
<1>8. ASSUME Found PROVE FieldsAreDocumented(WithDefaults(p)) /\ RelationsAreDocumented("RawFetchArtifact", p)
    <2>1. \A f \in DOMAIN p : FieldIsAccepted(f, p[f])
        BY <1>6, <1>8 DEF Fields, FieldIsAccepted, TextField, CountField, TimeField,
                          ObjectField, ArrayField, Extensible
    <2> QED BY <1>7, <1>8, <2>1, AcceptedFields
            DEF RelationsAreDocumented, status, evidence, IsText
<1>9. ASSUME FieldsAreDocumented(WithDefaults(p)), RelationsAreDocumented("RawFetchArtifact", p) PROVE Found
    <2>1. OnlyUnknownMissing(p, {}) /\ \A f \in DOMAIN p : FieldIsAccepted(f, p[f])
        BY <1>7, <1>9, AcceptedFields
    <2>2. /\ p.fetched_at.kind = "utc" /\ p.contract_version.kind = "version"
          /\ IsText(p.artifact_id) /\ IsText(p.job_id) /\ IsText(p.crawl_run_id)
          /\ IsText(p.fetch_method) /\ IsText(p.acquisition_version) /\ IsText(p.source_name)
          /\ IsText(p.source_listing_key) /\ p.listing_url.kind = "url"
        BY <1>6, <2>1 DEF Fields, FieldIsAccepted, TextField, CountField, TimeField,
                          ObjectField, ArrayField, Extensible
    <2> QED BY <1>9, <2>1, <2>2 DEF RelationsAreDocumented, status, evidence, IsText
<1> QED BY <1>5, <1>8, <1>9

LEMMA ManifestChecks ==
    ASSUME NEW p \in [Fields("DatasetBatchManifest") -> JsonValue]
    PROVE  /\ DatasetBatchManifest(p) \in Seq(Refusal)
           /\ Passed(DatasetBatchManifest(p)) <=>
                 FieldsAreDocumented(WithDefaults(p)) /\ RelationsAreDocumented("DatasetBatchManifest", p)
<1> DEFINE counts == p.terminal_state_counts.entries
           terminal == \A e \in counts :
                          e.key \in TerminalState /\ RequireNonNegativeInt(e) = "ok"
           total == MapThenSumSet(LAMBDA e : e.n, counts) = p.record_count.n
           optional == {"acquisition_versions", "parser_versions", "known_limitations"}
           checks == <<ParseUtcTimestamp(p.created_at), ParseTuple(p.acquisition_versions),
                       ParseTuple(p.parser_versions), ParseTuple(p.known_limitations),
                       ParseFields(p, optional), RequireContractVersion(p.contract_version),
                       RequireText(p.batch_id), RequireText(p.batch_version),
                       RequireText(p.source_name), RequireText(p.snapshot_date),
                       RequireText(p.records_path), RequireNonNegativeInt(p.record_count),
                       RequireNonNegativeInt(p.proxy_bytes_used),
                       RequireSha256(p.records_checksum), RequireSha256(p.manifest_checksum),
                       RequireObject(p.terminal_state_counts), Require(terminal),
                       Require(total)>>
           Found == /\ p.created_at.kind = "utc"
                    /\ p.acquisition_versions.kind \in StringKind \cup {"list", "object", "missing"}
                    /\ p.parser_versions.kind \in StringKind \cup {"list", "object", "missing"}
                    /\ p.known_limitations.kind \in StringKind \cup {"list", "object", "missing"}
                    /\ OnlyUnknownMissing(p, optional) /\ p.contract_version.kind = "version"
                    /\ IsText(p.batch_id) /\ IsText(p.batch_version) /\ IsText(p.source_name)
                    /\ IsText(p.snapshot_date) /\ IsText(p.records_path)
                    /\ IsCount(p.record_count) /\ IsCount(p.proxy_bytes_used)
                    /\ p.records_checksum.kind = "sha256" /\ p.manifest_checksum.kind = "sha256"
                    /\ p.terminal_state_counts.kind = "object" /\ terminal /\ total
<1>1. DatasetBatchManifest(p) = checks
    BY Zenon DEF DatasetBatchManifest
<1> HIDE DEF terminal, total
<1>2. checks \in Seq(Refusal)
    BY DEF RequireText, RequireNonNegativeInt, ParseFields, ParseUtcTimestamp, ParseEnum,
           ParseTuple, RequireContractVersion, RequireObject, RequireSha256,
           RejectSensitiveKeys,
           Require, Refusal
<1>3. Passed(checks) <=> Found
    <2>1. Passed(checks) <=>
            /\ ParseUtcTimestamp(p.created_at) = "ok"
            /\ ParseTuple(p.acquisition_versions) = "ok" /\ ParseTuple(p.parser_versions) = "ok"
            /\ ParseTuple(p.known_limitations) = "ok"
            /\ ParseFields(p, optional) = "ok"
            /\ RequireContractVersion(p.contract_version) = "ok"
            /\ RequireText(p.batch_id) = "ok" /\ RequireText(p.batch_version) = "ok"
            /\ RequireText(p.source_name) = "ok" /\ RequireText(p.snapshot_date) = "ok"
            /\ RequireText(p.records_path) = "ok"
            /\ RequireNonNegativeInt(p.record_count) = "ok"
            /\ RequireNonNegativeInt(p.proxy_bytes_used) = "ok"
            /\ RequireSha256(p.records_checksum) = "ok"
            /\ RequireSha256(p.manifest_checksum) = "ok"
            /\ RequireObject(p.terminal_state_counts) = "ok" /\ Require(terminal) = "ok"
            /\ Require(total) = "ok"
        BY DEF Passed
    <2>2. ParseFields(p, optional) = "ok" <=> OnlyUnknownMissing(p, optional)
        BY FoundByConditions
    <2>3. /\ Require(terminal) = "ok" <=> terminal
          /\ Require(total) = "ok" <=> total
        BY DEF Require
    <2> QED BY <2>1, <2>2, <2>3, FoundByChecks
<1> HIDE DEF checks
<1>6. DOMAIN p = Fields("DatasetBatchManifest") /\ \A f \in DOMAIN p : p[f] \in JsonValue
    OBVIOUS
<1>7. optional = DefaultedField \cap DOMAIN p
    BY <1>6 DEF DefaultedField, ArrayField, Fields
<1>r. RelationsAreDocumented("DatasetBatchManifest", p) <=> terminal /\ total
    <2>1. terminal <=> \A e \in counts :
                          e.key \in TerminalState /\ e.kind = "number" /\ e.n >= 0
        BY FoundByChecks DEF terminal, IsCount
    <2>2. RelationsAreDocumented("DatasetBatchManifest", p) <=>
             /\ \A e \in counts : e.key \in TerminalState /\ e.kind = "number" /\ e.n >= 0
             /\ p.record_count.n = MapThenSumSet(LAMBDA e : e.n, counts)
        BY Zenon DEF RelationsAreDocumented
    <2> QED BY <2>1, <2>2 DEF total
<1>8. ASSUME Found
      PROVE  FieldsAreDocumented(WithDefaults(p)) /\ RelationsAreDocumented("DatasetBatchManifest", p)
    <2>1. \A f \in DOMAIN p : FieldIsAccepted(f, p[f])
        BY <1>6, <1>8 DEF Fields, FieldIsAccepted, TextField, CountField, TimeField,
                          ObjectField, ArrayField, Extensible
    <2> QED BY <1>7, <1>8, <1>r, <2>1, AcceptedFields
<1>9. ASSUME FieldsAreDocumented(WithDefaults(p)), RelationsAreDocumented("DatasetBatchManifest", p)
      PROVE  Found
    <2>1. OnlyUnknownMissing(p, optional) /\ \A f \in DOMAIN p : FieldIsAccepted(f, p[f])
        BY <1>7, <1>9, AcceptedFields
    <2>2. /\ p.created_at.kind = "utc" /\ p.contract_version.kind = "version"
          /\ IsText(p.batch_id) /\ IsText(p.batch_version) /\ IsText(p.source_name)
          /\ IsText(p.snapshot_date) /\ IsText(p.records_path) /\ IsCount(p.record_count)
          /\ IsCount(p.proxy_bytes_used) /\ p.records_checksum.kind = "sha256"
          /\ p.manifest_checksum.kind = "sha256" /\ p.terminal_state_counts.kind = "object"
          /\ p.acquisition_versions.kind \in StringKind \cup {"list", "object", "missing"}
          /\ p.parser_versions.kind \in StringKind \cup {"list", "object", "missing"}
          /\ p.known_limitations.kind \in StringKind \cup {"list", "object", "missing"}
        BY <1>6, <2>1 DEF Fields, FieldIsAccepted, TextField, CountField, TimeField,
                          ObjectField, ArrayField, Extensible
    <2> QED BY <1>9, <1>r, <2>1, <2>2
<1> QED BY <1>1, <1>2, <1>3, <1>8, <1>9

-----------------------------------------------------------------------------
(* The exit codes of the commands that only read.                          *)

(* From a list of checks to the exit of contract validate. *)
LEMMA ExitOfChecks ==
    ASSUME NEW checks, NEW url, NEW documented \in BOOLEAN,
           checks \in Seq(ResultsFor(url)) \/ checks \in Seq(Refusal),
           Passed(checks) <=> documented
    PROVE  /\ Outcome(checks) \in {"ok", "ContractValidationError", "ValueError"}
           /\ Outcome(checks) = "ok" <=> documented
           /\ Outcome(checks) = "ValueError" => url.kind = "unparsable"
<1>1. CASE checks \in Seq(Refusal)
    BY <1>1, OutcomeOfChecks DEF Refusal
<1>2. CASE checks \in Seq(ResultsFor(url))
    <2>1. /\ Outcome(checks) = "ok" <=> Passed(checks)
          /\ Outcome(checks) # "ok" => Outcome(checks) \in ResultsFor(url)
        BY <1>2, OutcomeOfChecks
    <2> QED BY <2>1 DEF ResultsFor, Refusal
<1> QED BY <1>1, <1>2

(* What every list of checks comes to. *)
IsAccepted(contract, p) ==
    FieldsAreDocumented(WithDefaults(p)) /\ RelationsAreDocumented(contract, p)

LEMMA OutcomesOfContracts ==
    ASSUME NEW contract \in ContractType, NEW p \in [Fields(contract) -> JsonValue],
           NEW outcome, outcome = ValidateContractPayload(contract, p)
    PROVE  /\ outcome \in {"ok", "ContractValidationError", "ValueError"}
           /\ outcome = "ok" <=> IsAccepted(contract, p)
           /\ outcome = "ValueError" => p.listing_url.kind = "unparsable"
<1> DEFINE accepted == IsAccepted(contract, p)
<1>0. accepted \in BOOLEAN
    BY DEF IsAccepted, FieldsAreDocumented
<1> HIDE DEF accepted
<1>1. CASE contract = "DetailFetchJob"
    <2>1. /\ DetailFetchJob(p) \in Seq(ResultsFor(p.listing_url))
          /\ Passed(DetailFetchJob(p)) <=> accepted
        BY <1>1, JobChecks DEF accepted, IsAccepted
    <2>2. outcome = Outcome(DetailFetchJob(p))
        BY <1>1 DEF ValidateContractPayload
    <2> QED BY <1>0, <2>1, <2>2, ExitOfChecks DEF accepted
<1>2. CASE contract = "DiscoveryObservation"
    <2>1. /\ DiscoveryObservation(p) \in Seq(ResultsFor(p.listing_url))
          /\ Passed(DiscoveryObservation(p)) <=> accepted
        BY <1>2, ObservationChecks DEF accepted, IsAccepted
    <2>2. outcome = Outcome(DiscoveryObservation(p))
        BY <1>2 DEF ValidateContractPayload
    <2> QED BY <1>0, <2>1, <2>2, ExitOfChecks DEF accepted
<1>3. CASE contract = "RawFetchArtifact"
    <2>1. /\ RawFetchArtifact(p) \in Seq(ResultsFor(p.listing_url))
          /\ Passed(RawFetchArtifact(p)) <=> accepted
        BY <1>3, ArtifactChecks DEF accepted, IsAccepted
    <2>2. outcome = Outcome(RawFetchArtifact(p))
        BY <1>3 DEF ValidateContractPayload
    <2> QED BY <1>0, <2>1, <2>2, ExitOfChecks DEF accepted
<1>4. CASE contract = "FetchTelemetry"
    <2>1. /\ FetchTelemetry(p) \in Seq(Refusal)
          /\ Passed(FetchTelemetry(p)) <=> accepted
        BY <1>4, TelemetryChecks DEF accepted, IsAccepted
    <2>2. outcome = Outcome(FetchTelemetry(p))
        BY <1>4 DEF ValidateContractPayload
    <2> QED BY <1>0, <2>1, <2>2, ExitOfChecks DEF accepted
<1>5. CASE contract = "ParsedListingCandidate"
    <2>1. /\ ParsedListingCandidate(p) \in Seq(ResultsFor(p.listing_url))
          /\ Passed(ParsedListingCandidate(p)) <=> accepted
        BY <1>5, CandidateChecks DEF accepted, IsAccepted
    <2>2. outcome = Outcome(ParsedListingCandidate(p))
        BY <1>5 DEF ValidateContractPayload
    <2> QED BY <1>0, <2>1, <2>2, ExitOfChecks DEF accepted
<1>6. CASE contract = "DatasetBatchManifest"
    <2>1. /\ DatasetBatchManifest(p) \in Seq(Refusal)
          /\ Passed(DatasetBatchManifest(p)) <=> accepted
        BY <1>6, ManifestChecks DEF accepted, IsAccepted
    <2>2. outcome = Outcome(DatasetBatchManifest(p))
        BY <1>6 DEF ValidateContractPayload
    <2> QED BY <1>0, <2>1, <2>2, ExitOfChecks DEF accepted
<1> QED BY <1>1, <1>2, <1>3, <1>4, <1>5, <1>6 DEF ContractType

(* The relations are between fields that have no default.                  *)
LEMMA DefaultsKeepRelations ==
    ASSUME NEW contract \in ContractType, NEW p \in [Fields(contract) -> JsonValue]
    PROVE  /\ IsAccepted(contract, p) <=> IsDocumented(contract, WithDefaults(p))
           /\ IsDocumented(contract, p) => IsAccepted(contract, p)
<1> DEFINE q == WithDefaults(p)
<1>1. \A f \in Fields(contract) \ DefaultedField : q[f] = p[f]
    BY DEF WithDefaults, DefaultedField
<1>2. RelationsAreDocumented(contract, q) <=> RelationsAreDocumented(contract, p)
    <2>1. CASE contract = "DetailFetchJob"
        <3>1. /\ q.reason_code = p.reason_code /\ q.attempt_number = p.attempt_number
              /\ q.max_attempts = p.max_attempts
            BY <1>1, <2>1 DEF Fields, DefaultedField, ArrayField
        <3> HIDE DEF q
        <3> QED BY <2>1, <3>1 DEF RelationsAreDocumented
    <2>2. CASE contract = "DiscoveryObservation"
        BY <2>2 DEF RelationsAreDocumented
    <2>3. CASE contract = "RawFetchArtifact"
        <3>1. /\ q.artifact_status = p.artifact_status /\ q.content_hash = p.content_hash
              /\ q.snapshot_path = p.snapshot_path /\ q.response_status = p.response_status
            BY <1>1, <2>3 DEF Fields, DefaultedField, ArrayField
        <3> HIDE DEF q
        <3> QED BY <2>3, <3>1 DEF RelationsAreDocumented
    <2>4. CASE contract = "FetchTelemetry"
        <3>1. /\ q.outcome = p.outcome /\ q.attempt_number = p.attempt_number
              /\ q.started_at = p.started_at /\ q.finished_at = p.finished_at
              /\ q.error_class = p.error_class
            BY <1>1, <2>4 DEF Fields, DefaultedField, ArrayField
        <3> HIDE DEF q
        <3> QED BY <2>4, <3>1 DEF RelationsAreDocumented
    <2>5. CASE contract = "ParsedListingCandidate"
        <3>1. q.parse_status = p.parse_status /\ q.field_confidence = p.field_confidence
            BY <1>1, <2>5 DEF Fields, DefaultedField, ArrayField
        <3> HIDE DEF q
        <3> QED BY <2>5, <3>1 DEF RelationsAreDocumented
    <2>6. CASE contract = "DatasetBatchManifest"
        <3>1. /\ q.terminal_state_counts = p.terminal_state_counts
              /\ q.record_count = p.record_count
            BY <1>1, <2>6 DEF Fields, DefaultedField, ArrayField
        <3> HIDE DEF q
        <3> QED BY <2>6, <3>1, Zenon DEF RelationsAreDocumented
    <2> QED BY <2>1, <2>2, <2>3, <2>4, <2>5, <2>6 DEF ContractType
(* A documented payload needs no default. *)
<1>3. ASSUME FieldsAreDocumented(p) PROVE q = p
    <2>1. \A f \in DOMAIN p : (f = "unknown" <=> p[f].kind = "missing")
                           /\ (f \in ArrayField => p[f].kind = "list")
        BY <1>3 DEF FieldsAreDocumented
    <2>2. \A f \in DOMAIN p : q[f] = p[f]
        BY <2>1 DEF WithDefaults, ArrayField, StringKind
    <2>3. q \in [DOMAIN p -> {q[f] : f \in DOMAIN p}]
        BY DEF WithDefaults
    <2> QED BY <2>2 DEF WithDefaults
<1> HIDE DEF q
<1> QED BY <1>2, <1>3 DEF IsAccepted, IsDocumented, q

(* Sources with names of their own are as many as their names. *)
LEMMA OneNameEach ==
    ASSUME NEW sources \in Seq([SourceField -> JsonValue]), UniqueNames(sources)
    PROVE  Cardinality({sources[i].name.text : i \in DOMAIN sources}) = Len(sources)
<1> DEFINE names == {sources[i].name.text : i \in DOMAIN sources}
           name == [i \in DOMAIN sources |-> sources[i].name.text]
<1>1. DOMAIN sources = 1 .. Len(sources) /\ Len(sources) \in Nat
    OBVIOUS
<1>2. name \in Bijection(1 .. Len(sources), names)
    <2>1. name \in [1 .. Len(sources) -> names]
        BY <1>1
    <2>2. \A i, j \in 1 .. Len(sources) : name[i] = name[j] => i = j
        BY <1>1 DEF UniqueNames
    <2>3. \A x \in names : \E i \in 1 .. Len(sources) : name[i] = x
        BY <1>1
    <2> HIDE DEF name, names
    <2> QED BY <2>1, <2>2, <2>3 DEF Bijection, Injection, Surjection, IsInjective
<1>3. IsFiniteSet(1 .. Len(sources)) /\ Cardinality(1 .. Len(sources)) = Len(sources)
    BY <1>1, FS_Interval
<1>4. ExistsBijection(1 .. Len(sources), names)
    BY <1>2 DEF ExistsBijection
<1> HIDE DEF names, name
<1>5. Cardinality(names) = Cardinality(1 .. Len(sources))
    BY <1>3, <1>4, FS_Bijection
<1> QED BY <1>3, <1>5 DEF names

(* What is answered, and to what. *)
AnswerInv ==
    \/ answer.document = "object" /\ answer.request \in Payloads
       /\ answer.exit = Validate("object", answer.request)
    \/ answer.document = "registry" /\ answer.registry \in Registries
       /\ answer.exit = IF LoadSourceRegistry(answer.registry) THEN Success ELSE Refused
    \/ answer.document \notin {"object", "registry"}
       /\ answer.exit \in {Success, Traceback, Refused}

LEMMA AnswerKeeps == AnswerInv /\ [CommandNext]_commandVars => AnswerInv'
<1> SUFFICES ASSUME AnswerInv, [CommandNext]_commandVars PROVE AnswerInv'
    OBVIOUS
<1>1. CASE answer' = answer
    BY <1>1 DEF AnswerInv
<1>2. CASE answer' = NoAnswer
    BY <1>2 DEF AnswerInv, NoAnswer, Answer, Success
<1>3. CASE ContractValidate
    <2>1. CASE \E request \in Payloads :
                   answer' = [Answer("object", Validate("object", request)) EXCEPT !.request = request]
        <3>1. PICK request \in Payloads :
                   answer' = [Answer("object", Validate("object", request)) EXCEPT !.request = request]
            BY <2>1
        <3>2. /\ answer'.document = "object" /\ answer'.request = request
              /\ answer'.exit = Validate("object", request)
            BY <3>1, Zenon DEF Answer
        <3> QED BY <3>2 DEF AnswerInv
    <2>2. CASE \E document \in {"none", "unreadable", "not JSON", "no object", "not UTF-8"} :
                   answer' = Answer(document, Validate(document, NoPayload))
        <3>1. PICK document \in {"none", "unreadable", "not JSON", "no object", "not UTF-8"} :
                   answer' = Answer(document, Validate(document, NoPayload))
            BY <2>2
        <3>2. answer'.document = document /\ answer'.exit = Validate(document, NoPayload)
            BY <3>1, Zenon DEF Answer
        <3>3. Validate(document, NoPayload) \in {Success, Traceback, Refused}
            BY DEF Validate
        <3> QED BY <3>2, <3>3 DEF AnswerInv
    <2> QED BY <1>3, <2>1, <2>2 DEF ContractValidate
<1>4. CASE SourceList
    <2>1. CASE \E r \in Registries :
                   answer' = [Answer("registry", IF LoadSourceRegistry(r) THEN Success ELSE Refused)
                              EXCEPT !.registry = r]
        <3>1. PICK r \in Registries :
                   answer' = [Answer("registry", IF LoadSourceRegistry(r) THEN Success ELSE Refused)
                              EXCEPT !.registry = r]
            BY <2>1
        <3>2. /\ answer'.document = "registry" /\ answer'.registry = r
              /\ answer'.exit = IF LoadSourceRegistry(r) THEN Success ELSE Refused
            BY <3>1, Zenon DEF Answer
        <3> QED BY <3>2 DEF AnswerInv
    <2>2. CASE \E exit \in {Refused, Traceback} : answer' = Answer("no registry", exit)
        <3>1. PICK exit \in {Refused, Traceback} : answer' = Answer("no registry", exit)
            BY <2>2
        <3>2. answer'.document = "no registry" /\ answer'.exit = exit
            BY <3>1, Zenon DEF Answer
        <3> QED BY <3>2 DEF AnswerInv
    <2> QED BY <1>4, <2>1, <2>2 DEF SourceList
<1>5. CASE Health
    BY <1>5 DEF Health, AnswerInv, Answer
<1>6. CASE \E p \in Process : CommandStep(p)
    BY <1>1, <1>2, <1>6 DEF CommandStep, OpenDatabase, Migrate, WorkerHealth, Status, FixtureCrawl,
       CrawlWrite, CrawlReport, RecoverAbandoned, BackupCommand, Restore, BackupStep,
       RunSynthetic, SetUpLogging, CutShort, StartCommand
<1>7. CASE UNCHANGED commandVars
    BY <1>1, <1>7 DEF commandVars
<1> QED BY <1>3, <1>4, <1>5, <1>6, <1>7 DEF CommandNext

LEMMA AnswersStay == CommandSpec => []AnswerInv
<1>1. CommandInit => AnswerInv
    BY DEF CommandInit, AnswerInv, NoAnswer, Answer, Success
<1> QED BY <1>1, AnswerKeeps, PTL DEF CommandSpec

LEMMA ValidateFollows ==
    ASSUME NEW request \in Payloads
    PROVE  /\ Validate("object", request) \in {Success, Traceback, Refused}
           /\ Validate("object", request) = Success
                 <=> IsDocumented(request[1], WithDefaults(request[2]))
           /\ IsDocumented(request[1], request[2]) => Validate("object", request) = Success
           /\ Validate("object", request) = Traceback => request[2].listing_url.kind = "unparsable"
<1>0. PICK contract \in ContractType : contract = request[1]
    BY CommandAssumption
<1>1. PICK p \in [Fields(contract) -> JsonValue] : p = request[2]
    BY <1>0, CommandAssumption
<1>2. PICK outcome : outcome = ValidateContractPayload(contract, p)
    OBVIOUS
<1>3. /\ outcome \in {"ok", "ContractValidationError", "ValueError"}
      /\ outcome = "ok" <=> IsDocumented(contract, WithDefaults(p))
      /\ IsDocumented(contract, p) => outcome = "ok"
      /\ outcome = "ValueError" => p.listing_url.kind = "unparsable"
    BY <1>2, OutcomesOfContracts, DefaultsKeepRelations
<1>4. Validate("object", request) = IF outcome = "ok" THEN Success
                                    ELSE IF outcome = "ContractValidationError" THEN Refused
                                    ELSE Traceback
    BY <1>0, <1>1, <1>2, <1>3 DEF Validate
<1> QED BY <1>0, <1>1, <1>3, <1>4 DEF Success, Refused, Traceback

(* Of all payloads that have the fields of a contract, whatever their      *)
(* values, contract validate accepts the documented ones and, of the       *)
(* others, exactly those that the defaults of models.py make documented;   *)
(* every registry that source list accepts has sources with names of their *)
(* own and notes where they are asked for.                                 *)
THEOREM DocumentsAreFollowedUpToDefaults == CommandSpec => []DocumentedUpToDefaults
<1>1. AnswerInv => DocumentedUpToDefaults
    <2> SUFFICES ASSUME AnswerInv PROVE DocumentedUpToDefaults
        OBVIOUS
    <2>1. ASSUME answer.document = "object"
          PROVE  /\ IsDocumented(answer.request[1], answer.request[2]) => answer.exit = Success
                 /\ answer.exit = Success
                       <=> IsDocumented(answer.request[1], WithDefaults(answer.request[2]))
                 /\ answer.exit = Traceback => answer.request[2].listing_url.kind = "unparsable"
        BY <2>1, ValidateFollows DEF AnswerInv
    <2>2. ASSUME answer.document = "registry", answer.exit = Success
          PROVE  /\ Cardinality({answer.registry.sources[i].name.text : i \in DOMAIN answer.registry.sources})
                       = Len(answer.registry.sources)
                 /\ \A i \in DOMAIN answer.registry.sources :
                       answer.registry.sources[i].identity_strategy.text = "deterministic_url_fallback"
                       => answer.registry.sources[i].identity_notes.kind \in StringKind \ {"empty"}
        <3>1. answer.registry \in Registries /\ LoadSourceRegistry(answer.registry)
            BY <2>2 DEF AnswerInv, Success, Refused
        <3>2. PICK sources \in Seq([SourceField -> JsonValue]) : sources = answer.registry.sources
            BY <3>1, CommandAssumption
        <3>3. UniqueNames(sources) /\ \A i \in DOMAIN sources : ReadSourceDefinition(sources[i])
            BY <3>1, <3>2 DEF LoadSourceRegistry
        <3>4. Cardinality({sources[i].name.text : i \in DOMAIN sources}) = Len(sources)
            BY <3>3, OneNameEach
        <3>5. \A i \in DOMAIN sources :
                  sources[i].identity_strategy.text = "deterministic_url_fallback"
                  => sources[i].identity_notes.kind \in StringKind \ {"empty"}
            BY <3>3 DEF ReadSourceDefinition, SourceDefinition
        <3> QED BY <3>2, <3>4, <3>5
    <2> QED BY <2>1, <2>2 DEF DocumentedUpToDefaults
<1> QED BY <1>1, AnswersStay, PTL

-----------------------------------------------------------------------------
(* The types, and that a process does one thing at a time.                 *)

OneThing(p) ==
    \/ call[p] = Null /\ opening[p] = Null
    \/ call[p] = Null /\ crawl[p] = Null
    \/ opening[p] = Null /\ crawl[p] = Null

CrawlInv ==
    /\ schema \in [version : 0 .. Migrations, owned : BOOLEAN]
    /\ opening \in [Process -> OpeningCommand \cup {Null}]
    /\ crawl \in [Process -> (0 .. 7) \cup {Null}]
    /\ \A p \in Process : OneThing(p)
    /\ started \in 0 .. MaxCommands

LEMMA SevenRows == Len(CrawlRows) = 7
<1> QED BY DEF CrawlRows

(* A call of Backup that goes on is the process's only business. *)
LEMMA OthersKeepTheirCalls ==
    ASSUME NEW p \in Process, call \in [Process -> Call \cup {Null}],
           opening \in [Process -> OpeningCommand \cup {Null}],
           BackupCommand(p) \/ Restore(p) \/ BackupStep(p)
    PROVE  /\ \A q \in Process : q # p => call'[q] = call[q] /\ opening'[q] = opening[q]
           /\ UNCHANGED <<crawl, schema>>
           /\ opening' \in [Process -> OpeningCommand \cup {Null}]
           /\ \/ opening[p] = "backup" /\ opening'[p] = Null
              \/ opening'[p] = opening[p] /\ (Idle(p) \/ call[p] # Null)
<1>1. CASE BackupCommand(p)
    <2>1. PICK d \in Path : BeginBackup(p, d)
        BY <1>1 DEF BackupCommand
    <2>2. \A q \in Process : q # p => call'[q] = call[q]
        BY <2>1 DEF BeginBackup, Begin
    <2>3. /\ UNCHANGED <<crawl, schema>> /\ opening[p] = "backup"
          /\ opening' = [opening EXCEPT ![p] = Null]
        BY <1>1 DEF BackupCommand, Opened
    <2> QED BY <2>2, <2>3
<1>2. CASE Restore(p)
    BY <1>2 DEF Restore, BeginRestore, Begin, StartCommand, openVars
<1>3. CASE BackupStep(p)
    BY <1>3 DEF BackupStep, Proceed, OpenSource, OpenTarget, Copy, Return, At, openVars
<1> QED BY <1>1, <1>2, <1>3

LEMMA CrawlKeeps == BackupTypeOK /\ CrawlInv /\ [CommandNext]_commandVars => CrawlInv'
<1> SUFFICES ASSUME BackupTypeOK, CrawlInv, [CommandNext]_commandVars PROVE CrawlInv'
    OBVIOUS
<1>0. /\ call \in [Process -> Call \cup {Null}]
      /\ schema \in [version : 0 .. Migrations, owned : BOOLEAN]
      /\ opening \in [Process -> OpeningCommand \cup {Null}]
      /\ crawl \in [Process -> (0 .. 7) \cup {Null}]
      /\ \A p \in Process : OneThing(p)
      /\ started \in 0 .. MaxCommands /\ MaxCommands \in Nat /\ Migrations \in Nat
      /\ Null \notin Nat /\ Null \notin OpeningCommand
    BY CommandAssumption, BackupAssumption DEF BackupTypeOK, CrawlInv
<1>1. ASSUME NEW p \in Process, StartCommand(p)
      PROVE  started' \in 0 .. MaxCommands /\ call[p] = Null /\ opening[p] = Null /\ crawl[p] = Null
    BY <1>0, <1>1 DEF StartCommand, Idle
<1>2. ASSUME NEW p \in Process, OpenDatabase(p) PROVE CrawlInv'
    <2>1. PICK command \in OpeningCommand : opening' = [opening EXCEPT ![p] = command]
        BY <1>2 DEF OpenDatabase
    <2>2. call' = call /\ crawl' = crawl /\ schema' = schema /\ StartCommand(p)
        BY <1>2 DEF OpenDatabase, backupVars
    <2> QED BY <1>0, <1>1, <2>1, <2>2 DEF CrawlInv, OneThing
<1>3. ASSUME NEW p \in Process, Migrate(p) PROVE CrawlInv'
    <2>1. call' = call /\ crawl' = crawl /\ opening' = opening /\ started' = started
        BY <1>3 DEF Migrate, Commit
    <2>2. schema' \in [version : 0 .. Migrations, owned : BOOLEAN]
        <3>1. CASE schema.version < Migrations /\ schema' = [schema EXCEPT !.version = @ + 1]
            <4>1. schema.version + 1 \in 0 .. Migrations
                BY <1>0, <3>1
            <4> QED BY <1>0, <3>1, <4>1
        <3>2. CASE schema' = [schema EXCEPT !.owned = TRUE]
            BY <1>0, <3>2
        <3> QED BY <1>3, <3>1, <3>2 DEF Migrate
    <2> QED BY <1>0, <2>1, <2>2 DEF CrawlInv, OneThing
<1>4. ASSUME NEW p \in Process, WorkerHealth(p) \/ Status(p) \/ RecoverAbandoned(p) PROVE CrawlInv'
    <2>1. /\ call' = call /\ crawl' = crawl /\ schema' = schema /\ started' = started
          /\ opening' = [opening EXCEPT ![p] = Null]
        BY <1>4 DEF WorkerHealth, Status, RecoverAbandoned, Opened, Commit, backupVars
    <2> QED BY <1>0, <2>1 DEF CrawlInv, OneThing
<1>5. ASSUME NEW p \in Process, FixtureCrawl(p) PROVE CrawlInv'
    <2>1. /\ crawl' = [crawl EXCEPT ![p] = 0] /\ opening' = [opening EXCEPT ![p] = Null]
          /\ call' = call /\ schema' = schema /\ started' = started
          /\ opening[p] = "fixture-crawl"
        BY <1>5 DEF FixtureCrawl, Opened, backupVars
    <2>2. call[p] = Null
        <3>1. opening[p] # Null
            BY <1>0, <2>1 DEF OpeningCommand
        <3> QED BY <1>0, <3>1 DEF OneThing
    <2> QED BY <1>0, <2>1, <2>2 DEF CrawlInv, OneThing
<1>6. ASSUME NEW p \in Process, CrawlWrite(p) PROVE CrawlInv'
    <2>1. /\ crawl[p] \in 0 .. 6 /\ crawl' = [crawl EXCEPT ![p] = @ + 1]
          /\ call' = call /\ started' = started /\ opening' = opening /\ schema' = schema
        BY <1>0, <1>6, SevenRows DEF CrawlWrite, Commit, openVars
    <2>2. crawl[p] + 1 \in 0 .. 7 /\ crawl[p] # Null
        BY <1>0, <2>1
    <2> QED BY <1>0, <2>1, <2>2 DEF CrawlInv, OneThing
<1>7. ASSUME NEW p \in Process, CrawlReport(p) PROVE CrawlInv'
    <2>1. /\ crawl' = [crawl EXCEPT ![p] = Null] /\ call' = call /\ started' = started
          /\ opening' = opening /\ schema' = schema
        BY <1>7 DEF CrawlReport, backupVars, openVars
    <2> QED BY <1>0, <2>1 DEF CrawlInv, OneThing
<1>8. ASSUME NEW p \in Process, RunSynthetic(p) \/ SetUpLogging(p) PROVE CrawlInv'
    <2>1. UNCHANGED <<crawl, call, opening, schema>> /\ StartCommand(p)
        BY <1>8 DEF RunSynthetic, SetUpLogging, backupVars, openVars
    <2> QED BY <1>0, <1>1, <2>1 DEF CrawlInv, OneThing
<1>9. ASSUME NEW p \in Process, BackupCommand(p) \/ Restore(p) \/ BackupStep(p) PROVE CrawlInv'
    <2>1. /\ \A q \in Process : q # p => call'[q] = call[q] /\ opening'[q] = opening[q]
          /\ UNCHANGED <<crawl, schema>>
          /\ opening' \in [Process -> OpeningCommand \cup {Null}]
          /\ \/ opening[p] = "backup" /\ opening'[p] = Null
             \/ opening'[p] = opening[p] /\ (Idle(p) \/ call[p] # Null)
        BY <1>0, <1>9, OthersKeepTheirCalls
    <2>2. started' \in 0 .. MaxCommands
        BY <1>0, <1>1, <1>9 DEF BackupCommand, Restore, BackupStep
    <2>3. "backup" # Null
        BY <1>0 DEF OpeningCommand
    <2>4. opening'[p] = Null /\ crawl[p] = Null
        BY <1>0, <2>1, <2>3 DEF OneThing, Idle
    <2>5. \A q \in Process : OneThing(q)'
        BY <1>0, <2>1, <2>4 DEF OneThing
    <2> QED BY <1>0, <2>1, <2>2, <2>5 DEF CrawlInv
<1>10. ASSUME NEW p \in Process, CutShort(p) PROVE CrawlInv'
    <2>1. /\ crawl' = [crawl EXCEPT ![p] = Null] /\ call' = [call EXCEPT ![p] = Null]
          /\ opening' = [opening EXCEPT ![p] = Null]
          /\ started' = started /\ schema' = schema
        BY <1>10 DEF CutShort
    <2> QED BY <1>0, <2>1 DEF CrawlInv, OneThing
<1>11. CASE ContractValidate \/ SourceList \/ Health \/ UNCHANGED commandVars
    <2>1. UNCHANGED <<call, crawl, started, opening, schema>>
        BY <1>11 DEF ContractValidate, SourceList, Health, commandVars, backupVars, openVars
    <2> QED BY <2>1 DEF CrawlInv, OneThing
<1> QED BY <1>2, <1>3, <1>4, <1>5, <1>6, <1>7, <1>8, <1>9, <1>10, <1>11 DEF CommandNext, CommandStep

(* The backups, the handlers, the openings, the crawls and the answers     *)
(* keep their types, and no process is in two of opening the database, a   *)
(* crawl and a backup at the same time.                                    *)
THEOREM CommandTypesHold == CommandSpec => []CommandsTypeOK
<1>1. CommandInit => CrawlInv
    BY CommandAssumption DEF CommandInit, BackupInit, CrawlInv, OneThing
<1>2. BackupTypeOK /\ LoggingInv /\ CrawlInv /\ AnswerInv => CommandsTypeOK
    <2> SUFFICES ASSUME BackupTypeOK, LoggingInv, CrawlInv, AnswerInv PROVE CommandsTypeOK
        OBVIOUS
    <2>1. answer.exit \in {Success, Traceback, Refused}
        BY ValidateFollows DEF AnswerInv
    <2> QED BY <2>1, SevenRows DEF CommandsTypeOK, LoggingInv, CrawlInv, OneThing
<1>3. CommandSpec => []BackupTypeOK
    BY CommandsUseBackup, BackupTypes, PTL DEF UsesBackup
<1>4. CommandSpec => []CrawlInv
    BY <1>1, <1>3, CrawlKeeps, PTL DEF CommandSpec
<1> QED BY <1>2, <1>3, <1>4, AnswersStay, LoggingStays, PTL

=============================================================================
