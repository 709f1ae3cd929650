------------------------------- MODULE Logging -------------------------------
(***************************************************************************)
(* configure_logging (scraper_logging/setup.py): the handlers of the root  *)
(* logger of each process.  The loop that removes the existing handlers    *)
(* iterates over the list it removes them from, so every second one stays. *)
(*                                                                         *)
(* A handler is known by the call that made it, 0 when it was there before *)
(* the first one; only the handlers of configure_logging redact.           *)
(*                                                                         *)
(* An operator Bug_... is a plausible wrong version of the definition that *)
(* follows it; only the mutation runs use it.                              *)
(***************************************************************************)
EXTENDS Integers, Sequences

CONSTANTS
    Interpreter,    \* Python processes, each with its own root logger
    Foreign,        \* [Interpreter -> Nat]: handlers attached by others
    MaxConfigured   \* bound on the calls of a process

ASSUME LoggingAssumption ==
    /\ Foreign \in [Interpreter -> 0 .. 3]
    /\ MaxConfigured \in Nat

VARIABLES
    handlers,       \* [Interpreter -> sequence of handlers]: root.handlers
    configured      \* [Interpreter -> calls so far]: ghost

loggingVars == <<handlers, configured>>

Handler == [made : Nat, file : BOOLEAN]

ForeignHandlers(p) == [i \in 1 .. Foreign[p] |-> [made |-> 0, file |-> FALSE]]

LoggingInit ==
    /\ handlers = [p \in Interpreter |-> ForeignHandlers(p)]
    /\ configured = [p \in Interpreter |-> 0]

(* removeHandler never finds what it is given. *)
Bug_Survivors(h) == h

(* What is left by: for existing_handler in root.handlers: removeHandler.  *)
Survivors(h) == [i \in 1 .. Len(h) \div 2 |-> h[2 * i]]

(* toFile: there is a log_path.  opened: its directory and file could be   *)
(* made; otherwise the exception leaves the new stream handler attached.   *)
ConfigureLogging(p, toFile, opened) ==
    LET call == configured[p] + 1
        stream == Append(Survivors(handlers[p]), [made |-> call, file |-> FALSE])
    IN  /\ configured[p] < MaxConfigured
        /\ configured' = [configured EXCEPT ![p] = call]
        /\ handlers' = [handlers EXCEPT ![p] =
               IF toFile /\ opened
               THEN Append(stream, [made |-> call, file |-> TRUE])
               ELSE stream]

LoggingNext ==
    \E p \in Interpreter, toFile, opened \in BOOLEAN : ConfigureLogging(p, toFile, opened)

LoggingSpec == LoggingInit /\ [][LoggingNext]_loggingVars

-----------------------------------------------------------------------------
(* The variables keep their types. *)
LoggingTypeOK ==
    /\ handlers \in [Interpreter -> Seq(Handler)]
    /\ configured \in [Interpreter -> 0 .. MaxConfigured]

(* However often a process sets its logging up, and whether or not the log *)
(* file could be opened: there are never more than three handlers, one of  *)
(* them at most is left over, and that one from the call before.  So from  *)
(* the second call on every handler redacts, though line 52 skips every    *)
(* second handler.                                                         *)
OneOldHandlerAtMost ==
    \A p \in Interpreter : LET h == handlers[p]  n == configured[p] IN
        n >= 1 =>
            /\ Len(h) \in 1 .. 3
            /\ \A i \in 2 .. Len(h) : h[i].made = n
            /\ h[1].made \in {n - 1, n}
=============================================================================
