----------------------------- MODULE Timestamps -----------------------------
(***************************************************************************)
(* Instants as the runtime database stores and compares them.              *)
(*                                                                         *)
(* database/repositories.py writes every time with datetime.isoformat(),   *)
(* which leaves the fraction out when it is zero, and SQLite compares the  *)
(* resulting TEXT byte by byte.  "." sorts before "Z", so inside one       *)
(* second the whole second "...:11Z" sorts AFTER "...:11.500000Z".  The    *)
(* order of the stored text and the order of time are therefore two        *)
(* different relations, and both are defined here.                         *)
(***************************************************************************)
EXTENDS Integers

CONSTANT LastMicro      \* the largest fraction of a second (999999 in the code)

ASSUME LastMicroAssumption == LastMicro \in Nat

Instant == [sec : Nat, us : 0 .. LastMicro]

(* The order of time itself (datetime comparison). *)
Earlier(a, b) == a.sec < b.sec \/ (a.sec = b.sec /\ a.us < b.us)
NotLater(a, b) == a = b \/ Earlier(a, b)

(* What follows the seconds in the text: "Z" for a zero fraction, else     *)
(* "." and six digits.                                                     *)
FractionTextLess(x, y) == x # 0 /\ (y = 0 \/ x < y)

(* `a < b` and `a <= b` of the SQL statements, on the stored text. *)
TextLess(a, b) ==
    a.sec < b.sec \/ (a.sec = b.sec /\ FractionTextLess(a.us, b.us))
TextLeq(a, b) == a = b \/ TextLess(a, b)

(* current + timedelta(seconds=n): the fraction is kept. *)
PlusSeconds(a, n) == [sec |-> a.sec + n, us |-> a.us]

=============================================================================
