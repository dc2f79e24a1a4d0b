------------------------------ MODULE Options -------------------------------
(* RecordCategory (record.hpp) and the options read into it: Argument,       *)
(* apply_options and parse_argv (argparse.hpp, argparse.cpp). A text is what *)
(* the conversions make of it: the number it spells, whether it says yes,    *)
(* its length. unsigned long and int have LongBits and IntBits bits.         *)
EXTENDS Integers, Sequences, FiniteSets

CONSTANTS
    Names, Hash,            \* Hash[n]: the key of the record of that name
    Args,                   \* Args[n]: type, secret, default, min, max
    Texts, Garbage,         \* [num, yes, len]; num is Garbage if it spells no number
    LongBits, IntBits,
    MaxArgs, Calls          \* bounds: options per call, calls

ArgTypes == {"size", "int", "float", "bool", "string", "list"}

(* The arguments are those the constructors of Argument make.                *)
ArgsApart == \A n \in Names : Args[n].type \in ArgTypes /\ Args[n].secret \in BOOLEAN

VARIABLE c

NoRecord == [type |-> "none", secret |-> FALSE, val |-> 0]

(* call: the function that runs; args: how many options it may still be      *)
(* given, each of which is chosen when it is read; check: the arguments it   *)
(* has still to validate; given: the last text applied under a key.          *)
Init == c = [records |-> [k \in {Hash[n] : n \in Names} |-> NoRecord], call |-> "none",
             args |-> 0, check |-> {}, status |-> "idle", calls |-> 0,
             given |-> [k \in {Hash[n] : n \in Names} |-> {}]]

----------------------------------------------------------------------------
(* RecordImmediate, RecordSecret and their kinds for vectors: commit.        *)
Commit(r, v) == [r EXCEPT !.val = IF r.type = "list" THEN Append(@, v) ELSE v]

(* What a visitor is shown.                                                  *)
Visible(r) == r.type # "none" /\ ~r.secret

(* A slip: a record that exists is made anew, with its default.              *)
GetAnew(rs, k, type, secret, default) ==
    IF rs[k].type = "none" \/ (rs[k].type = type /\ rs[k].secret = secret)
    THEN {[rs EXCEPT ![k] = [type |-> type, secret |-> secret, val |-> default]]}
    ELSE {}

(* RecordCategory::get, create: the records afterwards; none when the key    *)
(* has a record of another type, which throws.                               *)
Get(rs, k, type, secret, default) ==
    CASE rs[k].type = "none" -> {[rs EXCEPT ![k] = [type |-> type, secret |-> secret, val |-> default]]}
      [] rs[k].type = type /\ rs[k].secret = secret -> {rs}
      [] OTHER -> {}

(* std::stoul, and what is left of its result in an int.                     *)
ULong(num) == IF num # Garbage /\ num > -2^LongBits /\ num < 2^LongBits
              THEN {num % 2^LongBits} ELSE {}
Narrow(v) == LET m == v % 2^IntBits IN IF m < 2^(IntBits - 1) THEN m ELSE m - 2^IntBits

(* The value of a text; none when the conversion throws.                     *)
Convert(type, text) ==
    CASE type = "size" -> ULong(text.num)
      [] type = "int" -> {Narrow(v) : v \in ULong(text.num)}
      [] type = "float" -> {text.num} \ {Garbage}
      [] type = "bool" -> {text.yes}
      [] OTHER -> {text.len}

(* Argument::apply: the conversion comes first, then the record.             *)
Apply(rs, n, text) ==
    LET arg == Args[n] k == Hash[n] IN
    UNION {{[r EXCEPT ![k] = Commit(@, v)] : r \in Get(rs, k, arg.type, arg.secret, arg.default)}
              : v \in Convert(arg.type, text)}

(* Argument::_check_range, and the bounds of a string.                       *)
CheckRange(arg, v) == v >= arg.min /\ v <= arg.max

(* Argument::validate: a record that is missing is made of the default; a    *)
(* list is asked for as a string, an empty one. None when it throws.         *)
AskedType(arg) == IF arg.type = "list" THEN "string" ELSE arg.type
AskedDefault(arg) == IF arg.type = "list" THEN 0 ELSE arg.default

Validate(rs, n) ==
    LET arg == Args[n] IN
    {r \in Get(rs, Hash[n], AskedType(arg), arg.secret, AskedDefault(arg)) :
          arg.type = "bool" \/ CheckRange(arg, r[Hash[n]].val)}

----------------------------------------------------------------------------
Returned(s, status) ==
    [s EXCEPT !.status = status, !.call = "none", !.args = 0, !.check = {}]

(* An exception leaves the category as it is.                                *)
To(s, rs) == IF rs = {} THEN Returned(s, "rejected")
             ELSE [s EXCEPT !.records = CHOOSE r \in rs : TRUE]

Call(call) ==
    /\ c.call = "none" /\ c.calls < Calls
    /\ c' = [c EXCEPT !.call = call, !.args = MaxArgs, !.check = Names,
                      !.status = "running", !.calls = @ + 1]

(* Option n with a text is applied.                                          *)
Given(n, text) ==
    LET rs == Apply(c.records, n, text)
        s == [c EXCEPT !.args = @ - 1, !.given[Hash[n]] = IF rs = {} THEN @ ELSE {text}]
    IN To(s, rs)

(* parse_argv applies the options in their order, and stops at the first one *)
(* that has no value of its type, or is malformed or unknown.                *)
ApplyNext(n, text) ==
    /\ c.call = "parse_argv" /\ c.check = Names /\ c.args > 0
    /\ c' = Given(n, text)

Refuse == /\ c.call = "parse_argv" /\ c.check = Names /\ c.args > 0
          /\ c' = Returned(c, "rejected")

(* Then it validates all arguments, in the order of a hash table.            *)
ValidateNext(n) ==
    /\ c.call = "parse_argv" /\ n \in c.check
    /\ c' = To([c EXCEPT !.check = @ \ {n}], Validate(c.records, n))

(* apply_options takes each argument of the table in its turn, applies it if *)
(* it is in the dictionary, and validates it; the table may have any order.  *)
OptionNext(n) ==
    /\ c.call = "apply_options" /\ n \in c.check
    /\ \E s \in {c} \cup {Given(n, text) : text \in IF c.args > 0 THEN Texts ELSE {}} :
       c' = IF s.call = "none" THEN s
            ELSE To([s EXCEPT !.check = @ \ {n}], Validate(s.records, n))

(* All is valid; apply_options refuses what is left in the dictionary.       *)
Return == /\ c.call # "none" /\ c.check = {}
          /\ \E left \in BOOLEAN :
                /\ left => c.call = "apply_options"
                /\ c' = Returned(c, IF left THEN "rejected" ELSE c.call)

Next == \/ Call("parse_argv") \/ Call("apply_options") \/ Refuse \/ Return
        \/ \E n \in Names : ValidateNext(n) \/ OptionNext(n)
        \/ \E n \in Names, text \in Texts : ApplyNext(n, text)

Spec == Init /\ [][Next]_c

----------------------------------------------------------------------------
Accepted == c.status \in {"parse_argv", "apply_options"}

(* parse_argv checks all bounds at the end. apply_options checks those of an *)
(* argument before it goes on to the next, which may have the same key: what *)
(* is left under it is within the bounds of the last one that was read.      *)
InBounds(v, n, by) ==
    IF by = "parse_argv" THEN CheckRange(Args[n], v)
    ELSE \E m \in Names : Hash[m] = Hash[n] /\ CheckRange(Args[m], v)

(* Once a call has been accepted, whatever calls failed before it, every     *)
(* argument has a record of its type and within its bounds; the record has   *)
(* the value of the last text that was applied, over all calls, or the       *)
(* default; a visitor is shown it if and only if it is not a secret.         *)
OptionsSound ==
    Accepted => \A n \in {m \in Names : Args[m].type # "list"} :
        LET r == c.records[Hash[n]] arg == Args[n] IN
        /\ r.type = arg.type /\ (arg.type = "bool" \/ InBounds(r.val, n, c.status))
        /\ \A text \in c.given[Hash[n]] : r.val \in Convert(arg.type, text)
        /\ c.given[Hash[n]] = {} =>
              \E m \in Names : Hash[m] = Hash[n] /\ r.val = AskedDefault(Args[m])
        /\ Visible(r) = ~arg.secret
============================================================================
