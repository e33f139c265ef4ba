----------------------------- MODULE BindSetters -----------------------------
(***************************************************************************)
(* The integer bind setter of a column (createNumberFieldBindSetter,      *)
(* src/unnamed/part_000 334-498) as an operator, checked against the      *)
(* rule of the integer bind pipeline over every input of a bounded        *)
(* domain.  Go's 64-bit integers are W-bit integers here: uint64 is       *)
(* 0..2^W-1, int64 is -2^(W-1)..2^(W-1)-1, and int64(u) wraps modulo 2^W. *)
(***************************************************************************)
EXTENDS Integers

CONSTANTS
    W,     \* the width standing for 64
    NULL

VARIABLES
    col,   \* the column the setter was created for
    in,    \* the value passed to the setter
    out    \* what the setter returned

vars == <<col, in, out>>

UMax == 2^W - 1
IMin == -(2^(W - 1))
IMax == 2^(W - 1) - 1

\* Column widths: a narrow type (W \div 2 bits) and the full-width type.
Widths == {W \div 2, W}
Columns ==
    {[unsigned |-> u, nullable |-> n,
      min |-> IF u THEN 0 ELSE -(2^(w - 1)),
      max |-> IF u THEN 2^w - 1 ELSE 2^(w - 1) - 1] : u \in BOOLEAN, n \in BOOLEAN, w \in Widths}

(***************************************************************************)
(* The setter's inputs: nil, a nil pointer, any unsigned or signed Go     *)
(* integer (its value), a decimal string (the number it spells, or text   *)
(* that is no number), a float within int64 range (in tenths), and a      *)
(* value of an unsupported type.                                           *)
(***************************************************************************)
Inputs ==
    {[k |-> "nil", x |-> 0], [k |-> "nilptr", x |-> 0], [k |-> "other", x |-> 0],
     [k |-> "badstring", x |-> 0]}
    \cup [k : {"uint"}, x : 0..UMax]
    \cup [k : {"int"}, x : IMin..IMax]
    \cup [k : {"string"}, x : -(2^W)..2^W]
    \cup [k : {"float"}, x : (10 * IMin)..(10 * IMax + 9)]

Ok(v) == [err |-> "none", val |-> v]
Err(e) == [err |-> e, val |-> NULL]

\* int64(f): truncation toward zero.
Trunc(tenths) == IF tenths >= 0 THEN tenths \div 10 ELSE -((-tenths) \div 10)

\* int64(u) of a uint64: two's complement wrap.
ToSigned(u) == IF u > IMax THEN u - 2^W ELSE u

\* strconv.ParseUint / ParseInt with bit size 64 fail outside the type.
Parses(c, s) == IF c.unsigned THEN s.x \in 0..UMax ELSE s.x \in IMin..IMax

\* The type switch: unsigned Go types, and strings of unsigned columns, fill asUint64.
AsUint64(c, v) == IF v.k = "uint" \/ (v.k = "string" /\ c.unsigned) THEN v.x ELSE 0

\* Signed Go types, strings of signed columns and truncated floats fill asInt64.
AsInt64(c, v) ==
    CASE v.k = "int" -> v.x
      [] v.k = "string" /\ ~c.unsigned -> v.x
      [] v.k = "float" -> Trunc(v.x)
      [] OTHER -> 0

\* The checks before the conversion: nil, unsupported types, unparsable strings.
Rejected(c, v) ==
    CASE v.k \in {"nil", "nilptr"} -> IF c.nullable THEN Ok(NULL) ELSE Err("nil")
      [] v.k \in {"other", "badstring"} -> Err("invalid")
      [] OTHER -> Err("invalid")

Early(c, v) == v.k \in {"nil", "nilptr", "other", "badstring"} \/ (v.k = "string" /\ ~Parses(c, v))

\* Variant of NumberBindSetter: the unsigned max check is off by one.
NumberBindSetterOffByOne(c, v) ==
    LET i == IF AsUint64(c, v) > 0 THEN ToSigned(AsUint64(c, v)) ELSE AsInt64(c, v)
        u == IF AsInt64(c, v) > 0 THEN AsInt64(c, v) ELSE AsUint64(c, v)
    IN CASE Early(c, v) -> Rejected(c, v)
         [] ~c.unsigned /\ i > 0 /\ i > c.max -> Err("max")
         [] ~c.unsigned /\ i < 0 /\ i < c.min -> Err("min")
         [] ~c.unsigned -> Ok(i)
         [] AsInt64(c, v) < 0 -> Err("negative")
         [] u >= c.max -> Err("max")
         [] OTHER -> Ok(u)

\* Variant of NumberBindSetter: int64(asUint64) does not wrap.
NumberBindSetterNoWrap(c, v) ==
    LET i == IF AsUint64(c, v) > 0 THEN AsUint64(c, v) ELSE AsInt64(c, v)
        u == IF AsInt64(c, v) > 0 THEN AsInt64(c, v) ELSE AsUint64(c, v)
    IN CASE Early(c, v) -> Rejected(c, v)
         [] ~c.unsigned /\ i > 0 /\ i > c.max -> Err("max")
         [] ~c.unsigned /\ i < 0 /\ i < c.min -> Err("min")
         [] ~c.unsigned -> Ok(i)
         [] AsInt64(c, v) < 0 -> Err("negative")
         [] u > c.max -> Err("max")
         [] OTHER -> Ok(u)

(***************************************************************************)
(* The setter after the type switch.  A signed column takes               *)
(* int64(asUint64) when that is non-zero and checks max and min; an       *)
(* unsigned column rejects a negative asInt64, takes uint64(asInt64) when *)
(* positive and checks max.                                                *)
(***************************************************************************)
NumberBindSetter(c, v) ==
    LET i == IF AsUint64(c, v) > 0 THEN ToSigned(AsUint64(c, v)) ELSE AsInt64(c, v)
        u == IF AsInt64(c, v) > 0 THEN AsInt64(c, v) ELSE AsUint64(c, v)
    IN CASE Early(c, v) -> Rejected(c, v)
         [] ~c.unsigned /\ i > 0 /\ i > c.max -> Err("max")
         [] ~c.unsigned /\ i < 0 /\ i < c.min -> Err("min")
         [] ~c.unsigned -> Ok(i)
         [] AsInt64(c, v) < 0 -> Err("negative")
         [] u > c.max -> Err("max")
         [] OTHER -> Ok(u)

(***************************************************************************)
(* The rule of the integer bind pipeline: the input's integer value (a    *)
(* float truncated) is accepted unchanged when it lies in the column's    *)
(* range; negative values of unsigned columns and values outside          *)
(* [min, max] are rejected, and nil is null only for nullable columns.    *)
(***************************************************************************)
SpecSetter(c, v) ==
    CASE v.k \in {"nil", "nilptr"} -> IF c.nullable THEN Ok(NULL) ELSE Err("nil")
      [] v.k \in {"other", "badstring"} -> Err("invalid")
      [] OTHER ->
           LET x == IF v.k = "float" THEN Trunc(v.x) ELSE v.x
           IN IF x \in c.min..c.max THEN Ok(x) ELSE Err("max")

\* Whether the setter accepted the value, and what it produced.
Outcome(r) == IF r.err = "none" THEN <<TRUE, r.val>> ELSE <<FALSE, NULL>>

\* A setter created for some column, called with nil.
Init ==
    /\ col \in Columns
    /\ in = [k |-> "nil", x |-> 0]
    /\ out = NumberBindSetter(col, in)

\* The setter called on another column and value.
Bind(c, v) ==
    /\ col' = c
    /\ in' = v
    /\ out' = NumberBindSetter(c, v)

Next == \E c \in Columns, v \in Inputs : Bind(c, v)

Spec == Init /\ [][Next]_vars

-----------------------------------------------------------------------------

(***************************************************************************)
(* For an unsigned column the setter accepts exactly the inputs whose      *)
(* integer value is in 0..max, and binds that value.  About the           *)
(* asUint64 / asInt64 split and the conversions between them.             *)
(***************************************************************************)
UnsignedSetterMatchesSpec ==
    col.unsigned => Outcome(out) = Outcome(SpecSetter(col, in))

(***************************************************************************)
(* For a signed column the setter accepts exactly the inputs whose        *)
(* integer value is in min..max, and binds that value.  About int64 of a  *)
(* uint64 above the int64 range.                                           *)
(***************************************************************************)
SignedSetterMatchesSpec ==
    ~col.unsigned => Outcome(out) = Outcome(SpecSetter(col, in))

====
