----------------------------- MODULE LuaValues -----------------------------
(* Values and the arithmetic of luaO_arith and luaV_execute, on integers of   *)
(* Bits bits.  A value is a pair of its type and its contents; a string is   *)
(* the sequence of its characters.  There are no floats: "/", "^" and what   *)
(* overflows to them are left out.                                           *)
EXTENDS Integers, Sequences, Bitwise

CONSTANT Bits                       \* the width of lua_Integer
ASSUME BitsAssumption == Bits \in 3..16

Nil == <<"nil", 0>>
Bool(b) == <<"bool", b>>
IntV(n) == <<"int", n>>
Str(chars) == <<"str", chars>>
True == Bool(TRUE)
False == Bool(FALSE)
Type(v) == v[1]
IsFalse(v) == v \in {Nil, False}
IsInt(v) == Type(v) = "int"

\* intop: computed on unsigned integers, then converted
Modulus == 2 ^ Bits
MaxInteger == 2 ^ (Bits - 1) - 1
Unsigned(n) == n % Modulus
Wrap(n) == IF Unsigned(n) > MaxInteger THEN Unsigned(n) - Modulus ELSE Unsigned(n)

\* division of C, towards zero
CDiv(m, n) == LET q == (IF m < 0 THEN -m ELSE m) \div (IF n < 0 THEN -n ELSE n)
              IN  IF (m < 0) # (n < 0) THEN -q ELSE q
CRem(m, n) == m - n * CDiv(m, n)

Div(m, n) == IF n = -1 THEN Wrap(0 - m)
             ELSE IF (m < 0) # (n < 0) /\ CRem(m, n) # 0 THEN CDiv(m, n) - 1 ELSE CDiv(m, n)
Mod(m, n) == IF n = -1 THEN 0
             ELSE IF CRem(m, n) # 0 /\ (m < 0) # (n < 0) THEN CRem(m, n) + n ELSE CRem(m, n)

\* luaV_shiftl; a negative distance shifts the other way
ShiftL(x, y) ==
    IF y <= -Bits \/ y >= Bits THEN 0
    ELSE IF y < 0 THEN Wrap(Unsigned(x) \div 2 ^ (-y)) ELSE Wrap(Unsigned(x) * 2 ^ y)

IntArith(op, m, n) ==
    CASE op = "ADD" -> Wrap(m + n)
      [] op = "SUB" -> Wrap(m - n)
      [] op = "MUL" -> Wrap(m * n)
      [] op = "IDIV" -> Div(m, n)
      [] op = "MOD" -> Mod(m, n)
      [] op = "BAND" -> Wrap(Unsigned(m) & Unsigned(n))
      [] op = "BOR" -> Wrap(Unsigned(m) | Unsigned(n))
      [] op = "BXOR" -> Wrap(Unsigned(m) ^^ Unsigned(n))
      [] op = "SHL" -> ShiftL(m, n)
      [] op = "SHR" -> ShiftL(m, Wrap(-n))
      [] op = "UNM" -> Wrap(0 - m)
      [] op = "BNOT" -> Wrap((Modulus - 1) - Unsigned(m))

\* tostring of a number, digit by digit
RECURSIVE Digits(_)
Digits(n) == IF n < 0 THEN <<45>> \o Digits(-n)
             ELSE IF n < 10 THEN <<48 + n>> ELSE Append(Digits(n \div 10), 48 + (n % 10))
\* cvt2str: what luaV_concat accepts
ToChars(v) == IF IsInt(v) THEN Digits(v[2]) ELSE v[2]
CanConcat(v) == Type(v) \in {"int", "str"}

\* l_strcmp without a locale
CharsLess(a, b) ==
    \E n \in 0..Len(b) - 1 : /\ SubSeq(a, 1, n) = SubSeq(b, 1, n)
                             /\ Len(a) >= n
                             /\ Len(a) = n \/ a[n + 1] < b[n + 1]
CanCompare(a, b) == Type(a) = Type(b) /\ Type(a) \in {"int", "str"}
LessThan(a, b) == IF IsInt(a) THEN a[2] < b[2] ELSE CharsLess(a[2], b[2])
LessEqual(a, b) == IF IsInt(a) THEN a[2] <= b[2] ELSE ~CharsLess(b[2], a[2])

Arithmetic == {"ADD", "SUB", "MUL", "IDIV", "MOD", "BAND", "BOR", "BXOR", "SHL", "SHR"}
=============================================================================
