------------------------------ MODULE ScanValues ------------------------------
(***************************************************************************)
(* How a value of a driver becomes a value of the application:             *)
(* ScanDriverValue (scan.go), which Nullable and Secret scan with,         *)
(* convertAssign (mockrows.go) of the mock connection and scanColumn of    *)
(* sqliteconn (rows.go).  Integers have Width bits where the code has 64,  *)
(* Narrow bits where it has 8, 16 or 32; a float has Digits64 binary       *)
(* digits where it has 53 and Digits32 where it has 24.  All numbers are   *)
(* counted in halves.                                                      *)
(***************************************************************************)
EXTENDS Integers, FiniteSets

CONSTANTS
  Width, Narrow, Digits64, Digits32,
  Exponents64, Exponents32,   \* largest exponents of floats
  LongFrom                    \* numbers from here on are formatted with an exponent

ASSUME ScanValuesAssumption ==
  /\ Width \in Nat /\ Narrow \in Nat /\ 0 < Narrow /\ Narrow < Width
  /\ Digits64 \in Nat /\ Digits32 \in Nat /\ Exponents64 \in Nat /\ Exponents32 \in Nat
  /\ 0 < Digits32 /\ Digits32 < Digits64 /\ Exponents32 < Exponents64
  /\ Width < Digits32 + Exponents32   \* no integer overflows a float

VARIABLES
  value,     \* the value of the driver
  dest,      \* the destination
  scanned    \* [path -> what is stored, or an error]

scanVars == <<value, dest, scanned>>

-------------------------------------------------------------------------------
(* Integers and floats of the machine.                                      *)
Bits(size) == IF size = "wide" THEN Width ELSE Narrow

Signed(i, bits) == ((i + 2^(bits - 1)) % 2^bits) - 2^(bits - 1)
Unsigned(i, bits) == i % 2^bits
MinOf(bits) == -(2^(bits - 1))
MaxOf(bits) == 2^(bits - 1) - 1

Infinity == 2^(Digits64 + Exponents64)
FloatsOf(digits, exponents) ==
  LET ms == 0..(2^digits - 1)
      positive == {m * 2^e : m \in ms, e \in 0..exponents}
  IN positive \cup {-f : f \in positive}
Floats64 == FloatsOf(Digits64, Exponents64)
Floats32 == FloatsOf(Digits32, Exponents32)
Largest(floats) == CHOOSE f \in floats : \A g \in floats : g <= f

Abs(n) == IF n < 0 THEN -n ELSE n

(* Rounded to the nearest float, to the even one in the middle.             *)
Nearest(n, floats) ==
  IF n \in floats \/ Abs(n) = Infinity THEN n
  ELSE IF Abs(n) > Largest(floats) THEN (IF n < 0 THEN -Infinity ELSE Infinity)
  ELSE LET below == CHOOSE f \in floats : f < n /\ \A g \in floats : g < n => g <= f
           above == CHOOSE f \in floats : f > n /\ \A g \in floats : g > n => g >= f
       IN IF n - below < above - n THEN below
          ELSE IF n - below > above - n THEN above
          ELSE IF below % (2 * (above - below)) = 0 THEN below ELSE above

FloatsFor(size) == IF size = "wide" THEN Floats64 ELSE Floats32

(* int64(f) and uint64(f) of a float too large: amd64 and arm64 differ.     *)
ToInt(n) ==
  LET i == IF n < 0 THEN -((-n) \div 2) ELSE n \div 2
  IN IF MinOf(Width) <= i /\ i <= MaxOf(Width) THEN {i}
     ELSE {MinOf(Width), IF n < 0 THEN MinOf(Width) ELSE MaxOf(Width)}
ToUint(n) == IF n \div 2 < 2^Width THEN {n \div 2} ELSE {0, 2^Width - 1}

-------------------------------------------------------------------------------
(* Values of a driver: int64, float64, bool, string, bytes, time and nil.   *)
(* form says how a text is written, n the number that it is or names.       *)
Value(kind, form, n) == [kind |-> kind, form |-> form, n |-> n]
Stored(as, n) == [as |-> as, n |-> n]
Error == Stored("error", 0)

(* strconv.FormatInt, FormatBool and FormatFloat with format g.             *)
FormOf(v) ==
  CASE v.kind = "int64" -> "integer" [] v.kind = "bool" -> "bool"
    [] v.kind = "float64" -> IF Abs(v.n) >= LongFrom THEN "exponent"
                             ELSE IF v.n % 2 = 0 THEN "integer" ELSE "decimal"
    [] OTHER -> v.form

(* strconv.ParseInt, ParseUint, ParseFloat and ParseBool.                   *)
ParseInt(form, n, bits) ==
  IF form = "integer" /\ MinOf(bits) <= n \div 2 /\ n \div 2 <= MaxOf(bits) THEN Stored("int", n) ELSE Error
ParseUint(form, n, bits) ==
  IF form = "integer" /\ 0 <= n /\ n \div 2 < 2^bits THEN Stored("uint", n) ELSE Error
ParseFloat(form, n, floats) ==
  LET f == Nearest(n, floats)
  IN IF form \in {"integer", "decimal", "exponent"} /\ (Abs(f) = Infinity => n = f) THEN Stored("float", f) ELSE Error
ParseBool(form, n) ==
  IF form = "bool" \/ (form = "integer" /\ n \in {0, 2}) THEN Stored("bool", n) ELSE Error

Text(v) == Stored("text", v.n)

-------------------------------------------------------------------------------
(* scan.go: ScanDriverValue, by the type of the value.                      *)
ZeroOrOne(n) == IF n \in {0, 2} THEN Stored("bool", n) ELSE Error

ScanStringInto(d, form, n) ==
  CASE d.kind = "int" -> ParseInt(form, n, Bits(d.size)) [] d.kind = "uint" -> ParseUint(form, n, Bits(d.size))
    [] d.kind = "float" -> ParseFloat(form, n, FloatsFor(d.size)) [] d.kind = "bool" -> ParseBool(form, n)
    [] OTHER -> Error

(* Mutant of ScanInt64: negative integers are not refused. *)
ScanInt64Negative(d, v) ==
  LET i == v.n \div 2 IN
  CASE d.kind = "int" -> IF Signed(i, Bits(d.size)) # i THEN Error ELSE Stored("int", 2 * Signed(i, Bits(d.size)))
    [] d.kind = "uint" -> LET u == Unsigned(i, Width)
                          IN IF Unsigned(u, Bits(d.size)) # u THEN Error ELSE Stored("uint", 2 * u)
    [] d.kind = "float" -> Stored("float", Nearest(Nearest(v.n, Floats64), FloatsFor(d.size)))
    [] d.kind = "bool" -> ZeroOrOne(v.n)
    [] d.kind \in {"string", "bytes"} -> Text(v)
    [] OTHER -> Error

ScanInt64(d, v) ==
  LET i == v.n \div 2 IN
  CASE d.kind = "int" -> IF Signed(i, Bits(d.size)) # i THEN Error ELSE Stored("int", 2 * Signed(i, Bits(d.size)))
    [] d.kind = "uint" -> IF i < 0 \/ Unsigned(Unsigned(i, Width), Bits(d.size)) # Unsigned(i, Width) THEN Error
                          ELSE Stored("uint", 2 * Unsigned(i, Width))
    [] d.kind = "float" -> Stored("float", Nearest(Nearest(v.n, Floats64), FloatsFor(d.size)))
    [] d.kind = "bool" -> ZeroOrOne(v.n)
    [] d.kind \in {"string", "bytes"} -> Text(v)
    [] OTHER -> Error

(* The ways a float can go: the machine decides what int64(f) is.           *)
ScanFloat64(d, v) ==
  CASE d.kind = "float" ->
         {IF Largest(FloatsFor(d.size)) < Abs(v.n) /\ Abs(v.n) < Infinity THEN Error
          ELSE Stored("float", Nearest(v.n, FloatsFor(d.size)))}
    [] d.kind = "int" ->
         {IF Nearest(2 * i, Floats64) # v.n \/ Signed(i, Bits(d.size)) # i THEN Error ELSE Stored("int", 2 * i)
            : i \in ToInt(v.n)}
    [] d.kind = "uint" ->
         IF v.n < 0 THEN {Error}
         ELSE {IF Nearest(2 * u, Floats64) # v.n \/ Unsigned(u, Bits(d.size)) # u THEN Error ELSE Stored("uint", 2 * u)
                 : u \in ToUint(v.n)}
    [] d.kind = "bool" -> {ZeroOrOne(v.n)}
    [] d.kind \in {"string", "bytes"} -> {Text(v)}
    [] OTHER -> {Error}

ScanBool(d, v) ==
  IF d.kind = "bool" THEN Stored("bool", v.n) ELSE IF d.kind \in {"string", "bytes"} THEN Text(v) ELSE Error

(* Values of type []byte and string. *)
ScanText(d, v) ==
  IF d.kind \in {"string", "bytes"} THEN Text(v) ELSE ScanStringInto(d, v.form, v.n)

ScanTime(d, v) ==
  IF d.kind = "time" THEN Stored("time", v.n) ELSE IF d.kind \in {"string", "bytes"} THEN Text(v) ELSE Error

ScanNil(d) == IF d.kind = "bytes" THEN Stored("nil", 0) ELSE Error

ScanDriverValue(d, v) ==
  IF d.kind = "any" THEN {IF v.kind = "nil" THEN Stored("nil", 0) ELSE Stored(v.kind, v.n)}
  ELSE IF d.pointer /\ v.kind = "nil" THEN {Stored("nil", 0)}
  ELSE CASE v.kind = "int64" -> {ScanInt64(d, v)} [] v.kind = "float64" -> ScanFloat64(d, v)
         [] v.kind = "bool" -> {ScanBool(d, v)} [] v.kind \in {"string", "bytes"} -> {ScanText(d, v)}
         [] v.kind = "time" -> {ScanTime(d, v)} [] v.kind = "nil" -> {ScanNil(d)}

-------------------------------------------------------------------------------
(* mockrows.go: convertAssign.  Numbers of another type go through a text.  *)
AsString(v) == Value("string", IF v.kind = "time" THEN "words" ELSE FormOf(v), v.n)

AssignCommon(d, v) ==
  \/ v.kind \in {"string", "bytes", "time"} /\ d.kind \in {"string", "bytes"}
  \/ v.kind = "time" /\ d.kind = "time"
  \/ d.kind = "any" \/ (v.kind = "nil" /\ d.kind = "bytes")

ConvertBool(v) ==
  IF v.kind = "bool" \/ (v.kind = "int64" /\ v.n \in {0, 2}) THEN Stored("bool", v.n)
  ELSE IF v.kind \in {"string", "bytes"} THEN ParseBool(v.form, v.n) ELSE Error

ConvertNumber(d, v) == IF v.kind = "nil" THEN Error ELSE ScanStringInto(d, AsString(v).form, v.n)

SameType(d, v) == d.size = "wide" /\ ((v.kind = "int64" /\ d.kind = "int") \/ (v.kind = "float64" /\ d.kind = "float"))

ConvertAssign(d, v) ==
  IF d.kind = "any" \/ v.kind = "nil" THEN
    IF d.kind \in {"any", "bytes"} \/ d.pointer THEN Stored(v.kind, v.n) ELSE Error
  ELSE IF AssignCommon(d, v) THEN (IF d.kind = "time" THEN Stored("time", v.n) ELSE Text(v))
  ELSE IF d.kind \in {"string", "bytes"} THEN Text(v)
  ELSE IF d.kind = "bool" THEN ConvertBool(v)
  ELSE IF SameType(d, v) THEN Stored(d.kind, v.n)
  ELSE ConvertNumber(d, v)

-------------------------------------------------------------------------------
(* sqliteconn/rows.go: scanColumn, by the type of the column.               *)
ScanInteger(d, v) ==
  LET i == v.n \div 2 IN
  IF d.pointer THEN Error
  ELSE CASE d.kind = "int" -> IF MinOf(Bits(d.size)) <= i /\ i <= MaxOf(Bits(d.size)) THEN Stored("int", v.n) ELSE Error
    [] d.kind = "uint" -> IF i < 0 \/ (d.size = "narrow" /\ i > 2^Narrow - 1) THEN Error ELSE Stored("uint", v.n)
    [] d.kind = "bool" -> Stored("bool", IF i # 0 THEN 2 ELSE 0)
    [] d.kind = "any" -> Stored("int64", v.n)
    [] OTHER -> Error

ScanReal(d, v) ==
  IF d.pointer THEN Error
  ELSE CASE d.kind = "float" -> Stored("float", Nearest(v.n, FloatsFor(d.size)))
    [] d.kind = "any" -> Stored("float64", v.n)
    [] OTHER -> Error

(* A pointer to []byte or to any has no case for NULL.                      *)
ScanNull(d) ==
  IF \/ ~d.pointer /\ d.kind \in {"any", "bytes"}
     \/ d.pointer /\ (d.kind \in {"string", "bool"} \/ (d.size = "wide" /\ d.kind \in {"int", "float"}))
  THEN Stored("nil", 0) ELSE Error

ScanColumn(d, v) ==
  CASE v.kind = "nil" -> ScanNull(d) [] v.kind = "int64" -> ScanInteger(d, v) [] v.kind = "float64" -> ScanReal(d, v)
    [] v.kind \in {"string", "bytes"} ->
         IF ~d.pointer /\ d.kind \in {"string", "bytes", "any"} THEN Text(v) ELSE Error

-------------------------------------------------------------------------------
Integers64 == {2 * i : i \in MinOf(Width)..MaxOf(Width)}
Texts64 == {Value(kind, form, n) : kind \in {"string", "bytes"}, form \in {"integer", "exponent"},
                                   n \in {2 * i : i \in -(2^Width)..2^Width}}
           \cup {Value("string", "decimal", n) : n \in {2 * i + 1 : i \in -(2^Width)..2^Width}}
           \cup {Value("string", "bool", n) : n \in {0, 2}} \cup {Value("bytes", "words", 1)}
Values64 ==
  {Value("int64", "none", n) : n \in Integers64} \cup {Value("float64", "none", n) : n \in Floats64 \cup {Infinity, -Infinity}}
  \cup {Value("bool", "none", n) : n \in {0, 2}} \cup {Value("time", "words", 1), Value("nil", "none", 0)} \cup Texts64

Dests == [kind : {"int", "uint", "float", "string", "bytes", "bool", "time", "any"}, size : {"wide", "narrow"},
          pointer : BOOLEAN]

(* What of the three paths stores; SQLite has no bool and no time.          *)
Paths(v) == {"scan", "assign"} \cup (IF v.kind \in {"bool", "time"} THEN {} ELSE {"column"})

NoValue == Value("none", "none", 0)
NoDest == [kind |-> "any", size |-> "wide", pointer |-> FALSE]

ScanInit == value = NoValue /\ dest = NoDest /\ scanned = [path \in {} |-> Error]

Scan(v, d) ==
  /\ value = NoValue
  /\ value' = v /\ dest' = d
  /\ \E outcome \in ScanDriverValue(d, v) :
       scanned' = [path \in Paths(v) |->
                     CASE path = "scan" -> outcome [] path = "assign" -> ConvertAssign(d, v)
                       [] path = "column" -> ScanColumn(d, v)]

NextValue == value # NoValue /\ value' = NoValue /\ dest' = NoDest /\ scanned' = [path \in {} |-> Error]

ScanNext == NextValue \/ \E v \in Values64, d \in Dests : Scan(v, d)

ScanSpec == ScanInit /\ [][ScanNext]_scanVars

-------------------------------------------------------------------------------
(* On a machine whose int64(f) saturates, the check float64(i) # f does not *)
(* see that the least float out of range became the largest integer.        *)
Saturated(path) ==
  /\ path = "scan" /\ value.kind = "float64" /\ dest.size = "wide"
  /\ \/ dest.kind = "int" /\ value.n = 2 * 2^(Width - 1) /\ scanned[path] = Stored("int", 2 * MaxOf(Width))
     \/ dest.kind = "uint" /\ value.n = 2 * 2^Width /\ scanned[path] = Stored("uint", 2 * (2^Width - 1))

InRange == IF dest.kind = "int" THEN MinOf(Bits(dest.size)) <= value.n \div 2 /\ value.n \div 2 <= MaxOf(Bits(dest.size))
           ELSE 0 <= value.n /\ value.n \div 2 < 2^Bits(dest.size)

Rounded(n) == {Nearest(n, FloatsFor(dest.size)), Nearest(Nearest(n, Floats64), FloatsFor(dest.size))}

KeptBy(path) ==
  LET got == scanned[path] IN
  CASE got.as = "error" -> (value.kind = "int64" /\ dest.kind \in {"int", "uint"} /\ ~dest.pointer) => ~InRange
    [] got.as \in {"int", "uint"} -> got.n = value.n /\ InRange
    [] got.as = "float" -> got.n \in Rounded(value.n) /\ (Abs(got.n) = Infinity => got.n = value.n \/ path = "column")
    [] got.as = "bool" -> IF path = "column" THEN got.n = 2 <=> value.n # 0 ELSE got.n = value.n
    [] got.as = "nil" -> value.kind = "nil"
    [] OTHER -> got.n = value.n

(* scan.go:140, mockrows.go:189 and the checks of rows.go: an integer that  *)
(* is stored as an integer is the number of the driver and fits, whatever   *)
(* the widths, and none that fits is refused.  A number stored as a float   *)
(* is the float nearest to the driver's, so a large int64 is rounded, and   *)
(* it is infinite only in SQLite's float32.  A float64 stored as an integer *)
(* is that number, but for the two values that Saturated names.  Only NULL  *)
(* becomes nil, and a text stands for the number it had.                    *)
KeptOrRounded == value # NoValue => \A path \in Paths(value) : KeptBy(path) \/ Saturated(path)

(* scan.go:117: "int64 and float64 values are converted between integer,    *)
(* unsigned and floating point destinations with overflow and               *)
(* loss-of-precision checks": what ScanDriverValue stores of one in a       *)
(* destination of the other is the same number, or it returns an error.     *)
LossesAreRefused ==
  \/ value.kind = "int64" /\ dest.kind = "float"
  \/ value.kind = "float64" /\ dest.kind \in {"int", "uint"}
  => scanned["scan"] \in {Error, Stored(dest.kind, value.n)}

===============================================================================
