---------------------------- MODULE AtomicTypes ----------------------------
(***************************************************************************)
(* The atomic types of include/impatomic.h and the calls each of them      *)
(* offers.  A type is the range of its field and the functions a call may  *)
(* apply to it; the header repeats the same text for each of them.         *)
(* Widths are scaled down: Bits[w] is the number of bits of width w, Word  *)
(* that of a value of a model action (uint64_t in the code).               *)
(***************************************************************************)
EXTENDS Integers, Bitwise

CONSTANTS Bits, Word

ASSUME WidthsFit == \A w \in DOMAIN Bits : Bits[w] \in 1..Word

Set == {"set"}
Additive == {"add", "sub"}
Arithmetic == Set \cup Additive \cup {"and", "or", "xor"}

Unsigned(w, fns) == [bits |-> Bits[w], lowest |-> 0, fns |-> fns]
Signed(w, fns) == [bits |-> Bits[w], lowest |-> -(2 ^ (Bits[w] - 1)), fns |-> fns]

AtomicBool == Unsigned("bool", Set)
AtomicAddress == Unsigned("long", Set \cup Additive)
AtomicChar == Signed("char", Arithmetic)
AtomicSchar == Signed("char", Arithmetic)
AtomicUchar == Unsigned("char", Arithmetic)
AtomicShort == Signed("short", Arithmetic)
AtomicUshort == Unsigned("short", Arithmetic)
AtomicInt == Signed("int", Arithmetic)
AtomicUint == Unsigned("int", Arithmetic)
AtomicLong == Signed("long", Arithmetic)
AtomicUlong == Unsigned("long", Arithmetic)
AtomicLlong == Signed("long", Arithmetic)
AtomicUllong == Unsigned("long", Arithmetic)
AtomicWchar == Signed("int", Arithmetic)
AtomicOf == Signed("short", Set)   \* atomic<T>, T a class of one short

Highest(T) == T.lowest + 2 ^ T.bits - 1
Values(T) == T.lowest..Highest(T)

\* The conversion of a number to the type; a bool is 0 or 1.
Fits(T, n) ==
  IF T.bits = 1 THEN IF n = 0 THEN 0 ELSE 1
  ELSE ((n - T.lowest) % (2 ^ T.bits)) + T.lowest

\* The conversion to the uint64_t of a model action.
Widened(n) == n % (2 ^ Word)

\* v applied to n by the operator of a modification.
Applied(fn, n, v) ==
  CASE fn = "set" -> v
    [] fn = "add" -> n + v
    [] fn = "sub" -> n - v
    [] fn = "and" -> Widened(n) & Widened(v)
    [] fn = "or" -> Widened(n) | Widened(v)
    [] fn = "xor" -> Widened(n) ^^ Widened(v)
-----------------------------------------------------------------------------
(* The calls of a type.  says: what a call returns, the value it read      *)
(* ("old"), its operator applied to that once more ("new"), its argument   *)
(* ("given"), or whether it swapped ("swapped").                           *)

Call(op, fn, arg, exp, says) == [op |-> op, fn |-> fn, arg |-> arg, exp |-> exp, says |-> says]

\* Arguments at which a type wraps.
Args(T) == {1, Highest(T)}

\* load, store, exchange and compare_exchange, and the operator =.
BasicCalls(T) ==
  {Call("load", "set", 0, 0, "old")}
    \cup {Call("store", "set", v, 0, "given") : v \in Args(T)}
    \cup {Call("modify", "set", v, 0, "old") : v \in Args(T)}
    \cup {Call("cas", "set", c[1], c[2], "swapped") : c \in Args(T) \X {T.lowest, Highest(T)}}

\* fetch_add and its like, the operators ++(int) and --(int).
FetchCalls(T) == {Call("modify", fn, v, 0, "old") : fn \in T.fns \ Set, v \in Args(T)}

\* The operators ++, --, +=, -=, &=, |= and ^=.
AssignCalls(T) == {Call("modify", fn, v, 0, "new") : fn \in T.fns \ Set, v \in Args(T)}

IntegralCalls(T) == BasicCalls(T) \cup FetchCalls(T) \cup AssignCalls(T)

\* __atomic_flag_wait__ tries test_and_set until it answers 0.
FlagCalls == {Call("modify", "set", 1, 0, "old"), Call("wait", "set", 1, 0, "old"),
              Call("store", "set", 0, 0, "given")}

BoolCalls == BasicCalls(AtomicBool)

\* The operators += and -= of atomic_address return what fetch_add and fetch_sub do.
AddressCalls == BasicCalls(AtomicAddress) \cup FetchCalls(AtomicAddress)

CharCalls == IntegralCalls(AtomicChar)
ScharCalls == IntegralCalls(AtomicSchar)
UcharCalls == IntegralCalls(AtomicUchar)
ShortCalls == IntegralCalls(AtomicShort)
UshortCalls == IntegralCalls(AtomicUshort)
IntCalls == IntegralCalls(AtomicInt)
UintCalls == IntegralCalls(AtomicUint)
LongCalls == IntegralCalls(AtomicLong)
UlongCalls == IntegralCalls(AtomicUlong)
LlongCalls == IntegralCalls(AtomicLlong)
UllongCalls == IntegralCalls(AtomicUllong)
WcharCalls == IntegralCalls(AtomicWchar)
TemplateCalls == BasicCalls(AtomicOf)

\* fetch_add and fetch_sub of atomic<T*> return a void* as a T*: they do not
\* compile, nor do the operators made of them.
PointerCalls == BasicCalls(AtomicAddress)

\* The types, and the specialisations of atomic<T>.
Offered(T, calls) == [type |-> T, calls |-> calls]
Types ==
  [flag |-> Offered(AtomicBool, FlagCalls), bool |-> Offered(AtomicBool, BoolCalls),
   address |-> Offered(AtomicAddress, AddressCalls), pointer |-> Offered(AtomicAddress, PointerCalls),
   char |-> Offered(AtomicChar, CharCalls), schar |-> Offered(AtomicSchar, ScharCalls),
   uchar |-> Offered(AtomicUchar, UcharCalls), short |-> Offered(AtomicShort, ShortCalls),
   ushort |-> Offered(AtomicUshort, UshortCalls), int |-> Offered(AtomicInt, IntCalls),
   uint |-> Offered(AtomicUint, UintCalls), long |-> Offered(AtomicLong, LongCalls),
   ulong |-> Offered(AtomicUlong, UlongCalls), llong |-> Offered(AtomicLlong, LlongCalls),
   ullong |-> Offered(AtomicUllong, UllongCalls), wchar_t |-> Offered(AtomicWchar, WcharCalls),
   template |-> Offered(AtomicOf, TemplateCalls)]
=============================================================================
