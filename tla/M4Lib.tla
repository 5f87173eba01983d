------------------------------- MODULE M4Lib -------------------------------
(***************************************************************************)
(* The small libc that the firmwares with rpmsg-lite are linked with, and the *)
(* number printer of hello: one function at a time is called on a memory of   *)
(* bytes, and each turn of its loop is a step.                               *)
(***************************************************************************)
EXTENDS Integers, Sequences

CONSTANTS
  MemSize,   (* bytes of memory                                             *)
  MaxByte,   (* values of a byte                                            *)
  Decimals   (* numbers that are printed                                    *)

\* unsigned int
Unsigned(v) == v \in Nat /\ v \div 2 <= 2147483647

ASSUME M4LibAssumption ==
  MemSize \in Nat \ {0} /\ MaxByte \in Nat /\ \A v \in Decimals : Unsigned(v)

VARIABLES
  mem,       (* the memory                                                  *)
  fn,        (* the function that runs, "idle", or "returned"               *)
  reg,       (* its variables: pointers p and q, and n                      *)
  out,       (* its digits, the last one first                              *)
  ret,       (* what it has returned                                        *)
  was        (* history: the call, and the memory then                      *)

libVars == <<mem, fn, reg, out, ret, was>>

Addr == 0..MemSize - 1
Byte == 0..MaxByte
Comparing == {"memcmp", "strcmp", "strncmp"}
Copying == {"memcpy", "strncpy"}

NoCall == [fn |-> "none", p |-> 0, q |-> 0, n |-> 0, mem |-> <<>>]

LibInit ==
  /\ mem \in [Addr -> Byte] /\ fn = "idle" /\ reg = [p |-> 0, q |-> 0, n |-> 0]
  /\ out = <<>> /\ ret = 0 /\ was = NoCall

\* A pointer may be one past the end, never used then
Within(a, k) == a + k <= MemSize
String(a) == \E k \in Addr : k >= a /\ mem[k] = 0
Apart(a, b, k) == a + k <= b \/ b + k <= a

Calls(f, p, q, n) ==
  /\ fn' = f /\ reg' = [p |-> p, q |-> q, n |-> n]
  /\ was' = [fn |-> f, p |-> p, q |-> q, n |-> n, mem |-> mem]

\* Callers keep to what C asks of them
Call ==
  /\ fn = "idle"
  /\ \/ \E f \in {"memset", "memcpy", "memcmp"}, p, q \in Addr, n \in 0..MemSize :
          /\ Within(p, n)
          /\ f = "memset" => q \in Byte
          /\ f # "memset" => Within(q, n)
          /\ f = "memcpy" => Apart(p, q, n)
          /\ Calls(f, p, q, n)
     \/ \E p \in Addr : String(p) /\ Calls("strlen", p, 0, 0)
     \/ \E p, q \in Addr : String(p) /\ String(q) /\ Calls("strcmp", p, q, 0)
     \/ \E f \in {"strncpy", "strncmp"}, p, q \in Addr, n \in 0..MemSize :
          /\ Within(p, n) /\ Within(q, n)
          /\ f = "strncpy" => Apart(p, q, n)
          /\ Calls(f, p, q, n)
     \/ \E v \in Decimals : Calls("uart4_put_dec", 0, 0, v)
  /\ UNCHANGED <<mem, out, ret>>

Return(value) == fn' = "returned" /\ ret' = value
\* The loop goes on with its pointers moved
Move(dp, dq, dn) ==
  /\ reg' = [p |-> reg.p + dp, q |-> reg.q + dq, n |-> reg.n + dn]
  /\ UNCHANGED <<fn, ret, out, was>>
Store(byte) == mem' = [mem EXCEPT ![reg.p] = byte]
At(a) == mem[a]
-----------------------------------------------------------------------------
(* libc_min.c. Where a loop ends, its else branch.                          *)

memset ==
  /\ fn = "memset"
  /\ IF reg.n > 0 THEN Store(reg.q) /\ Move(1, 0, -1)
     ELSE Return(was.p) /\ UNCHANGED <<mem, reg, out, was>>

memcpy ==
  /\ fn = "memcpy"
  /\ IF reg.n > 0 THEN Store(At(reg.q)) /\ Move(1, 1, -1)
     ELSE Return(was.p) /\ UNCHANGED <<mem, reg, out, was>>

memcmp ==
  /\ fn = "memcmp" /\ UNCHANGED mem
  /\ IF reg.n > 0 /\ At(reg.p) = At(reg.q) THEN Move(1, 1, -1)
     ELSE /\ Return(IF reg.n = 0 THEN 0 ELSE At(reg.p) - At(reg.q))
          /\ UNCHANGED <<reg, out, was>>

strlen ==
  /\ fn = "strlen" /\ UNCHANGED mem
  /\ IF At(reg.p) # 0 THEN Move(1, 0, 1) ELSE Return(reg.n) /\ UNCHANGED <<reg, out, was>>

\* The string, then as many zeros as are left of n
strncpy ==
  /\ fn = "strncpy"
  /\ IF reg.n > 0 /\ At(reg.q) # 0 THEN Store(At(reg.q)) /\ Move(1, 1, -1)
     ELSE /\ mem' = [a \in Addr |-> IF a \in reg.p .. reg.p + reg.n - 1 THEN 0 ELSE mem[a]]
          /\ Return(was.p) /\ UNCHANGED <<reg, out, was>>

strcmp ==
  /\ fn = "strcmp" /\ UNCHANGED mem
  /\ IF At(reg.p) # 0 /\ At(reg.p) = At(reg.q) THEN Move(1, 1, 0)
     ELSE Return(At(reg.p) - At(reg.q)) /\ UNCHANGED <<reg, out, was>>

\* Bug: the terminator of both does not end the comparison
PastTheEnd(a, b) == a # b
Differ(a, b) == a # b \/ a = 0

strncmp ==
  /\ fn = "strncmp" /\ UNCHANGED mem
  /\ IF reg.n > 0 /\ ~Differ(At(reg.p), At(reg.q)) THEN Move(1, 1, -1)
     ELSE /\ Return(IF reg.n = 0 THEN 0 ELSE At(reg.p) - At(reg.q))
          /\ UNCHANGED <<reg, out, was>>

\* Of hello: do ... while, then backwards
uart4_put_dec ==
  /\ fn = "uart4_put_dec"
  /\ out' = Append(out, reg.n % 10) /\ reg' = [reg EXCEPT !.n = @ \div 10]
  /\ IF reg.n >= 10 THEN UNCHANGED <<fn, ret>> ELSE Return(0)
  /\ UNCHANGED <<mem, was>>

LibNext ==
  Call \/ memset \/ memcpy \/ memcmp \/ strlen \/ strncpy \/ strcmp \/ strncmp \/ uart4_put_dec
-----------------------------------------------------------------------------
(* Properties.                                                              *)

Least(S) == CHOOSE k \in S : \A j \in S : k <= j

\* How far a comparison looks: n bytes, and of strings up to the first terminator
Seen(f, k) ==
  /\ f \in {"memcmp", "strncmp"} => k < was.n
  /\ f \in {"strcmp", "strncmp"} => \A j \in 0..k - 1 : was.mem[was.p + j] # 0

\* Where the two differ first, if they do
Differences ==
  {k \in 0..MemSize : Within(was.p, k + 1) /\ Within(was.q, k + 1)
                    /\ was.mem[was.p + k] # was.mem[was.q + k] /\ Seen(was.fn, k)}

Written(f) == IF f \in {"memset"} \cup Copying THEN was.p .. was.p + was.n - 1 ELSE {}

Ended(a) == was.fn = "strncpy" /\ \E j \in was.q .. was.q + (a - was.p) : was.mem[j] = 0

MemoryAfter ==
  [a \in Addr |->
     IF a \notin Written(was.fn) THEN was.mem[a]
     ELSE IF was.fn = "memset" THEN was.q
     ELSE IF Ended(a) THEN 0 ELSE was.mem[was.q + (a - was.p)]]

\* What a digit counts: the ten places of char buf[10]
PlaceValue == <<1, 10, 100, 1000, 10000, 100000, 1000000, 10000000, 100000000, 1000000000>>
\* A number without the digits below its k-th
FromPlace(v, k) == v \div PlaceValue[k]

Compares ==
  was.fn \in Comparing =>
    IF Differences = {} THEN ret = 0
    ELSE LET k == Least(Differences)
         IN ret = was.mem[was.p + k] - was.mem[was.q + k]
Counts ==
  was.fn = "strlen" => was.mem[was.p + ret] = 0 /\ \A k \in 0..ret - 1 : was.mem[was.p + k] # 0
Prints ==
  was.fn = "uart4_put_dec" =>
    /\ Len(out) \in 1..10
    /\ \A k \in 1..Len(out) : out[k] = FromPlace(was.n, k) % 10
    /\ Len(out) < 10 => was.n < PlaceValue[Len(out) + 1]
    /\ Len(out) > 1 => was.n >= PlaceValue[Len(out)]

\* Each function leaves the memory and returns what C says of it: comparisons have the
\* sign of the first difference within their limits, strncpy fills its field with
\* zeros, nothing else is written; the digits of a number are its own, all of them,
\* without a leading zero, and fit the buffer.
LibcAnswers == fn = "returned" => mem = MemoryAfter /\ Compares /\ Counts /\ Prints
=============================================================================
