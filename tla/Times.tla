---------------------------------- MODULE Times ----------------------------------
(* Points in time and intervals: TimeStamp and TimeInterval of OpenOSLib        *)
(* (Common/Asaac), their copies in AsaacCppLib and the functions of AsaacCLib.  *)
(*                                                                              *)
(* A value is a number of seconds and of nanoseconds.  The C++ classes saturate *)
(* at infinity; an interval is cut at zero, a time stamp below zero is an       *)
(* exception in OpenOSLib and a negative value in AsaacCppLib.  The C functions *)
(* refuse operands that are out of range.                                       *)
EXTENDS Integers

CONSTANTS
    PerSecond,  \* nanoseconds of a second (1000000000)
    Infinite    \* seconds of the infinite time (2147483647)

TimesAssumption == PerSecond \in Nat \ {0, 1} /\ Infinite \in Nat \ {0}

VARIABLES
    library,   \* "OpenOSLib", "AsaacCppLib" or "AsaacCLib"
    class,     \* "TimeStamp" or "TimeInterval"
    value,     \* [sec, nsec] of an object of this class
    failed,    \* the last operation threw an exception or returned ASAAC_ERROR
    now,       \* what the clock shows, in nanoseconds
    timeout,   \* the timeout of a call, as the end of it in nanoseconds
    deadline   \* the time stamp the call waits for

timeVars == <<library, class, value, failed, now, timeout, deadline>>

Zero == [sec |-> 0, nsec |-> 0]
TimeInfinity == [sec |-> Infinite, nsec |-> PerSecond - 1]
Values == [sec : 0 .. Infinite - 1, nsec : 0 .. PerSecond - 1] \cup {TimeInfinity}

Amount(v) == v.sec * PerSecond + v.nsec
isInfinity(v) == v = TimeInfinity
Abs(x) == IF x < 0 THEN -x ELSE x
Quotient(x) == IF x < 0 THEN -((-x) \div PerSecond) ELSE x \div PerSecond
Remainder(x) == x - Quotient(x) * PerSecond

--------------------------------------------------------------------------------
(* addSeconds(): saturation, and what happens below zero.                       *)
Saturated(sec, s) == IF Infinite - sec < s THEN Infinite ELSE sec + s

Throws(v, s) == library = "OpenOSLib" /\ class = "TimeStamp" /\ s < 0 /\ Abs(v.sec) < Abs(s)

IntervalAddSeconds(v, s) ==
    [v EXCEPT !.sec = IF Saturated(v.sec, s) < 0 THEN 0 ELSE Saturated(v.sec, s)]
StampAddSeconds(v, s) ==
    IF Throws(v, s) THEN v ELSE [v EXCEPT !.sec = Saturated(v.sec, s)]
AddSeconds(v, s) ==
    IF class = "TimeInterval" THEN IntervalAddSeconds(v, s) ELSE StampAddSeconds(v, s)

(* addNanoSeconds(): the rest of the division is carried or borrowed.           *)
Bug_Carried(v) == IF v.nsec > PerSecond THEN AddSeconds([v EXCEPT !.nsec = @ - PerSecond], 1) ELSE v
Carried(v) == IF v.nsec > PerSecond - 1 THEN AddSeconds([v EXCEPT !.nsec = @ - PerSecond], 1) ELSE v
Borrowed(v) ==
    IF v.nsec >= 0 THEN v
    ELSE IF class = "TimeInterval" /\ v.sec <= 0 THEN [v EXCEPT !.nsec = 0]
    ELSE AddSeconds([v EXCEPT !.nsec = @ + PerSecond], -1)
AtInfinity(v) == IF v.sec = Infinite THEN [v EXCEPT !.nsec = PerSecond - 1] ELSE v

AddNanoSeconds(v, n) ==
    LET w == AddSeconds(v, Quotient(n)) IN
    AtInfinity(Carried(Borrowed([w EXCEPT !.nsec = @ + Remainder(n)])))

(* An exception leaves the object as it is at that point.                       *)
Thrown(v, s, n) ==
    \/ Throws(v, s)
    \/ LET w == AddSeconds(v, s) IN
       \/ Throws(w, Quotient(n))
       \/ w.nsec + Remainder(n) < 0 /\ Throws(AddSeconds(w, Quotient(n)), -1)
Interrupted(v, s, n) ==
    IF Throws(v, s) THEN v
    ELSE LET w == AddSeconds(v, s) IN
         IF Throws(w, Quotient(n)) THEN w
         ELSE [AddSeconds(w, Quotient(n)) EXCEPT !.nsec = w.nsec + Remainder(n) + PerSecond]

addInterval(v, d) == AddNanoSeconds(AddSeconds(v, d.sec), d.nsec)

--------------------------------------------------------------------------------
(* AsaacCLib: operands are checked, the sum and the difference are not.         *)
InRange(v) == v.sec \in 0 .. Infinite /\ v.nsec \in 0 .. PerSecond - 1
Time_addRefused(v, d) == Infinite - v.sec < d.sec \/ ~InRange(v) \/ ~InRange(d)
Time_add(v, d) ==
    LET sum == [sec |-> v.sec + d.sec, nsec |-> v.nsec + d.nsec] IN
    IF sum.nsec > PerSecond THEN [sec |-> sum.sec + 1, nsec |-> sum.nsec - PerSecond] ELSE sum
Time_subtractRefused(v, d) == v.sec < d.sec \/ ~InRange(v) \/ ~InRange(d)
Time_subtract(v, d) ==
    IF d.nsec > v.nsec THEN [sec |-> v.sec - 1 - d.sec, nsec |-> v.nsec + PerSecond - d.nsec]
    ELSE [sec |-> v.sec - d.sec, nsec |-> v.nsec - d.nsec]

--------------------------------------------------------------------------------
(* The comparisons of the four classes, by seconds and then by nanoseconds, and *)
(* those of AsaacCLib by the number of nanoseconds of operands in range.        *)
Less(v, w) == v.sec < w.sec \/ (v.sec = w.sec /\ v.nsec < w.nsec)
LessOrEqual(v, w) == v.sec < w.sec \/ (v.sec = w.sec /\ v.nsec <= w.nsec)
Greater(v, w) == v.sec > w.sec \/ (v.sec = w.sec /\ v.nsec > w.nsec)
GreaterOrEqual(v, w) == v.sec > w.sec \/ (v.sec = w.sec /\ v.nsec >= w.nsec)
Time_convertToUInt64(v) == IF InRange(v) THEN Amount(v) ELSE -1
Time_compare(v, w) ==
    LET x == Time_convertToUInt64(v)
        y == Time_convertToUInt64(w)
    IN IF x = -1 \/ y = -1 THEN "Undefined"
       ELSE IF x = y THEN "Equal" ELSE IF x < y THEN "Lower" ELSE "Greater"
Time_subtractTime(v, w) == Time_subtract(v, w)

(* The difference of two time stamps is an interval, the second minus the       *)
(* first; so asaac_Interval() is what is left until a time stamp.               *)
IntervalSub(v, d) ==
    LET s == IntervalAddSeconds(v, -d.sec)
        n == s.nsec - d.nsec
    IN IF n >= 0 THEN [s EXCEPT !.nsec = n]
       ELSE IF s.sec > 0 THEN [sec |-> s.sec - 1, nsec |-> n + PerSecond]
       ELSE [s EXCEPT !.nsec = 0]
Bug_Minus(v, w) == IntervalSub(v, w)
Minus(v, w) == IntervalSub(w, v)

Stamp(amount) ==
    IF amount >= Infinite * PerSecond THEN TimeInfinity
    ELSE [sec |-> amount \div PerSecond, nsec |-> amount % PerSecond]
Now == Stamp(now)
asaac_Interval(v) == Minus(Now, v)

--------------------------------------------------------------------------------
Init ==
    /\ library \in {"OpenOSLib", "AsaacCppLib", "AsaacCLib"}
    /\ class \in {"TimeStamp", "TimeInterval"}
    /\ value = Zero
    /\ failed = FALSE
    /\ now = 0 /\ timeout = 0 /\ deadline = Zero

Clock == <<now, timeout, deadline>>
Operand == <<library, class>>

(* addInterval() and subInterval() of the classes.  Bound: a value below zero   *)
(* is not used any more.                                                        *)
Shift(s, n) ==
  /\ value.sec >= 0
  /\ IF Thrown(value, s, n) THEN value' = Interrupted(value, s, n) /\ failed' = TRUE
     ELSE value' = AddNanoSeconds(AddSeconds(value, s), n) /\ failed' = FALSE
Add(d) == library # "AsaacCLib" /\ Shift(d.sec, d.nsec) /\ UNCHANGED <<Operand, Clock>>
Sub(d) == library # "AsaacCLib" /\ Shift(-d.sec, -d.nsec) /\ UNCHANGED <<Operand, Clock>>

(* assign() and the constructors.                                               *)
Assign(d) == library # "AsaacCLib" /\ value' = addInterval(Zero, d) /\ failed' = FALSE
             /\ UNCHANGED <<Operand, Clock>>

(* The functions of AsaacCLib.                                                  *)
CAdd(d) ==
    /\ library = "AsaacCLib"
    /\ failed' = Time_addRefused(value, d)
    /\ value' = IF failed' THEN value ELSE Time_add(value, d)
    /\ UNCHANGED <<Operand, Clock>>
AssignRefused(amount) == amount \div PerSecond >= Infinite
CAssign(d) ==
    /\ library = "AsaacCLib"
    /\ failed' = AssignRefused(Amount(d))
    /\ value' = IF failed' THEN value ELSE d
    /\ UNCHANGED <<Operand, Clock>>
CSubtract(d) ==
    /\ library = "AsaacCLib"
    /\ failed' = Time_subtractRefused(value, d)
    /\ value' = IF failed' THEN value ELSE Time_subtract(value, d)
    /\ UNCHANGED <<Operand, Clock>>

(* A call turns its timeout into a time stamp and waits for what is left of it. *)
SetTimeout(d) ==
    /\ class = "TimeStamp" /\ library # "AsaacCLib" /\ value = Zero
    /\ deadline' = addInterval(Now, d)
    /\ timeout' = Amount(Now) + Amount(d)
    /\ UNCHANGED <<library, class, value, failed, now>>
Tick ==
    /\ now < Infinite * PerSecond - 1
    /\ value = Zero
    /\ now' = now + 1
    /\ UNCHANGED <<library, class, value, failed, timeout, deadline>>

Next ==
    \/ \E d \in Values : Add(d) \/ Sub(d) \/ Assign(d) \/ CAdd(d) \/ CSubtract(d) \/ CAssign(d) \/ SetTimeout(d)
    \/ Tick

Spec == Init /\ [][Next]_timeVars

--------------------------------------------------------------------------------
(* Intervals, and the time stamps of OpenOSLib, stay in range through every     *)
(* sequence of operations; also when an exception cuts one of them short.       *)
InRangeForever ==
    library = "OpenOSLib" \/ (class = "TimeInterval" /\ library = "AsaacCppLib") => InRange(value)

(* Sums are exact up to infinity, differences of intervals down to zero, where  *)
(* a fraction of a second may be left over; and so are the results of the C     *)
(* functions that report success.  All comparisons agree on the order.          *)
Capped(a) == IF a >= Infinite * PerSecond THEN Amount(TimeInfinity) ELSE a
LeftOver(v) == v.sec = 0 /\ v.nsec < PerSecond
ExactStep ==
    \A d \in Values :
        /\ InRange(value) /\ Add(d) /\ ~failed' => Amount(value') = Capped(Amount(value) + Amount(d))
        /\ class = "TimeInterval" /\ Sub(d) =>
              \/ Amount(value') = Capped(Amount(value) - Amount(d))
              \/ Amount(value) < Amount(d) /\ LeftOver(value')
        /\ CAdd(d) /\ ~failed' => Amount(value') = Amount(value) + Amount(d)
        /\ CSubtract(d) /\ ~failed' =>
              /\ Amount(value') = Amount(value) - Amount(d)
              /\ Time_subtractTime(value, d) = value'
        /\ InRange(value) =>
              /\ Less(value, d) <=> Time_compare(value, d) = "Lower"
              /\ LessOrEqual(value, d) <=> ~Greater(value, d)
              /\ GreaterOrEqual(value, d) <=> ~Less(value, d)

(* The timeout of a call that is handed on as a time stamp and turned back into *)
(* an interval on the way is what is left of it, and at most the fraction of a  *)
(* second when it is over: never negative, never the time that went by.         *)
TimeoutIsKept ==
    ~isInfinity(deadline) =>
        \/ Amount(asaac_Interval(deadline)) = timeout - now
        \/ timeout < now /\ LeftOver(asaac_Interval(deadline))

================================================================================
