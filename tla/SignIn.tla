------------------------------- MODULE SignIn -------------------------------
(***************************************************************************)
(* Daily sign-in of one user. Each month has a bitmap in Redis with a bit    *)
(* per day. A request reads the clock once and takes the key and the bit     *)
(* from it; midnight, or the end of the month, may come before its command   *)
(* runs. The streak is what the bits up to that day end with. The practice   *)
(* server has the same code.                                                *)
(***************************************************************************)
EXTENDS Integers

CONSTANTS
    Requests,
    Months,
    MonthLength

\* What a value of the constants must satisfy.
ConstantsAssumption ==
    /\ Months \in Nat \ {0} /\ MonthLength \in Nat \ {0}

Days == 1..(Months * MonthLength)
Month(d) == (d - 1) \div MonthLength
DayOfMonth(d) == ((d - 1) % MonthLength) + 1

VARIABLES
    today,
    bitmap,    \* sign:<user>:<month>
    request,   \* what each request knows
    signed     \* history: days whose bit was set

vars == <<today, bitmap, request, signed>>

NoRequest == [op |-> "none"]

TypeOK ==
    /\ today \in Days
    /\ bitmap \in [0..(Months - 1) -> [0..(MonthLength - 1) -> {0, 1}]]
    /\ request \in [Requests -> {NoRequest} \cup [op : {"sign", "count"}, day : Days]
                       \cup [op : {"counted"}, day : Days, count : 0..MonthLength, of : SUBSET Days]]
    /\ signed \in SUBSET Days

-----------------------------------------------------------------------------

\* now.Day()-1: SETBIT counts from the first day of the month.
Offset(d) == DayOfMonth(d) - 1

\* Mutant of FieldWidth: the whole month is read.
FieldOfMonth(d) == MonthLength

\* u<day>: the bits up to the day, the day's own bit the lowest.
FieldWidth(d) == DayOfMonth(d)

\* BITFIELD GET from offset 0: the first bit is the highest.
Field(d) ==
    LET value[n \in 0..MonthLength] ==
            IF n = 0 THEN 0 ELSE 2 * value[n - 1] + bitmap[Month(d)][n - 1]
    IN  value[FieldWidth(d)]

TrailingOnes(bits) ==
    LET count[n \in 0..bits] == IF n % 2 = 1 THEN 1 + count[n \div 2] ELSE 0
    IN  count[bits]

\* A request arrives and reads the clock.
Ask(q) ==
    /\ request[q].op \in {"none", "counted"}
    /\ \E op \in {"sign", "count"} : request' = [request EXCEPT ![q] = [op |-> op, day |-> today]]
    /\ UNCHANGED <<today, bitmap, signed>>

\* SETBIT.
Sign(q) ==
    /\ request[q].op = "sign"
    /\ LET d == request[q].day
       IN  /\ bitmap' = [bitmap EXCEPT ![Month(d)][Offset(d)] = 1]
           /\ signed' = signed \cup {d}
    /\ request' = [request EXCEPT ![q] = NoRequest]
    /\ UNCHANGED today

\* BITFIELD GET, and the trailing ones of what it returns.
SignCount(q) ==
    /\ request[q].op = "count"
    /\ request' = [request EXCEPT ![q] = [op |-> "counted", day |-> @.day,
                      count |-> TrailingOnes(Field(@.day)), of |-> signed]]
    /\ UNCHANGED <<today, bitmap, signed>>

\* Redis fails, before or after it ran the command.
Fails(q) ==
    /\ request[q].op \in {"sign", "count"}
    /\ request' = [request EXCEPT ![q] = NoRequest]
    /\ UNCHANGED <<today, bitmap, signed>>

Midnight ==
    /\ today + 1 \in Days
    /\ today' = today + 1
    /\ UNCHANGED <<bitmap, request, signed>>

Init ==
    /\ today = 1
    /\ bitmap = [m \in 0..(Months - 1) |-> [i \in 0..(MonthLength - 1) |-> 0]]
    /\ request = [q \in Requests |-> NoRequest]
    /\ signed = {}

Next == Midnight \/ \E q \in Requests : Ask(q) \/ Sign(q) \/ SignCount(q) \/ Fails(q)

Spec == Init /\ [][Next]_vars

-----------------------------------------------------------------------------
(* Properties *)

\* The count is the number of days in a row that end with the day of the
\* request, within its month; zero when that day is not signed. Days that
\* others sign after it, in this month or the next, do not count.
StreakRight ==
    \A q \in Requests : request[q].op = "counted" =>
        LET d == request[q].day
            n == request[q].count
        IN  /\ n <= DayOfMonth(d)
            /\ \A k \in 0..(n - 1) : d - k \in request[q].of
            /\ n < DayOfMonth(d) => d - n \notin request[q].of

=============================================================================
