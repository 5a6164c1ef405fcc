------------------------------- MODULE Clock --------------------------------
(***************************************************************************)
(* Reading the real-time clock (src/src/driver/clock.c).  The chip goes on *)
(* while the driver reads one register after another, so read_rtc reads    *)
(* them all until two passes in a row agree, and decodes what it has.      *)
(*                                                                         *)
(* Time is counted in seconds from the first midnight of a month, and all  *)
(* months have the same days.  The registers of month and year, which      *)
(* change with the day's, are left out.                                    *)
(***************************************************************************)
EXTENDS Integers

CONSTANTS Starts,     \* when a read may begin
          Modes,      \* how the chip may be set: register B
          DAYS,       \* of a month
          MAX_TICKS,  \* the clock's ticks during two passes
          HORIZON     \* and during a whole read

ASSUME ClockAssumption ==
    /\ Starts \subseteq Nat
    /\ Modes \subseteq [binary : BOOLEAN, hours24 : BOOLEAN]
    /\ DAYS \in Nat \ {0}
    /\ MAX_TICKS \in 0 .. 59 /\ HORIZON \in Nat

INDONESIAN_HOUR_OFFSET == 7

Second == 1   \* the registers in the order in which they are read
Minute == 2
Hour == 3
Day == 4
Register == 1 .. 4

VARIABLES now,       \* the chip's time
          mode,      \* its register B
          updating,  \* its update-in-progress flag
          next,      \* the register to read next, 0 while waiting for the flag
          value,     \* second, minute, hour, day
          last,      \* last_second, last_minute, last_hour, last_day
          pass,      \* the pass of read_rtc: "first", "again", "done"
          read_at,   \* history: when value's seconds were read
          last_at    \* history: when last's were

vars == <<now, mode, updating, next, value, last, pass, read_at, last_at>>

-----------------------------------------------------------------------------
(* The chip *)

Bcd(n) == ((n \div 10) * 16) + (n % 10)

Number(n) == IF mode.binary THEN n ELSE Bcd(n)

\* Twelve-hour clocks count from 1 to 12 and mark the afternoon with a bit.
HourByte(hour) ==
    IF mode.hours24 THEN Number(hour)
    ELSE Number(IF hour % 12 = 0 THEN 12 ELSE hour % 12)
         + (IF hour >= 12 THEN 128 ELSE 0)

\* What a register holds at a time.
Holds(register, time) ==
    CASE register = Second -> Number(time % 60)
      [] register = Minute -> Number((time \div 60) % 60)
      [] register = Hour -> HourByte((time \div 3600) % 24)
      [] OTHER -> Number(1 + ((time \div 86400) % DAYS))

\* The chip announces an update and then makes it, at any moment of the read.
BeginUpdate ==
    /\ ~updating /\ now < last_at + MAX_TICKS
    /\ \E start \in Starts : now \in start .. (start + HORIZON)
    /\ updating' = TRUE
    /\ UNCHANGED <<now, mode, next, value, last, pass, read_at, last_at>>

Update ==
    /\ updating
    /\ updating' = FALSE
    /\ now' = now + 1
    /\ UNCHANGED <<mode, next, value, last, pass, read_at, last_at>>

-----------------------------------------------------------------------------
(* read_rtc *)

\* A comparison of the seconds only.
Agree_Seconds(a, b) == a[Second] = b[Second]

Agree(a, b) == \A register \in Register : a[register] = b[register]

\* The flag is down.
BeginPass ==
    /\ pass # "done" /\ next = 0 /\ ~updating
    /\ next' = Second
    /\ UNCHANGED <<now, mode, updating, value, last, pass, read_at, last_at>>

get_RTC_register ==
    /\ next \in Register
    /\ value' = [value EXCEPT ![next] = Holds(next, now)]
    /\ read_at' = IF next = Second THEN now ELSE read_at
    /\ next' = next + 1
    /\ UNCHANGED <<now, mode, updating, last, pass, last_at>>

\* The first pass, or one that does not agree with the pass before it, is kept
\* to compare the next one with.
EndPass ==
    /\ next = 5
    /\ next' = 0
    /\ IF pass = "again" /\ Agree(last, value)
       THEN pass' = "done" /\ UNCHANGED <<last, last_at>>
       ELSE pass' = "again" /\ last' = value /\ last_at' = read_at
    /\ UNCHANGED <<now, mode, updating, value, read_at>>

-----------------------------------------------------------------------------
(* What is made of the registers *)

FromBcd(b) == (b % 16) + ((b \div 16) * 10)

Decoded(b) == IF mode.binary THEN b ELSE FromBcd(b)

Afternoon(b) == b >= 128

DecodedHour(b) ==
    LET hour == IF mode.binary THEN b % 128
                ELSE (b % 16) + (((b \div 16) % 8) * 10)
    IN  IF ~mode.hours24 /\ Afternoon(b) THEN (hour + 12) % 24 ELSE hour

\* A shift that leaves the date as it is.
Shifted_SameDay(time) ==
    [time EXCEPT !.hour = (@ + INDONESIAN_HOUR_OFFSET) % 24]

Shifted(time) ==
    LET hour == time.hour + INDONESIAN_HOUR_OFFSET
    IN  IF hour >= 24
        THEN [time EXCEPT !.hour = hour - 24, !.day = time.day + 1]
        ELSE [time EXCEPT !.hour = hour]

get_indonesian_time ==
    Shifted([second |-> Decoded(value[Second]), minute |-> Decoded(value[Minute]),
             hour |-> DecodedHour(value[Hour]), day |-> Decoded(value[Day])])

-----------------------------------------------------------------------------
(* The system *)

Init ==
    /\ now \in Starts
    /\ mode \in Modes
    /\ updating = FALSE
    /\ next = 0
    /\ value = [register \in Register |-> 0]
    /\ last = [register \in Register |-> 0]
    /\ pass = "first"
    /\ read_at = now
    /\ last_at = now

Next ==
    \/ BeginUpdate
    \/ Update
    \/ BeginPass
    \/ get_RTC_register
    \/ EndPass

Spec == Init /\ [][Next]_vars

-----------------------------------------------------------------------------
(* Properties *)

\* Whatever the chip did in between, the registers that read_rtc settles for are
\* those of one moment: no minute before the hour it belongs to, no midnight of
\* the wrong day.
ReadIsOfOneMoment ==
    pass = "done" => \A register \in Register : value[register] = Holds(register, read_at)

\* The time of a moment, seven hours east.
LocalTime(time) ==
    LET t == time + INDONESIAN_HOUR_OFFSET * 3600
    IN  [second |-> t % 60, minute |-> (t \div 60) % 60,
         hour |-> (t \div 3600) % 24, day |-> 1 + ((t \div 86400) % DAYS)]

\* The hours from noon and from midnight on a chip that counts to twelve.
CountsTwelve(time) == ~mode.hours24 /\ (time \div 3600) % 12 = 0

\* The last evening of a month, when the next has begun seven hours east.
LastEvening(time) ==
    /\ (time \div 86400) % DAYS = DAYS - 1
    /\ ((time \div 3600) % 24) + INDONESIAN_HOUR_OFFSET >= 24

\* What is returned is the local time of that moment, at any time and in each mode
\* of the chip, with these two errors and no other: noon and midnight are taken for
\* each other in the twelve-hour modes, and a month is never left.
LocalTimeIsTrue ==
    pass = "done" =>
        LET time == get_indonesian_time
            true == LocalTime(read_at)
        IN  /\ time.second = true.second /\ time.minute = true.minute
            /\ time.hour = IF CountsTwelve(read_at) THEN (true.hour + 12) % 24 ELSE true.hour
            /\ time.day = IF LastEvening(read_at) THEN DAYS + 1 ELSE true.day

=============================================================================
