---------------------------- MODULE Clock_proofs ----------------------------
(***************************************************************************)
(* Proofs about reading the clock.  The argument is about the seconds: a   *)
(* pass lasts less than a minute, so two passes that read the same second  *)
(* read it at the same time, and everything the earlier pass read after    *)
(* its seconds and before those of the later one is of that time too.      *)
(* What is then made of the registers is arithmetic, for any time.         *)
(***************************************************************************)
EXTENDS Clock, TLAPS

TypeInv ==
    /\ now \in Nat
    /\ mode \in [binary : BOOLEAN, hours24 : BOOLEAN]
    /\ updating \in BOOLEAN
    /\ next \in 0 .. 5
    /\ value \in [Register -> Int]
    /\ last \in [Register -> Int]
    /\ pass \in {"first", "again", "done"}
    /\ read_at \in Nat
    /\ last_at \in Nat

\* Two passes are short enough.
Slow ==
    /\ last_at <= read_at /\ read_at <= now
    /\ now <= last_at + MAX_TICKS
    /\ updating => now < last_at + MAX_TICKS

\* The moment by which the earlier pass had read its last register.
LastEnd == IF next >= 2 THEN read_at ELSE now

Seconds ==
    /\ next >= 2 => value[Second] = Holds(Second, read_at)
    /\ pass = "again" => last[Second] = Holds(Second, last_at)

LastPass ==
    pass = "again" =>
        \A register \in Register : \E t \in last_at .. LastEnd :
            last[register] = Holds(register, t)

ThisPass ==
    \A register \in Register :
        register < next => \E t \in read_at .. now :
            value[register] = Holds(register, t)

IInv ==
    /\ TypeInv
    /\ Slow
    /\ Seconds
    /\ LastPass
    /\ ThisPass
    /\ pass = "done" => next = 0
    /\ ReadIsOfOneMoment

-----------------------------------------------------------------------------

\* What the chip counts with tells the seconds of a minute apart.
LEMMA NumberTellsApart ==
    ASSUME mode \in [binary : BOOLEAN, hours24 : BOOLEAN],
           NEW m \in 0 .. 59, NEW n \in 0 .. 59, Number(m) = Number(n)
    PROVE  m = n
  <1>1. CASE mode.binary
    BY <1>1 DEF Number
  <1>2. CASE ~mode.binary
    <2>1. Bcd(m) = Bcd(n)
      BY <1>2 DEF Number
    <2> QED
      BY <2>1, SMTT(30) DEF Bcd
  <1> QED
    BY <1>1, <1>2

\* Two moments less than a minute apart that show one second are the same.
LEMMA SecondsTellApart ==
    ASSUME mode \in [binary : BOOLEAN, hours24 : BOOLEAN],
           NEW t \in Nat, NEW u \in Nat, t <= u, u <= t + 59,
           Holds(Second, t) = Holds(Second, u)
    PROVE  t = u
  <1>1. t % 60 \in 0 .. 59 /\ u % 60 \in 0 .. 59
    OBVIOUS
  <1>2. \A v \in Nat : Holds(Second, v) = Number(v % 60)
    BY DEF Holds, Second, Minute, Hour
  <1>3. Number(t % 60) = Number(u % 60)
    BY <1>2
  <1>4. t % 60 = u % 60
    BY <1>1, <1>3, NumberTellsApart
  <1> QED
    BY <1>4

\* A register holds a number.
LEMMA HoldsType ==
    ASSUME mode \in [binary : BOOLEAN, hours24 : BOOLEAN],
           NEW register \in Register, NEW t \in Nat
    PROVE  Holds(register, t) \in Int
  <1>1. \A n \in Int : Number(n) \in Int
    BY DEF Number, Bcd
  <1>2. /\ t % 60 \in Int /\ (t \div 60) % 60 \in Int
        /\ (t \div 3600) % 24 \in Int /\ 1 + ((t \div 86400) % DAYS) \in Int
    BY ClockAssumption
  <1>3. HourByte((t \div 3600) % 24) \in Int
    <2> DEFINE hour == (t \div 3600) % 24
    <2>1. (IF hour % 12 = 0 THEN 12 ELSE hour % 12) \in Int
      BY <1>2
    <2>2. HourByte(hour) = IF mode.hours24 THEN Number(hour)
              ELSE Number(IF hour % 12 = 0 THEN 12 ELSE hour % 12)
                   + (IF hour >= 12 THEN 128 ELSE 0)
      BY DEF HourByte
    <2> HIDE DEF hour
    <2> QED
      BY <1>1, <1>2, <2>1, <2>2 DEF hour
  <1> QED
    BY <1>1, <1>2, <1>3 DEF Holds, Register, Second, Minute, Hour

LEMMA InitIInv == Init => IInv
  <1> SUFFICES ASSUME Init PROVE IInv
    OBVIOUS
  <1>1. TypeInv
    <2>1. now \in Nat /\ mode \in [binary : BOOLEAN, hours24 : BOOLEAN]
      BY ClockAssumption, Zenon DEF Init
    <2>2. next \in 0 .. 5 /\ 0 \in Int
      BY DEF Init
    <2> QED
      BY <2>1, <2>2, Zenon DEF Init, TypeInv
  <1>2. Slow
    BY <1>1, ClockAssumption DEF Init, TypeInv, Slow
  <1>3. Seconds /\ LastPass /\ ReadIsOfOneMoment
    BY DEF Init, Seconds, LastPass, ReadIsOfOneMoment
  <1>4. ThisPass
    BY DEF Init, ThisPass, Register
  <1>5. pass = "done" => next = 0
    BY DEF Init
  <1> QED
    BY <1>1, <1>2, <1>3, <1>4, <1>5 DEF IInv

-----------------------------------------------------------------------------

\* The chip and the driver keep the invariant.
LEMMA StepIInv == IInv /\ [Next]_vars => IInv'
  <1> SUFFICES ASSUME IInv, [Next]_vars PROVE IInv'
    OBVIOUS
  <1> USE DEF IInv
  <1> HIDE DEF Holds
  <1>1. CASE BeginUpdate
    <2> USE <1>1 DEF BeginUpdate
    <2>1. mode' = mode /\ \A r, t : Holds(r, t)' = Holds(r, t)
      BY DEF Holds, HourByte, Number
    <2>2. TypeInv' /\ Slow'
      BY ClockAssumption DEF TypeInv, Slow
    <2>3. Seconds' /\ LastPass' /\ ThisPass' /\ ReadIsOfOneMoment'
      BY <2>1 DEF Seconds, LastPass, LastEnd, ThisPass, ReadIsOfOneMoment
    <2> QED
      BY <2>2, <2>3
  <1>2. CASE Update
    <2> USE <1>2 DEF Update
    <2>1. mode' = mode /\ \A r, t : Holds(r, t)' = Holds(r, t)
      BY DEF Holds, HourByte, Number
    <2>2. /\ TypeInv'
          /\ Slow'
      <3>1. MAX_TICKS \in Nat
        BY ClockAssumption
      <3>2. now' \in Nat
        BY DEF TypeInv
      <3>3. TypeInv'
        BY <3>2, Zenon DEF TypeInv
      <3>4. Slow'
        BY <3>1 DEF TypeInv, Slow
      <3> QED
        BY <3>3, <3>4
    <2>3. \A a : a \in read_at .. now => a \in read_at .. now'
      BY DEF TypeInv
    <2>4. \A a : a \in last_at .. LastEnd => a \in last_at .. LastEnd'
      BY DEF TypeInv, LastEnd
    <2>5. ThisPass'
      BY <2>1, <2>3 DEF ThisPass
    <2>6. LastPass'
      BY <2>1, <2>4 DEF LastPass
    <2>7. Seconds' /\ ReadIsOfOneMoment'
      BY <2>1 DEF Seconds, ReadIsOfOneMoment
    <2> QED
      BY <2>2, <2>5, <2>6, <2>7
  <1>3. CASE BeginPass
    <2> USE <1>3 DEF BeginPass
    <2>1. mode' = mode /\ \A r, t : Holds(r, t)' = Holds(r, t)
      BY DEF Holds, HourByte, Number
    <2>2. TypeInv' /\ Slow'
      BY ClockAssumption DEF TypeInv, Slow, Second
    <2>3. LastEnd' = LastEnd
      BY DEF LastEnd, Second
    <2>4. LastPass'
      BY <2>1, <2>3 DEF LastPass
    <2>5. Seconds' /\ ThisPass' /\ ReadIsOfOneMoment'
      BY <2>1 DEF Seconds, ThisPass, ReadIsOfOneMoment, Second, Register
    <2> QED
      BY <2>2, <2>4, <2>5
  <1>4. CASE get_RTC_register
    <2> USE <1>4 DEF get_RTC_register
    <2>1. mode' = mode /\ \A r, t : Holds(r, t)' = Holds(r, t)
      BY DEF Holds, HourByte, Number
    <2>2. next \in 1 .. 4 /\ next' = next + 1 /\ pass # "done"
      BY DEF Register, TypeInv
    <2>3. Holds(next, now) \in Int
      BY HoldsType DEF TypeInv
    <2>4. TypeInv'
      BY <2>2, <2>3 DEF TypeInv, Register
    <2>5. Slow'
      BY DEF Slow, TypeInv
    <2>6. value'[next] = Holds(next, now)
          /\ \A r \in Register : r # next => value'[r] = value[r]
      BY DEF TypeInv
    <2>7. CASE next = Second
      <3>1. read_at' = now /\ next' = 2 /\ LastEnd' = now /\ LastEnd = now
        BY <2>7 DEF Second, LastEnd
      <3>2. LastPass'
        BY <2>1, <3>1 DEF LastPass
      <3>3. Seconds'
        BY <2>1, <2>6, <2>7, <3>1 DEF Seconds
      <3>4. ThisPass'
        <4> SUFFICES ASSUME NEW r \in Register, r < next'
                     PROVE  \E t \in read_at' .. now' : value'[r] = Holds(r, t)'
          BY DEF ThisPass
        <4>1. r = next
          BY <2>7, <3>1 DEF Register, Second
        <4>2. now \in read_at' .. now'
          BY <3>1 DEF TypeInv
        <4> QED
          BY <2>1, <2>6, <4>1, <4>2
      <3> QED
        BY <2>2, <2>4, <2>5, <3>2, <3>3, <3>4 DEF ReadIsOfOneMoment
    <2>8. CASE next # Second
      <3>1. read_at' = read_at /\ next >= 2 /\ next' >= 2 /\ LastEnd' = LastEnd
        BY <2>2, <2>8 DEF Second, LastEnd
      <3>2. LastPass'
        BY <2>1, <3>1 DEF LastPass
      <3>3. value'[Second] = value[Second]
        BY <2>6, <2>8 DEF Second, Register
      <3>4. Seconds'
        BY <2>1, <3>1, <3>3 DEF Seconds
      <3>5. ThisPass'
        <4> SUFFICES ASSUME NEW r \in Register, r < next'
                     PROVE  \E t \in read_at' .. now' : value'[r] = Holds(r, t)'
          BY DEF ThisPass
        <4>1. CASE r = next
          <5>1. now \in read_at' .. now'
            BY <3>1 DEF TypeInv, Slow
          <5> QED
            BY <2>1, <2>6, <4>1, <5>1
        <4>2. CASE r # next
          <5>1. r < next
            BY <2>2, <4>2 DEF Register
          <5> QED
            BY <2>1, <2>6, <3>1, <4>2, <5>1 DEF ThisPass
        <4> QED
          BY <4>1, <4>2
      <3> QED
        BY <2>2, <2>4, <2>5, <3>2, <3>4, <3>5 DEF ReadIsOfOneMoment
    <2> QED
      BY <2>7, <2>8
  <1>5. CASE EndPass
    <2> USE <1>5 DEF EndPass
    <2>1. mode' = mode /\ \A r, t : Holds(r, t)' = Holds(r, t)
      BY DEF Holds, HourByte, Number
    <2>2. next = 5 /\ next' = 0 /\ pass # "done"
      BY DEF TypeInv
    <2>3. CASE pass = "again" /\ Agree(last, value)
      <3>1. value[Second] = last[Second]
        BY <2>3 DEF Agree, Register, Second
      <3>2. Holds(Second, last_at) = Holds(Second, read_at)
        BY <2>2, <2>3, <3>1 DEF Seconds
      <3>3. last_at = read_at
        BY <3>2, SecondsTellApart, ClockAssumption DEF Slow, TypeInv
      <3>4. LastEnd = read_at
        BY <2>2 DEF LastEnd
      <3>5. \A r \in Register : value[r] = Holds(r, read_at)
        <4> SUFFICES ASSUME NEW r \in Register
                     PROVE  value[r] = Holds(r, read_at)
          OBVIOUS
        <4>1. PICK t \in last_at .. LastEnd : last[r] = Holds(r, t)
          BY <2>3 DEF LastPass
        <4>2. t = read_at
          BY <3>3, <3>4, <4>1 DEF TypeInv
        <4> QED
          BY <2>3, <4>1, <4>2 DEF Agree
      <3>6. ReadIsOfOneMoment'
        BY <2>1, <3>5 DEF ReadIsOfOneMoment
      <3>7. TypeInv' /\ Slow'
        BY <2>3 DEF TypeInv, Slow
      <3>8. Seconds' /\ LastPass' /\ ThisPass'
        BY <2>2, <2>3 DEF Seconds, LastPass, ThisPass, Register
      <3> QED
        BY <2>2, <3>6, <3>7, <3>8
    <2>4. CASE ~(pass = "again" /\ Agree(last, value))
      <3>1. pass' = "again" /\ last' = value /\ last_at' = read_at
            /\ read_at' = read_at /\ now' = now
        BY <2>4
      <3>2. TypeInv' /\ Slow'
        BY <3>1, ClockAssumption DEF TypeInv, Slow
      <3>3. Seconds'
        BY <2>1, <2>2, <3>1 DEF Seconds
      <3>4. LastPass'
        <4>1. LastEnd' = now
          BY <2>2, <3>1 DEF LastEnd
        <4>2. \A r \in Register : r < next
          BY <2>2 DEF Register
        <4> QED
          BY <2>1, <3>1, <4>1, <4>2 DEF LastPass, ThisPass
      <3>5. ThisPass' /\ ReadIsOfOneMoment'
        BY <2>2, <3>1 DEF ThisPass, Register, ReadIsOfOneMoment
      <3> QED
        BY <2>2, <3>1, <3>2, <3>3, <3>4, <3>5
    <2> QED
      BY <2>3, <2>4
  <1>6. CASE UNCHANGED vars
    <2>1. mode' = mode /\ \A r, t : Holds(r, t)' = Holds(r, t)
      BY <1>6 DEF vars, Holds, HourByte, Number
    <2> QED
      BY <1>6, <2>1
      DEF vars, TypeInv, Slow, Seconds, LastPass, LastEnd, ThisPass, ReadIsOfOneMoment
  <1> QED
    BY <1>1, <1>2, <1>3, <1>4, <1>5, <1>6 DEF Next

\* read_rtc settles for the registers of one moment, for every set of times at
\* which reads begin, as long as two passes take less than a minute.
THEOREM OneMoment == Spec => []ReadIsOfOneMoment
  <1>1. IInv => ReadIsOfOneMoment
    BY DEF IInv
  <1> QED
    BY <1>1, InitIInv, StepIInv, PTL DEF Spec

-----------------------------------------------------------------------------
(* What is made of the registers *)

\* BCD is read back as what was counted.
LEMMA BcdDecodes == \A n \in Nat : FromBcd(Bcd(n)) = n
  <1> SUFFICES ASSUME NEW n \in Nat PROVE FromBcd(Bcd(n)) = n
    OBVIOUS
  <1> DEFINE tens == n \div 10
             ones == n % 10
  <1>1. tens \in Nat /\ ones \in 0 .. 9 /\ n = 10 * tens + ones
    OBVIOUS
  <1>2. Bcd(n) = tens * 16 + ones
    BY DEF Bcd
  <1> HIDE DEF tens, ones
  <1>3. (tens * 16 + ones) % 16 = ones /\ (tens * 16 + ones) \div 16 = tens
    BY <1>1
  <1> QED
    BY <1>1, <1>2, <1>3 DEF FromBcd

LEMMA NumberDecodes ==
    ASSUME mode \in [binary : BOOLEAN, hours24 : BOOLEAN], NEW n \in Nat
    PROVE  Decoded(Number(n)) = n
  BY BcdDecodes DEF Decoded, Number

\* The hours from noon and from midnight are read back as each other's on a chip that
\* counts to twelve.
LEMMA TwelveDecodes ==
    ASSUME mode \in [binary : BOOLEAN, hours24 : BOOLEAN], NEW hour \in {0, 12},
           ~mode.hours24
    PROVE  DecodedHour(HourByte(hour)) = (hour + 12) % 24
  <1>1. mode.binary \in BOOLEAN
    OBVIOUS
  <1>2. Bcd(12) = 18
    BY DEF Bcd
  <1>3. HourByte(hour) = Number(12) + (IF hour = 12 THEN 128 ELSE 0)
    BY DEF HourByte
  <1>4. CASE mode.binary
    BY <1>3, <1>4 DEF Number, DecodedHour, Afternoon
  <1>5. CASE ~mode.binary
    BY <1>2, <1>3, <1>5 DEF Number, DecodedHour, Afternoon
  <1> QED
    BY <1>1, <1>4, <1>5

\* Any other hour is read back in each mode.
LEMMA HourDecodes ==
    ASSUME mode \in [binary : BOOLEAN, hours24 : BOOLEAN], NEW hour \in 0 .. 23,
           mode.hours24 \/ hour % 12 # 0
    PROVE  DecodedHour(HourByte(hour)) = hour
  <1>0. mode.binary \in BOOLEAN /\ mode.hours24 \in BOOLEAN
    OBVIOUS
  <1>1. \A h \in 0 .. 23 : /\ Bcd(h) \in 0 .. 35 /\ Bcd(h) % 16 = h % 10
                           /\ Bcd(h) \div 16 = h \div 10
    BY DEF Bcd
  <1>2. CASE mode.hours24
    <2>1. CASE mode.binary
      BY <1>2, <2>1 DEF DecodedHour, HourByte, Number
    <2>2. CASE ~mode.binary
      <3>1. (Bcd(hour) % 16) + (((Bcd(hour) \div 16) % 8) * 10) = hour
        BY <1>1
      <3> QED
        BY <1>2, <2>2, <3>1 DEF DecodedHour, HourByte, Number
    <2> QED
      BY <2>1, <2>2
  <1>3. CASE ~mode.hours24
    <2> DEFINE h == hour % 12
               mark == IF hour >= 12 THEN 128 ELSE 0
    <2>1. h \in 1 .. 11 /\ hour = IF hour >= 12 THEN (h + 12) % 24 ELSE h
      BY <1>3
    <2>2. HourByte(hour) = Number(h) + mark
      BY <1>3, <2>1 DEF HourByte
    <2>3. mark = (IF hour >= 12 THEN 128 ELSE 0)
      OBVIOUS
    <2> HIDE DEF h, mark
    <2>4. CASE mode.binary
      <3>1. HourByte(hour) = h + mark
        BY <2>2, <2>4 DEF Number
      <3>2. (h + mark) % 128 = h /\ ((h + mark) >= 128 <=> hour >= 12)
        BY <2>1, <2>3
      <3> QED
        BY <1>3, <2>1, <2>4, <3>1, <3>2 DEF DecodedHour, Afternoon
    <2>5. CASE ~mode.binary
      <3>1. HourByte(hour) = Bcd(h) + mark
        BY <2>2, <2>5 DEF Number
      <3>2. /\ Bcd(h) \in 0 .. 35 /\ Bcd(h) % 16 = h % 10
            /\ Bcd(h) \div 16 = h \div 10
        BY <1>1, <2>1
      <3>3. /\ (Bcd(h) + mark) % 16 = h % 10
            /\ ((Bcd(h) + mark) \div 16) % 8 = h \div 10
            /\ (Bcd(h) + mark >= 128 <=> hour >= 12)
        <4>1. \A b \in 0 .. 35 : /\ (b + 128) % 16 = b % 16
                                /\ ((b + 128) \div 16) % 8 = b \div 16
                                /\ (b \div 16) % 8 = b \div 16
          OBVIOUS
        <4>2. CASE hour >= 12
          BY <2>3, <3>2, <4>1, <4>2
        <4>3. CASE ~(hour >= 12)
          BY <2>3, <3>2, <4>1, <4>3
        <4> QED
          BY <4>2, <4>3
      <3>4. (h % 10) + ((h \div 10) * 10) = h
        BY <2>1
      <3> QED
        BY <1>3, <2>1, <2>5, <3>1, <3>3, <3>4 DEF DecodedHour, Afternoon
    <2> QED
      BY <2>4, <2>5
  <1> QED
    BY <1>2, <1>3

Time == [second : Int, minute : Int, hour : Int, day : Int]

\* What the shift does to each part of a time.
LEMMA ShiftedParts ==
    ASSUME NEW r \in Time
    PROVE  Shifted(r) = [second |-> r.second, minute |-> r.minute,
                hour |-> IF r.hour + 7 >= 24 THEN r.hour + 7 - 24 ELSE r.hour + 7,
                day |-> IF r.hour + 7 >= 24 THEN r.day + 1 ELSE r.day]
  <1> DEFINE hour == r.hour + 7
             x == Shifted(r)
  <1>1. \A z \in Time : z = [second |-> z.second, minute |-> z.minute,
                              hour |-> z.hour, day |-> z.day]
    BY DEF Time
  <1>2. r.hour \in Int /\ r.day \in Int
    BY DEF Time
  <1>3. CASE hour >= 24
    <2>1. x = [r EXCEPT !.hour = hour - 24, !.day = r.day + 1]
      BY <1>3, Zenon DEF Shifted, INDONESIAN_HOUR_OFFSET
    <2>2. hour - 24 \in Int /\ r.day + 1 \in Int
      BY <1>2
    <2> HIDE DEF x, hour
    <2>3. /\ x \in Time /\ x.second = r.second /\ x.minute = r.minute
          /\ x.hour = hour - 24 /\ x.day = r.day + 1
      BY <2>1, <2>2 DEF Time
    <2>4. x = [second |-> r.second, minute |-> r.minute, hour |-> hour - 24,
               day |-> r.day + 1]
      BY <1>1, <2>3
    <2> QED
      BY <1>2, <1>3, <2>4 DEF x, hour
  <1>4. CASE ~(hour >= 24)
    <2>1. x = [r EXCEPT !.hour = hour]
      BY <1>4, Zenon DEF Shifted, INDONESIAN_HOUR_OFFSET
    <2>2. hour \in Int
      BY <1>2
    <2> HIDE DEF x, hour
    <2>3. /\ x \in Time /\ x.second = r.second /\ x.minute = r.minute
          /\ x.hour = hour /\ x.day = r.day
      BY <2>1, <2>2 DEF Time
    <2>4. x = [second |-> r.second, minute |-> r.minute, hour |-> hour, day |-> r.day]
      BY <1>1, <2>3
    <2> QED
      BY <1>2, <1>4, <2>4 DEF x, hour
  <1> QED
    BY <1>3, <1>4

\* The day after the last of a month is the first.
LEMMA NextDay ==
    ASSUME NEW D \in Nat \ {0}, NEW k \in Nat
    PROVE  /\ k % D \in 0 .. (D - 1)
           /\ (k + 1) % D = IF k % D = D - 1 THEN 0 ELSE (k % D) + 1
  <1> DEFINE q == k \div D
             r == k % D
             q2 == (k + 1) \div D
             r2 == (k + 1) % D
  <1>1. /\ q \in Nat /\ r \in Nat /\ r < D /\ k = D * q + r
        /\ q2 \in Nat /\ r2 \in Nat /\ r2 < D /\ k + 1 = D * q2 + r2
    OBVIOUS
  <1> HIDE DEF q, r, q2, r2
  <1>2. D * (q2 - q) = r + 1 - r2
    BY <1>1
  <1>3. \A m \in Int : m > 1 => D * m >= D + D
    OBVIOUS
  <1>4. \A m \in Int : m < 0 => D * m <= 0 - D
    OBVIOUS
  <1>5. q2 - q \in {0, 1}
    <2>1. q2 - q \in Int
      BY <1>1
    <2>2. ~(q2 - q > 1)
      BY <1>1, <1>2, <1>3, <2>1
    <2>3. ~(q2 - q < 0)
      BY <1>1, <1>2, <1>4, <2>1
    <2> QED
      BY <2>1, <2>2, <2>3
  <1>6. D * 0 = 0 /\ D * 1 = D
    OBVIOUS
  <1>7. r + 1 - r2 = 0 \/ r + 1 - r2 = D
    BY <1>2, <1>5, <1>6
  <1>8. r \in 0 .. (D - 1) /\ r2 = IF r = D - 1 THEN 0 ELSE r + 1
    BY <1>1, <1>7
  <1> QED
    BY <1>8 DEF r, r2

\* The parts of a time.
SecondOf(t) == t % 60
MinuteOf(t) == (t \div 60) % 60
HourOf(t) == (t \div 3600) % 24
DayOf(t) == 1 + ((t \div 86400) % DAYS)

\* Seven hours later the hour has wrapped and the day gone on, or neither; and that
\* a month has ended goes unnoticed.
LEMMA ShiftIsLocal ==
    ASSUME NEW t \in Nat
    PROVE  LET hour == HourOf(t)
               day == DayOf(t)
               true == LocalTime(t)
           IN  /\ true.second = SecondOf(t) /\ true.minute = MinuteOf(t)
               /\ true.hour = IF hour + 7 >= 24 THEN hour + 7 - 24 ELSE hour + 7
               /\ LastEvening(t) => hour + 7 >= 24 /\ day = DAYS
               /\ ~LastEvening(t) => true.day = IF hour + 7 >= 24 THEN day + 1 ELSE day
  <1> DEFINE u == t + 25200
             hour == (t \div 3600) % 24
             date == t \div 86400
             day == 1 + (date % DAYS)
             true == LocalTime(t)
  <1>1. /\ u % 60 = t % 60
        /\ (u \div 60) % 60 = (t \div 60) % 60
    <2>1. u \div 60 = (t \div 60) + 420
      OBVIOUS
    <2> QED
      BY <2>1
  <1>2. u \div 3600 = (t \div 3600) + 7 /\ t \div 3600 \in Nat
    OBVIOUS
  <1>3. /\ t \div 86400 = (t \div 3600) \div 24
        /\ u \div 86400 = (u \div 3600) \div 24
    OBVIOUS
  <1>4. \A n \in Nat :
            IF (n % 24) + 7 >= 24
            THEN (n + 7) % 24 = (n % 24) + 7 - 24 /\ (n + 7) \div 24 = (n \div 24) + 1
            ELSE (n + 7) % 24 = (n % 24) + 7 /\ (n + 7) \div 24 = n \div 24
    OBVIOUS
  <1>5. IF hour + 7 >= 24
        THEN (u \div 3600) % 24 = hour + 7 - 24 /\ u \div 86400 = date + 1
        ELSE (u \div 3600) % 24 = hour + 7 /\ u \div 86400 = date
    BY <1>2, <1>3, <1>4
  <1>6. true = [second |-> SecondOf(u), minute |-> MinuteOf(u),
                hour |-> HourOf(u), day |-> DayOf(u)]
    BY DEF LocalTime, INDONESIAN_HOUR_OFFSET, SecondOf, MinuteOf, HourOf, DayOf
  <1>7. /\ true.second = SecondOf(u) /\ true.minute = MinuteOf(u)
        /\ true.hour = HourOf(u) /\ true.day = DayOf(u)
    <2>1. \A x, a, b, c, d : x = [second |-> a, minute |-> b, hour |-> c, day |-> d] =>
              x.second = a /\ x.minute = b /\ x.hour = c /\ x.day = d
      OBVIOUS
    <2> HIDE DEF u, true
    <2> QED
      BY <1>6, <2>1, Zenon
  <1>8. LastEvening(t) <=> date % DAYS = DAYS - 1 /\ hour + 7 >= 24
    BY DEF LastEvening, INDONESIAN_HOUR_OFFSET
  <1>9. date \in Nat /\ hour \in Nat /\ DAYS \in Nat \ {0}
    BY ClockAssumption
  <1> HIDE DEF u, hour, date, true
  <1>10. /\ date % DAYS \in 0 .. (DAYS - 1)
         /\ (date + 1) % DAYS = IF date % DAYS = DAYS - 1 THEN 0 ELSE (date % DAYS) + 1
    BY <1>9, NextDay
  <1>11. LastEvening(t) => hour + 7 >= 24 /\ day = DAYS
    BY <1>8, <1>9
  <1>12. true.hour = IF hour + 7 >= 24 THEN hour + 7 - 24 ELSE hour + 7
    BY <1>5, <1>7 DEF HourOf
  <1>13. ASSUME ~LastEvening(t)
         PROVE  true.day = IF hour + 7 >= 24 THEN day + 1 ELSE day
    <2>1. CASE hour + 7 >= 24
      <3>1. date % DAYS # DAYS - 1
        BY <1>8, <1>13, <2>1
      <3>2. true.day = 1 + ((date + 1) % DAYS)
        BY <1>5, <1>7, <2>1 DEF DayOf
      <3> QED
        BY <1>10, <2>1, <3>1, <3>2
    <2>2. CASE ~(hour + 7 >= 24)
      BY <1>5, <1>7, <2>2 DEF DayOf
    <2> QED
      BY <2>1, <2>2
  <1>14. true.second = SecondOf(t) /\ true.minute = MinuteOf(t)
    BY <1>1, <1>7 DEF SecondOf, MinuteOf
  <1> DEFINE d == DayOf(t)
  <1>15. d = day /\ HourOf(t) = hour
    BY DEF DayOf, HourOf, date, hour
  <1> HIDE DEF day, d
  <1> QED
    BY <1>11, <1>12, <1>13, <1>14, <1>15 DEF true, d

\* What is returned is the local time of the moment it was read, for every time and
\* in each mode of the chip, whatever the length of the month, but for two errors
\* and no other: a chip that counts to twelve has its noon and midnight taken for
\* each other, and on the last evening of a month the day is one that it has not.
THEOREM TimeIsLocal == Spec => []LocalTimeIsTrue
  <1>1. IInv => LocalTimeIsTrue
    <2> SUFFICES ASSUME IInv, pass = "done"
                 PROVE  LocalTimeIsTrue
      BY DEF LocalTimeIsTrue
    <2> DEFINE second == SecondOf(read_at)
               minute == MinuteOf(read_at)
               hour == HourOf(read_at)
               day == DayOf(read_at)
               read == IF CountsTwelve(read_at) THEN (hour + 12) % 24 ELSE hour
               true == LocalTime(read_at)
               time == get_indonesian_time
    <2>1. read_at \in Nat /\ mode \in [binary : BOOLEAN, hours24 : BOOLEAN]
      BY DEF IInv, TypeInv
    <2>2. /\ value[Second] = Number(second) /\ value[Minute] = Number(minute)
          /\ value[Hour] = HourByte(hour) /\ value[Day] = Number(day)
      BY DEF IInv, ReadIsOfOneMoment, Holds, Register, Second, Minute, Hour, Day,
             SecondOf, MinuteOf, HourOf, DayOf
    <2>3. /\ second \in Nat /\ minute \in Nat /\ hour \in 0 .. 23 /\ day \in Nat
      BY <2>1, ClockAssumption DEF SecondOf, MinuteOf, HourOf, DayOf
    <2>4. CountsTwelve(read_at) <=> ~mode.hours24 /\ hour \in {0, 12}
      <3>1. \A n \in Nat : n % 12 = 0 <=> n % 24 \in {0, 12}
        OBVIOUS
      <3>2. read_at \div 3600 \in Nat
        BY <2>1
      <3> QED
        BY <3>1, <3>2 DEF CountsTwelve, HourOf
    <2>5. /\ true.second = second /\ true.minute = minute
          /\ true.hour = IF hour + 7 >= 24 THEN hour + 7 - 24 ELSE hour + 7
          /\ LastEvening(read_at) => hour + 7 >= 24 /\ day = DAYS
          /\ ~LastEvening(read_at) => true.day = IF hour + 7 >= 24 THEN day + 1 ELSE day
      BY <2>1, ShiftIsLocal, Zenon
    <2> HIDE DEF second, minute, hour, day, true
    <2>6. DecodedHour(value[Hour]) = read
      <3>1. CASE CountsTwelve(read_at)
        BY <2>1, <2>2, <2>4, <3>1, TwelveDecodes
      <3>2. CASE ~CountsTwelve(read_at)
        <4>1. mode.hours24 \/ hour % 12 # 0
          <5>1. hour \in {0, 12} \/ hour % 12 # 0
            BY <2>3
          <5> QED
            BY <2>4, <3>2, <5>1
        <4> QED
          BY <2>1, <2>2, <2>3, <3>2, <4>1, HourDecodes
      <3> QED
        BY <3>1, <3>2
    <2>7. /\ Decoded(value[Second]) = second /\ Decoded(value[Minute]) = minute
          /\ Decoded(value[Day]) = day
      BY <2>1, <2>2, <2>3, NumberDecodes
    <2> DEFINE r == [second |-> second, minute |-> minute, hour |-> read, day |-> day]
    <2>8. time = Shifted(r)
      BY <2>6, <2>7 DEF get_indonesian_time
    <2>9. read \in 0 .. 23
      BY <2>3
    <2>10. /\ r \in Time /\ r.second = second /\ r.minute = minute
           /\ r.hour = read /\ r.day = day
      <3> HIDE DEF read
      <3> QED
        BY <2>3, <2>9 DEF Time
    <2> HIDE DEF read, r, time
    <2>11. /\ time.second = second /\ time.minute = minute
           /\ time.hour = IF read + 7 >= 24 THEN read + 7 - 24 ELSE read + 7
           /\ time.day = IF read + 7 >= 24 THEN day + 1 ELSE day
      <3>1. time = [second |-> r.second, minute |-> r.minute,
                hour |-> IF r.hour + 7 >= 24 THEN r.hour + 7 - 24 ELSE r.hour + 7,
                day |-> IF r.hour + 7 >= 24 THEN r.day + 1 ELSE r.day]
        BY <2>8, <2>10, ShiftedParts, Zenon
      <3> QED
        BY <2>10, <3>1
    <2>12. time.hour = IF CountsTwelve(read_at) THEN (true.hour + 12) % 24 ELSE true.hour
      <3>1. CASE CountsTwelve(read_at)
        <4>1. hour \in {0, 12} /\ read = (hour + 12) % 24
          BY <2>4, <3>1 DEF read
        <4> QED
          BY <2>5, <2>11, <3>1, <4>1
      <3>2. CASE ~CountsTwelve(read_at)
        BY <2>5, <2>11, <3>2 DEF read
      <3> QED
        BY <3>1, <3>2
    <2>13. time.day = IF LastEvening(read_at) THEN DAYS + 1 ELSE true.day
      <3>1. CASE CountsTwelve(read_at)
        <4>1. hour \in {0, 12} /\ read = (hour + 12) % 24
          BY <2>4, <3>1 DEF read
        <4> QED
          BY <2>5, <2>11, <4>1
      <3>2. CASE ~CountsTwelve(read_at)
        BY <2>5, <2>11, <3>2 DEF read
      <3> QED
        BY <3>1, <3>2
    <2>14. /\ time.second = true.second /\ time.minute = true.minute
      BY <2>5, <2>11
    <2> QED
      BY <2>12, <2>13, <2>14 DEF LocalTimeIsTrue, time, true
  <1> QED
    BY <1>1, InitIInv, StepIInv, PTL DEF Spec

=============================================================================
