-------------------------- MODULE AwdlTimingProofs --------------------------
(***************************************************************************)
(* Relays in step with the devices they follow, for any periods, counters  *)
(* and channel sequences.                                                  *)
(***************************************************************************)
EXTENDS AwdlTiming, WellFoundedInduction, TLAPS

-----------------------------------------------------------------------------
(***************************************************************************)
(* Division.                                                               *)
(***************************************************************************)

LEMMA Division ==
    ASSUME NEW a \in Int, NEW b \in Nat \ {0}
    PROVE  /\ a \div b \in Int /\ a % b \in 0 .. b - 1
           /\ a = b * (a \div b) + (a % b)
OBVIOUS

\* Quotient and remainder are the only ones.
LEMMA Quotient ==
    ASSUME NEW a \in Int, NEW b \in Nat \ {0}, NEW q \in Int, NEW r \in 0 .. b - 1,
           a = b * q + r
    PROVE  a \div b = q /\ a % b = r
OBVIOUS

\* Numbers with the same quotient differ by what their remainders do.
LEMMA Differences ==
    ASSUME NEW a \in Int, NEW b \in Int, NEW m \in Nat \ {0}, a \div m = b \div m
    PROVE  b - a = (b % m) - (a % m)
<1>1. a \div m \in Int /\ a % m \in Int /\ a = m * (a \div m) + (a % m)
  BY Division
<1>2. b \div m \in Int /\ b % m \in Int /\ b = m * (b \div m) + (b % m)
  BY Division
<1>3. PICK g \in Int : g = m * (a \div m)
  BY <1>1
<1>4. a = g + (a % m) /\ b = g + (b % m)
  BY <1>1, <1>2, <1>3
<1> QED  BY <1>1, <1>2, <1>4

\* Whole turns do not change a remainder.
LEMMA Turns ==
    ASSUME NEW b \in Nat \ {0}, NEW i \in Int, NEW y \in Int
    PROVE  (b * i + y) % b = y % b
<1> DEFINE u == y \div b
           v == y % b
<1>1. u \in Int /\ v \in 0 .. b - 1 /\ y = b * u + v
  BY Division
<1> HIDE DEF u, v
<1>2. b * i + y = b * (i + u) + v /\ b * i + y \in Int /\ i + u \in Int
  BY <1>1
<1> QED  BY <1>1, <1>2, Quotient DEF v

\* Numbers with the same remainder.
Alike(x, y, b) == x % b = y % b

\* Remainders that agree still agree further on.
LEMMA Onward ==
    ASSUME NEW b \in Nat \ {0}, NEW x \in Int, NEW y \in Int, NEW i \in Int, Alike(x, y, b)
    PROVE  Alike(x + i, y + i, b)
<1> DEFINE k == x \div b
           m == y \div b
           r == x % b
<1>1. k \in Int /\ m \in Int /\ r \in Int /\ x = b * k + r /\ y = b * m + r
  BY Division DEF Alike
<1> HIDE DEF k, m, r
<1>2. x + i = b * (k - m) + (y + i) /\ k - m \in Int /\ y + i \in Int
  BY <1>1
<1>3. (b * (k - m) + (y + i)) % b = (y + i) % b
  BY <1>2, Turns, Zenon
<1> QED  BY <1>2, <1>3, Zenon DEF Alike

\* The slot, of c, that a counter of windows shows which starts again after m
\* of them, p windows being an EAW.
Slot(q, m, p, c) == ((q % m) \div p) % c

\* A counter is in the same slot as one that does not start again, if it does so
\* after a multiple of all slots.
LEMMA Wrapped ==
    ASSUME NEW p \in Nat \ {0}, NEW c \in Nat \ {0}, NEW m \in Nat \ {0},
           m % (p * c) = 0, NEW q \in Int
    PROVE  Slot(q, m, p, c) = (q \div p) % c
<1> DEFINE j == q \div m
           x == q % m
           y == x \div p
           z == x % p
           w == m \div (p * c)
           g == c * (w * j)
           k == g + y
<1>1. j \in Int /\ x \in Int /\ q = m * j + x
  BY Division
<1> HIDE DEF j, x
<1>2. y \in Int /\ z \in 0 .. p - 1 /\ x = p * y + z
  BY <1>1, Division
<1> HIDE DEF y, z
<1>3. w \in Int /\ m = (p * c) * w
  <2>1. PICK n \in Nat \ {0} : n = p * c
    OBVIOUS
  <2>2. m % n = 0 /\ m \div n = w
    BY <2>1
  <2>3. m \div n \in Int /\ m = n * (m \div n) + (m % n)
    BY Division
  <2>4. w \in Int /\ m = n * w
    BY <2>2, <2>3
  <2> HIDE DEF w
  <2> QED  BY <2>1, <2>4
<1> HIDE DEF w
<1>4. w * j \in Int /\ g \in Int
  BY <1>1, <1>3
<1>5. m * j = p * g
  BY <1>1, <1>3
<1>6. k \in Int /\ k % c = y % c
  <2>1. PICK e \in Int : e = w * j
    BY <1>4
  <2>2. (c * e + y) % c = y % c
    BY <1>2, Turns
  <2> QED  BY <1>2, <1>4, <2>1, <2>2
<1> HIDE DEF g
<1>7. q = p * k + z
  BY <1>1, <1>2, <1>4, <1>5
<1> HIDE DEF k
<1>8. q \div p = k
  BY <1>2, <1>6, <1>7, Quotient
<1> QED  BY <1>6, <1>8 DEF y, x, Slot

\* Counting in periods of a and then in groups of p is counting in periods of
\* a * p.
LEMMA Slots ==
    ASSUME NEW a \in Nat \ {0}, NEW p \in Nat \ {0}, NEW c \in Nat \ {0},
           NEW m \in Nat \ {0}, m % (p * c) = 0, NEW t \in Int
    PROVE  Slot(t \div a, m, p, c) = (t \div (a * p)) % c
<1> DEFINE q == t \div a
           s == t % a
           k == q \div p
           z == q % p
<1>1. q \in Int /\ s \in 0 .. a - 1 /\ t = a * q + s
  BY Division
<1> HIDE DEF q, s
<1>2. k \in Int /\ z \in 0 .. p - 1 /\ q = p * k + z
  BY <1>1, Division
<1>3. Slot(q, m, p, c) = k % c
  BY <1>1, Wrapped
<1> HIDE DEF k, z
<1>4. t = (a * p) * k + (a * z + s)
  BY <1>1, <1>2
<1>5. a * z + s \in 0 .. (a * p) - 1
  <2>1. a * z >= 0 /\ a * z <= a * (p - 1) /\ a * (p - 1) = a * p - a /\ a * z \in Int
    BY <1>2
  <2> QED  BY <1>1, <2>1
<1>6. a * p \in Nat \ {0}
  OBVIOUS
<1>7. t \div (a * p) = k
  BY <1>2, <1>4, <1>5, <1>6, Quotient
<1> QED  BY <1>3, <1>7 DEF q

-----------------------------------------------------------------------------
(***************************************************************************)
(* States made from MIFs.                                                  *)
(***************************************************************************)

LEMMA Periods ==
    /\ Tu \in Nat \ {0} /\ AwPeriod \in Nat \ {0} /\ Presence \in Nat \ {0}
    /\ Count \in Nat \ {0} /\ SequenceMod \in Nat \ {0} /\ Guard \in Nat \ {0}
    /\ eaw_tu \in Nat \ {0} /\ eaw_us \in Nat \ {0} /\ AwPeriod * Tu \in Nat \ {0}
    /\ eaw_tu = AwPeriod * Presence /\ eaw_us = eaw_tu * Tu
    /\ eaw_us = (AwPeriod * Tu) * Presence
    /\ SequenceMod % (Presence * Count) = 0
<1>1. /\ Tu \in Nat \ {0} /\ AwPeriod \in Nat \ {0} /\ Presence \in Nat \ {0}
      /\ Count \in Nat \ {0} /\ SequenceMod \in Nat \ {0} /\ Guard \in Nat \ {0}
      /\ SequenceMod % (Presence * Count) = 0
  <2>1. \A n \in {Tu, AwPeriod, Count, SequenceMod, Guard} : n \in Nat \ {0}
    BY TimingAssumption, Zenon
  <2>2. Presence \in Nat \ {0} /\ SequenceMod % (Presence * Count) = 0
    BY TimingAssumption
  <2> QED  BY <2>1, <2>2
<1>2. eaw_tu \in Nat \ {0} /\ AwPeriod * Tu \in Nat \ {0}
  BY <1>1 DEF eaw_tu
<1>3. eaw_us \in Nat \ {0}
  BY <1>1, <1>2 DEF eaw_us
<1>4. eaw_us = (AwPeriod * Tu) * Presence
  BY <1>1 DEF eaw_us, eaw_tu
<1> QED  BY <1>1, <1>2, <1>3, <1>4 DEF eaw_tu, eaw_us

\* State s has an EAW of d begin up to so many steps of rounding after it does,
\* and the counter of its slot.
Follows(s, d, steps) ==
    s # None =>
        /\ s.reference \in Int /\ s.reference <= now
        /\ s.channels = device[d].channels
        /\ \E k \in Int, b \in Int, r \in 0 .. steps * (Tu - 1) :
              /\ device[d].start + s.reference = eaw_us * k + r
              /\ s.base = Presence * b
              /\ b % Count = k % Count

\* What espdrop_awdl_tx_state_from_mif makes of a MIF sent f units after the
\* beginning of an EAW.
LEMMA StateMade ==
    ASSUME NEW t \in Int, t >= eaw_us, NEW f \in 0 .. eaw_tu - 1,
           NEW aw \in Int, NEW channels, NEW mif,
           mif = [tx_down |-> eaw_tu - f, aw |-> aw, channels |-> channels],
           NEW s, s = state_from_mif(mif, t)
    PROVE  /\ s.reference = t - Tu * f /\ s.reference \in Int /\ s.reference <= t
           /\ s.base = Presence * (aw \div Presence) /\ aw \div Presence \in Int
           /\ s.channels = channels
<1> DEFINE down_tu == mif.tx_down % eaw_tu
           elapsed == IF down_tu = 0 THEN 0 ELSE (eaw_tu - down_tu) * Tu
<1>1. s = [reference |-> IF t >= elapsed THEN t - elapsed ELSE 0,
           base |-> aw - (aw % Presence), channels |-> channels]
  BY DEF state_from_mif
<1>2. elapsed = Tu * f
  <2>1. CASE f = 0
    <3>1. mif.tx_down = eaw_tu * 1 + 0 /\ 0 \in 0 .. eaw_tu - 1
      BY <2>1, Periods
    <3>2. down_tu = 0
      BY <3>1, Periods, Quotient
    <3> QED  BY <2>1, <3>2, Periods
  <2>2. CASE f # 0
    <3>1. mif.tx_down = eaw_tu * 0 + (eaw_tu - f) /\ eaw_tu - f \in 0 .. eaw_tu - 1
          /\ eaw_tu - f # 0 /\ mif.tx_down \in Int /\ 0 \in Int /\ eaw_tu \in Nat \ {0}
      BY <2>2, Periods
    <3>2. down_tu = eaw_tu - f
      BY <3>1, Quotient, Zenon
    <3>3. eaw_tu - (eaw_tu - f) = f
      BY Periods
    <3> QED  BY <3>1, <3>2, <3>3, Periods
  <2> QED  BY <2>1, <2>2
<1> HIDE DEF elapsed
<1>3. Tu * f \in Int /\ 0 <= Tu * f /\ Tu * f <= eaw_us
  BY Periods
<1>4. aw - (aw % Presence) = Presence * (aw \div Presence) /\ aw \div Presence \in Int
  BY Periods, Division
<1>5. s.reference = t - Tu * f
  BY <1>1, <1>2, <1>3, Periods
<1>6. s.base = aw - (aw % Presence) /\ s.channels = channels
  BY <1>1
<1> QED  BY <1>3, <1>4, <1>5, <1>6

\* A state made from a device's own MIF is one step of rounding behind.
LEMMA HeardFromDevice ==
    ASSUME NEW d \in Devices, device[d].start \in Int, now \in Int, now >= eaw_us,
           NEW s, s = state_from_mif(device_mif(d, now), now)
    PROVE  /\ s.reference \in Int /\ s.reference <= now
           /\ s.channels = device[d].channels
           /\ \E k \in Int, b \in Int, r \in 0 .. Tu - 1 :
                 /\ device[d].start + s.reference = eaw_us * k + r
                 /\ s.base = Presence * b
                 /\ b % Count = k % Count
<1> DEFINE t == device[d].start + now
           u == t \div Tu
           v == t % Tu
           f == u % eaw_tu
           k == u \div eaw_tu
           aw == Counter(d, now)
           b == aw \div Presence
<1>1. t \in Int
  OBVIOUS
<1>2. aw = (t \div (AwPeriod * Tu)) % SequenceMod
  BY DEF Counter
<1>3. device_mif(d, now) = [tx_down |-> eaw_tu - f, aw |-> aw, channels |-> device[d].channels]
  BY DEF device_mif
<1> HIDE DEF t
<1>4. u \in Int /\ v \in 0 .. Tu - 1 /\ t = Tu * u + v
  BY <1>1, Periods, Division
<1> HIDE DEF u, v
<1>5. k \in Int /\ f \in 0 .. eaw_tu - 1 /\ u = eaw_tu * k + f
  BY <1>4, Periods, Division
<1>6. aw \in Int
  BY <1>1, <1>2, Periods, Division
<1> HIDE DEF f, k, aw
<1>7. /\ s.reference = now - Tu * f /\ s.reference \in Int /\ s.reference <= now
      /\ s.base = Presence * b /\ b \in Int /\ s.channels = device[d].channels
  BY <1>3, <1>5, <1>6, StateMade
<1>8. t = eaw_us * k + (Tu * f + v)
  <2>1. Tu * (eaw_tu * k + f) = (eaw_tu * Tu) * k + Tu * f
    BY <1>5, Periods
  <2> QED  BY <1>4, <1>5, <2>1, Periods
<1>9. device[d].start + s.reference = eaw_us * k + v
  BY <1>1, <1>4, <1>5, <1>7, <1>8, Periods DEF t
<1>10. b % Count = k % Count
  <2>1. b % Count = (t \div ((AwPeriod * Tu) * Presence)) % Count
    BY <1>1, <1>2, Periods, Slots DEF Slot
  <2>2. Tu * f + v \in 0 .. eaw_us - 1
    <3>1. Tu * f <= Tu * (eaw_tu - 1) /\ Tu * (eaw_tu - 1) = eaw_us - Tu /\ Tu * f \in Nat
      BY <1>5, Periods
    <3> QED  BY <1>4, <3>1, Periods
  <2>3. t \div eaw_us = k
    BY <1>1, <1>5, <1>8, <2>2, Periods, Quotient
  <2> QED  BY <2>1, <2>3, Periods
<1> QED  BY <1>4, <1>5, <1>7, <1>9, <1>10

\* A state made from the MIF of a relay that follows d adds a step of rounding.
LEMMA HeardFromRelay ==
    ASSUME NEW d \in Devices, device[d].start \in Int, now \in Int, now >= eaw_us,
           NEW m, m # None, Follows(m, d, 1),
           NEW s, s = state_from_mif(build_action(m, now), now)
    PROVE  Follows(s, d, 2)
<1>1. /\ m.reference \in Int /\ m.reference <= now /\ m.channels = device[d].channels
      /\ \E k \in Int, b \in Int, r \in 0 .. Tu - 1 :
              /\ device[d].start + m.reference = eaw_us * k + r
              /\ m.base = Presence * b
              /\ b % Count = k % Count
  <2>1. 1 * (Tu - 1) = Tu - 1
    BY Periods
  <2> QED  BY <2>1 DEF Follows
<1>2. PICK k \in Int, b \in Int, r \in 0 .. Tu - 1 :
              /\ device[d].start + m.reference = eaw_us * k + r
              /\ m.base = Presence * b
              /\ b % Count = k % Count
  BY <1>1
<1> DEFINE t == now - m.reference
           e == t \div Tu
           v == t % Tu
           f == e % eaw_tu
           n == e \div eaw_tu
           g == f \div AwPeriod
           x == m.base + n * Presence + g
           aw == x % SequenceMod
           c == aw \div Presence
<1>3. t \in Int /\ build_action(m, now) =
            [tx_down |-> eaw_tu - f, aw |-> aw, channels |-> m.channels]
  BY <1>1 DEF build_action
<1> HIDE DEF t
<1>4. e \in Int /\ v \in 0 .. Tu - 1 /\ t = Tu * e + v
  BY <1>3, Periods, Division
<1> HIDE DEF e, v
<1>5. n \in Int /\ f \in 0 .. eaw_tu - 1 /\ e = eaw_tu * n + f
  BY <1>4, Periods, Division
<1> HIDE DEF n, f
<1>6. g \in 0 .. Presence - 1
  <2>1. g \in Int /\ f % AwPeriod \in 0 .. AwPeriod - 1 /\ f = AwPeriod * g + (f % AwPeriod)
    BY <1>5, Periods, Division
  <2> HIDE DEF g
  <2>2. AwPeriod * g < AwPeriod * Presence /\ AwPeriod * g > AwPeriod * (-1)
    BY <1>5, <2>1, Periods
  <2> QED  BY <2>1, <2>2, Periods
<1> HIDE DEF g
<1>7. x = Presence * (b + n) + g /\ x \in Int
  BY <1>2, <1>5, <1>6, Periods
<1>8. x \div Presence = b + n
  BY <1>5, <1>6, <1>7, Periods, Quotient
<1> HIDE DEF x
<1>9. aw \in Int
  BY <1>7, Periods, Division
<1>10. c % Count = (b + n) % Count
  <2>1. c % Count = Slot(x, SequenceMod, Presence, Count)
    BY DEF Slot
  <2>2. Slot(x, SequenceMod, Presence, Count) = (x \div Presence) % Count
    BY <1>7, Periods, Wrapped
  <2> QED  BY <1>8, <2>1, <2>2
<1> HIDE DEF aw
<1>11. /\ s.reference = now - Tu * f /\ s.reference \in Int /\ s.reference <= now
       /\ s.base = Presence * c /\ c \in Int /\ s.channels = m.channels
  BY <1>3, <1>5, <1>9, StateMade
<1> HIDE DEF c
<1>12. c % Count = (k + n) % Count
  <2>1. Count \in Nat \ {0} /\ Alike(b, k, Count)
    BY <1>2, Periods DEF Alike
  <2>2. Alike(b + n, k + n, Count)
    BY <1>5, <2>1, Onward, Zenon
  <2> QED  BY <1>10, <2>2 DEF Alike
<1>13. device[d].start + s.reference = eaw_us * (k + n) + (r + v)
  <2>1. Tu * (eaw_tu * n + f) = eaw_us * n + Tu * f /\ Tu * f \in Int /\ eaw_us * n \in Int
    BY <1>5, Periods
  <2>2. now = m.reference + (eaw_us * n + Tu * f + v)
    BY <1>1, <1>4, <1>5, <2>1 DEF t
  <2>3. eaw_us * (k + n) = eaw_us * k + eaw_us * n /\ eaw_us * k \in Int
    BY <1>5, Periods
  <2> QED  BY <1>1, <1>2, <1>4, <1>11, <2>1, <2>2, <2>3
<1>14. r + v \in 0 .. 2 * (Tu - 1) /\ k + n \in Int
  BY <1>4, <1>5, Periods
<1> QED  BY <1>1, <1>11, <1>12, <1>13, <1>14 DEF Follows

-----------------------------------------------------------------------------
(***************************************************************************)
(* Windows.                                                                *)
(***************************************************************************)

\* A window is an EAW long.
LEMMA WindowTimes ==
    ASSUME NEW s, s.reference \in Int, NEW c \in Int
    PROVE  /\ channel_window_at(s, c).start \in Int
           /\ channel_window_at(s, c).end = channel_window_at(s, c).start + eaw_us
<1> DEFINE eaws == (c - s.reference) \div eaw_us
<1>1. eaws \in Int
  <2>1. c - s.reference \in Int
    OBVIOUS
  <2> QED  BY <2>1, Periods, Division
<1>2. /\ channel_window_at(s, c).start = s.reference + eaws * eaw_us
      /\ channel_window_at(s, c).end = s.reference + (eaws + 1) * eaw_us
  BY DEF channel_window_at
<1> HIDE DEF eaws
<1> QED  BY <1>1, <1>2, Periods

\* The window of a state that follows d: EAW n of d, late by r.
LEMMA WindowOf ==
    ASSUME NEW d \in Devices, device[d].start \in Int, NEW steps \in {1, 2},
           NEW s, s # None, Follows(s, d, steps), NEW c \in Int
    PROVE  /\ channel_window_at(s, c).start \in Int
           /\ \E n \in Int, r \in 0 .. steps * (Tu - 1) :
                 /\ device[d].start + channel_window_at(s, c).start = eaw_us * n + r
                 /\ channel_window_at(s, c).channel = device[d].channels[n % Count]
<1>1. PICK k \in Int, b \in Int, r \in 0 .. steps * (Tu - 1) :
              /\ device[d].start + s.reference = eaw_us * k + r
              /\ s.base = Presence * b
              /\ b % Count = k % Count
  BY DEF Follows
<1>2. s.reference \in Int /\ s.channels = device[d].channels
  BY DEF Follows
<1> DEFINE eaws == (c - s.reference) \div eaw_us
           w == channel_window_at(s, c)
<1>3. eaws \in Int
  <2>1. c - s.reference \in Int
    BY <1>2
  <2> QED  BY <2>1, Periods, Division
<1>4. /\ w.start = s.reference + eaws * eaw_us
      /\ w.channel = s.channels[(s.base \div Presence + eaws) % Count]
  BY DEF channel_window_at
<1> HIDE DEF eaws, w
<1>5. eaws * eaw_us \in Int
  BY <1>3, Periods
<1>6. s.base \div Presence = b
  <2>1. s.base = Presence * b + 0 /\ 0 \in 0 .. Presence - 1 /\ s.base \in Int
    BY <1>1, Periods
  <2> QED  BY <1>1, <2>1, Periods, Quotient
<1>7. (b + eaws) % Count = (k + eaws) % Count
  <2>1. Count \in Nat \ {0} /\ Alike(b, k, Count)
    BY <1>1, Periods DEF Alike
  <2>2. Alike(b + eaws, k + eaws, Count)
    BY <1>3, <2>1, Onward, Zenon
  <2> QED  BY <2>2 DEF Alike
<1>8. w.channel = device[d].channels[(k + eaws) % Count]
  BY <1>2, <1>4, <1>6, <1>7
<1>9. device[d].start + w.start = eaw_us * (k + eaws) + r /\ k + eaws \in Int
  <2>1. eaw_us * (k + eaws) = eaw_us * k + eaws * eaw_us
    BY <1>3, Periods
  <2>2. PICK g \in Int : g = eaw_us * k
    BY Periods
  <2>3. PICK h \in Int : h = eaws * eaw_us
    BY <1>5
  <2>4. w.start = s.reference + h /\ device[d].start + s.reference = g + r
    BY <1>1, <1>4, <2>2, <2>3
  <2>5. r \in Int
    BY Periods
  <2>6. device[d].start + w.start = (g + h) + r
    BY <1>2, <2>4, <2>5
  <2> QED  BY <1>3, <2>1, <2>2, <2>3, <2>6
<1>10. w.start \in Int
  BY <1>2, <1>4, <1>5
<1> QED  BY <1>8, <1>9, <1>10 DEF w

\* The slot of a device is that of the EAW it is in.
LEMMA DeviceSlot ==
    ASSUME NEW d \in Devices, device[d].start \in Int, NEW x \in Int
    PROVE  OnChannel(d, x) <=>
             device[d].channels[((device[d].start + x) \div eaw_us) % Count] = Channel
<1> DEFINE t == device[d].start + x
           aw == Counter(d, x)
<1>1. t \in Int
  OBVIOUS
<1>2. aw = (t \div (AwPeriod * Tu)) % SequenceMod
  BY DEF Counter
<1> HIDE DEF t, aw
<1>3. (aw \div Presence) % Count = (t \div ((AwPeriod * Tu) * Presence)) % Count
  BY <1>1, <1>2, Periods, Slots DEF Slot
<1>4. (aw \div Presence) % Count = (t \div eaw_us) % Count
  BY <1>3, Periods
<1> QED  BY <1>4 DEF OnChannel, t, aw

\* Away from the end of its window, by more than the rounding, a state is on the
\* channel exactly when the device is.
LEMMA OnChannelTogether ==
    ASSUME NEW d \in Devices, device[d].start \in Int, NEW steps \in {1, 2},
           NEW s, s # None, Follows(s, d, steps), NEW c \in Int,
           NEW x \in Int, channel_window_at(s, c).start <= x,
           x - channel_window_at(s, c).start + 2 * (Tu - 1) < eaw_us
    PROVE  (channel_window_at(s, c).channel = Channel) <=> OnChannel(d, x)
<1> DEFINE w == channel_window_at(s, c)
<1>1. PICK n \in Int, r \in 0 .. steps * (Tu - 1) :
                 /\ device[d].start + w.start = eaw_us * n + r
                 /\ w.channel = device[d].channels[n % Count]
  BY WindowOf
<1>2. w.start \in Int /\ w.start <= x /\ x - w.start + 2 * (Tu - 1) < eaw_us
  BY WindowOf
<1> HIDE DEF w
<1>3. r \in Int /\ 0 <= r /\ r <= 2 * (Tu - 1)
  BY Periods
<1>4. r + (x - w.start) \in 0 .. eaw_us - 1
  BY <1>2, <1>3, Periods
<1>5. device[d].start + x = eaw_us * n + (r + (x - w.start)) /\ device[d].start + x \in Int
  <2>1. eaw_us * n \in Int
    BY Periods
  <2> QED  BY <1>1, <1>2, <1>3, <2>1
<1>6. (device[d].start + x) \div eaw_us = n
  BY <1>4, <1>5, Periods, Quotient
<1>7. OnChannel(d, x) <=> device[d].channels[n % Count] = Channel
  BY <1>6, DeviceSlot
<1> QED  BY <1>1, <1>7 DEF w

\* How long the EAW of device d lasts already.
Into(d, x) == (device[d].start + x) % eaw_us

\* In a window of a state that follows d, d is as far as the state believes, and
\* further by the rounding.
LEMMA IntoWindow ==
    ASSUME NEW d \in Devices, device[d].start \in Int, NEW steps \in {1, 2},
           NEW s, s # None, Follows(s, d, steps), NEW c \in Int,
           NEW x \in Int, channel_window_at(s, c).start <= x,
           x - channel_window_at(s, c).start + 2 * (Tu - 1) < eaw_us
    PROVE  /\ Into(d, x) \in Int
           /\ Into(d, x) >= x - channel_window_at(s, c).start
           /\ Into(d, x) <= x - channel_window_at(s, c).start + 2 * (Tu - 1)
<1> DEFINE w == channel_window_at(s, c)
<1>1. PICK n \in Int, r \in 0 .. steps * (Tu - 1) : device[d].start + w.start = eaw_us * n + r
  BY WindowOf
<1>2. w.start \in Int /\ w.start <= x /\ x - w.start + 2 * (Tu - 1) < eaw_us
  BY WindowOf
<1> HIDE DEF w
<1>3. r \in Int /\ 0 <= r /\ r <= 2 * (Tu - 1) /\ 2 * (Tu - 1) \in Int
  BY Periods
<1>4. PICK f \in 0 .. eaw_us - 1 : f = r + (x - w.start)
  BY <1>2, <1>3, Periods
<1>5. device[d].start + x = eaw_us * n + f /\ device[d].start + x \in Int
  <2>1. PICK g \in Int : g = eaw_us * n
    BY Periods
  <2> QED  BY <1>1, <1>2, <1>3, <1>4, <2>1
<1>6. (device[d].start + x) % eaw_us = f
  <2>1. eaw_us \in Nat \ {0}
    BY Periods
  <2> QED  BY <1>5, <2>1, Quotient, Zenon
<1>7. Into(d, x) = r + (x - w.start)
  BY <1>4, <1>6 DEF Into
<1>8. /\ Into(d, x) \in Int /\ Into(d, x) >= x - w.start
      /\ Into(d, x) <= x - w.start + 2 * (Tu - 1)
  BY <1>2, <1>3, <1>7
<1> QED  BY <1>8 DEF w

\* A follower is in step.
LEMMA FollowerInStep ==
    ASSUME NEW d \in Devices, device[d].start \in Int, NEW steps \in {1, 2},
           now \in Int, NEW s, Follows(s, d, steps)
    PROVE  InStep(s, d, steps)
<1> SUFFICES ASSUME s # None
             PROVE  LET w == channel_window_at(s, now)
                        late == (device[d].start + w.start) % eaw_us
                    IN  /\ s.reference <= now /\ s.base % Presence = 0
                        /\ late <= steps * (Tu - 1)
                        /\ (w.channel = Channel) = OnChannel(d, w.start)
  BY DEF InStep
<1> DEFINE w == channel_window_at(s, now)
<1>1. PICK n \in Int, r \in 0 .. steps * (Tu - 1) :
                 device[d].start + w.start = eaw_us * n + r
  BY WindowOf
<1>2. w.start \in Int
  BY WindowOf
<1>3. 2 * (Tu - 1) < eaw_us
  BY GuardAssumption, Periods
<1>4. r \in 0 .. eaw_us - 1 /\ r <= steps * (Tu - 1)
  BY <1>3, Periods
<1>5. (device[d].start + w.start) % eaw_us = r
  <2>1. device[d].start + w.start \in Int
    BY <1>2
  <2>2. eaw_us \in Nat \ {0} /\ n \in Int /\ r \in 0 .. eaw_us - 1
    BY <1>4, Periods
  <2> HIDE DEF w
  <2> QED  BY <1>1, <2>1, <2>2, Quotient, Zenon
<1>6. (w.channel = Channel) <=> OnChannel(d, w.start)
  <2>1. w.start <= w.start /\ w.start - w.start + 2 * (Tu - 1) < eaw_us
    BY <1>2, <1>3, Periods
  <2> QED  BY <1>2, <2>1, OnChannelTogether
<1>7. s.reference <= now /\ s.base % Presence = 0
  <2>1. PICK b \in Int : s.base = Presence * b
    BY DEF Follows
  <2>2. s.base = Presence * b + 0 /\ 0 \in 0 .. Presence - 1 /\ s.base \in Int
    BY <2>1, Periods
  <2>3. s.base % Presence = 0
    <3>1. Presence \in Nat \ {0}
      BY Periods
    <3> QED  BY <2>1, <2>2, <3>1, Quotient, Zenon
  <2> QED  BY <2>3 DEF Follows
<1>8. (w.channel = Channel) = OnChannel(d, w.start)
  BY <1>6 DEF OnChannel
<1> QED  BY <1>4, <1>5, <1>7, <1>8

-----------------------------------------------------------------------------
(***************************************************************************)
(* The searches.                                                           *)
(***************************************************************************)

\* A set of numbers that is not empty has a smallest one.
LEMMA MinLeast ==
    ASSUME NEW S \in SUBSET Nat, S # {}
    PROVE  Min(S) \in S /\ \A j \in S : Min(S) <= j
<1>1. PICK i \in S : \A j \in S : ~(<<j, i>> \in OpToRel(<, Nat))
  BY NatLessThanWellFounded, WFMin
<1>2. ASSUME NEW j \in S
      PROVE  i <= j
  <2>1. i \in Nat /\ j \in Nat /\ ~(j < i)
    BY <1>1 DEF OpToRel
  <2> QED  BY <2>1
<1>3. \E k \in S : \A j \in S : k <= j
  BY <1>2
<1> QED  BY <1>3 DEF Min

\* The smallest member is the only one.
LEMMA MinIs ==
    ASSUME NEW S \in SUBSET Nat, NEW m \in S, \A j \in S : m <= j
    PROVE  Min(S) = m
<1>1. PICK k : k = Min(S)
  OBVIOUS
<1>2. k \in S /\ \A j \in S : k <= j
  BY <1>1 DEF Min
<1>3. k <= m /\ m <= k /\ k \in Nat /\ m \in Nat
  BY <1>2
<1> QED  BY <1>1, <1>3

LEMMA MinOfTwo ==
    ASSUME NEW a \in Int, NEW b \in Int
    PROVE  Min({a, b}) \in {a, b} /\ Min({a, b}) <= a /\ Min({a, b}) <= b
<1>1. \E x \in {a, b} : \A y \in {a, b} : x <= y
  <2>1. CASE a <= b
    BY <2>1
  <2>2. CASE ~(a <= b)
    <3>1. b <= a
      BY <2>2
    <3> QED  BY <3>1
  <2> QED  BY <2>1, <2>2
<1> QED  BY <1>1 DEF Min

LEMMA MaxOfTwo ==
    ASSUME NEW a \in Int, NEW b \in Int
    PROVE  Max({a, b}) \in {a, b} /\ a <= Max({a, b}) /\ b <= Max({a, b})
<1>1. \E x \in {a, b} : \A y \in {a, b} : x >= y
  <2>1. CASE a <= b
    BY <2>1
  <2>2. CASE ~(a <= b)
    <3>1. b <= a
      BY <2>2
    <3> QED  BY <3>1
  <2> QED  BY <2>1, <2>2
<1> QED  BY <1>1 DEF Max

\* A set that has 0 and with every number below n the next one has all numbers
\* up to n: induction over a loop.
LEMMA UpTo ==
    ASSUME NEW n \in Nat, NEW S, 0 \in S, \A i \in 1 .. n : i - 1 \in S => i \in S
    PROVE  \A i \in 0 .. n : i \in S
<1> DEFINE Missing == {i \in Nat : i <= n /\ i \notin S}
<1> SUFFICES ASSUME Missing # {} PROVE FALSE
  OBVIOUS
<1>1. PICK m \in Missing : \A k \in Missing : ~(<<k, m>> \in OpToRel(<, Nat))
  BY NatLessThanWellFounded, WFMin
<1>2. m \in 1 .. n /\ m - 1 \in Nat /\ m - 1 <= n /\ m - 1 < m
  <2>1. m \in Nat /\ m <= n /\ m \notin S
    BY <1>1
  <2>2. m # 0
    BY <2>1
  <2> QED  BY <2>1, <2>2
<1>3. m - 1 \notin Missing
  BY <1>1, <1>2 DEF OpToRel
<1> QED  BY <1>1, <1>2, <1>3

\* cursor is where the search is after each of the first n boundaries.
Walks(cursor, local, peer, t, n) ==
    cursor = [i \in 0 .. n |->
                IF i = 0 THEN t ELSE next_boundary(local, peer, cursor[i - 1])]

\* The walk goes on for any number of boundaries.
LEMMA WalkDefined ==
    ASSUME NEW local, NEW peer, NEW t, NEW n \in Nat
    PROVE  \E cursor : Walks(cursor, local, peer, t, n)
<1> DEFINE Defined == {m \in 0 .. n : \E cursor : Walks(cursor, local, peer, t, m)}
<1>1. 0 \in Defined
  <2>1. Walks([i \in 0 .. 0 |-> t], local, peer, t, 0)
    BY DEF Walks
  <2> QED  BY <2>1
<1>2. ASSUME NEW m \in 1 .. n, m - 1 \in Defined
      PROVE  m \in Defined
  <2>1. PICK cursor : Walks(cursor, local, peer, t, m - 1)
    BY <1>2
  <2> DEFINE more == [i \in 0 .. m |->
                        IF i < m THEN cursor[i] ELSE next_boundary(local, peer, cursor[m - 1])]
  <2>2. Walks(more, local, peer, t, m)
    <3> SUFFICES ASSUME NEW i \in 0 .. m
                 PROVE  more[i] = IF i = 0 THEN t ELSE next_boundary(local, peer, more[i - 1])
      BY DEF Walks
    <3>1. CASE i = m
      BY <3>1
    <3>2. CASE i # m
      <4>1. i \in 0 .. m - 1 /\ more[i] = cursor[i] /\ (i # 0 => more[i - 1] = cursor[i - 1])
        BY <3>2
      <4>2. cursor[i] = IF i = 0 THEN t ELSE next_boundary(local, peer, cursor[i - 1])
        BY <2>1, <4>1 DEF Walks
      <4> HIDE DEF more
      <4> QED  BY <4>1, <4>2
    <3> QED  BY <3>1, <3>2
  <2> QED  BY <2>2
<1> HIDE DEF Defined
<1>3. n \in Defined
  BY <1>1, <1>2, UpTo
<1> QED  BY <1>3 DEF Defined

\* Every boundary the walk meets is a time.
LEMMA WalkInTime ==
    ASSUME NEW local, local.reference \in Int, NEW peer, peer.reference \in Int, NEW t \in Int
    PROVE  Range(boundaries(local, peer, t)) \subseteq Int
<1>1. PICK n \in Nat : n = boundary_limit - 1
  BY Periods DEF boundary_limit
<1> DEFINE cursor == CHOOSE f : Walks(f, local, peer, t, n)
<1>2. Walks(cursor, local, peer, t, n)
  BY WalkDefined
<1>3. boundaries(local, peer, t) = cursor
  BY <1>1 DEF boundaries, Walks
<1> HIDE DEF cursor
<1> DEFINE Timed == {i \in 0 .. n : cursor[i] \in Int}
<1>4. 0 \in Timed
  BY <1>2 DEF Walks
<1>5. ASSUME NEW i \in 1 .. n, i - 1 \in Timed
      PROVE  i \in Timed
  <2>1. cursor[i] = next_boundary(local, peer, cursor[i - 1]) /\ i \in 0 .. n
    BY <1>2 DEF Walks
  <2>2. PICK c \in Int : c = cursor[i - 1]
    BY <1>5
  <2>3. channel_window_at(local, c).end \in Int /\ channel_window_at(peer, c).end \in Int
    BY WindowTimes, Periods
  <2>4. next_boundary(local, peer, c) \in Int
    BY <2>3, MinOfTwo DEF next_boundary
  <2> QED  BY <2>1, <2>2, <2>4
<1> HIDE DEF Timed
<1>6. \A i \in 0 .. n : i \in Timed
  BY <1>4, <1>5, UpTo
<1>7. DOMAIN cursor = 0 .. n
  BY <1>2 DEF Walks
<1> QED  BY <1>3, <1>6, <1>7 DEF Range, Timed

\* Time x is at the guard of the EAW of d or of that of e, and past that of the
\* other, up to the rounding.
Placed(d, e, x) ==
    /\ Into(d, x) \in Int /\ Into(e, x) \in Int
    /\ Into(d, x) >= Guard /\ Into(e, x) >= Guard
    /\ Into(d, x) <= Guard + 2 * (Tu - 1) \/ Into(e, x) <= Guard + 2 * (Tu - 1)

\* espdrop_awdl_next_common_channel_window_us: both devices are on the channel
\* at the time it finds, which is the beginning of their common interval.
LEMMA CommonIsOnChannel ==
    ASSUME NEW d \in Devices, NEW e \in Devices,
           device[d].start \in Int, device[e].start \in Int,
           NEW local, local # None, Follows(local, d, 2),
           NEW peer, peer # None, Follows(peer, e, 1), NEW t \in Nat,
           NEW x, x = next_common_window(local, peer, t), x # None
    PROVE  x \in Int /\ x >= t /\ OnChannel(d, x) /\ OnChannel(e, x) /\ Placed(d, e, x)
<1> DEFINE overlaps == {[l |-> channel_window_at(local, c),
                         p |-> channel_window_at(peer, c)] :
                            c \in Range(boundaries(local, peer, t))}
           usable == {o \in overlaps :
                        /\ o.l.channel = Channel /\ o.p.channel = Channel
                        /\ upcoming(safe_start(o.l, o.p), t)
                        /\ safe_start(o.l, o.p) <= safe_end(o.l, o.p)}
           found == {safe_start(o.l, o.p) : o \in usable}
<1>1. found # {} /\ x = Min(found)
  BY DEF next_common_window
<1>2. ASSUME NEW o \in usable
      PROVE  /\ safe_start(o.l, o.p) \in Int /\ safe_start(o.l, o.p) >= t
             /\ OnChannel(d, safe_start(o.l, o.p)) /\ OnChannel(e, safe_start(o.l, o.p))
             /\ Placed(d, e, safe_start(o.l, o.p))
  <2>1. PICK c \in Int : o = [l |-> channel_window_at(local, c), p |-> channel_window_at(peer, c)]
    <3>1. local.reference \in Int /\ peer.reference \in Int
      BY DEF Follows
    <3> QED  BY <3>1, WalkInTime
  <2> DEFINE l == channel_window_at(local, c)
             p == channel_window_at(peer, c)
             y == safe_start(l, p)
  <2>2. o.l = l /\ o.p = p
    BY <2>1
  <2>3. /\ l.channel = Channel /\ p.channel = Channel
        /\ y >= t /\ y <= safe_end(l, p)
    BY <2>2 DEF upcoming
  <2>4. /\ l.start \in Int /\ l.end = l.start + eaw_us
        /\ p.start \in Int /\ p.end = p.start + eaw_us
    <3>1. local.reference \in Int /\ peer.reference \in Int
      BY DEF Follows
    <3> QED  BY <3>1, WindowTimes
  <2> HIDE DEF l, p
  <2>5. /\ y \in Int /\ l.start + Guard <= y /\ p.start + Guard <= y
        /\ y = l.start + Guard \/ y = p.start + Guard
    <3>1. PICK a \in Int : a = l.start + Guard
      BY <2>4, Periods
    <3>2. PICK b \in Int : b = p.start + Guard
      BY <2>4, Periods
    <3>3. y = Max({a, b})
      BY <3>1, <3>2 DEF safe_start
    <3>4. Max({a, b}) \in {a, b} /\ a <= Max({a, b}) /\ b <= Max({a, b})
      BY MaxOfTwo
    <3> HIDE DEF y
    <3> QED  BY <3>1, <3>2, <3>3, <3>4
  <2>6. safe_end(l, p) \in Int /\ safe_end(l, p) <= l.end - Guard /\ safe_end(l, p) <= p.end - Guard
    <3>1. PICK a \in Int : a = l.end - Guard
      BY <2>4, Periods
    <3>2. PICK b \in Int : b = p.end - Guard
      BY <2>4, Periods
    <3>3. safe_end(l, p) = Min({a, b})
      BY <3>1, <3>2 DEF safe_end
    <3>4. Min({a, b}) \in {a, b} /\ Min({a, b}) <= a /\ Min({a, b}) <= b
      BY MinOfTwo
    <3> QED  BY <3>1, <3>2, <3>3, <3>4
  <2> HIDE DEF y
  <2>7. 2 * (Tu - 1) \in Int /\ 2 * (Tu - 1) < Guard
    BY Periods, GuardAssumption
  <2>8. /\ l.start <= y /\ y - l.start + 2 * (Tu - 1) < eaw_us
        /\ p.start <= y /\ y - p.start + 2 * (Tu - 1) < eaw_us
    BY <2>3, <2>4, <2>5, <2>6, <2>7, Periods
  <2>9. OnChannel(d, y)
    BY <2>3, <2>5, <2>8, OnChannelTogether DEF l
  <2>10. OnChannel(e, y)
    BY <2>3, <2>5, <2>8, OnChannelTogether DEF p
  <2>11. Placed(d, e, y)
    <3>1. /\ Into(d, y) \in Int /\ Into(d, y) >= y - l.start
          /\ Into(d, y) <= y - l.start + 2 * (Tu - 1)
      BY <2>5, <2>8, IntoWindow DEF l
    <3>2. /\ Into(e, y) \in Int /\ Into(e, y) >= y - p.start
          /\ Into(e, y) <= y - p.start + 2 * (Tu - 1)
      BY <2>5, <2>8, IntoWindow DEF p
    <3> QED  BY <2>4, <2>5, <2>7, <3>1, <3>2, Periods DEF Placed
  <2> QED  BY <2>2, <2>3, <2>5, <2>9, <2>10, <2>11 DEF y
<1> HIDE DEF usable
<1>3. found \in SUBSET Nat
  BY <1>2
<1>4. x \in found
  BY <1>1, <1>3, MinLeast
<1> QED  BY <1>2, <1>4

\* The beginning of the EAW that comes i later.
Later(s, t, i) == channel_window_at(s, t).start + i * eaw_us

\* A state's windows follow each other.
LEMMA WindowsInRow ==
    ASSUME NEW s, s.reference \in Int, NEW t \in Int, NEW i \in Int
    PROVE  Later(s, t, i) \in Int /\ channel_window_at(s, Later(s, t, i)).start = Later(s, t, i)
<1> DEFINE eaws == (t - s.reference) \div eaw_us
           c == Later(s, t, i)
<1>1. s.reference \in Int
  OBVIOUS
<1>2. eaws \in Int
  <2>1. t - s.reference \in Int
    BY <1>1
  <2> QED  BY <2>1, Periods, Division
<1>3. c = (s.reference + eaws * eaw_us) + i * eaw_us
  BY DEF channel_window_at, Later
<1> HIDE DEF eaws, c
<1>4. c - s.reference = eaw_us * (eaws + i) + 0 /\ c \in Int /\ c - s.reference \in Int
  BY <1>1, <1>2, <1>3, Periods
<1>5. (c - s.reference) \div eaw_us = eaws + i
  <2>1. eaw_us \in Nat \ {0} /\ 0 \in 0 .. eaw_us - 1 /\ eaws + i \in Int
    BY <1>2, Periods
  <2> QED  BY <1>4, <2>1, Quotient, Zenon
<1>6. channel_window_at(s, c).start = s.reference + (eaws + i) * eaw_us
  BY <1>5 DEF channel_window_at
<1>7. channel_window_at(s, c).start = c
  BY <1>1, <1>2, <1>4, <1>6, Periods
<1> QED  BY <1>4, <1>7 DEF c

\* espdrop_awdl_next_channel_window_us: the device followed is on the channel at
\* the time it finds.
LEMMA ChannelIsOnChannel ==
    ASSUME NEW d \in Devices, device[d].start \in Int, NEW s, s # None, Follows(s, d, 2),
           NEW t \in Int, NEW x, x = next_channel_window(s, t), x # None
    PROVE  x \in Int /\ OnChannel(d, x)
<1> DEFINE current == channel_window_at(s, t).start
           found == {offset \in 0 .. Count :
                        /\ channel_window_at(s, current + offset * eaw_us).channel = Channel
                        /\ current + offset * eaw_us + Guard >= t}
<1>1. found # {} /\ x = current + Min(found) * eaw_us + Guard
  BY DEF next_channel_window
<1>2. found \in SUBSET Nat
  BY Periods
<1>3. PICK i \in found : i = Min(found)
  BY <1>1, <1>2, MinLeast
<1>4. i \in Int /\ channel_window_at(s, current + i * eaw_us).channel = Channel
  OBVIOUS
<1> HIDE DEF found
<1>5. PICK c : c = current + i * eaw_us /\ c = Later(s, t, i)
  BY DEF Later
<1>6. c \in Int /\ channel_window_at(s, c).start = c
  <2>1. s.reference \in Int
    BY DEF Follows
  <2> QED  BY <1>4, <1>5, <2>1, WindowsInRow
<1>7. channel_window_at(s, c).channel = Channel /\ x = c + Guard
  BY <1>1, <1>3, <1>4, <1>5
<1> HIDE DEF current
<1>8. x \in Int /\ c <= x /\ x - c + 2 * (Tu - 1) < eaw_us
  BY <1>6, <1>7, Periods, GuardAssumption
<1> QED  BY <1>6, <1>7, <1>8, OnChannelTogether

-----------------------------------------------------------------------------
(***************************************************************************)
(* The search for a common window misses none.                             *)
(***************************************************************************)

\* A state whose windows are times.
Timely(s) == s.reference \in Int /\ s.base \div Presence \in Int

\* The number of the window that has time t, counted from the reference.
Index(s, t) == (t - s.reference) \div eaw_us

LEMMA Multiples ==
    ASSUME NEW b \in Nat \ {0}, NEW m \in Int, NEW n \in Int, m < n
    PROVE  b * m \in Int /\ b * n \in Int /\ b * m + b <= b * n
<1>1. PICK k \in Nat : n = m + 1 + k
  <2>1. n - m - 1 \in Nat /\ n = m + 1 + (n - m - 1)
    OBVIOUS
  <2> QED  BY <2>1
<1>2. b * (m + 1 + k) = b * m + b + b * k /\ b * k >= 0 /\ b * k \in Int /\ b * m \in Int
  OBVIOUS
<1> QED  BY <1>1, <1>2

\* A window of s: it has time t, and the times it has are in no other.
LEMMA Indexed ==
    ASSUME NEW s, Timely(s), NEW t \in Int
    PROVE  /\ Index(s, t) \in Int
           /\ channel_window_at(s, t).start = s.reference + eaw_us * Index(s, t)
           /\ channel_window_at(s, t).start \in Int
           /\ channel_window_at(s, t).end = channel_window_at(s, t).start + eaw_us
           /\ channel_window_at(s, t).start <= t /\ t < channel_window_at(s, t).end
<1> DEFINE w == channel_window_at(s, t)
           n == Index(s, t)
           r == (t - s.reference) % eaw_us
<1>1. s.reference \in Int
  BY DEF Timely
<1>2. n \in Int /\ r \in 0 .. eaw_us - 1 /\ t - s.reference = eaw_us * n + r
  <2>1. t - s.reference \in Int
    BY <1>1
  <2> QED  BY <2>1, Periods, Division DEF Index
<1>3. w.start = s.reference + n * eaw_us
  BY DEF channel_window_at, Index
<1>4. w.start \in Int /\ w.end = w.start + eaw_us
  BY <1>1, WindowTimes
<1> HIDE DEF n, r, w
<1>5. n * eaw_us = eaw_us * n /\ eaw_us * n \in Int
  BY <1>2, Periods
<1>6. PICK g \in Int : g = eaw_us * n
  BY <1>5
<1>7. w.start = s.reference + g /\ t - s.reference = g + r
  BY <1>2, <1>3, <1>5, <1>6
<1>8. w.start <= t /\ t < w.end
  BY <1>1, <1>2, <1>4, <1>7, Periods
<1> QED  BY <1>2, <1>4, <1>6, <1>7, <1>8 DEF n, w

LEMMA IndexIs ==
    ASSUME NEW s, Timely(s), NEW t \in Int, NEW n \in Int,
           s.reference + eaw_us * n <= t, t < s.reference + eaw_us * n + eaw_us
    PROVE  Index(s, t) = n
<1>1. s.reference \in Int
  BY DEF Timely
<1>2. PICK g \in Int : g = eaw_us * n
  BY Periods
<1>3. t - s.reference \in Int /\ t - s.reference - g \in 0 .. eaw_us - 1
      /\ t - s.reference = g + (t - s.reference - g)
  BY <1>1, <1>2, Periods
<1>4. PICK r \in 0 .. eaw_us - 1 : t - s.reference = g + r
  BY <1>3
<1>5. eaw_us \in Nat \ {0} /\ t - s.reference = eaw_us * n + r
  BY <1>2, <1>4, Periods
<1>6. (t - s.reference) \div eaw_us = n
  BY <1>3, <1>5, Quotient, Zenon
<1> QED  BY <1>6 DEF Index

\* All times of a window have that window.
LEMMA WindowHolds ==
    ASSUME NEW s, Timely(s), NEW t \in Int, NEW x \in Int,
           channel_window_at(s, t).start <= x, x < channel_window_at(s, t).end
    PROVE  Index(s, x) = Index(s, t) /\ channel_window_at(s, x) = channel_window_at(s, t)
<1>1. /\ Index(s, t) \in Int
      /\ s.reference + eaw_us * Index(s, t) <= x
      /\ x < s.reference + eaw_us * Index(s, t) + eaw_us
  BY Indexed
<1>2. Index(s, x) = Index(s, t)
  BY <1>1, IndexIs
<1> QED  BY <1>2 DEF Index, channel_window_at

\* The window after it is the next.
LEMMA IndexAtEnd ==
    ASSUME NEW s, Timely(s), NEW t \in Int
    PROVE  Index(s, channel_window_at(s, t).end) = Index(s, t) + 1
<1> DEFINE x == channel_window_at(s, t).end
           n == Index(s, t)
<1>1. /\ n \in Int /\ x \in Int /\ s.reference \in Int
      /\ x = s.reference + eaw_us * n + eaw_us
  BY Indexed, Periods DEF Timely
<1> HIDE DEF x, n
<1>2. eaw_us * (n + 1) = eaw_us * n + eaw_us /\ eaw_us * n \in Int /\ n + 1 \in Int
  BY <1>1, Periods
<1>3. s.reference + eaw_us * (n + 1) <= x /\ x < s.reference + eaw_us * (n + 1) + eaw_us
  BY <1>1, <1>2, Periods
<1>4. Index(s, x) = n + 1
  BY <1>1, <1>2, <1>3, IndexIs
<1> QED  BY <1>4 DEF x, n

LEMMA IndexGrows ==
    ASSUME NEW s, Timely(s), NEW x \in Int, NEW y \in Int, x <= y
    PROVE  Index(s, x) <= Index(s, y)
<1> DEFINE m == Index(s, x)
           n == Index(s, y)
<1>1. /\ m \in Int /\ n \in Int /\ s.reference \in Int
      /\ s.reference + eaw_us * m <= x /\ y < s.reference + eaw_us * n + eaw_us
  BY Indexed DEF Timely
<1> HIDE DEF m, n
<1>2. ASSUME n < m PROVE FALSE
  <2>1. eaw_us * m \in Int /\ eaw_us * n \in Int /\ eaw_us * n + eaw_us <= eaw_us * m
    BY <1>1, <1>2, Periods, Multiples
  <2> QED  BY <1>1, <2>1, Periods
<1>3. m <= n
  BY <1>1, <1>2
<1> QED  BY <1>3 DEF m, n

\* k whole sequences later.
Sequences(t, k) == t + eaw_us * (Count * k)

LEMMA IndexSequences ==
    ASSUME NEW s, Timely(s), NEW t \in Int, NEW k \in Int
    PROVE  /\ Sequences(t, k) \in Int
           /\ Index(s, Sequences(t, k)) = Index(s, t) + Count * k
<1> DEFINE n == Index(s, t)
           x == Sequences(t, k)
<1>1. /\ n \in Int /\ s.reference \in Int
      /\ s.reference + eaw_us * n <= t /\ t < s.reference + eaw_us * n + eaw_us
  BY Indexed DEF Timely
<1>2. PICK j \in Int : j = Count * k
  BY Periods
<1>3. x = t + eaw_us * j
  BY <1>2 DEF Sequences
<1> HIDE DEF n, x
<1>4. eaw_us * (n + j) = eaw_us * n + eaw_us * j /\ eaw_us * n \in Int /\ eaw_us * j \in Int
  BY <1>1, Periods
<1>5. /\ x \in Int /\ n + j \in Int
      /\ s.reference + eaw_us * (n + j) <= x /\ x < s.reference + eaw_us * (n + j) + eaw_us
  BY <1>1, <1>3, <1>4, Periods
<1>6. Index(s, x) = n + j
  BY <1>5, IndexIs
<1> QED  BY <1>2, <1>5, <1>6 DEF n, x

\* A whole number of sequences later a state is in the same place of a window of
\* the same channel.
LEMMA GuardedLater ==
    ASSUME NEW s, Timely(s), NEW t \in Int, NEW k \in Int, Guarded(s, Sequences(t, k))
    PROVE  Guarded(s, t)
<1> DEFINE x == Sequences(t, k)
           w == channel_window_at(s, t)
           v == channel_window_at(s, x)
           n == Index(s, t)
           b == s.base \div Presence
<1>1. PICK j \in Int : j = Count * k
  BY Periods
<1>2. x \in Int /\ Index(s, x) = n + j /\ x = t + eaw_us * j
  BY <1>1, IndexSequences DEF Sequences
<1> HIDE DEF x
<1>3. /\ n \in Int /\ w.start = s.reference + eaw_us * n /\ w.end = w.start + eaw_us
      /\ v.start = s.reference + eaw_us * (n + j) /\ v.end = v.start + eaw_us
      /\ s.reference \in Int /\ b \in Int
  BY <1>2, Indexed DEF Timely
<1>4. w.channel = s.channels[(b + n) % Count] /\ v.channel = s.channels[(b + (n + j)) % Count]
  BY <1>2 DEF channel_window_at, Index
<1>5. v.channel = Channel /\ v.start + Guard <= x /\ x <= v.end - Guard
  BY DEF Guarded, x
<1> HIDE DEF w, v, n, b
<1>6. PICK g \in Int : g = eaw_us * n
  BY <1>3, Periods
<1>7. PICK h \in Int : h = eaw_us * j
  BY Periods
<1>8. eaw_us * (n + j) = g + h
  BY <1>3, <1>6, <1>7, Periods
<1>9. w.start + Guard <= t /\ t <= w.end - Guard
  BY <1>2, <1>3, <1>5, <1>6, <1>7, <1>8, Periods
<1>10. (b + (n + j)) % Count = (b + n) % Count
  <2>1. b + (n + j) = Count * k + (b + n) /\ b + n \in Int /\ Count \in Nat \ {0}
    BY <1>1, <1>3, Periods
  <2>2. (Count * k + (b + n)) % Count = (b + n) % Count
    BY <2>1, Turns, Zenon
  <2> QED  BY <2>1, <2>2, Zenon
<1>11. w.channel = Channel
  BY <1>4, <1>5, <1>10, Zenon
<1> QED  BY <1>9, <1>11 DEF Guarded, w

LEMMA GuardedEarlier ==
    ASSUME NEW s, Timely(s), NEW t \in Int, NEW k \in Int, Guarded(s, t)
    PROVE  Guarded(s, Sequences(t, k))
<1>1. PICK x \in Int : x = Sequences(t, k)
  BY IndexSequences
<1>2. t = Sequences(x, -k) /\ -k \in Int
  <2>1. PICK j \in Int : j = Count * k
    BY Periods
  <2>2. Count * (-k) = -j /\ x = t + eaw_us * j
    BY <1>1, <2>1, Periods DEF Sequences
  <2>3. Sequences(x, -k) = x + eaw_us * (-j)
    BY <2>2 DEF Sequences
  <2>4. eaw_us * (-j) = -(eaw_us * j) /\ eaw_us * j \in Int
    BY Periods
  <2> QED  BY <2>2, <2>3, <2>4
<1>3. Guarded(s, x)
  BY <1>2, GuardedLater
<1> QED  BY <1>1, <1>3

\* A common guarded interval begins at time u.
Begins(l, p, u) ==
    /\ Guarded(l, u) /\ Guarded(p, u)
    /\ ~(Guarded(l, u - 1) /\ Guarded(p, u - 1))

\* Within a whole sequence from t on there is a beginning, if there is any later.
LEMMA BeginsWithinSequence ==
    ASSUME NEW l, Timely(l), NEW p, Timely(p), NEW t \in Int, NEW x \in Int, t <= x,
           Begins(l, p, x)
    PROVE  \E u \in Int : t <= u /\ u <= t + Count * eaw_us /\ Begins(l, p, u)
<1>1. PICK m \in Nat \ {0} : m = eaw_us * Count
  BY Periods
<1> DEFINE k == (x - t) \div m
           r == (x - t) % m
<1>2. k \in Int /\ r \in 0 .. m - 1 /\ x - t = m * k + r
  <2>1. x - t \in Int
    OBVIOUS
  <2> QED  BY <2>1, Division
<1> HIDE DEF k, r
<1>3. PICK u \in Int : u = t + r
  BY <1>2
<1>4. t <= u /\ u <= t + Count * eaw_us
  <2>1. Count * eaw_us = m
    BY <1>1, Periods
  <2> QED  BY <1>2, <1>3, <2>1
<1>5. x = Sequences(u, k) /\ x - 1 = Sequences(u - 1, k)
  <2>1. m * k = eaw_us * (Count * k) /\ m * k \in Int
    BY <1>1, <1>2, Periods
  <2>2. PICK g \in Int : g = m * k
    BY <2>1
  <2>3. x = u + g /\ x - 1 = (u - 1) + g
    BY <1>2, <1>3, <2>2
  <2> QED  BY <2>1, <2>2, <2>3 DEF Sequences
<1>6. Guarded(l, u) /\ Guarded(p, u)
  BY <1>2, <1>5, GuardedLater DEF Begins
<1>7. u - 1 \in Int
  OBVIOUS
<1>8. ~(Guarded(l, u - 1) /\ Guarded(p, u - 1))
  BY <1>2, <1>5, <1>7, GuardedEarlier DEF Begins
<1> QED  BY <1>4, <1>6, <1>8 DEF Begins

\* The guarded overlap of two windows on the channel is the beginning of a common
\* guarded interval ...
LEMMA OverlapBegins ==
    ASSUME NEW local, Timely(local), NEW peer, Timely(peer), NEW c \in Int,
           NEW l, l = channel_window_at(local, c), NEW p, p = channel_window_at(peer, c),
           l.channel = Channel, p.channel = Channel,
           safe_start(l, p) <= safe_end(l, p)
    PROVE  safe_start(l, p) \in Int /\ Begins(local, peer, safe_start(l, p))
<1>1. /\ l.start \in Int /\ l.end = l.start + eaw_us
      /\ p.start \in Int /\ p.end = p.start + eaw_us
  BY Indexed
<1>2. PICK a \in Int : a = l.start + Guard
  BY <1>1, Periods
<1>3. PICK b \in Int : b = p.start + Guard
  BY <1>1, Periods
<1>4. PICK y : y = safe_start(l, p) /\ y = Max({a, b})
  BY <1>2, <1>3 DEF safe_start
<1>5. y \in Int /\ a <= y /\ b <= y /\ (y = a \/ y = b)
  BY <1>4, MaxOfTwo
<1>6. y <= l.end - Guard /\ y <= p.end - Guard
  <2>1. PICK d \in Int : d = l.end - Guard
    BY <1>1, Periods
  <2>2. PICK e \in Int : e = p.end - Guard
    BY <1>1, Periods
  <2>3. safe_end(l, p) = Min({d, e})
    BY <2>1, <2>2 DEF safe_end
  <2>4. Min({d, e}) \in {d, e} /\ Min({d, e}) <= d /\ Min({d, e}) <= e
    BY MinOfTwo
  <2>5. y <= Min({d, e})
    BY <1>4, <2>3
  <2> QED  BY <1>5, <2>1, <2>2, <2>4, <2>5
<1>7. channel_window_at(local, y) = l /\ channel_window_at(peer, y) = p
  <2>1. l.start <= y /\ y < l.end /\ p.start <= y /\ y < p.end
    BY <1>1, <1>2, <1>3, <1>5, <1>6, Periods
  <2> QED  BY <1>5, <2>1, WindowHolds
<1>8. Guarded(local, y) /\ Guarded(peer, y)
  BY <1>2, <1>3, <1>5, <1>6, <1>7 DEF Guarded
<1>9. ~(Guarded(local, y - 1) /\ Guarded(peer, y - 1))
  <2>1. y - 1 \in Int /\ l.start <= y - 1 /\ y - 1 < l.end /\ p.start <= y - 1 /\ y - 1 < p.end
    BY <1>1, <1>2, <1>3, <1>5, <1>6, Periods
  <2>2. channel_window_at(local, y - 1) = l /\ channel_window_at(peer, y - 1) = p
    BY <2>1, WindowHolds
  <2>3. ~(a <= y - 1 /\ b <= y - 1)
    BY <1>5
  <2> QED  BY <1>2, <1>3, <2>2, <2>3 DEF Guarded
<1> QED  BY <1>4, <1>5, <1>8, <1>9 DEF Begins

\* ... and every such beginning is that of the overlap of the windows it is in.
LEMMA BeginningIsOverlap ==
    ASSUME NEW local, Timely(local), NEW peer, Timely(peer), NEW u \in Int,
           Begins(local, peer, u),
           NEW l, l = channel_window_at(local, u), NEW p, p = channel_window_at(peer, u)
    PROVE  /\ l.channel = Channel /\ p.channel = Channel
           /\ u = safe_start(l, p) /\ safe_start(l, p) <= safe_end(l, p)
<1>1. /\ l.start \in Int /\ l.end = l.start + eaw_us
      /\ p.start \in Int /\ p.end = p.start + eaw_us
  BY Indexed
<1>2. PICK a \in Int : a = l.start + Guard
  BY <1>1, Periods
<1>3. PICK b \in Int : b = p.start + Guard
  BY <1>1, Periods
<1>4. /\ l.channel = Channel /\ p.channel = Channel
      /\ a <= u /\ b <= u /\ u <= l.end - Guard /\ u <= p.end - Guard
  BY <1>2, <1>3 DEF Begins, Guarded
<1>5. ~(a <= u - 1 /\ b <= u - 1)
  <2>1. u - 1 \in Int /\ l.start <= u - 1 /\ u - 1 < l.end /\ p.start <= u - 1 /\ u - 1 < p.end
        /\ u - 1 <= l.end - Guard /\ u - 1 <= p.end - Guard
    BY <1>1, <1>2, <1>3, <1>4, Periods
  <2>2. channel_window_at(local, u - 1) = l /\ channel_window_at(peer, u - 1) = p
    BY <2>1, WindowHolds
  <2>3. ~(Guarded(local, u - 1) /\ Guarded(peer, u - 1))
    BY DEF Begins
  <2> QED  BY <1>2, <1>3, <1>4, <2>1, <2>2, <2>3 DEF Guarded
<1>6. u = safe_start(l, p)
  <2>1. safe_start(l, p) = Max({a, b})
    BY <1>2, <1>3 DEF safe_start
  <2>2. Max({a, b}) \in {a, b} /\ a <= Max({a, b}) /\ b <= Max({a, b})
    BY MaxOfTwo
  <2> QED  BY <1>4, <1>5, <2>1, <2>2
<1>7. u <= safe_end(l, p)
  <2>1. PICK d \in Int : d = l.end - Guard
    BY <1>1, Periods
  <2>2. PICK e \in Int : e = p.end - Guard
    BY <1>1, Periods
  <2>3. safe_end(l, p) = Min({d, e}) /\ u <= d /\ u <= e
    BY <1>4, <2>1, <2>2 DEF safe_end
  <2>4. Min({d, e}) \in {d, e}
    BY MinOfTwo
  <2> QED  BY <2>3, <2>4
<1> QED  BY <1>4, <1>6, <1>7

\* How many windows of both have begun at time t.
Begun(local, peer, t) == Index(local, t) + Index(peer, t)

\* From boundary to boundary at least one window more has begun, and up to the
\* boundary both windows are the same.
LEMMA Advance ==
    ASSUME NEW local, Timely(local), NEW peer, Timely(peer), NEW c \in Int
    PROVE  /\ next_boundary(local, peer, c) \in Int
           /\ Begun(local, peer, c) \in Int
           /\ Begun(local, peer, next_boundary(local, peer, c)) \in Int
           /\ Begun(local, peer, next_boundary(local, peer, c)) >= Begun(local, peer, c) + 1
           /\ \A u \in Int : c <= u /\ u < next_boundary(local, peer, c) =>
                /\ channel_window_at(local, u) = channel_window_at(local, c)
                /\ channel_window_at(peer, u) = channel_window_at(peer, c)
<1> DEFINE l == channel_window_at(local, c)
           p == channel_window_at(peer, c)
           x == next_boundary(local, peer, c)
<1>1. /\ l.end \in Int /\ p.end \in Int /\ c < l.end /\ c < p.end
      /\ l.start <= c /\ p.start <= c /\ l.start \in Int /\ p.start \in Int
  <2>1. l.start \in Int /\ l.end = l.start + eaw_us /\ l.start <= c /\ c < l.end
    BY Indexed
  <2>2. p.start \in Int /\ p.end = p.start + eaw_us /\ p.start <= c /\ c < p.end
    BY Indexed
  <2> HIDE DEF l, p
  <2> QED  BY <2>1, <2>2, Periods
<1>2. x \in Int /\ (x = l.end \/ x = p.end) /\ x <= l.end /\ x <= p.end /\ c < x
  <2>1. x = Min({l.end, p.end})
    BY DEF next_boundary
  <2>2. PICK d \in Int : d = l.end
    BY <1>1
  <2>3. PICK e \in Int : e = p.end
    BY <1>1
  <2>4. Min({d, e}) \in {d, e} /\ Min({d, e}) <= d /\ Min({d, e}) <= e
    BY MinOfTwo
  <2> QED  BY <1>1, <2>1, <2>2, <2>3, <2>4
<1>3. /\ Index(local, c) \in Int /\ Index(peer, c) \in Int
      /\ Index(local, x) \in Int /\ Index(peer, x) \in Int
  BY <1>2, Indexed
<1>4. Index(local, c) <= Index(local, x) /\ Index(peer, c) <= Index(peer, x)
  BY <1>2, IndexGrows
<1>5. \/ Index(local, x) = Index(local, c) + 1
      \/ Index(peer, x) = Index(peer, c) + 1
  BY <1>2, IndexAtEnd
<1>6. ASSUME NEW u \in Int, c <= u, u < x
      PROVE  channel_window_at(local, u) = l /\ channel_window_at(peer, u) = p
  <2>1. l.start <= u /\ u < l.end /\ p.start <= u /\ u < p.end
    BY <1>1, <1>2, <1>6
  <2> QED  BY <2>1, WindowHolds
<1> HIDE DEF x
<1>7. /\ Begun(local, peer, c) \in Int /\ Begun(local, peer, x) \in Int
      /\ Begun(local, peer, x) >= Begun(local, peer, c) + 1
  BY <1>3, <1>4, <1>5 DEF Begun
<1> QED  BY <1>2, <1>6, <1>7 DEF x

\* The walk is at a time with the windows of u, for every u of a whole sequence:
\* in one sequence of either as many windows begin as it has slots.
LEMMA WalkPasses ==
    ASSUME NEW local, Timely(local), NEW peer, Timely(peer), NEW t \in Int,
           NEW u \in Int, t <= u, u <= t + Count * eaw_us
    PROVE  \E c \in Range(boundaries(local, peer, t)) :
              /\ channel_window_at(local, u) = channel_window_at(local, c)
              /\ channel_window_at(peer, u) = channel_window_at(peer, c)
<1>1. PICK n \in Nat : n = boundary_limit - 1
  BY Periods DEF boundary_limit
<1> DEFINE cursor == CHOOSE f : Walks(f, local, peer, t, n)
           Here(c) == /\ channel_window_at(local, u) = channel_window_at(local, c)
                      /\ channel_window_at(peer, u) = channel_window_at(peer, c)
<1>2. Walks(cursor, local, peer, t, n)
  BY WalkDefined
<1>3. boundaries(local, peer, t) = cursor
  BY <1>1 DEF boundaries, Walks
<1> HIDE DEF cursor
<1>4. DOMAIN cursor = 0 .. n /\ cursor[0] = t
      /\ \A i \in 1 .. n : cursor[i] = next_boundary(local, peer, cursor[i - 1])
  BY <1>2 DEF Walks
<1> HIDE DEF Here
<1> SUFFICES ASSUME \A i \in 0 .. n : ~Here(cursor[i])
             PROVE  FALSE
  BY <1>3, <1>4 DEF Range, Here
<1> DEFINE B(c) == Begun(local, peer, c)
           Before == {i \in 0 .. n : cursor[i] \in Int /\ cursor[i] <= u
                                     /\ B(cursor[i]) \in Int /\ B(cursor[i]) >= B(t) + i}
<1>5. B(t) \in Int
  BY Advance
<1>6. 0 \in Before
  BY <1>4, <1>5
<1>7. ASSUME NEW i \in 1 .. n, i - 1 \in Before
      PROVE  i \in Before
  <2>1. PICK c \in Int : c = cursor[i - 1]
    BY <1>7
  <2>2. c <= u /\ B(c) \in Int /\ B(c) >= B(t) + (i - 1) /\ ~Here(c) /\ i \in 0 .. n
    BY <1>7, <2>1
  <2>3. PICK x : x = next_boundary(local, peer, c)
    OBVIOUS
  <2>4. x \in Int /\ B(x) \in Int /\ B(x) >= B(c) + 1
    BY <2>3, Advance
  <2>5. ~(u < x)
    BY <2>2, <2>3, Advance DEF Here
  <2> HIDE DEF B
  <2>6. cursor[i] = x
    BY <1>4, <2>1, <2>3
  <2>7. B(x) >= B(t) + i /\ x <= u
    BY <1>5, <2>2, <2>4, <2>5
  <2> QED  BY <2>2, <2>4, <2>6, <2>7
<1> HIDE DEF Before
<1>8. n \in Before
  <2>1. \A i \in 0 .. n : i \in Before
    BY <1>6, <1>7, UpTo
  <2> QED  BY <2>1
<1>9. PICK c \in Int : c <= u /\ B(c) >= B(t) + n
  BY <1>8 DEF Before
<1>10. PICK z \in Int : z = t + Count * eaw_us /\ z = Sequences(t, 1)
  <2>1. Count * eaw_us \in Int /\ eaw_us * (Count * 1) = Count * eaw_us
    BY Periods
  <2> QED  BY <2>1 DEF Sequences
<1>11. Index(local, z) = Index(local, t) + Count /\ Index(peer, z) = Index(peer, t) + Count
  <2>1. Count * 1 = Count /\ 1 \in Int
    BY Periods
  <2> QED  BY <1>10, <2>1, IndexSequences
<1>12. Index(local, c) <= Index(local, z) /\ Index(peer, c) <= Index(peer, z)
  <2>1. c <= z
    BY <1>9, <1>10
  <2> QED  BY <1>9, <2>1, IndexGrows
<1>13. /\ Index(local, c) \in Int /\ Index(peer, c) \in Int
       /\ Index(local, t) \in Int /\ Index(peer, t) \in Int
  BY Indexed
<1>14. B(c) <= B(t) + 2 * Count
  BY <1>11, <1>12, <1>13, Periods DEF Begun
<1>15. n > 2 * Count
  BY <1>1, Periods DEF boundary_limit
<1>16. B(c) \in Int
  BY Advance
<1> HIDE DEF B
<1> QED  BY <1>5, <1>9, <1>14, <1>15, <1>16, Periods

\* espdrop_awdl_next_common_channel_window_us finds the next common guarded
\* interval, if there is any.
LEMMA CommonIsNext ==
    ASSUME NEW local, Timely(local), NEW peer, Timely(peer), NEW t \in Nat
    PROVE  next_common_window(local, peer, t)
            = IF Beginnings(local, peer, t) = {} THEN None
              ELSE Min(Beginnings(local, peer, t))
<1> DEFINE overlaps == {[l |-> channel_window_at(local, c),
                         p |-> channel_window_at(peer, c)] :
                            c \in Range(boundaries(local, peer, t))}
           usable == {o \in overlaps :
                        /\ o.l.channel = Channel /\ o.p.channel = Channel
                        /\ upcoming(safe_start(o.l, o.p), t)
                        /\ safe_start(o.l, o.p) <= safe_end(o.l, o.p)}
           found == {safe_start(o.l, o.p) : o \in usable}
           all == Beginnings(local, peer, t)
<1>1. next_common_window(local, peer, t) = IF found = {} THEN None ELSE Min(found)
  <2>1. ~(2 * Guard >= eaw_us)
    BY Periods, GuardAssumption
  <2> QED  BY <2>1 DEF next_common_window
<1>2. ASSUME NEW f \in found
      PROVE  f \in Int /\ t <= f /\ Begins(local, peer, f)
  <2>1. PICK o \in usable : f = safe_start(o.l, o.p)
    OBVIOUS
  <2>2. PICK c \in Int : o = [l |-> channel_window_at(local, c), p |-> channel_window_at(peer, c)]
    BY WalkInTime DEF Timely
  <2> DEFINE l == channel_window_at(local, c)
             p == channel_window_at(peer, c)
  <2>3. o.l = l /\ o.p = p
    BY <2>2
  <2>4. /\ l.channel = Channel /\ p.channel = Channel /\ safe_start(l, p) <= safe_end(l, p)
        /\ f = safe_start(l, p) /\ f >= t
    BY <2>1, <2>3 DEF upcoming
  <2> HIDE DEF usable
  <2>5. safe_start(l, p) \in Int /\ Begins(local, peer, safe_start(l, p))
    BY <2>4, OverlapBegins
  <2> QED  BY <2>4, <2>5
<1>3. ASSUME NEW u \in Int, t <= u, u <= t + Count * eaw_us, Begins(local, peer, u)
      PROVE  u \in found
  <2>1. PICK c \in Range(boundaries(local, peer, t)) :
              /\ channel_window_at(local, u) = channel_window_at(local, c)
              /\ channel_window_at(peer, u) = channel_window_at(peer, c)
    BY <1>3, WalkPasses
  <2> DEFINE l == channel_window_at(local, c)
             p == channel_window_at(peer, c)
             o == [l |-> l, p |-> p]
  <2>2. /\ l.channel = Channel /\ p.channel = Channel
        /\ u = safe_start(l, p) /\ safe_start(l, p) <= safe_end(l, p)
    BY <1>3, <2>1, BeginningIsOverlap
  <2>3. o \in overlaps /\ o.l = l /\ o.p = p
    OBVIOUS
  <2>4. upcoming(safe_start(l, p), t)
    BY <1>3, <2>2 DEF upcoming
  <2> HIDE DEF overlaps, o, l, p
  <2>5. o \in usable /\ u = safe_start(o.l, o.p)
    BY <2>2, <2>3, <2>4
  <2> HIDE DEF usable
  <2> QED  BY <2>5
<1> HIDE DEF found
<1>4. all = {u \in t .. t + Count * eaw_us : Begins(local, peer, u)}
  BY DEF Beginnings, Begins
<1> HIDE DEF all
<1>5. Count * eaw_us \in Int
  BY Periods
<1>6. all \subseteq found /\ found \in SUBSET Nat /\ all \in SUBSET Nat
  <2>1. all \subseteq found
    BY <1>3, <1>4, <1>5
  <2>2. found \in SUBSET Nat
    BY <1>2
  <2> QED  BY <2>1, <2>2
<1>7. CASE found = {}
  BY <1>1, <1>6, <1>7 DEF all
<1>8. CASE found # {}
  <2>1. all # {}
    <3>1. PICK f \in found : TRUE
      BY <1>8
    <3>2. PICK u \in Int : t <= u /\ u <= t + Count * eaw_us /\ Begins(local, peer, u)
      BY <1>2, BeginsWithinSequence
    <3> QED  BY <1>4, <1>5, <3>2
  <2>2. PICK m : m = Min(all)
    OBVIOUS
  <2>3. m \in all /\ \A j \in all : m <= j
    BY <1>6, <2>1, <2>2, MinLeast
  <2>4. ASSUME NEW f \in found
        PROVE  m <= f
    <3>1. f \in Int /\ t <= f /\ Begins(local, peer, f)
      BY <1>2
    <3>2. m \in Int /\ m <= t + Count * eaw_us
      BY <1>4, <1>5, <2>3
    <3>3. CASE f <= t + Count * eaw_us
      BY <1>4, <1>5, <2>3, <3>1, <3>3
    <3>4. CASE ~(f <= t + Count * eaw_us)
      BY <1>5, <3>1, <3>2, <3>4
    <3> QED  BY <3>3, <3>4
  <2>5. Min(found) = m
    BY <1>6, <2>3, <2>4, MinIs
  <2> QED  BY <1>1, <1>8, <2>1, <2>2, <2>5 DEF all
<1> QED  BY <1>7, <1>8

-----------------------------------------------------------------------------
(***************************************************************************)
(* The behaviour.                                                          *)
(***************************************************************************)

\* The clock, and devices that keep their own time.
ClockInv ==
    /\ now \in Int /\ now >= eaw_us
    /\ \A d \in Devices : device[d].start \in Int

\* Each state follows its device, as many steps of rounding away as there are
\* relays in between.
FollowInv ==
    /\ Follows(middle, "master", 1)
    /\ Follows(tx_state, "master", 2)
    /\ Follows(target_state, "target", 1)

\* What the worker waits for is a time at which the devices are on the channel,
\* whatever has been heard since.
WindowInv ==
    worker = "wait" =>
        /\ scheduled \in Int /\ OnChannel("master", scheduled)
        /\ common => OnChannel("target", scheduled)

\* A window with a target is at the beginning of the devices' common interval;
\* the worker looks for another only after its pause.
PauseInv ==
    common =>
        /\ scheduled \in Int /\ Placed("master", "target", scheduled)
        /\ worker = "pause" => resume \in Int /\ resume >= scheduled + Pause
        /\ worker = "ready" => now >= scheduled + Pause

TimingInv == ClockInv /\ FollowInv /\ WindowInv /\ PauseInv

LEMMA InitTiming == ASSUME Init PROVE TimingInv
<1>1. \A d \in Devices : device[d].start \in Int
  <2> SUFFICES ASSUME NEW d \in Devices
               PROVE  device[d].start \in Int
    OBVIOUS
  <2>1. device[d].start \in Starts[d]
    BY DEF Init
  <2>2. Starts \in [Devices -> SUBSET (0 .. Cycle - 1)]
    BY TimingAssumption
  <2>3. Starts[d] \subseteq 0 .. Cycle - 1
    BY <2>2
  <2> QED  BY <2>1, <2>3
<1>2. ClockInv
  BY <1>1, Periods DEF Init, ClockInv
<1>3. FollowInv
  BY DEF Init, FollowInv, Follows
<1>4. WindowInv
  BY DEF Init, WindowInv
<1>5. PauseInv
  BY DEF Init, PauseInv
<1> QED  BY <1>2, <1>3, <1>4, <1>5 DEF TimingInv

\* States stay what they are while the clock goes on.
LEMMA FollowsOn ==
    ASSUME ClockInv, ClockInv', now <= now', UNCHANGED device,
           NEW s, NEW d, NEW steps, Follows(s, d, steps)
    PROVE  s # None =>
             /\ s.reference \in Int /\ s.reference <= now'
             /\ s.channels = device'[d].channels
             /\ \E k \in Int, b \in Int, r \in 0 .. steps * (Tu - 1) :
                   /\ device'[d].start + s.reference = eaw_us * k + r
                   /\ s.base = Presence * b
                   /\ b % Count = k % Count
<1>1. s # None => s.reference \in Int /\ s.reference <= now
  BY DEF Follows
<1>2. s # None => s.reference <= now'
  BY <1>1 DEF ClockInv
<1> QED  BY <1>1, <1>2 DEF Follows

\* A window stays where it is: the devices keep their time.
LEMMA WindowStays ==
    ASSUME WindowInv, UNCHANGED <<device, scheduled, common>>,
           worker' = "wait" => worker = "wait"
    PROVE  WindowInv'
BY DEF WindowInv, OnChannel, Counter

\* So does the pause after it.
LEMMA PauseStays ==
    ASSUME PauseInv, ClockInv, ClockInv', now <= now',
           UNCHANGED <<device, worker, scheduled, resume, common>>
    PROVE  PauseInv'
<1>1. Pause \in Int
  BY TimingAssumption
<1>2. Placed("master", "target", scheduled) => Placed("master", "target", scheduled)'
  BY DEF Placed, Into
<1>3. common /\ worker = "ready" => now' >= scheduled + Pause
  BY <1>1 DEF PauseInv, ClockInv
<1> QED  BY <1>2, <1>3 DEF PauseInv

\* Hearing a MIF gives a state that follows.
LEMMA HeardStep ==
    ASSUME TimingInv, MiddleHears \/ ParentHeard \/ TargetHeard \/ TargetCleared
    PROVE  TimingInv'
<1> USE DEF TimingInv
<1>1. UNCHANGED <<now, device, worker, scheduled, resume, common>>
  BY DEF MiddleHears, ParentHeard, TargetHeard, TargetCleared
<1>2. ClockInv'
  BY <1>1 DEF ClockInv
<1>3. WindowInv' /\ PauseInv'
  <2>1. now <= now'
    BY <1>1 DEF ClockInv
  <2> QED  BY <1>1, <1>2, <2>1, WindowStays, PauseStays
<1>4. 1 * (Tu - 1) = Tu - 1
  BY Periods
<1>5. "master" \in Devices /\ "target" \in Devices
  BY DEF Devices
<1>6. /\ now \in Int /\ now >= eaw_us
      /\ device["master"].start \in Int /\ device["target"].start \in Int
  BY <1>5 DEF ClockInv
<1>7. Follows(middle, "master", 1)'
  <2>1. CASE middle' = middle
    BY <1>1, <2>1 DEF Follows, FollowInv
  <2>2. CASE MiddleHears
    <3>1. middle' = state_from_mif(device_mif("master", now), now)
      BY <2>2 DEF MiddleHears
    <3>2. Follows(middle', "master", 1)
      BY <1>4, <1>5, <1>6, <3>1, HeardFromDevice DEF Follows
    <3> QED  BY <1>1, <3>2 DEF Follows
  <2> QED  BY <2>1, <2>2 DEF MiddleHears, ParentHeard, TargetHeard, TargetCleared
<1>8. Follows(tx_state, "master", 2)'
  <2>1. CASE tx_state' = tx_state
    BY <1>1, <2>1 DEF Follows, FollowInv
  <2>2. CASE ParentHeard
    <3>1. tx_state' = state_from_mif(build_action(middle, now), now) /\ middle # None
      BY <2>2 DEF ParentHeard
    <3>2. Follows(tx_state', "master", 2)
      BY <1>5, <1>6, <3>1, HeardFromRelay DEF FollowInv
    <3> QED  BY <1>1, <3>2 DEF Follows
  <2> QED  BY <2>1, <2>2 DEF MiddleHears, ParentHeard, TargetHeard, TargetCleared
<1>9. Follows(target_state, "target", 1)'
  <2>1. CASE target_state' = target_state
    BY <1>1, <2>1 DEF Follows, FollowInv
  <2>2. CASE TargetHeard
    <3>1. target_state' = state_from_mif(device_mif("target", now), now)
      BY <2>2 DEF TargetHeard
    <3>2. Follows(target_state', "target", 1)
      BY <1>4, <1>5, <1>6, <3>1, HeardFromDevice DEF Follows
    <3> QED  BY <1>1, <3>2 DEF Follows
  <2>3. CASE TargetCleared
    BY <2>3 DEF TargetCleared, Follows
  <2> QED  BY <2>1, <2>2, <2>3 DEF MiddleHears, ParentHeard, TargetHeard, TargetCleared
<1> QED  BY <1>2, <1>3, <1>7, <1>8, <1>9 DEF FollowInv

\* The time the worker finds, with a target or without one.
LEMMA FoundOnChannel ==
    ASSUME TimingInv, tx_state # None, NextWindow # None
    PROVE  /\ NextWindow \in Int /\ OnChannel("master", NextWindow)
           /\ target_state # None =>
                /\ NextWindow >= now /\ OnChannel("target", NextWindow)
                /\ Placed("master", "target", NextWindow)
<1>1. "master" \in Devices /\ "target" \in Devices
  BY DEF Devices
<1>2. /\ now \in Nat /\ Follows(tx_state, "master", 2) /\ Follows(target_state, "target", 1)
      /\ device["master"].start \in Int /\ device["target"].start \in Int
  BY <1>1, Periods DEF TimingInv, ClockInv, FollowInv
<1>3. CASE target_state # None
  <2>1. NextWindow = next_common_window(tx_state, target_state, now)
    BY <1>3 DEF NextWindow
  <2> QED  BY <1>1, <1>2, <1>3, <2>1, CommonIsOnChannel
<1>4. CASE target_state = None
  <2>1. NextWindow = next_channel_window(tx_state, now)
    BY <1>4 DEF NextWindow
  <2> QED  BY <1>1, <1>2, <1>4, <2>1, ChannelIsOnChannel
<1> QED  BY <1>3, <1>4

LEMMA NextTiming == ASSUME TimingInv, [Next]_vars PROVE TimingInv'
<1>1. CASE MiddleHears \/ ParentHeard \/ TargetHeard \/ TargetCleared
  BY <1>1, HeardStep
<1>2. CASE Tick
  <2>1. /\ now' = now + 1
        /\ UNCHANGED <<device, middle, tx_state, target_state, worker, scheduled, resume,
                       common>>
    BY <1>2 DEF Tick
  <2>2. ClockInv' /\ now <= now'
    BY <2>1, Periods DEF TimingInv, ClockInv
  <2>3. FollowInv'
    <3>1. Follows(middle, "master", 1)'
      BY <2>1, <2>2, FollowsOn DEF Follows, TimingInv, FollowInv
    <3>2. Follows(tx_state, "master", 2)'
      BY <2>1, <2>2, FollowsOn DEF Follows, TimingInv, FollowInv
    <3>3. Follows(target_state, "target", 1)'
      BY <2>1, <2>2, FollowsOn DEF Follows, TimingInv, FollowInv
    <3> QED  BY <3>1, <3>2, <3>3 DEF FollowInv
  <2>4. WindowInv' /\ PauseInv'
    BY <2>1, <2>2, WindowStays, PauseStays DEF TimingInv
  <2> QED  BY <2>2, <2>3, <2>4 DEF TimingInv
<1>3. ASSUME UNCHANGED <<now, device, middle, tx_state, target_state>>
      PROVE  ClockInv' /\ FollowInv'
  BY <1>3 DEF TimingInv, ClockInv, FollowInv, Follows
<1>4. CASE Schedule
  <2>1. /\ tx_state # None /\ NextWindow # None
        /\ scheduled' = NextWindow /\ common' = (target_state # None) /\ worker' = "wait"
        /\ UNCHANGED <<now, device, middle, tx_state, target_state>>
    BY <1>4 DEF Schedule
  <2>2. WindowInv'
    <3>1. /\ scheduled' \in Int /\ OnChannel("master", scheduled')
          /\ common' => OnChannel("target", scheduled')
      BY <2>1, FoundOnChannel
    <3> QED  BY <2>1, <3>1 DEF WindowInv, OnChannel, Counter
  <2>3. PauseInv'
    <3>1. common' => scheduled' \in Int /\ Placed("master", "target", scheduled')
      BY <2>1, FoundOnChannel
    <3> QED  BY <2>1, <3>1 DEF PauseInv, Placed, Into
  <2> QED  BY <1>3, <2>1, <2>2, <2>3 DEF TimingInv
<1>5. CASE Transmit \/ Resume \/ WorkerEnds \/ UNCHANGED vars
  <2>1. /\ UNCHANGED <<now, device, middle, tx_state, target_state, scheduled, common>>
        /\ worker' = "wait" => worker = "wait"
    BY <1>5 DEF Transmit, Resume, WorkerEnds, vars
  <2>2. WindowInv'
    BY <2>1, WindowStays DEF TimingInv
  <2>3. PauseInv'
    <3>1. Pause \in Int /\ now \in Int
      BY TimingAssumption DEF TimingInv, ClockInv
    <3>2. CASE Transmit
      BY <2>1, <3>1, <3>2 DEF Transmit, TimingInv, PauseInv, Placed, Into
    <3>3. CASE Resume
      BY <2>1, <3>1, <3>3 DEF Resume, TimingInv, PauseInv, Placed, Into
    <3>4. CASE WorkerEnds
      BY <2>1, <3>4 DEF WorkerEnds, TimingInv, PauseInv, Placed, Into
    <3>5. CASE UNCHANGED vars
      BY <2>1, <3>5 DEF vars, TimingInv, PauseInv, Placed, Into
    <3> QED  BY <1>5, <3>2, <3>3, <3>4, <3>5
  <2> QED  BY <1>3, <2>1, <2>2, <2>3 DEF TimingInv
<1> QED  BY <1>1, <1>2, <1>4, <1>5 DEF Next

\* Every relay's state follows the device at the end of its chain, and the time
\* the worker waits for was well chosen.
THEOREM TimingInvariant == Spec => []TimingInv
<1>1. Init => TimingInv
  BY InitTiming
<1>2. TimingInv /\ [Next]_vars => TimingInv'
  BY NextTiming
<1> QED  BY <1>1, <1>2, PTL DEF Spec

\* A relay's windows are the device's, late by less than a unit for each step of
\* the chain, also when the counter starts again
\* (espdrop_awdl_tx_state_from_mif and espdrop_awdl_build_action).
THEOREM RelaysStayInStep == Spec => []FollowersInStep
<1>1. TimingInv => FollowersInStep
  <2> SUFFICES ASSUME TimingInv PROVE FollowersInStep
    OBVIOUS
  <2>1. "master" \in Devices /\ "target" \in Devices
    BY DEF Devices
  <2>2. now \in Int /\ device["master"].start \in Int /\ device["target"].start \in Int
    BY <2>1 DEF TimingInv, ClockInv
  <2>3. InStep(middle, "master", 1)
    BY <2>1, <2>2, FollowerInStep DEF TimingInv, FollowInv
  <2>4. InStep(tx_state, "master", 2)
    BY <2>1, <2>2, FollowerInStep DEF TimingInv, FollowInv
  <2>5. InStep(target_state, "target", 1)
    BY <2>1, <2>2, FollowerInStep DEF TimingInv, FollowInv
  <2> QED  BY <2>3, <2>4, <2>5 DEF FollowersInStep
<1> QED  BY <1>1, TimingInvariant, PTL

\* The worker that wakes up in time sends while the master, and the target it
\* knew when it chose the window, are on the channel (lab_tx_task and the two
\* searches of awdl_tx.c).
THEOREM WorkerSendsOnChannel == Spec => SendsOnChannel
<1>1. ASSUME TimingInv, [Next]_vars
      PROVE  [worker = "wait" /\ worker' = "pause" /\ now = scheduled
                => OnChannel("master", now) /\ (common => OnChannel("target", now))]_vars
  <2> SUFFICES ASSUME worker = "wait", now = scheduled
               PROVE  OnChannel("master", now) /\ (common => OnChannel("target", now))
    BY <1>1
  <2> QED  BY <1>1 DEF TimingInv, WindowInv
<1> QED  BY <1>1, TimingInvariant, PTL DEF Spec, SendsOnChannel

\* A state that follows a device is timely.
LEMMA FollowerTimely ==
    ASSUME NEW s, s # None, NEW d, NEW steps, Follows(s, d, steps)
    PROVE  Timely(s)
<1>1. s.reference \in Int
  BY DEF Follows
<1>2. PICK b \in Int : s.base = Presence * b
  BY DEF Follows
<1>3. s.base = Presence * b + 0 /\ 0 \in 0 .. Presence - 1 /\ s.base \in Int
      /\ Presence \in Nat \ {0}
  BY <1>2, Periods
<1>4. s.base \div Presence = b
  BY <1>3, Quotient, Zenon
<1> QED  BY <1>1, <1>4 DEF Timely

\* The walk over boundary_limit boundaries finds the next common guarded interval
\* of the parent and the target whenever there is one, whatever their phases
\* (espdrop_awdl_next_common_channel_window_us).
THEOREM SearchIsComplete == Spec => []FindsNextCommon
<1>1. TimingInv => FindsNextCommon
  <2> SUFFICES ASSUME TimingInv, tx_state # None, target_state # None
               PROVE  next_common_window(tx_state, target_state, now)
                        = IF Beginnings(tx_state, target_state, now) = {} THEN None
                          ELSE Min(Beginnings(tx_state, target_state, now))
    BY DEF FindsNextCommon
  <2>1. Timely(tx_state) /\ Timely(target_state)
    BY FollowerTimely DEF TimingInv, FollowInv
  <2>2. now \in Nat
    BY Periods DEF TimingInv, ClockInv
  <2> QED  BY <2>1, <2>2, CommonIsNext
<1> QED  BY <1>1, TimingInvariant, PTL

\* In the same EAWs of both devices there are not two beginnings further apart than
\* the rounding.
LEMMA SamePlace ==
    ASSUME NEW d \in Devices, NEW e \in Devices,
           device[d].start \in Int, device[e].start \in Int,
           NEW x \in Int, NEW y \in Int, Placed(d, e, x), Placed(d, e, y),
           (device[d].start + x) \div eaw_us = (device[d].start + y) \div eaw_us,
           (device[e].start + x) \div eaw_us = (device[e].start + y) \div eaw_us
    PROVE  y <= x + 2 * (Tu - 1)
<1>1. ASSUME NEW c \in Devices, device[c].start \in Int,
             (device[c].start + x) \div eaw_us = (device[c].start + y) \div eaw_us
      PROVE  y - x = Into(c, y) - Into(c, x)
  <2> DEFINE a == device[c].start + x
             b == device[c].start + y
  <2>1. a \in Int /\ b \in Int /\ y - x = b - a
    BY <1>1
  <2>2. a \div eaw_us = b \div eaw_us
    BY <1>1
  <2>3. Into(c, x) = a % eaw_us /\ Into(c, y) = b % eaw_us
    BY DEF Into
  <2> HIDE DEF a, b
  <2>4. eaw_us \in Nat \ {0}
    BY Periods
  <2>5. b - a = (b % eaw_us) - (a % eaw_us)
    BY <2>1, <2>2, <2>4, Differences, Zenon
  <2> QED  BY <2>1, <2>3, <2>5, Zenon
<1>2. y - x = Into(d, y) - Into(d, x) /\ y - x = Into(e, y) - Into(e, x)
  BY <1>1
<1> QED  BY <1>2, Periods DEF Placed

\* The worker sends once in a common interval of the devices, however the
\* interval's beginning has moved in the states made since (lab_tx_task).
THEOREM WorkerSendsOnce == Spec => OncePerInterval
<1>1. ASSUME TimingInv, TimingInv', [Next]_vars
      PROVE  [worker = "ready" /\ worker' = "wait" /\ common /\ common'
                => Interval(scheduled') # Interval(scheduled)]_vars
  <2> SUFFICES ASSUME Next, worker = "ready", worker' = "wait", common, common',
                      Interval(scheduled') = Interval(scheduled)
               PROVE  FALSE
    BY <1>1
  <2>1. "master" \in Devices /\ "target" \in Devices
    BY DEF Devices
  <2>2. Schedule
    BY DEF Next, Tick, MiddleHears, ParentHeard, TargetHeard, TargetCleared, Transmit, Resume,
           WorkerEnds
  <2>3. /\ scheduled' = NextWindow /\ tx_state # None /\ target_state # None
        /\ NextWindow # None /\ UNCHANGED device
    BY <2>2 DEF Schedule
  <2>4. scheduled' \in Int /\ scheduled' >= now /\ Placed("master", "target", scheduled')
    BY <1>1, <2>3, FoundOnChannel
  <2>5. /\ scheduled \in Int /\ Placed("master", "target", scheduled)
        /\ now >= scheduled + Pause /\ now \in Int
        /\ device["master"].start \in Int /\ device["target"].start \in Int
    BY <1>1, <2>1 DEF TimingInv, PauseInv, ClockInv
  <2>6. \A d \in Devices :
            (device[d].start + scheduled') \div eaw_us = (device[d].start + scheduled) \div eaw_us
    <3> SUFFICES ASSUME NEW d \in Devices
                 PROVE  (device[d].start + scheduled') \div eaw_us
                          = (device[d].start + scheduled) \div eaw_us
      OBVIOUS
    <3>1. Interval(scheduled')[d] = Interval(scheduled)[d]
      OBVIOUS
    <3>2. /\ Interval(scheduled')[d] = (device[d].start + scheduled') \div eaw_us
          /\ Interval(scheduled)[d] = (device[d].start + scheduled) \div eaw_us
      BY Zenon DEF Interval
    <3> QED  BY <3>1, <3>2, Zenon
  <2>7. scheduled' <= scheduled + 2 * (Tu - 1)
    BY <2>1, <2>4, <2>5, <2>6, SamePlace
  <2>8. 2 * (Tu - 1) < Pause /\ 2 * (Tu - 1) \in Int /\ Pause \in Int
    BY Periods, TimingAssumption, GuardAssumption
  <2> QED  BY <2>4, <2>5, <2>7, <2>8
<1> QED  BY <1>1, TimingInvariant, PTL DEF Spec, OncePerInterval

-----------------------------------------------------------------------------
(***************************************************************************)
(* Types.                                                                  *)
(***************************************************************************)

AllChannels == UNION {Channels[d] : d \in Devices}

\* A window still to be used is within the limit (the loop of lab_tx_task).
TypeInv == TypeOK /\ (worker = "wait" => windows < ProbeLimit)

\* A MIF whose counter is in range gives a state.
LEMMA StateTyped ==
    ASSUME NEW t \in 0 .. Deadline, NEW f \in 0 .. eaw_tu - 1, t >= eaw_us,
           NEW aw \in 0 .. SequenceMod - 1, NEW channels \in AllChannels
    PROVE  state_from_mif([tx_down |-> eaw_tu - f, aw |-> aw, channels |-> channels], t)
             \in State
<1> DEFINE mif == [tx_down |-> eaw_tu - f, aw |-> aw, channels |-> channels]
           s == state_from_mif(mif, t)
<1>1. Deadline \in Nat /\ t \in Int /\ aw \in Int
  BY TimingAssumption
<1>2. /\ s.reference = t - Tu * f /\ s.reference \in Int /\ s.reference <= t
      /\ s.base = Presence * (aw \div Presence)
  BY <1>1, StateMade
<1>3. Tu * f <= eaw_us
  <2>1. Tu * f <= Tu * (eaw_tu - 1) /\ Tu * (eaw_tu - 1) = eaw_us - Tu
    BY Periods
  <2> QED  BY <2>1, Periods
<1>4. s.reference \in 0 .. Deadline
  BY <1>1, <1>2, <1>3, Periods
<1>5. s.base \in 0 .. SequenceMod - 1
  <2>1. /\ aw \div Presence \in Int /\ aw % Presence \in 0 .. Presence - 1
        /\ aw = Presence * (aw \div Presence) + (aw % Presence)
    BY <1>1, Periods, Division
  <2>2. Presence * (aw \div Presence) >= 0
    <3>1. aw \div Presence >= 0
      <4>1. ASSUME aw \div Presence < 0
            PROVE  FALSE
        <5>1. Presence * (aw \div Presence) + Presence <= Presence * 0 /\ 0 \in Int
          BY <2>1, <4>1, Periods, Multiples
        <5> QED  BY <2>1, <5>1, Periods
      <4> QED  BY <2>1, <4>1
    <3> QED  BY <2>1, <3>1, Periods
  <2> QED  BY <1>2, <2>1, <2>2, Periods
<1>6. s = [reference |-> s.reference, base |-> s.base, channels |-> channels]
  BY DEF state_from_mif
<1> QED  BY <1>4, <1>5, <1>6 DEF State, AllChannels

\* The states of the relays, whoever is heard.
LEMMA HeardTyped ==
    ASSUME TimingInv, TypeOK, MiddleHears \/ ParentHeard \/ TargetHeard \/ TargetCleared
    PROVE  \A s \in {middle', tx_state', target_state'} \ {None} : s \in State
<1>1. now \in 0 .. Deadline /\ now >= eaw_us /\ now \in Int
  <2>1. now \in eaw_us .. Deadline
    BY DEF TypeOK
  <2>2. Deadline \in Nat
    BY TimingAssumption
  <2> QED  BY <2>1, <2>2, Periods
<1>2. ASSUME NEW d \in Devices
      PROVE  state_from_mif(device_mif(d, now), now) \in State
  <2> DEFINE u == (device[d].start + now) \div Tu
  <2>1. device[d].start \in Int /\ device[d].channels \in AllChannels
    BY <1>2 DEF TypeOK, AllChannels
  <2>2. u \in Int
    <3>1. device[d].start + now \in Int /\ Tu \in Nat \ {0}
      BY <1>1, <2>1, Periods
    <3> QED  BY <3>1, Division
  <2>3. (device[d].start + now) \div (AwPeriod * Tu) \in Int
    BY <1>1, <2>1, Periods, Division
  <2>4. Counter(d, now) \in 0 .. SequenceMod - 1
    BY <2>3, Periods, Division DEF Counter
  <2>5. device_mif(d, now) = [tx_down |-> eaw_tu - (u % eaw_tu), aw |-> Counter(d, now),
                              channels |-> device[d].channels]
    BY DEF device_mif
  <2> HIDE DEF u
  <2>6. u % eaw_tu \in 0 .. eaw_tu - 1
    BY <2>2, Periods, Division
  <2> QED  BY <1>1, <2>1, <2>4, <2>5, <2>6, StateTyped
<1>3. ASSUME middle # None
      PROVE  state_from_mif(build_action(middle, now), now) \in State
  <2> DEFINE e == (now - middle.reference) \div Tu
             f == e % eaw_tu
             a == middle.base + (e \div eaw_tu) * Presence + f \div AwPeriod
  <2>1. middle \in State
    BY <1>3 DEF TypeOK
  <2>2. middle.reference \in Int /\ middle.base \in Int /\ middle.channels \in AllChannels
    BY <2>1, TimingAssumption, Periods DEF State, AllChannels
  <2>3. e \in Int
    <3>1. now - middle.reference \in Int /\ Tu \in Nat \ {0}
      BY <1>1, <2>2, Periods
    <3> QED  BY <3>1, Division
  <2>4. build_action(middle, now) = [tx_down |-> eaw_tu - f, aw |-> a % SequenceMod,
                                     channels |-> middle.channels]
    BY DEF build_action
  <2> HIDE DEF e
  <2>5. f \in 0 .. eaw_tu - 1 /\ e \div eaw_tu \in Int
    BY <2>3, Periods, Division
  <2> HIDE DEF f
  <2>6. f \div AwPeriod \in Int
    BY <2>5, Periods, Division
  <2>7. (e \div eaw_tu) * Presence \in Int
    BY <2>5, Periods
  <2>8. a \in Int
    BY <2>2, <2>6, <2>7
  <2> HIDE DEF a
  <2>9. a % SequenceMod \in 0 .. SequenceMod - 1
    BY <2>8, Periods, Division
  <2> QED  BY <1>1, <2>2, <2>4, <2>5, <2>9, StateTyped
<1>4. \A s \in {middle, tx_state, target_state} \ {None} : s \in State
  BY DEF TypeOK
<1>5. "master" \in Devices /\ "target" \in Devices
  BY DEF Devices
<1> QED  BY <1>2, <1>3, <1>4, <1>5 DEF MiddleHears, ParentHeard, TargetHeard, TargetCleared

\* The time found is not in the past.
LEMMA FoundIsLater ==
    ASSUME TimingInv, tx_state # None, NextWindow # None
    PROVE  NextWindow \in Int /\ NextWindow >= now
<1>1. NextWindow \in Int /\ (target_state # None => NextWindow >= now)
  BY FoundOnChannel
<1>2. ASSUME target_state = None
      PROVE  NextWindow >= now
  <2> DEFINE s == tx_state
             t == now
             current == channel_window_at(s, t).start
             found == {offset \in 0 .. Count :
                        /\ channel_window_at(s, current + offset * eaw_us).channel = Channel
                        /\ current + offset * eaw_us + Guard >= t}
  <2>1. NextWindow = next_channel_window(s, t)
    BY <1>2 DEF NextWindow
  <2>2. found # {} /\ NextWindow = current + Min(found) * eaw_us + Guard
    BY <2>1 DEF next_channel_window
  <2>3. found \in SUBSET Nat
    BY Periods
  <2>4. PICK i \in found : i = Min(found)
    BY <2>2, <2>3, MinLeast
  <2> QED  BY <2>2, <2>4
<1> QED  BY <1>1, <1>2

LEMMA InitTypes == ASSUME Init PROVE TypeInv
<1>1. Starts \in [Devices -> SUBSET (0 .. Cycle - 1)]
  BY TimingAssumption
<1>2. device \in [Devices -> [start : 0 .. Cycle - 1, channels : AllChannels]]
  BY <1>1 DEF Init, AllChannels
<1>3. /\ Deadline \in Nat /\ Pause \in Nat /\ ProbeLimit \in Nat
      /\ now \in eaw_us .. Deadline
  BY TimingAssumption, DeadlineAssumption, Periods DEF Init
<1>4. \A s \in {middle, tx_state, target_state} \ {None} : s \in State
  BY DEF Init
<1>5. /\ worker = "ready" /\ scheduled \in 0 .. Deadline /\ resume \in 0 .. Deadline + Pause
      /\ windows \in 0 .. ProbeLimit
  <2>1. worker = "ready" /\ scheduled = 0 /\ resume = 0 /\ windows = 0
    BY DEF Init
  <2> QED  BY <1>3, <2>1
<1>6. common \in BOOLEAN
  BY Zenon DEF Init
<1> QED  BY <1>2, <1>3, <1>4, <1>5, <1>6 DEF TypeInv, TypeOK, AllChannels

LEMMA NextTypes == ASSUME TimingInv, TypeInv, [Next]_vars PROVE TypeInv'
<1>1. Deadline \in Nat /\ Pause \in Nat /\ ProbeLimit \in Nat /\ eaw_us \in Nat
  BY TimingAssumption, Periods
<1>2. CASE MiddleHears \/ ParentHeard \/ TargetHeard \/ TargetCleared
  <2>1. UNCHANGED <<now, device, worker, scheduled, resume, common, windows>>
    BY <1>2 DEF MiddleHears, ParentHeard, TargetHeard, TargetCleared
  <2>2. \A s \in {middle', tx_state', target_state'} \ {None} : s \in State
    BY <1>2, HeardTyped DEF TypeInv
  <2> QED  BY <2>1, <2>2 DEF TypeInv, TypeOK, State
<1>3. CASE Tick
  BY <1>1, <1>3 DEF Tick, TypeInv, TypeOK, State
<1>4. CASE Schedule
  <2>1. scheduled' \in 0 .. Deadline
    BY <1>1, <1>4, FoundIsLater DEF Schedule, TypeInv, TypeOK
  <2>2. common' \in BOOLEAN
    BY <1>4, Zenon DEF Schedule
  <2> QED  BY <1>4, <2>1, <2>2 DEF Schedule, TypeInv, TypeOK, State
<1>5. CASE Transmit
  BY <1>1, <1>5 DEF Transmit, TypeInv, TypeOK, State
<1>6. CASE Resume
  BY <1>6 DEF Resume, TypeInv, TypeOK, State
<1>7. CASE WorkerEnds
  BY <1>7 DEF WorkerEnds, TypeInv, TypeOK, State
<1>8. CASE UNCHANGED vars
  BY <1>8 DEF vars, TypeInv, TypeOK, State
<1> QED  BY <1>2, <1>3, <1>4, <1>5, <1>6, <1>7, <1>8 DEF Next

\* Reference times are of the clock, counters do not leave their sixteen bits,
\* windows are within the worker's deadline and their number within its limit.
THEOREM TimingTypes == Spec => []TypeOK
<1>1. Init => TypeInv
  BY InitTypes
<1>2. TimingInv /\ TypeInv /\ [Next]_vars => TypeInv'
  BY NextTypes
<1>3. TypeInv => TypeOK
  BY DEF TypeInv
<1> QED  BY <1>1, <1>2, <1>3, TimingInvariant, PTL DEF Spec

=============================================================================
