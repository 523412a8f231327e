----------------------------- MODULE DeviceProofs -----------------------------
(***************************************************************************)
(* Proofs about the small components: the mouse reports, the factory       *)
(* reset, the drivers of the external EEPROMs and the playback of macros.  *)
(***************************************************************************)
EXTENDS Mouse, FactoryReset, PagedEeprom, Playback, ExtraReportProofs

(***************************************************************************)
(* Mouse: for any buttons, axes, speeds and rate limits, the reports that  *)
(* only repeat a sample never show a click of their own.                   *)
(***************************************************************************)
\* The invariant: the last report shows the buttons of the last sample, if the
\* normal state made it.
SampleInv ==
    /\ prev_button \subseteq Buttons
    /\ fresh = TRUE => report.button = prev_button

\* What a report of the normal state shows: the buttons of the last sample,
\* which is the former one or that of the keys now.
LEMMA FillShowsSample ==
    ASSUME keystate_Fill_MouseReport
    PROVE  /\ report'.button = prev_button'
           /\ prev_button' = prev_button \/ prev_button' = Buttons \cap down
<1>1. CASE RepeatSample
  BY <1>1 DEF RepeatSample
<1>2. CASE TakeSample
  <2>1. prev_button' = Buttons \cap down
    BY <1>2 DEF TakeSample
  <2>2. report'.button = prev_button'
    BY <1>2 DEF TakeSample
  <2>3. QED
    BY <2>1, <2>2
<1>3. QED
  BY <1>1, <1>2 DEF keystate_Fill_MouseReport

\* The steps that make no report of the normal state change neither the sample
\* nor, unless they report a mouse at rest, the report.
LEMMA OthersKeepSample ==
    ASSUME [MouseNext]_mouseVars, ~keystate_Fill_MouseReport
    PROVE  /\ prev_button' = prev_button
           /\ fresh' = FALSE \/ (fresh' = fresh /\ report' = report)
<1>1. CASE FillElsewhere
  BY <1>1 DEF FillElsewhere, statics
<1>2. CASE ChangeState
  BY <1>2 DEF ChangeState, statics
<1>3. ASSUME NEW k \in MouseKeys, ChangeKey(k)
      PROVE  prev_button' = prev_button /\ fresh' = fresh /\ report' = report
  BY <1>3 DEF ChangeKey, statics
<1>4. ASSUME NEW d \in Divs, SaveDiv(d)
      PROVE  prev_button' = prev_button /\ fresh' = fresh /\ report' = report
  BY <1>4 DEF SaveDiv, statics
<1>5. CASE UNCHANGED mouseVars
  BY <1>5 DEF mouseVars, statics
<1>6. QED
  BY <1>1, <1>2, <1>3, <1>4, <1>5 DEF MouseNext

\* No button is sampled before the first report.
LEMMA InitSampleInv == MouseInit => SampleInv
  BY DEF MouseInit, SampleInv

\* Every step keeps the invariant.
LEMMA NextSampleInv == SampleInv /\ [MouseNext]_mouseVars => SampleInv'
<1> SUFFICES ASSUME SampleInv, [MouseNext]_mouseVars PROVE SampleInv'
  OBVIOUS
<1>1. CASE keystate_Fill_MouseReport
  BY <1>1, FillShowsSample DEF SampleInv
<1>2. CASE ~keystate_Fill_MouseReport
  BY <1>2, OthersKeepSample DEF SampleInv
<1>3. QED
  BY <1>1, <1>2

\* Fill_MouseReport: between two reports of the normal state a button goes down
\* for the host only if its key is held, and up only if it is not.
THEOREM SpecButtonsFollowKeys == MouseSpec => ButtonsFollowKeys
<1> DEFINE Follows ==
        fresh /\ fresh' =>
            /\ report'.button \subseteq report.button \cup down
            /\ report.button \cap down \subseteq report'.button
<1>1. SampleInv /\ [MouseNext]_mouseVars => [Follows]_mouseVars
  <2> SUFFICES ASSUME SampleInv, [MouseNext]_mouseVars, fresh, fresh' PROVE Follows
    OBVIOUS
  <2>1. CASE keystate_Fill_MouseReport
    BY <2>1, FillShowsSample DEF SampleInv
  <2>2. CASE ~keystate_Fill_MouseReport
    BY <2>2, OthersKeepSample DEF SampleInv
  <2>3. QED
    BY <2>1, <2>2
<1>2. QED
  BY <1>1, InitSampleInv, NextSampleInv, PTL DEF MouseSpec, ButtonsFollowKeys

(***************************************************************************)
(* FactoryReset: for any number of power losses and of requests inside a   *)
(* reset, the keyboard never runs with storage that was never written.     *)
(***************************************************************************)
\* The areas config_reset_fully has written when it comes to position n.
Done(n) == {ResetOrder[m] : m \in 1..(n - 1)}

NoneBlank == \A a \in Areas : area[a] # "blank"

\* The invariant that carries over a restart: a valid sentinel vouches for
\* every area, and a reset in progress for those it has passed.
SentinelInv ==
    /\ ResetTypeOK
    /\ sentinel => NoneBlank
    /\ mode = "running" => NoneBlank
    /\ mode = "resetting" => \A a \in Areas \cap Done(next) : area[a] # "blank"

\* config_reset_fully writes ten things, the sentinel last and alone.
LEMMA OrderFacts ==
    /\ Len(ResetOrder) = 10
    /\ \A n \in 1..9 : ResetOrder[n] \in Areas /\ ResetOrder[n] # "sentinel"
    /\ ResetOrder[10] = "sentinel" /\ "sentinel" \notin Areas
    /\ Areas \subseteq Done(10)
    /\ Done(1) = {}
    /\ \A n \in 1..10 : Done(n + 1) = Done(n) \cup {ResetOrder[n]}
<1>1. Len(ResetOrder) = 10
  BY DEF ResetOrder
<1>2. \A n \in 1..9 : ResetOrder[n] \in Areas /\ ResetOrder[n] # "sentinel"
  BY DEF ResetOrder, Areas
<1>3. ResetOrder[10] = "sentinel" /\ "sentinel" \notin Areas
  BY DEF ResetOrder, Areas
<1>4. Areas \subseteq Done(10)
  BY DEF ResetOrder, Areas, Done
<1>5. Done(1) = {}
  BY DEF Done
<1>6. \A n \in 1..10 : Done(n + 1) = Done(n) \cup {ResetOrder[n]}
  <2>1. \A n \in 1..10 : 1..((n + 1) - 1) = (1..(n - 1)) \cup {n}
    OBVIOUS
  <2>2. QED
    BY <2>1 DEF Done
<1>7. QED
  BY <1>1, <1>2, <1>3, <1>4, <1>5, <1>6

\* The same with ResetTypeOK in two parts: the Booleans and the rest.
Booleans == sentinel \in BOOLEAN /\ reset \in BOOLEAN /\ in_task \in BOOLEAN

Typed ==
    /\ area \in [Areas -> {"blank", "factory", "user", "torn"}] /\ losses \in 0..MaxLosses
    /\ mode \in {"off", "resetting", "running"} /\ next \in 1..10 /\ outer \in 0..10

\* ResetTypeOK is those two, the reset being ten writes long.
LEMMA TypeParts == ResetTypeOK <=> Booleans /\ Typed
  BY OrderFacts DEF ResetTypeOK, Booleans, Typed

\* A blank EEPROM satisfies the invariant.
LEMMA InitSentinelInv == ResetInit => SentinelInv
<1> SUFFICES ASSUME ResetInit PROVE SentinelInv
  OBVIOUS
<1>1. Booleans /\ ~sentinel
  BY Zenon DEF ResetInit, Booleans
<1>2. Typed
  BY LossesAssumption DEF ResetInit, Typed
<1>3. mode = "off"
  BY DEF ResetInit
<1>4. QED
  BY <1>1, <1>2, <1>3, TypeParts, Zenon DEF SentinelInv

\* Every step of config_init, config_reset_fully, the user, the host and the power
\* supply keeps the invariant.
LEMMA NextSentinelInv == SentinelInv /\ [ResetNext]_resetVars => SentinelInv'
<1> SUFFICES ASSUME SentinelInv, [ResetNext]_resetVars PROVE SentinelInv'
  OBVIOUS
<1>a. Booleans /\ Typed
  BY TypeParts DEF SentinelInv
<1>b. ResetTypeOK' <=> Booleans' /\ Typed'
  BY OrderFacts DEF ResetTypeOK, Booleans, Typed
<1>1. CASE config_init
  <2>1. Booleans'
    BY <1>a, <1>1, Zenon DEF config_init, Booleans
  <2>2. Typed'
    BY <1>a, <1>1 DEF config_init, Typed
  <2>3. area' = area /\ sentinel' = sentinel
    BY <1>1 DEF config_init
  <2>4. CASE sentinel /\ mode' = "running"
    BY <1>b, <2>1, <2>2, <2>3, <2>4 DEF SentinelInv, NoneBlank
  <2>5. CASE mode' = "resetting" /\ next' = 1
    BY <1>b, <2>1, <2>2, <2>3, <2>5, OrderFacts DEF SentinelInv, NoneBlank
  <2>6. QED
    BY <1>1, <2>4, <2>5 DEF config_init
<1>2. CASE BeginReset
  <2>1. Booleans'
    BY <1>a, <1>2, Zenon DEF BeginReset, Booleans
  <2>2. Typed'
    BY <1>a, <1>2 DEF BeginReset, Typed
  <2>3. QED
    BY <1>b, <1>2, <2>1, <2>2, OrderFacts DEF BeginReset, SentinelInv, NoneBlank
<1>3. CASE ResetArea
  <2>0. Booleans'
    BY <1>a, <1>3, Zenon DEF ResetArea, EndReset, Booleans
  <2>1. CASE next = 10
    <3>1. area' = area /\ losses' = losses /\ outer' = 0
      BY <1>3, <2>1, OrderFacts DEF ResetArea, EndReset
    <3>2. \/ mode' = "running" /\ next' = next
          \/ mode' = mode /\ outer # 0 /\ next' = outer
      BY <1>3, <2>1, OrderFacts DEF ResetArea, EndReset
    <3>3. Typed'
      BY <1>a, <3>1, <3>2 DEF Typed
    <3>4. NoneBlank'
      BY <1>3, <2>1, <3>1, OrderFacts DEF ResetArea, SentinelInv, NoneBlank
    <3>5. QED
      BY <1>b, <2>0, <3>1, <3>2, <3>3, <3>4 DEF SentinelInv, NoneBlank
  <2>2. CASE next \in 1..9
    <3>1. /\ area' = [area EXCEPT ![ResetOrder[next]] = "factory"]
          /\ next' = next + 1
          /\ UNCHANGED <<sentinel, mode, in_task, outer, reset, losses>>
      BY <1>3, <2>2, OrderFacts DEF ResetArea
    <3>2. Typed'
      BY <1>a, <3>1, <2>2, OrderFacts DEF Typed
    <3>3. \A a \in Areas : area'[a] = "blank" => area[a] = "blank" /\ a # ResetOrder[next]
      BY <1>a, <3>1, <2>2, OrderFacts DEF Typed
    <3>4. Done(next') = Done(next) \cup {ResetOrder[next]}
      BY <3>1, <2>2, OrderFacts
    <3>5. QED
      BY <1>b, <2>0, <3>1, <3>2, <3>3, <3>4 DEF SentinelInv, NoneBlank
  <2>3. QED
    BY <1>a, <2>1, <2>2 DEF Typed
<1>4. CASE PowerLoss
  <2>1. Booleans'
    BY <1>a, <1>4, Zenon DEF PowerLoss, Booleans
  <2>2. Typed'
    BY <1>a, <1>4, LossesAssumption, OrderFacts DEF PowerLoss, Torn, Typed
  <2>3. \A a \in Areas : area'[a] = "blank" => area[a] = "blank"
    BY <1>a, <1>4 DEF PowerLoss, Torn, Typed
  <2>4. QED
    BY <1>b, <1>4, <2>1, <2>2, <2>3 DEF PowerLoss, SentinelInv, NoneBlank
<1>5. ASSUME NEW a \in Areas, Customise(a) PROVE SentinelInv'
  <2>1. Booleans'
    BY <1>a, <1>5, Zenon DEF Customise, Booleans
  <2>2. Typed' /\ \A b \in Areas : area'[b] = "blank" => area[b] = "blank"
    BY <1>a, <1>5 DEF Customise, Typed
  <2>3. QED
    BY <1>b, <1>5, <2>1, <2>2 DEF Customise, SentinelInv, NoneBlank
<1>6. CASE UNCHANGED resetVars
  <2>1. Booleans' /\ Typed'
    BY <1>a, <1>6 DEF resetVars, Booleans, Typed
  <2>2. QED
    BY <1>b, <1>6, <2>1 DEF resetVars, SentinelInv, NoneBlank, Done
<1>7. CASE HostReset
  <2>1. Booleans'
    BY <1>a, <1>7, Zenon DEF HostReset, Booleans
  <2>2. Typed'
    BY <1>a, <1>7 DEF HostReset, Typed
  <2>3. QED
    BY <1>b, <1>7, <2>1, <2>2, OrderFacts DEF HostReset, SentinelInv, NoneBlank
<1>8. ASSUME NEW a \in HostAreas, HostWrites(a) PROVE SentinelInv'
  <2>1. Booleans'
    BY <1>a, <1>8, Zenon DEF HostWrites, Booleans
  <2>2. a \in Areas /\ mode = "resetting" /\ UNCHANGED <<sentinel, mode, outer, losses>>
    BY <1>8 DEF HostWrites, Polls, HostAreas, Areas
  <2>3. CASE next' = next
    <3>1. area' = [area EXCEPT ![a] = IF @ = "blank" THEN "blank" ELSE "user"] \/ area' = [area EXCEPT ![a] = "torn"]
      BY <1>8 DEF HostWrites
    <3>2. Typed' /\ \A b \in Areas : area'[b] = "blank" => area[b] = "blank"
      BY <1>a, <2>2, <2>3, <3>1 DEF Typed
    <3>3. QED
      BY <1>b, <2>1, <2>2, <2>3, <3>2 DEF SentinelInv, NoneBlank
  <2>4. CASE a = ResetOrder[next] /\ area' = [area EXCEPT ![a] = "torn"] /\ next' = next + 1
    <3>1. next # 10 /\ next \in 1..10
      BY <1>a, <2>2, <2>4, OrderFacts DEF Typed
    <3>2. Typed' /\ \A b \in Areas : area'[b] = "blank" => area[b] = "blank" /\ b # a
      BY <1>a, <2>2, <2>4, <3>1 DEF Typed
    <3>3. Done(next') = Done(next) \cup {a}
      BY <2>4, <3>1, OrderFacts
    <3>4. QED
      BY <1>b, <2>1, <2>2, <3>2, <3>3 DEF SentinelInv, NoneBlank
  <2>5. QED
    BY <1>8, <2>3, <2>4 DEF HostWrites
<1>9. QED
  BY <1>1, <1>2, <1>3, <1>4, <1>5, <1>6, <1>7, <1>8 DEF ResetNext

\* config_init: however often power is lost, wherever in config_reset_fully, and
\* whatever the host writes or resets inside it, the keyboard never runs with an
\* area that was not written.
THEOREM SpecNeverRunsBlank == ResetSpec => []NeverRunsBlank
<1>1. SentinelInv => NeverRunsBlank
  BY DEF SentinelInv, NeverRunsBlank, NoneBlank
<1>2. QED
  BY <1>1, InitSentinelInv, NextSentinelInv, PTL DEF ResetSpec

\* config_reset_fully: every variable of the model keeps its type; the position
\* in the reset never runs past its end.
THEOREM ResetTypeCorrect == ResetSpec => []ResetTypeOK
<1>1. SentinelInv => ResetTypeOK
  BY DEF SentinelInv
<1>2. QED
  BY <1>1, InitSentinelInv, NextSentinelInv, PTL DEF ResetSpec

(***************************************************************************)
(* PagedEeprom: for chips of any size with pages of any size, a call of a  *)
(* driver leaves exactly the bytes it was asked for.                       *)
(***************************************************************************)
\* Division with remainder, by any positive divisor.
LEMMA Division ==
    ASSUME NEW p \in Nat \ {0}, NEW a \in Int
    PROVE  a = p * (a \div p) + (a % p) /\ a \div p \in Int /\ a % p \in 0..(p - 1)
<1>1. a = p * (a \div p) + (a % p)
  OBVIOUS
<1>2. a \div p \in Int /\ a % p \in 0..(p - 1)
  OBVIOUS
<1> QED
  BY <1>1, <1>2

\* The remainder is the only one.
LEMMA Remainder ==
    ASSUME NEW p \in Nat \ {0}, NEW a \in Int, NEW q \in Int, NEW r \in 0..(p - 1), a = p * q + r
    PROVE  a % p = r
  OBVIOUS

\* Inside a page the offset moves with the address.
LEMMA OffsetMoves ==
    ASSUME NEW p \in Nat \ {0}, NEW a \in Int, NEW i \in Int, (a % p) + i \in 0..(p - 1)
    PROVE  (a + i) % p = (a % p) + i
<1> DEFINE q == a \div p
           b == a + i
           r == (a % p) + i
<1>1. a = p * q + (a % p) /\ q \in Int
  BY Division
<1>2. b \in Int /\ r \in 0..(p - 1)
  OBVIOUS
<1>3. b = p * q + r
  <2> HIDE DEF q
  <2> QED BY <1>1
<1> HIDE DEF q, b, r
<1>4. b % p = r
  BY <1>1, <1>2, <1>3, Remainder
<1> QED
  BY <1>4 DEF b, r

\* Behind the last address of a page the next one begins.
LEMMA OffsetWraps ==
    ASSUME NEW p \in Nat \ {0}, NEW a \in Int, a % p = p - 1
    PROVE  (a + 1) % p = 0
<1> DEFINE q == a \div p
           t == q + 1
           b == a + 1
<1>1. a = p * q + (p - 1) /\ q \in Int
  BY Division
<1>2. t \in Int /\ b \in Int /\ 0 \in 0..(p - 1)
  BY <1>1
<1>3. b = p * t + 0
  <2> HIDE DEF q
  <2> QED BY <1>1
<1> HIDE DEF t, b
<1>4. b % p = 0
  BY <1>2, <1>3, Remainder
<1> QED
  BY <1>4 DEF b

\* Below the first address of a page is the one before.
LEMMA OffsetBelow ==
    ASSUME NEW p \in Nat \ {0}, NEW a \in Int, a % p = 0, NEW i \in 1..p
    PROVE  (a - i) % p = p - i
<1> DEFINE q == a \div p
           t == q - 1
           b == a - i
           r == p - i
<1>1. a = p * q /\ q \in Int
  BY Division
<1>2. t \in Int /\ b \in Int /\ r \in 0..(p - 1)
  BY <1>1
<1>3. b = p * t + r
  <2> HIDE DEF q
  <2> QED BY <1>1
<1> HIDE DEF t, b, r
<1>4. b % p = r
  BY <1>2, <1>3, Remainder
<1> QED
  BY <1>4 DEF b, r

\* The page of the chip in use.
LEMMA PageType ==
    ASSUME build \in Chips
    PROVE  Page \in Nat \ {0} /\ Size \in Nat \ {0} /\ Driver \in {"spi", "i2c"}
  BY PagedAssumption DEF Page, Driver

\* n bytes that do not go beyond the end of their page are sent as they are.
LEMMA SentIs ==
    ASSUME build \in Chips, NEW at \in Nat, NEW n \in Nat, (at % Page) + n <= Page, NEW b
    PROVE  Sent(at, n, b) = [x \in Span(at, n) |-> b[x - at]]
<1> DEFINE p == Page
           off == at % p
<1>1. p \in Nat \ {0} /\ off \in 0..(p - 1) /\ off + n <= p
  <2>1. p \in Nat \ {0} /\ off + n <= p /\ at \in Int
    BY PageType
  <2> HIDE DEF p
  <2> QED BY <2>1, Division
<1>2. ASSUME NEW i \in 0..(n - 1) PROVE InPage(at, i) = at + i
  <2>1. InPage(at, i) = (at - off) + ((off + i) % p)
    BY DEF InPage
  <2> HIDE DEF off, p
  <2>2. off + i \in 0..(p - 1)
    BY <1>1
  <2>3. (off + i) % p = off + i
    BY <1>1, <2>2
  <2> QED BY <1>1, <2>1, <2>3
<1>3. {InPage(at, i) : i \in 0..(n - 1)} = Span(at, n)
  <2>1. \A x \in Span(at, n) : x - at \in 0..(n - 1) /\ at + (x - at) = x
    BY DEF Span
  <2>2. \A i \in 0..(n - 1) : at + i \in Span(at, n)
    BY DEF Span
  <2>3. ASSUME NEW i \in 0..(n - 1) PROVE InPage(at, i) \in Span(at, n)
    BY <1>2, <2>2
  <2>4. ASSUME NEW x \in Span(at, n) PROVE \E i \in 0..(n - 1) : x = InPage(at, i)
    <3>1. x - at \in 0..(n - 1) /\ at + (x - at) = x
      BY <2>1
    <3>2. InPage(at, x - at) = at + (x - at)
      BY <1>2, <3>1
    <3> QED BY <3>1, <3>2
  <2> QED BY <2>3, <2>4, ZenonT(30)
<1> DEFINE Last(x) == CHOOSE i \in 0..(n - 1) :
                         InPage(at, i) = x /\ \A j \in (i + 1)..(n - 1) : InPage(at, j) # x
<1>4. ASSUME NEW x \in Span(at, n) PROVE Last(x) = x - at
  <2> DEFINE w == x - at
  <2>1. w \in 0..(n - 1) /\ \A i \in 0..(n - 1) : at + i = x <=> i = w
    BY DEF Span
  <2>2. \A j \in (w + 1)..(n - 1) : j \in 0..(n - 1) /\ j # w
    BY <2>1
  <2>3. InPage(at, w) = x /\ \A j \in (w + 1)..(n - 1) : InPage(at, j) # x
    BY <1>2, <2>1, <2>2
  <2>4. \A i \in 0..(n - 1) : InPage(at, i) = x => i = w
    BY <1>2, <2>1
  <2> HIDE DEF w
  <2> QED BY <2>1, <2>3, <2>4 DEF w
<1>5. Sent(at, n, b) = [x \in Span(at, n) |-> b[Last(x)]]
  BY <1>3 DEF Sent
<1> HIDE DEF Last
<1> QED
  BY <1>4, <1>5

\* The bytes a call has still to write, and what it is to write there.
Pending ==
    IF op.kind = "move" /\ Up(op) THEN Span(op.dst - op.count, op.count) ELSE Span(op.dst, op.count)

Wanted(a) == IF op.kind = "move" THEN Contents[op.src + (a - op.dst)] ELSE Data(op.kind, a)

\* The call in progress stays inside the chip, and a page that is not split is one.
Ahead == 0 <= op.dst /\ op.dst + op.count <= Size
Forward == op.kind = "move" => op.dst < op.src /\ op.src + op.count <= Size
Backward == Driver = "i2c" /\ op.count <= op.src /\ op.dst <= Size

OpInv ==
    /\ op \in [kind : Kinds, dst : Int, src : Int, count : Nat, written : Nat, polled : BOOLEAN]
    /\ op.kind = "none" => op.count = 0
    /\ IF op.kind = "move" /\ Up(op) THEN Backward ELSE Ahead /\ Forward
    /\ op.kind = "page" /\ op.count > 0 => (op.dst % Page) + op.count <= Page

\* Only a vendor write leaves a page open, and its next byte goes where it is to.
ChipInv ==
    /\ build \in Chips /\ chip \in {"ready", "selected", "busy"}
    /\ chip = "ready" => DOMAIN latch = {}
    /\ chip = "selected" <=> op.kind = "stream" /\ op.count > 0 /\ ~Selects
    /\ chip = "selected" => cursor = op.dst

\* What the bytes written so far and the ones still to write add up to.
ContentsInv ==
    /\ IsArray(expected, Addresses)
    /\ \A a \in Addresses : expected[a] = IF a \in Pending THEN Wanted(a) ELSE Contents[a]

EepromInv == OpInv /\ ChipInv /\ ContentsInv

\* What a page of m bytes at address at makes of the contents.
Puts(at, m) ==
    \A a \in Addresses : Contents'[a] = IF a \in Span(at, m) THEN Wanted(a) ELSE Contents[a]

\* The page that is sent to a chip that is ready.
LEMMA PagePuts ==
    ASSUME EepromInv, chip = "ready", NEW at \in Nat, NEW m \in Nat, (at % Page) + m <= Page,
           NEW b, \A i \in 0..(m - 1) : b[i] = Wanted(at + i), write_page(at, m, b)
    PROVE  chip' = "busy" /\ build' = build /\ Puts(at, m)
<1>1. build \in Chips /\ DOMAIN latch = {}
  BY DEF EepromInv, ChipInv
<1>2. chip' = "busy" /\ build' = build /\ cells' = cells /\ latch' = Sent(at, m, b)
  BY DEF write_page
<1>3. latch' = [x \in Span(at, m) |-> b[x - at]]
  BY <1>1, <1>2, SentIs
<1>4. ASSUME NEW a \in Addresses
      PROVE  Contents'[a] = IF a \in Span(at, m) THEN Wanted(a) ELSE Contents[a]
  <2>1. Contents[a] = cells[a]
    BY <1>1 DEF Contents
  <2>2. Contents'[a] = IF a \in Span(at, m) THEN b[a - at] ELSE cells[a]
    BY <1>2, <1>3 DEF Contents
  <2>3. ASSUME a \in Span(at, m) PROVE b[a - at] = Wanted(a)
    <3> DEFINE i == a - at
    <3>1. i \in 0..(m - 1) /\ at + i = a
      BY <2>3 DEF Span, Addresses
    <3> HIDE DEF i
    <3>2. b[i] = Wanted(at + i)
      BY <3>1
    <3> QED BY <3>1, <3>2 DEF i
  <2> QED BY <2>1, <2>2, <2>3
<1> QED
  BY <1>2, <1>4 DEF Puts

\* The chunk a call writes next lies in one page and in what is left of the call.
LEMMA ChunkIs ==
    ASSUME EepromInv, op.kind \in {"write", "memset", "page", "move"}, op.count > 0, chip = "ready",
           NEW n, n = ChunkLength, NEW at, at = op.dst + Back(n)
    PROVE  /\ n \in 1..op.count /\ at \in Nat /\ at + n <= Size /\ (at % Page) + n <= Page
           /\ at % Size = at
           /\ \A i \in 0..(n - 1) : ChunkBytes(n)[i] = Wanted(at + i)
<1> DEFINE d == op.dst
           s == op.src
           c == op.count
           p == Page
           off == d % p
           rem == dst_page_remaining
<1>1. /\ d \in Int /\ s \in Int /\ c \in Nat /\ c # 0 /\ p \in Nat \ {0} /\ Size \in Nat \ {0}
      /\ off \in 0..(p - 1)
  <2>1. d \in Int /\ s \in Int /\ c \in Nat /\ c # 0 /\ p \in Nat \ {0} /\ Size \in Nat \ {0}
    BY PageType DEF EepromInv, OpInv, ChipInv
  <2> HIDE DEF d, s, c, p
  <2> QED BY <2>1, Division
<1>2. n = IF c < rem THEN c ELSE rem
  BY DEF ChunkLength
<1>3. CASE ~(op.kind = "move" /\ Up(op))
  <2>1. /\ rem = p - off /\ at = d /\ 0 <= d /\ d + c <= Size
        /\ op.kind = "move" => s > d /\ s + c <= Size
    BY <1>1, <1>3 DEF dst_page_remaining, Back, EepromInv, OpInv, Ahead, Forward
  <2>2. n \in 1..c /\ at \in Nat /\ at + n <= Size /\ off + n <= p /\ at % Size = at
    <3> HIDE DEF d, c, p, off, rem
    <3>1. n \in 1..c /\ at \in Nat /\ at + n <= Size /\ off + n <= p /\ at \in 0..(Size - 1)
      BY <1>1, <1>2, <2>1
    <3> QED BY <1>1, <3>1
  <2>3. ASSUME NEW i \in 0..(n - 1) PROVE ChunkBytes(n)[i] = Wanted(at + i)
    <3>1. CASE op.kind # "move"
      BY <2>1, <3>1 DEF ChunkBytes, Wanted
    <3>2. CASE op.kind = "move"
      <4>1. ChunkBytes(n)[i] = Read(s + 0 + i) /\ Wanted(at + i) = Contents[s + ((at + i) - d)]
        BY <1>3, <3>2 DEF ChunkBytes, Wanted, Back
      <4> DEFINE j == s + 0 + i
      <4>2. j \in 0..(Size - 1) /\ s + ((at + i) - d) = j
        <5>1. i \in 0..(n - 1) /\ at = d /\ s + c <= Size /\ s > d /\ 0 <= d
          BY <2>1, <3>2
        <5> HIDE DEF d, c, s
        <5> QED BY ONLY <1>1, <2>2, <5>1 DEF j
      <4>3. j % Size = j
        <5> HIDE DEF j
        <5> QED BY <1>1, <4>2
      <4>4. Read(j) = Contents[j]
        <5>1. Read(j) = cells[j]
          BY <4>3 DEF Read
        <5> HIDE DEF j
        <5> QED BY <4>2, <5>1 DEF Contents, EepromInv, ChipInv, Addresses
      <4> QED BY <4>1, <4>2, <4>4
    <3> QED BY <3>1, <3>2
  <2> QED BY <2>1, <2>2, <2>3
<1>4. CASE op.kind = "move" /\ Up(op)
  <2>1. /\ rem = (IF off = 0 THEN p ELSE off) /\ s < d /\ c <= s /\ d <= Size
    BY <1>1, <1>4 DEF dst_page_remaining, EepromInv, OpInv, Backward, Up
  <2>2. at = d - n /\ n \in 1..c
    <3>1. at = d + (-n)
      BY <1>4 DEF Back
    <3> HIDE DEF d, c, p, off, rem
    <3> QED BY <1>1, <1>2, <2>1, <3>1
  <2>3. at \in Nat /\ at + n <= Size /\ at % Size = at
    <3> HIDE DEF d, c, p, off, rem
    <3>1. at \in Nat /\ at + n <= Size /\ at \in 0..(Size - 1)
      BY <1>1, <2>1, <2>2
    <3> QED BY <1>1, <3>1
  <2>4. (at % p) + n <= p
    <3>1. CASE off = 0
      <4>1. n \in 1..p
        <5> HIDE DEF d, c, p, off, rem
        <5> QED BY <1>1, <1>2, <2>1, <2>2, <3>1
      <4>2. at % p = p - n
        <5> HIDE DEF d, c, p, rem
        <5> QED BY <1>1, <2>2, <3>1, <4>1, OffsetBelow
      <4> HIDE DEF p
      <4> QED BY <1>1, <4>1, <4>2
    <3>2. CASE off # 0
      <4> DEFINE k == -n
      <4>1. k \in Int /\ off + k \in 0..(p - 1) /\ at = d + k /\ n \in Nat
        <5> HIDE DEF d, c, p, off, rem
        <5> QED BY <1>1, <1>2, <2>1, <2>2, <3>2
      <4>2. (d + k) % p = off + k
        <5> HIDE DEF d, c, p, rem, k
        <5> QED BY <1>1, <4>1, OffsetMoves
      <4>3. (at % p) + n = off
        <5>1. at % p = off + k
          BY <4>1, <4>2
        <5> HIDE DEF off, p, d
        <5> QED BY <1>1, <4>1, <5>1
      <4> HIDE DEF off, p
      <4> QED BY <1>1, <4>3
    <3> QED BY <3>1, <3>2
  <2>5. ASSUME NEW i \in 0..(n - 1) PROVE ChunkBytes(n)[i] = Wanted(at + i)
    <3>1. ChunkBytes(n)[i] = Read(s + (-n) + i) /\ Wanted(at + i) = Contents[s + ((at + i) - d)]
      BY <1>4 DEF ChunkBytes, Wanted, Back
    <3> DEFINE j == s + (-n) + i
    <3>2. j \in 0..(Size - 1) /\ s + ((at + i) - d) = j
      <4>1. i \in 0..(n - 1) /\ s < d /\ c <= s /\ d <= Size
        BY <2>1
      <4> HIDE DEF d, c, s
      <4> QED BY ONLY <1>1, <2>2, <4>1 DEF j
    <3>3. j % Size = j
      <4> HIDE DEF j
      <4> QED BY <1>1, <3>2
    <3>4. Read(j) = Contents[j]
      <4>1. Read(j) = cells[j]
        BY <3>3 DEF Read
      <4> HIDE DEF j
      <4> QED BY <3>2, <4>1 DEF Contents, EepromInv, ChipInv, Addresses
    <3> QED BY <3>1, <3>2, <3>4
  <2> QED BY <2>2, <2>3, <2>4, <2>5
<1> QED
  BY <1>3, <1>4

\* A call that has written its next chunk.
LEMMA ChunkInv ==
    ASSUME EepromInv, WriteChunk
    PROVE  EepromInv'
<1> DEFINE d == op.dst
           s == op.src
           c == op.count
           n == ChunkLength
           at == d + Back(n)
<1>1. /\ chip = "ready" /\ op.kind \in {"write", "memset", "page", "move"} /\ c > 0
      /\ write_page(at % Size, n, ChunkBytes(n)) /\ op' = Advanced(n) /\ expected' = expected
  BY DEF WriteChunk, wait_for_last_write_end
<1>2. /\ n \in 1..c /\ at \in Nat /\ at + n <= Size /\ (at % Page) + n <= Page /\ at % Size = at
      /\ \A i \in 0..(n - 1) : ChunkBytes(n)[i] = Wanted(at + i)
  <2> HIDE DEF n
  <2> QED BY <1>1, ChunkIs DEF n
<1>3. d \in Int /\ s \in Int /\ c \in Nat /\ n \in Nat /\ Size \in Nat /\ op.written \in Nat
  BY <1>2, PageType DEF EepromInv, OpInv, ChipInv
<1>4. chip' = "busy" /\ build' = build /\ Puts(at, n)
  <2>1. write_page(at, n, ChunkBytes(n))
    BY <1>1, <1>2
  <2> HIDE DEF n, at
  <2> QED BY <1>1, <1>2, <1>3, <2>1, PagePuts
<1>5. op'.kind = op.kind /\ op'.count = c - n
  BY <1>1 DEF Advanced, EepromInv, OpInv
<1>6. Page' = Page /\ Driver' = Driver
  BY <1>4 DEF Page, Driver
<1>7. CASE op.kind = "move" /\ Up(op)
  <2>1. at = d - n /\ op'.dst = d - n /\ op'.src = s - n
    <3>1. Back(n) = -n
      BY <1>7 DEF Back
    <3>2. op'.dst = d + (-n) /\ op'.src = s + (-n)
      <4>1. -n # 0
        <5> HIDE DEF n
        <5> QED BY <1>2, <1>3
      <4> QED BY <1>1, <1>7, <3>1, <4>1 DEF Advanced, EepromInv, OpInv
    <3> HIDE DEF d, s, n
    <3> QED BY <1>3, <3>1, <3>2
  <2>2. s < d /\ c <= s /\ d <= Size /\ Driver = "i2c"
    BY <1>7 DEF EepromInv, OpInv, Backward, Up
  <2>3. Up(op') /\ Backward'
    <3>1. s - n < d - n /\ c - n <= s - n /\ d - n <= Size
      <4> HIDE DEF d, s, c, n
      <4> QED BY <1>2, <1>3, <2>2
    <3> QED BY <1>5, <1>6, <2>1, <2>2, <3>1 DEF Up, Backward
  <2>4. OpInv'
    <3>1. op' \in [kind : Kinds, dst : Int, src : Int, count : Nat, written : Nat, polled : BOOLEAN]
      <4>1. d - n \in Int /\ s - n \in Int /\ c - n \in Nat /\ op.written + n \in Nat
        <5> HIDE DEF d, s, c, n
        <5> QED BY <1>2, <1>3
      <4>2. op'.written = op.written + n /\ op'.polled \in BOOLEAN
        BY <1>1 DEF Advanced, EepromInv, OpInv
      <4>3. op' = [kind |-> op'.kind, dst |-> op'.dst, src |-> op'.src, count |-> op'.count,
                   written |-> op'.written, polled |-> op'.polled]
        BY <1>1 DEF Advanced, EepromInv, OpInv
      <4>4. op.kind \in Kinds
        BY DEF EepromInv, OpInv
      <4> HIDE DEF d, s, c, n
      <4> QED BY <1>5, <2>1, <4>1, <4>2, <4>3, <4>4
    <3> QED BY <1>1, <1>5, <1>7, <2>3, <3>1 DEF OpInv
  <2>5. ContentsInv'
    <3>1. Pending = Span(d - c, c) /\ Pending' = Span((d - n) - (c - n), c - n)
      BY <1>5, <1>7, <2>1, <2>3 DEF Pending
    <3>2. ASSUME NEW a \in Addresses
          PROVE  expected'[a] = IF a \in Pending' THEN Wanted(a)' ELSE Contents'[a]
      <4>1. expected'[a] = IF a \in Pending THEN Wanted(a) ELSE Contents[a]
        BY <1>1 DEF EepromInv, ContentsInv
      <4>2. Contents'[a] = IF a \in Span(at, n) THEN Wanted(a) ELSE Contents[a]
        BY <1>4 DEF Puts
      <4>3. /\ a \in Pending <=> a \in Pending' \/ a \in Span(at, n)
            /\ ~(a \in Pending' /\ a \in Span(at, n))
        <5>1. a \in Int
          BY DEF Addresses
        <5>2. /\ a \in Pending <=> a \in (d - c)..((d - c) + c - 1)
              /\ a \in Pending' <=> a \in ((d - n) - (c - n))..(((d - n) - (c - n)) + (c - n) - 1)
              /\ a \in Span(at, n) <=> a \in (d - n)..((d - n) + n - 1)
          BY <2>1, <3>1 DEF Span
        <5> HIDE DEF d, s, c, n, at
        <5> QED BY ONLY <1>2, <1>3, <5>1, <5>2
      <4>4. ASSUME a \in Pending' PROVE Wanted(a)' = Wanted(a)
        <5> DEFINE j == s + (a - d)
        <5>1. Wanted(a) = Contents[j] /\ Wanted(a)' = Contents'[(s - n) + (a - (d - n))]
          BY <1>5, <1>7, <2>1 DEF Wanted
        <5>2. a \in ((d - n) - (c - n))..(((d - n) - (c - n)) + (c - n) - 1)
          BY <3>1, <4>4 DEF Span
        <5>3. /\ (s - n) + (a - (d - n)) = j /\ j \in 0..(Size - 1)
              /\ j \notin (d - n)..((d - n) + n - 1)
          <6> HIDE DEF d, s, c, n
          <6> QED BY ONLY <1>2, <1>3, <2>2, <5>2 DEF j
        <5>4. Contents'[j] = Contents[j]
          <6> HIDE DEF j
          <6> QED BY <1>4, <2>1, <5>3 DEF Puts, Addresses, Span
        <5> QED BY <5>1, <5>3, <5>4
      <4> QED BY <4>1, <4>2, <4>3, <4>4
    <3>3. IsArray(expected', Addresses)
      BY <1>1 DEF EepromInv, ContentsInv
    <3> QED BY <3>2, <3>3 DEF ContentsInv
  <2> QED BY <1>1, <1>4, <1>5, <2>4, <2>5 DEF EepromInv, ChipInv
<1>8. CASE ~(op.kind = "move" /\ Up(op))
  <2>1. at = d /\ op'.dst = d + n /\ op'.src = s + (IF op.kind = "move" THEN n ELSE 0)
    <3>1. Back(n) = 0
      BY <1>8 DEF Back
    <3>2. op'.dst = d + n /\ op'.src = s + (IF op.kind = "move" THEN n ELSE 0)
      BY <1>1, <3>1 DEF Advanced, EepromInv, OpInv
    <3> HIDE DEF d, s, n
    <3> QED BY <1>3, <3>1, <3>2
  <2>2. 0 <= d /\ d + c <= Size /\ (op.kind = "move" => d < s /\ s + c <= Size)
    BY <1>8 DEF EepromInv, OpInv, Ahead, Forward
  <2>3. ~(op'.kind = "move" /\ Up(op')) /\ Ahead' /\ Forward'
    <3>1. 0 <= d + n /\ (d + n) + (c - n) <= Size
      <4> HIDE DEF d, s, c, n
      <4> QED BY <1>2, <1>3, <2>2
    <3>2. op.kind = "move" => d + n < s + n /\ (s + n) + (c - n) <= Size /\ ~(s + n < d + n)
      <4> HIDE DEF d, s, c, n
      <4> QED BY <1>2, <1>3, <2>2
    <3> QED BY <1>5, <2>1, <3>1, <3>2 DEF Up, Ahead, Forward
  <2>4. OpInv'
    <3>1. op' \in [kind : Kinds, dst : Int, src : Int, count : Nat, written : Nat, polled : BOOLEAN]
      <4>1. /\ d + n \in Int /\ s + (IF op.kind = "move" THEN n ELSE 0) \in Int
            /\ c - n \in Nat /\ op.written + n \in Nat
        <5> HIDE DEF d, s, c, n
        <5> QED BY <1>2, <1>3
      <4>2. op'.written = op.written + n /\ op'.polled \in BOOLEAN
        BY <1>1 DEF Advanced, EepromInv, OpInv
      <4>3. op' = [kind |-> op'.kind, dst |-> op'.dst, src |-> op'.src, count |-> op'.count,
                   written |-> op'.written, polled |-> op'.polled]
        BY <1>1 DEF Advanced, EepromInv, OpInv
      <4>4. op.kind \in Kinds
        BY DEF EepromInv, OpInv
      <4> HIDE DEF d, s, c, n
      <4> QED BY <1>5, <2>1, <4>1, <4>2, <4>3, <4>4
    <3>2. op.kind = "page" => c - n = 0
      <4>1. op.kind = "page" => (d % Page) + c <= Page
        BY <1>1 DEF EepromInv, OpInv
      <4>2. op.kind = "page" => n = IF c < Page - (d % Page) THEN c ELSE Page - (d % Page)
        BY DEF ChunkLength, dst_page_remaining
      <4>3. Page \in Nat \ {0}
        BY PageType DEF EepromInv, ChipInv
      <4>4. d % Page \in Int
        <5> HIDE DEF d
        <5> QED BY <1>3, <4>3, Division
      <4> DEFINE off == d % Page
                 p == Page
      <4> HIDE DEF d, c, n, off, p
      <4> QED BY <1>2, <1>3, <4>1, <4>2, <4>3, <4>4 DEF off, p
    <3> QED BY <1>1, <1>5, <2>3, <3>1, <3>2 DEF OpInv
  <2>5. ContentsInv'
    <3>1. Pending = Span(d, c) /\ Pending' = Span(d + n, c - n)
      BY <1>5, <1>8, <2>1, <2>3 DEF Pending
    <3>2. ASSUME NEW a \in Addresses
          PROVE  expected'[a] = IF a \in Pending' THEN Wanted(a)' ELSE Contents'[a]
      <4>1. expected'[a] = IF a \in Pending THEN Wanted(a) ELSE Contents[a]
        BY <1>1 DEF EepromInv, ContentsInv
      <4>2. Contents'[a] = IF a \in Span(at, n) THEN Wanted(a) ELSE Contents[a]
        BY <1>4 DEF Puts
      <4>3. /\ a \in Pending <=> a \in Pending' \/ a \in Span(at, n)
            /\ ~(a \in Pending' /\ a \in Span(at, n))
        <5>1. a \in Int
          BY DEF Addresses
        <5>2. /\ a \in Pending <=> a \in d..(d + c - 1)
              /\ a \in Pending' <=> a \in (d + n)..((d + n) + (c - n) - 1)
              /\ a \in Span(at, n) <=> a \in d..(d + n - 1)
          BY <2>1, <3>1 DEF Span
        <5> HIDE DEF d, s, c, n, at
        <5> QED BY ONLY <1>2, <1>3, <5>1, <5>2
      <4>4. ASSUME a \in Pending' PROVE Wanted(a)' = Wanted(a)
        <5>1. CASE op.kind # "move"
          BY <1>5, <5>1 DEF Wanted, Data
        <5>2. CASE op.kind = "move"
          <6> DEFINE j == s + (a - d)
          <6>1. Wanted(a) = Contents[j] /\ Wanted(a)' = Contents'[(s + n) + (a - (d + n))]
            BY <1>5, <5>2, <2>1 DEF Wanted
          <6>2. a \in (d + n)..((d + n) + (c - n) - 1)
            BY <3>1, <4>4 DEF Span
          <6>3. /\ (s + n) + (a - (d + n)) = j /\ j \in 0..(Size - 1)
                /\ j \notin d..(d + n - 1)
            <7>1. 0 <= d /\ d < s /\ s + c <= Size
              BY <2>2, <5>2
            <7> HIDE DEF d, s, c, n
            <7> QED BY ONLY <1>2, <1>3, <6>2, <7>1 DEF j
          <6>4. Contents'[j] = Contents[j]
            <7> HIDE DEF j
            <7> QED BY <1>4, <2>1, <6>3 DEF Puts, Addresses, Span
          <6> QED BY <6>1, <6>3, <6>4
        <5> QED BY <5>1, <5>2
      <4> QED BY <4>1, <4>2, <4>3, <4>4
    <3>3. IsArray(expected', Addresses)
      BY <1>1 DEF EepromInv, ContentsInv
    <3> QED BY <3>2, <3>3 DEF ContentsInv
  <2> QED BY <1>1, <1>4, <1>5, <2>4, <2>5 DEF EepromInv, ChipInv
<1> QED
  BY <1>7, <1>8

\* Between two calls, with the contents that were asked for.
LEMMA DoneInv ==
    ASSUME op' = NoOp, build' \in Chips, chip' \in {"ready", "busy"}, chip' = "ready" => DOMAIN latch' = {},
           IsArray(expected', Addresses), \A a \in Addresses : expected'[a] = Contents'[a]
    PROVE  EepromInv'
<1>1. /\ op'.kind = "none" /\ op'.count = 0 /\ op'.dst = 0 /\ op'.src = 0
      /\ op' \in [kind : Kinds, dst : Int, src : Int, count : Nat, written : Nat, polled : BOOLEAN]
  BY DEF NoOp, Kinds
<1>2. OpInv'
  BY <1>1, PagedAssumption DEF OpInv, Ahead, Forward
<1>3. ChipInv'
  BY <1>1 DEF ChipInv
<1>4. ContentsInv'
  <2>1. Pending' = {}
    BY <1>1 DEF Pending, Span
  <2> QED BY <2>1 DEF ContentsInv
<1> QED
  BY <1>2, <1>3, <1>4 DEF EepromInv

\* The i2c chip stops acknowledging inside a chunk.
LEMMA FailInv ==
    ASSUME EepromInv, NEW k \in 0..(Page - 1), Fail(k)
    PROVE  EepromInv'
<1> DEFINE d == op.dst
           c == op.count
           n == ChunkLength
           at == d + Back(n)
           rest == (IF Back(n) = 0 THEN Span(d, c) ELSE Span(d - c, c)) \ Span(at, k)
<1>1. /\ chip = "ready" /\ op.kind \in {"write", "memset", "page", "move"} /\ c > 0
      /\ k < n /\ op' = NoOp
      /\ IF k = 0 THEN UNCHANGED chipVars ELSE write_page(at, k, ChunkBytes(n))
      /\ expected' = [a \in Addresses |-> IF a \in rest THEN Contents[a] ELSE expected[a]]
  BY DEF Fail, wait_for_last_write_end
<1>2. /\ n \in 1..c /\ at \in Nat /\ at + n <= Size /\ (at % Page) + n <= Page
      /\ \A i \in 0..(n - 1) : ChunkBytes(n)[i] = Wanted(at + i)
  <2> HIDE DEF n
  <2> QED BY <1>1, ChunkIs DEF n
<1>3. d \in Int /\ c \in Nat /\ n \in Nat /\ k \in Nat /\ Page \in Nat \ {0}
  <2>1. Page \in Nat \ {0}
    BY PageType DEF EepromInv, ChipInv
  <2> QED BY <1>2, <2>1 DEF EepromInv, OpInv
<1>4. build \in Chips /\ DOMAIN latch = {}
  BY <1>1 DEF EepromInv, ChipInv
<1>5. /\ build' = build /\ Puts(at, k)
      /\ chip' \in {"ready", "busy"} /\ (chip' = "ready" => DOMAIN latch' = {})
  <2>1. CASE k = 0
    <3>1. UNCHANGED chipVars
      BY <1>1, <2>1
    <3>2. Contents' = Contents /\ chip' = "ready" /\ latch' = latch /\ build' = build
      BY <1>1, <3>1 DEF chipVars, Contents
    <3>3. Span(at, k) = {}
      <4> HIDE DEF at
      <4> QED BY <1>2, <2>1 DEF Span
    <3> QED BY <1>4, <3>2, <3>3 DEF Puts
  <2>2. CASE k # 0
    <3>1. write_page(at, k, ChunkBytes(n))
      BY <1>1, <2>2
    <3>2. (at % Page) + k <= Page /\ \A i \in 0..(k - 1) : i \in 0..(n - 1)
      <4>1. at % Page \in Int
        <5> HIDE DEF at
        <5> QED BY <1>2, <1>3, Division
      <4> DEFINE off == at % Page
                 p == Page
      <4> HIDE DEF off, p, n
      <4> QED BY <1>1, <1>2, <1>3, <4>1 DEF off, p
    <3>3. \A i \in 0..(k - 1) : ChunkBytes(n)[i] = Wanted(at + i)
      BY <1>2, <3>2
    <3> HIDE DEF n, at
    <3> QED BY <1>1, <1>2, <1>3, <3>1, <3>2, <3>3, PagePuts
  <2> QED BY <2>1, <2>2
<1>6. rest = Pending \ Span(at, k)
  <2>1. CASE op.kind = "move" /\ Up(op)
    <3>1. Back(n) = -n
      BY <2>1 DEF Back
    <3>2. -n # 0
      <4> HIDE DEF n
      <4> QED BY <1>2, <1>3
    <3> QED BY <2>1, <3>1, <3>2 DEF Pending
  <2>2. CASE ~(op.kind = "move" /\ Up(op))
    BY <2>2 DEF Back, Pending
  <2> QED BY <2>1, <2>2
<1>7. Span(at, k) \subseteq Pending
  <2>1. CASE op.kind = "move" /\ Up(op)
    <3>1. Back(n) = -n
      BY <2>1 DEF Back
    <3>2. at = d - n
      <4> HIDE DEF n, d
      <4> QED BY <1>3, <3>1
    <3>3. \A x \in (d - n)..((d - n) + k - 1) : x \in (d - c)..((d - c) + c - 1)
      <4> HIDE DEF n, d, c
      <4> QED BY <1>1, <1>2, <1>3
    <3> QED BY <2>1, <3>2, <3>3 DEF Pending, Span
  <2>2. CASE ~(op.kind = "move" /\ Up(op))
    <3>1. Back(n) = 0
      BY <2>2 DEF Back
    <3>2. at = d
      <4> HIDE DEF n, d
      <4> QED BY <1>3, <3>1
    <3>3. \A x \in d..(d + k - 1) : x \in d..(d + c - 1)
      <4> HIDE DEF n, d, c
      <4> QED BY <1>1, <1>2, <1>3
    <3> QED BY <2>2, <3>2, <3>3 DEF Pending, Span
  <2> QED BY <2>1, <2>2
<1>8. ASSUME NEW a \in Addresses PROVE expected'[a] = Contents'[a]
  <2>1. expected[a] = IF a \in Pending THEN Wanted(a) ELSE Contents[a]
    BY DEF EepromInv, ContentsInv
  <2>2. Contents'[a] = IF a \in Span(at, k) THEN Wanted(a) ELSE Contents[a]
    BY <1>5 DEF Puts
  <2>3. expected'[a] = IF a \in Pending \ Span(at, k) THEN Contents[a] ELSE expected[a]
    BY <1>1, <1>6
  <2> HIDE DEF at
  <2> QED BY <1>7, <2>1, <2>2, <2>3
<1>9. IsArray(expected', Addresses)
  BY <1>1 DEF IsArray
<1> QED
  BY <1>1, <1>4, <1>5, <1>8, <1>9, DoneInv

\* The call returns.
LEMMA ReturnInv ==
    ASSUME EepromInv, Return
    PROVE  EepromInv'
<1>1. op.count = 0 /\ op' = NoOp /\ UNCHANGED chipVars /\ expected' = expected
  BY DEF Return
<1>2. Contents' = Contents /\ chip' = chip /\ latch' = latch /\ build' = build
  BY <1>1 DEF chipVars, Contents
<1>3. op.dst \in Int /\ chip # "selected"
  BY <1>1 DEF EepromInv, OpInv, ChipInv
<1>4. Pending = {}
  BY <1>1, <1>3 DEF Pending, Span
<1>5. \A a \in Addresses : expected'[a] = Contents'[a]
  BY <1>1, <1>2, <1>4 DEF EepromInv, ContentsInv
<1> QED
  BY <1>1, <1>2, <1>3, <1>5, DoneInv DEF EepromInv, ChipInv, ContentsInv

\* The chip has programmed the page it was sent.
LEMMA ProgramInv ==
    ASSUME EepromInv, ProgramPage
    PROVE  EepromInv'
<1>1. chip = "busy" /\ chip' = "ready" /\ latch' = <<>> /\ cells' = Contents
  BY DEF ProgramPage
<1>2. op' = op /\ expected' = expected /\ build' = build /\ cursor' = cursor
  BY DEF ProgramPage
<1>3. DOMAIN latch' = {}
  BY <1>1
<1>4. Contents' = Contents
  BY <1>1, <1>3 DEF Contents
<1>5. OpInv'
  BY <1>2 DEF EepromInv, OpInv, Ahead, Forward, Backward, Driver, Page
<1>6. ChipInv'
  BY <1>1, <1>2, <1>3 DEF EepromInv, ChipInv, Selects, Page
<1>7. ContentsInv'
  BY <1>2, <1>4 DEF EepromInv, ContentsInv, Pending, Wanted
<1> QED
  BY <1>5, <1>6, <1>7 DEF EepromInv

\* One byte of a vendor write.
LEMMA StreamInv ==
    ASSUME EepromInv, StreamByte
    PROVE  EepromInv'
<1> DEFINE d == op.dst
           s == op.src
           c == op.count
           w == op.written
           p == Page
           ends == c = 1 \/ (d + 1) % p = 0
<1>1. op.kind = "stream" /\ c > 0 /\ op' = Advanced(1) /\ expected' = expected
  BY DEF StreamByte
<1>2. /\ d \in Int /\ s \in Int /\ c \in Nat /\ w \in Nat /\ 0 <= d /\ d + c <= Size
      /\ p \in Nat \ {0} /\ Size \in Nat \ {0} /\ build \in Chips
  BY <1>1, PageType DEF EepromInv, OpInv, ChipInv, Ahead
<1>3. /\ op'.kind = "stream" /\ op'.dst = d + 1 /\ op'.src = s + 0 /\ op'.count = c - 1 /\ op'.written = w + 1
      /\ op'.polled \in BOOLEAN
      /\ op' = [kind |-> op'.kind, dst |-> op'.dst, src |-> op'.src, count |-> op'.count,
                written |-> op'.written, polled |-> op'.polled]
  <2>1. Back(1) = 0
    BY <1>1 DEF Back
  <2> QED BY <1>1, <2>1 DEF Advanced, EepromInv, OpInv
<1>4. Selects \/ (chip = "selected" /\ cursor = d)
  BY <1>1 DEF EepromInv, ChipInv
<1>5. /\ build' = build /\ cells' = cells /\ cursor' = InPage(d, 1)
      /\ chip' = IF ends THEN "busy" ELSE "selected"
      /\ latch' = [a \in (IF Selects THEN {} ELSE DOMAIN latch) \cup {d} |->
                      IF a = d THEN Data("stream", d) ELSE latch[a]]
      /\ Selects => chip = "ready"
  BY <1>4 DEF StreamByte, wait_for_last_write_end
<1>6. Selects => DOMAIN latch = {}
  BY <1>5 DEF EepromInv, ChipInv
<1>7. DOMAIN latch' = DOMAIN latch \cup {d} /\ latch' = [a \in DOMAIN latch \cup {d} |-> IF a = d THEN Data("stream", d) ELSE latch[a]]
  BY <1>5, <1>6
<1>8. \A a \in Addresses : Contents'[a] = IF a = d THEN Data("stream", d) ELSE Contents[a]
  BY <1>5, <1>7 DEF Contents
<1>9. OpInv'
  <2>1. d + 1 \in Int /\ s + 0 \in Int /\ c - 1 \in Nat /\ w + 1 \in Nat /\ 0 <= d + 1 /\ (d + 1) + (c - 1) <= Size
    <3>1. c # 0
      BY <1>1, <1>2
    <3> HIDE DEF d, s, c, w
    <3> QED BY <1>2, <3>1
  <2>2. op' \in [kind : Kinds, dst : Int, src : Int, count : Nat, written : Nat, polled : BOOLEAN]
    <3> HIDE DEF d, s, c, w
    <3> QED BY <1>3, <2>1 DEF Kinds
  <2> QED BY <1>3, <2>1, <2>2 DEF OpInv, Ahead, Forward
<1>10. ChipInv'
  <2>1. Page' = p
    BY <1>5 DEF Page
  <2>2. Selects' <=> (d + 1) % p = 0 \/ w + 1 = 0
    BY <1>3, <2>1 DEF Selects
  <2>3. w + 1 # 0 /\ (c - 1 > 0 <=> c # 1)
    <3>1. c # 0
      BY <1>1, <1>2
    <3> HIDE DEF c, w
    <3> QED BY <1>2, <3>1
  <2>4. ASSUME ~ends PROVE InPage(d, 1) = d + 1
    <3> DEFINE off == d % p
    <3>1. off \in 0..(p - 1)
      <4> HIDE DEF d, p
      <4> QED BY <1>2, Division
    <3>2. off # p - 1
      <4> HIDE DEF d, p
      <4> QED BY <1>2, <2>4, OffsetWraps
    <3>3. InPage(d, 1) = (d - off) + ((off + 1) % p)
      BY DEF InPage
    <3> HIDE DEF off, d, p
    <3>4. (off + 1) % p = off + 1
      BY <1>2, <3>1, <3>2
    <3> QED BY <1>2, <3>1, <3>3, <3>4
  <2>5. chip' = "selected" <=> ~ends
    BY <1>5
  <2> HIDE DEF d, s, c, w, p
  <2> QED BY <1>2, <1>3, <1>5, <2>2, <2>3, <2>4, <2>5 DEF ChipInv
<1>11. ContentsInv'
  <2>1. Pending = d..(d + c - 1) /\ Pending' = (d + 1)..((d + 1) + (c - 1) - 1)
    BY <1>1, <1>3 DEF Pending, Span
  <2>2. \A a \in Addresses : (a \in Pending <=> a = d \/ a \in Pending') /\ ~(a = d /\ a \in Pending')
    <3>1. Addresses \subseteq Int /\ c # 0
      BY <1>1, <1>2 DEF Addresses
    <3> HIDE DEF d, c
    <3> QED BY <1>2, <2>1, <3>1
  <2>3. \A a : Wanted(a) = Data("stream", a) /\ Wanted(a)' = Data("stream", a)
    BY <1>1, <1>3 DEF Wanted, Data
  <2>4. \A a \in Addresses : expected'[a] = IF a \in Pending THEN Wanted(a) ELSE Contents[a]
    BY <1>1 DEF EepromInv, ContentsInv
  <2>5. IsArray(expected', Addresses)
    BY <1>1 DEF EepromInv, ContentsInv
  <2> HIDE DEF d, c
  <2> QED BY <1>8, <2>2, <2>3, <2>4, <2>5 DEF ContentsInv
<1> QED
  BY <1>9, <1>10, <1>11 DEF EepromInv


\* Nothing the driver or the chip keeps has changed.
LEMMA SameInv ==
    ASSUME EepromInv, UNCHANGED <<chipVars, op, expected>>
    PROVE  EepromInv'
<1>1. Contents' = Contents /\ chip' = chip /\ latch' = latch /\ build' = build /\ cursor' = cursor
  BY DEF chipVars, Contents
<1>2. OpInv'
  BY <1>1 DEF EepromInv, OpInv, Ahead, Forward, Backward, Driver, Page
<1>3. ChipInv'
  BY <1>1 DEF EepromInv, ChipInv, Selects, Page
<1>4. ContentsInv'
  BY <1>1 DEF EepromInv, ContentsInv, Pending, Wanted
<1> QED
  BY <1>2, <1>3, <1>4 DEF EepromInv

\* A call begins.  Only the i2c driver moves upward, and it starts behind the end.
LEMMA BeginInv ==
    ASSUME SpiMovesDown, EepromInv, NEW kind \in Kinds \ {"none"}, NEW dst \in Addresses, NEW src \in Nat,
           NEW n \in 1..Size, Begin(kind, dst, src, n), kind = "move" => dst # src,
           kind = "page" => (dst % Page) + n <= Page
    PROVE  EepromInv'
<1> DEFINE up == kind = "move" /\ src < dst
           behind == IF up /\ Driver = "i2c" THEN n ELSE 0
<1>1. op = NoOp /\ dst + n <= Size /\ src + n <= Size /\ op' = Start(kind, dst, src, n)
      /\ expected' = Asked(kind, dst, src, n) /\ UNCHANGED chipVars /\ (up => Upward)
  BY DEF Begin, Up
<1>2. Contents' = Contents /\ chip' = chip /\ latch' = latch /\ build' = build /\ cursor' = cursor
  BY <1>1 DEF chipVars, Contents
<1>3. dst \in Nat /\ n \in Nat /\ n # 0 /\ Size \in Nat
  BY PagedAssumption DEF Addresses
<1>4. up => Driver = "i2c"
  BY <1>1, PageType DEF SpiMovesDown, EepromInv, ChipInv, Upward, Driver
<1>5. op' = [kind |-> kind, dst |-> dst + behind, src |-> src + behind, count |-> n, written |-> 0,
             polled |-> FALSE]
  BY <1>1 DEF Start
<1>6. op'.kind = kind /\ op'.dst = dst + behind /\ op'.src = src + behind /\ op'.count = n /\ op'.written = 0
  BY <1>5
<1>7. behind = (IF up THEN n ELSE 0) /\ behind \in Nat
  BY <1>3, <1>4
<1>8. op'.kind = "move" /\ Up(op') <=> up
  <2>1. src + behind < dst + behind <=> src < dst
    <3> HIDE DEF behind
    <3> QED BY <1>3, <1>7
  <2> QED BY <1>6, <2>1 DEF Up
<1>9. OpInv'
  <2>1. op' \in [kind : Kinds, dst : Int, src : Int, count : Nat, written : Nat, polled : BOOLEAN]
    <3> HIDE DEF behind
    <3> QED BY <1>3, <1>5, <1>7
  <2>2. CASE up
    <3>1. n <= src + n /\ dst + n <= Size
      BY <1>1, <1>3
    <3> QED BY <1>2, <1>4, <1>6, <1>7, <1>8, <2>1, <2>2, <3>1 DEF OpInv, Backward, Driver
  <2>3. CASE ~up
    <3>1. dst + behind = dst /\ src + behind = src
      BY <1>3, <1>7, <2>3
    <3>2. kind = "move" => dst < src
      BY <1>3, <2>3
    <3>3. Ahead' /\ Forward'
      BY <1>1, <1>3, <1>6, <3>1, <3>2 DEF Ahead, Forward
    <3>4. Page' = Page
      BY <1>2 DEF Page
    <3> QED BY <1>6, <1>8, <2>1, <2>3, <3>1, <3>3, <3>4 DEF OpInv
  <2> QED BY <2>2, <2>3
<1>10. ChipInv'
  <2>1. chip # "selected"
    BY <1>1 DEF EepromInv, ChipInv, NoOp
  <2>2. Selects'
    BY <1>6 DEF Selects
  <2> QED BY <1>2, <2>1, <2>2 DEF EepromInv, ChipInv
<1>11. ContentsInv'
  <2>1. Pending' = Span(dst, n)
    <3>1. CASE up
      <4>1. (dst + behind) - n = dst
        BY <1>3, <1>7, <3>1
      <4> QED BY <1>6, <1>8, <3>1, <4>1 DEF Pending
    <3>2. CASE ~up
      <4>1. dst + behind = dst
        BY <1>3, <1>7, <3>2
      <4> QED BY <1>6, <1>8, <3>2, <4>1 DEF Pending
    <3> QED BY <3>1, <3>2
  <2>2. ASSUME NEW a \in Addresses
        PROVE  expected'[a] = IF a \in Pending' THEN Wanted(a)' ELSE Contents'[a]
    <3>1. expected'[a] = IF a \notin Span(dst, n) THEN Contents[a]
                         ELSE IF kind = "move" THEN Contents[src + (a - dst)] ELSE Data(kind, a)
      BY <1>1 DEF Asked
    <3>2. Wanted(a)' = IF kind = "move" THEN Contents[(src + behind) + (a - (dst + behind))] ELSE Data(kind, a)
      BY <1>2, <1>6 DEF Wanted, Data
    <3>3. (src + behind) + (a - (dst + behind)) = src + (a - dst)
      <4>1. a \in Int
        BY DEF Addresses
      <4> HIDE DEF behind
      <4> QED BY <1>3, <1>7, <4>1
    <3> QED BY <1>2, <2>1, <3>1, <3>2, <3>3
  <2>3. IsArray(expected', Addresses)
    BY <1>1 DEF Asked, IsArray
  <2> QED BY <2>2, <2>3 DEF ContentsInv
<1> QED
  BY <1>9, <1>10, <1>11 DEF EepromInv

\* Any call of the driver begins.
LEMMA CallInv ==
    ASSUME SpiMovesDown, EepromInv, AnyCall
    PROVE  EepromInv'
<1>1. Size \in Nat \ {0} /\ 0 \in Nat /\ Addresses \subseteq Nat /\ Page \in Nat \ {0}
  BY PageType DEF Addresses, EepromInv, ChipInv
<1>2. ASSUME NEW dst \in Addresses, NEW n \in 1..Size, NEW kind \in {"write", "memset", "stream"},
             Begin(kind, dst, 0, n)
      PROVE  EepromInv'
  BY <1>1, <1>2, BeginInv DEF Kinds
<1>3. ASSUME NEW dst \in Addresses, NEW n \in 1..2, NEW kind \in {"write", "page"},
             kind = "page" => (dst % Page) + n <= Page, Begin(kind, dst, 0, n)
      PROVE  EepromInv'
  <2>1. n \in 1..Size
    BY <1>1, <1>3 DEF Begin, Addresses
  <2> QED BY <1>1, <1>3, <2>1, BeginInv DEF Kinds
<1>4. ASSUME NEW dst \in Addresses, NEW src \in Addresses, NEW n \in 1..Size, dst # src,
             Begin("move", dst, src, n)
      PROVE  EepromInv'
  BY <1>1, <1>4, BeginInv DEF Kinds
<1>5. ASSUME NEW dst \in Addresses PROVE dst % Page \in 0..(Page - 1)
  BY <1>1, Division
<1>6. ASSUME NEW dst \in Addresses, Begin("page", dst, 0, 1) PROVE EepromInv'
  <2>1. (dst % Page) + 1 <= Page
    <3> DEFINE p == Page
               off == dst % p
    <3>1. p \in Nat /\ off \in 0..(p - 1)
      BY <1>1, <1>5
    <3> HIDE DEF p, off
    <3> QED BY <3>1 DEF p, off
  <2> QED BY <1>3, <1>6, <2>1
<1>7. ASSUME NEW dst \in Addresses, Begin(ShortKind(dst), dst, 0, 2) PROVE EepromInv'
  <2>1. ShortKind(dst) \in {"write", "page"}
    BY DEF ShortKind
  <2>2. ShortKind(dst) = "page" => dst % Page # Page - 1
    BY DEF ShortKind
  <2>3. dst % Page # Page - 1 => (dst % Page) + 2 <= Page
    <3> DEFINE p == Page
               off == dst % p
    <3>1. p \in Nat /\ off \in 0..(p - 1)
      BY <1>1, <1>5
    <3> HIDE DEF p, off
    <3> QED BY <3>1 DEF p, off
  <2> QED BY <1>3, <1>7, <2>1, <2>2, <2>3
<1> QED
  BY <1>2, <1>4, <1>6, <1>7 DEF AnyCall

\* Every step keeps the invariant.
LEMMA EepromStep ==
    ASSUME SpiMovesDown, EepromInv, [EepromNext]_eepromVars
    PROVE  EepromInv'
<1>1. ASSUME NEW a, HostRead(a) PROVE EepromInv'
  BY <1>1, SameInv DEF HostRead
<1>2. CASE UNCHANGED eepromVars
  BY <1>2, SameInv DEF eepromVars
<1> QED
  BY <1>1, <1>2, CallInv, ChunkInv, StreamInv, ReturnInv, ProgramInv, FailInv DEF EepromNext

\* spi_eeprom_write, memset, memmove, write_byte, write_short, write_step and
\* their i2c twins, on a chip of any size with pages of any size: a call that
\* has returned leaves exactly the bytes asked for, however it was cut into pages.
THEOREM CallsLeaveWhatWasAsked ==
    ASSUME SpiMovesDown
    PROVE  EepromSpec => []ContentsAsAsked
<1>1. EepromInit => EepromInv
  <2> SUFFICES ASSUME EepromInit PROVE EepromInv
    OBVIOUS
  <2>1. op = NoOp /\ build \in Chips /\ chip = "ready" /\ latch = <<>> /\ expected = cells
        /\ cells = [a \in Addresses |-> a]
    BY DEF EepromInit
  <2>2. /\ op.kind = "none" /\ op.count = 0 /\ op.dst = 0 /\ op.src = 0
        /\ op \in [kind : Kinds, dst : Int, src : Int, count : Nat, written : Nat, polled : BOOLEAN]
    BY <2>1 DEF NoOp, Kinds
  <2>3. OpInv
    BY <2>2, PagedAssumption DEF OpInv, Ahead, Forward
  <2>4. DOMAIN latch = {}
    BY <2>1
  <2>5. ChipInv
    BY <2>1, <2>2, <2>4 DEF ChipInv
  <2>6. Pending = {}
    BY <2>2 DEF Pending, Span
  <2>7. \A a \in Addresses : Contents[a] = cells[a]
    BY <2>4 DEF Contents
  <2>8. ContentsInv
    BY <2>1, <2>6, <2>7 DEF ContentsInv, IsArray
  <2> QED BY <2>3, <2>5, <2>8 DEF EepromInv
<1>2. EepromInv /\ [EepromNext]_eepromVars => EepromInv'
  BY EepromStep
<1>3. EepromInv => ContentsAsAsked
  <2> SUFFICES ASSUME EepromInv, op = NoOp PROVE Contents = expected
    BY DEF ContentsAsAsked
  <2>1. Pending = {}
    BY DEF Pending, Span, NoOp
  <2>2. \A a \in Addresses : expected[a] = Contents[a]
    BY <2>1 DEF EepromInv, ContentsInv
  <2>3. IsArray(expected, Addresses)
    BY DEF EepromInv, ContentsInv
  <2>4. Contents = [a \in Addresses |-> Contents[a]]
    BY DEF Contents
  <2> QED BY <2>2, <2>3, <2>4 DEF IsArray
<1> QED
  BY <1>1, <1>2, <1>3, PTL DEF EepromSpec

(***************************************************************************)
(* Playback: for any keys, macros and held keys, and any sizes of the two  *)
(* kinds of report, what a macro presses is what the host sees.            *)
(***************************************************************************)
\* Each event of a macro toggles one code.
LEMMA PressedNext ==
    ASSUME NEW m \in Seq(Codes), NEW n \in 0..(Len(m) - 1)
    PROVE  PressedBy(m, n + 1) = IF m[n + 1] \in PressedBy(m, n) THEN PressedBy(m, n) \ {m[n + 1]}
                                 ELSE PressedBy(m, n) \cup {m[n + 1]}
<1> DEFINE e == m[n + 1]
           C(k, j) == {i \in 1..j : m[i] = k}
<1>1. n \in Nat /\ e \in Codes /\ 1..(n + 1) = 1..n \cup {n + 1} /\ n + 1 \notin 1..n
  OBVIOUS
<1>2. ASSUME NEW k \in Codes
      PROVE  /\ Cardinality(C(k, n)) \in Nat
             /\ Cardinality(C(k, n + 1)) = IF k = e THEN Cardinality(C(k, n)) + 1 ELSE Cardinality(C(k, n))
  <2>1. IsFiniteSet(C(k, n)) /\ Cardinality(C(k, n)) \in Nat
    <3>1. IsFiniteSet(1..n)
      BY <1>1, FS_Interval
    <3>2. C(k, n) \in SUBSET (1..n)
      OBVIOUS
    <3> QED BY <3>1, <3>2, FS_Subset, FS_CardinalityType
  <2>2. CASE k = e
    <3>1. C(k, n + 1) = C(k, n) \cup {n + 1} /\ n + 1 \notin C(k, n)
      BY <1>1, <2>2
    <3> HIDE DEF C
    <3> QED BY <2>1, <2>2, <3>1, FS_AddElement
  <2>3. CASE k # e
    <3>1. C(k, n + 1) = C(k, n)
      BY <1>1, <2>3
    <3> QED BY <2>1, <2>3, <3>1
  <2> QED BY <2>2, <2>3
<1>3. \A c \in Nat : (c + 1) % 2 = 1 <=> ~(c % 2 = 1)
  OBVIOUS
<1> HIDE DEF C
<1>4. \A k : k \in PressedBy(m, n) <=> k \in Codes /\ Cardinality(C(k, n)) % 2 = 1
  BY DEF PressedBy, C
<1>5. \A k : k \in PressedBy(m, n + 1) <=> k \in Codes /\ Cardinality(C(k, n + 1)) % 2 = 1
  BY DEF PressedBy, C
<1>6. ASSUME NEW k
      PROVE  k \in PressedBy(m, n + 1) <=> IF k = e THEN k \notin PressedBy(m, n) ELSE k \in PressedBy(m, n)
  <2>1. CASE k \in Codes
    <3> DEFINE c == Cardinality(C(k, n))
               d == Cardinality(C(k, n + 1))
    <3>1. c \in Nat /\ d = IF k = e THEN c + 1 ELSE c
      BY <1>2, <2>1
    <3>2. (k \in PressedBy(m, n) <=> c % 2 = 1) /\ (k \in PressedBy(m, n + 1) <=> d % 2 = 1)
      BY <1>4, <1>5, <2>1
    <3> HIDE DEF c, d, e
    <3> QED BY <1>3, <3>1, <3>2
  <2>2. CASE k \notin Codes
    BY <1>1, <1>4, <1>5, <2>2
  <2> QED BY <2>1, <2>2
<1> HIDE DEF e
<1>7. CASE e \in PressedBy(m, n)
  <2>1. PressedBy(m, n + 1) = PressedBy(m, n) \ {e}
    BY <1>6, <1>7
  <2> QED BY <1>7, <2>1 DEF e
<1>8. CASE e \notin PressedBy(m, n)
  <2>1. PressedBy(m, n + 1) = PressedBy(m, n) \cup {e}
    BY <1>6, <1>8
  <2> QED BY <1>8, <2>1 DEF e
<1> QED
  BY <1>7, <1>8

\* The invariant: what was played so far is pressed, and the playback report
\* holds it if the macro fits.
PlayInv ==
    /\ state \in {"MACRO_PLAY", "WAITING"} /\ (state = "WAITING" => remaining = 0)
    /\ macro \in Macros /\ remaining \in 0..Len(macro)
    /\ playback \in ExtraReports /\ NoRepeat(playback)
    /\ state = "MACRO_PLAY" =>
          /\ pressed = PressedBy(macro, Len(macro) - remaining)
          /\ Fits(macro) => Held(playback) = pressed

\* An event that is played keeps it.
LEMMA EventInv ==
    ASSUME PlayInv, state = "MACRO_PLAY", NEW b \in Bases, PlayEvent(b), macro' = macro
    PROVE  /\ PlayInv' /\ remaining' = remaining - 1 /\ (Fits(macro) => Held(playback') = pressed')
           /\ base' = b /\ sent' = ExtraKeyboardReport_append(playback', b)
<1> DEFINE n == Len(macro) - remaining
           event == macro[n + 1]
<1>1. /\ remaining > 0 /\ remaining' = remaining - 1
      /\ playback' = ExtraKeyboardReport_toggle(playback, event)
      /\ base' = b /\ sent' = ExtraKeyboardReport_append(playback', b)
      /\ pressed' = IF event \in pressed THEN pressed \ {event} ELSE pressed \cup {event}
      /\ state' = IF remaining' = 0 THEN "WAITING" ELSE state
  BY DEF PlayEvent
<1>2. macro \in Seq(Codes) /\ remaining \in 0..Len(macro) /\ Len(macro) \in Nat
  BY PlaybackAssumption DEF PlayInv
<1>3. /\ n \in 0..(Len(macro) - 1) /\ n + 1 \in 1..Len(macro) /\ n + 1 \in 0..Len(macro)
      /\ Len(macro) - remaining' = n + 1 /\ remaining' \in 0..Len(macro)
  BY <1>1, <1>2
<1>4. event \in Codes
  BY <1>2, <1>3
<1>5. pressed = PressedBy(macro, n) /\ pressed' = PressedBy(macro, n + 1)
  <2>1. pressed = PressedBy(macro, n)
    BY DEF PlayInv
  <2> HIDE DEF n
  <2> QED BY <1>1, <1>2, <1>3, <2>1, PressedNext
<1>6. /\ playback' \in ExtraReports /\ NoRepeat(playback')
      /\ event \in Held(playback) => Held(playback') = Held(playback) \ {event}
      /\ event \notin Held(playback) => \/ Held(playback') = Held(playback) \cup {event}
                                        \/ event \in Keys /\ PlacesOf(playback, NO_KEY) = {}
  <2>1. playback \in ExtraReports /\ NoRepeat(playback)
    BY DEF PlayInv
  <2> HIDE DEF event
  <2> QED BY <1>1, <1>4, <2>1, ToggleEffect DEF Codes
<1>7. ASSUME Fits(macro) PROVE Held(playback') = pressed'
  <2>1. Held(playback) = pressed
    BY <1>7 DEF PlayInv
  <2>2. SUFFICES ASSUME event \notin Held(playback), event \in Keys, PlacesOf(playback, NO_KEY) = {}
                 PROVE  FALSE
    BY <1>1, <1>6, <2>1
  <2> DEFINE H == Held(playback) \cap Keys
  <2>3. IsFiniteSet(H) /\ Cardinality(H) = EXTRA_REPORT_KEY_COUNT
    BY <2>2, FullHolds DEF PlayInv
  <2>4. pressed' \cap Keys = H \cup {event} /\ event \notin H
    BY <1>1, <2>1, <2>2
  <2>5. Cardinality(pressed' \cap Keys) = EXTRA_REPORT_KEY_COUNT + 1
    <3> HIDE DEF H, event
    <3> QED BY <2>3, <2>4, FS_AddElement
  <2>6. Cardinality(pressed' \cap Keys) <= EXTRA_REPORT_KEY_COUNT
    BY <1>3, <1>5, <1>7 DEF Fits
  <2> QED BY <2>5, <2>6, ReportAssumption
<1>8. PlayInv'
  <2>1. macro' = macro /\ macro \in Macros /\ state \in {"MACRO_PLAY", "WAITING"}
    BY DEF PlayInv
  <2>2. (Fits(macro))' <=> Fits(macro)
    BY <2>1 DEF Fits
  <2>3. (PressedBy(macro, Len(macro) - remaining))' = PressedBy(macro, n + 1)
    BY <1>3, <2>1 DEF PressedBy
  <2> QED BY <1>1, <1>3, <1>5, <1>6, <1>7, <2>1, <2>2, <2>3 DEF PlayInv
<1> QED
  BY <1>1, <1>7, <1>8

\* The other steps keep it, and play no event.
LEMMA NoEventInv ==
    ASSUME PlayInv,
           \/ \E m \in Macros : macros_start_playback(m)
           \/ \E b \in Bases : state = "MACRO_PLAY" /\ PlayNothing(b) /\ UNCHANGED macro
           \/ \E b \in Bases : ReportHeldKeys(b)
           \/ UNCHANGED playVars
    PROVE  PlayInv' /\ ~(remaining' < remaining)
<1>1. ASSUME NEW m \in Macros, macros_start_playback(m) PROVE PlayInv' /\ ~(remaining' < remaining)
  <2>1. /\ state' = "MACRO_PLAY" /\ macro' = m /\ remaining' = Len(m) /\ remaining = 0
        /\ playback' = ExtraKeyboardReport_clear /\ pressed' = {}
    BY <1>1 DEF macros_start_playback, PlayInv
  <2>2. m \in Seq(Codes) /\ Len(m) \in Nat /\ Len(m) - Len(m) = 0 /\ Len(m) \in 0..Len(m)
    BY PlaybackAssumption
  <2>3. playback' \in ExtraReports /\ NoRepeat(playback') /\ Held(playback') = {}
    BY <2>1 DEF ExtraKeyboardReport_clear, ExtraReports, NoRepeat, Held
  <2>4. PressedBy(m, 0) = {}
    <3>1. \A k : {i \in 1..0 : m[i] = k} = {}
      OBVIOUS
    <3>2. Cardinality({}) = 0
      BY FS_EmptySet
    <3> QED BY <3>1, <3>2 DEF PressedBy
  <2>5. (PressedBy(macro, Len(macro) - remaining))' = PressedBy(m, 0)
    BY <2>1, <2>2 DEF PressedBy
  <2>6. PlayInv'
    BY <2>1, <2>2, <2>3, <2>4, <2>5 DEF PlayInv
  <2> QED BY <2>1, <2>2, <2>6
<1>2. ASSUME remaining' = remaining, macro' = macro, playback' = playback, pressed' = pressed,
             state' = state \/ (state' = "WAITING" /\ remaining = 0)
      PROVE  PlayInv' /\ ~(remaining' < remaining)
  <2>1. (Fits(macro))' <=> Fits(macro)
    BY <1>2 DEF Fits
  <2>2. (PressedBy(macro, Len(macro) - remaining))' = PressedBy(macro, Len(macro) - remaining)
    BY <1>2 DEF PressedBy
  <2>3. PlayInv'
    BY <1>2, <2>1, <2>2 DEF PlayInv
  <2>4. macro \in Seq(Codes) /\ remaining \in 0..Len(macro)
    BY PlaybackAssumption DEF PlayInv
  <2>5. ~(remaining' < remaining)
    BY <1>2, <2>4
  <2> QED BY <2>3, <2>5
<1>3. ASSUME NEW b, PlayNothing(b), UNCHANGED macro PROVE PlayInv' /\ ~(remaining' < remaining)
  BY <1>2, <1>3 DEF PlayNothing
<1>4. ASSUME NEW b, ReportHeldKeys(b) PROVE PlayInv' /\ ~(remaining' < remaining)
  BY <1>2, <1>4 DEF ReportHeldKeys
<1>5. CASE UNCHANGED playVars
  BY <1>2, <1>5 DEF playVars
<1> QED
  BY <1>1, <1>3, <1>4, <1>5

\* A report of the held keys is a packed report.
LEMMA BasesPacked ==
    ASSUME NEW b \in Bases
    PROVE  b \in PackedReports
<1>1. EmptyReport \in PackedReports
  <2>1. <<>> \in Packed
    BY ReportAssumption DEF Packed
  <2> QED BY <2>1 DEF EmptyReport, PackedReports
<1> QED
  BY <1>1, PlaybackAssumption, ReportPacked DEF Bases

\* What the host sees of an event.
LEMMA EventShown ==
    ASSUME PlayInv, state = "MACRO_PLAY", NEW b \in Bases, PlayEvent(b), macro' = macro, Fits(macro),
           NEW added, added = (pressed' \cap Keys) \ Content(base'),
           Len(base'.keys) + Cardinality(added) <= KEYBOARDREPORT_KEY_COUNT
    PROVE  /\ Content(sent') = Content(base') \cup pressed'
           /\ Len(sent'.keys) = Len(base'.keys) + Cardinality(added)
<1> DEFINE x == playback'
<1>1. Held(x) = pressed' /\ base' = b /\ sent' = ExtraKeyboardReport_append(x, b)
      /\ x \in ExtraReports /\ NoRepeat(x)
  <2>1. PlayInv' /\ Held(x) = pressed' /\ base' = b /\ sent' = ExtraKeyboardReport_append(x, b)
    BY EventInv
  <2> QED BY <2>1 DEF PlayInv
<1>2. b \in PackedReports
  BY BasesPacked
<1>3. b.mods \in SUBSET Modifiers /\ x.mods \in SUBSET Modifiers
      /\ \A p \in Places : x.keys[p] \in Keys \cup {NO_KEY}
  BY <1>1, <1>2 DEF PackedReports, ExtraReports
<1> HIDE DEF x
<1>4. Content(b) = ElementsOf(b.keys) \cup b.mods /\ Content(sent') = ElementsOf(sent'.keys) \cup sent'.mods
  BY DEF Content, ElementsOf
<1> DEFINE S == {x.keys[p] : p \in Places} \ {NO_KEY}
<1>5. Held(x) = S \cup x.mods /\ S \subseteq Keys
  BY <1>3 DEF Held
<1>6. AddedBy(x, b, EXTRA_REPORT_KEY_COUNT) = S \ ElementsOf(b.keys)
  BY DEF AddedBy, Places
<1> HIDE DEF S
<1>7. added = AddedBy(x, b, EXTRA_REPORT_KEY_COUNT)
  BY <1>1, <1>3, <1>4, <1>5, <1>6, ReportAssumption
<1>8. /\ ElementsOf(sent'.keys) = ElementsOf(b.keys) \cup added
      /\ Len(sent'.keys) = Len(b.keys) + Cardinality(added)
      /\ sent'.mods = b.mods \cup x.mods
  BY <1>1, <1>2, <1>7, AppendExact
<1> QED
  BY <1>1, <1>4, <1>5, <1>6, <1>7, <1>8

\* macros_fill_next_report: in every report of a macro that fits, however long
\* it is and whatever is held meanwhile, the host sees the keys held and the
\* keys that the events played so far leave pressed, each of these once.
THEOREM MacroIsShown == PlaySpec => ReportShowsMacro
<1> DEFINE Shown == LET added == (pressed' \cap Keys) \ Content(base')
                    IN  /\ remaining' < remaining /\ Fits(macro)
                        /\ Len(base'.keys) + Cardinality(added) <= KEYBOARDREPORT_KEY_COUNT
                        => /\ Content(sent') = Content(base') \cup pressed'
                           /\ Len(sent'.keys) = Len(base'.keys) + Cardinality(added)
<1>1. PlayInit => PlayInv
  <2> SUFFICES ASSUME PlayInit PROVE PlayInv
    OBVIOUS
  <2>1. playback \in ExtraReports /\ NoRepeat(playback)
    BY DEF PlayInit, ExtraKeyboardReport_clear, ExtraReports, NoRepeat
  <2>2. macro \in Seq(Codes) /\ 0 \in 0..Len(macro)
    BY PlaybackAssumption DEF PlayInit
  <2> QED BY <2>1, <2>2 DEF PlayInit, PlayInv
<1>2. PlayInv /\ [PlayNext]_playVars => PlayInv' /\ Shown
  <2> SUFFICES ASSUME PlayInv, [PlayNext]_playVars PROVE PlayInv' /\ Shown
    OBVIOUS
  <2>1. ASSUME NEW b \in Bases, state = "MACRO_PLAY", PlayEvent(b), macro' = macro PROVE PlayInv' /\ Shown
    BY <2>1, EventInv, EventShown
  <2>2. ASSUME ~\E b \in Bases : state = "MACRO_PLAY" /\ PlayEvent(b) /\ macro' = macro
        PROVE  PlayInv' /\ Shown
    <3>1. \/ \E m \in Macros : macros_start_playback(m)
          \/ \E b \in Bases : state = "MACRO_PLAY" /\ PlayNothing(b) /\ UNCHANGED macro
          \/ \E b \in Bases : ReportHeldKeys(b)
          \/ UNCHANGED playVars
      BY <2>2 DEF PlayNext, macros_fill_next_report
    <3>2. PlayInv' /\ ~(remaining' < remaining)
      BY <3>1, NoEventInv
    <3> QED BY <3>2
  <2> QED BY <2>1, <2>2
<1>3. PlaySpec => []PlayInv
  BY <1>1, <1>2, PTL DEF PlaySpec
<1> QED
  BY <1>2, <1>3, PTL DEF PlaySpec, ReportShowsMacro

===============================================================================
