------------------------------ MODULE PagedEeprom ------------------------------
(***************************************************************************)
(* The drivers of the two external EEPROMs (storage/spi_eeprom.c and       *)
(* storage/i2c_eeprom.c).  Both chips program at most a page at a time,    *)
(* wrap inside it, and are deaf until the page is programmed, so every     *)
(* operation is split at page borders and waits before each page.  Byte a  *)
(* holds a at first; a write for it brings Size + a, a memset brings Fill. *)
(***************************************************************************)
EXTENDS Integers

CONSTANTS
    Chips,          \* the chips and their drivers
    Size,           \* bytes in a chip
    MaxOperations,  \* bound on the operations asked for
    HostAddresses   \* bytes the host reads

\* A chip has its driver, the size of its page (SPI_MEM_PAGE_SIZE,
\* EEEXT_PAGE_SIZE), and is asked to move upward or not.
ASSUME PagedAssumption ==
    /\ \A c \in Chips :
          /\ c.driver \in {"spi", "i2c"} /\ c.upward \in BOOLEAN
          /\ c.page \in Nat \ {0} /\ Size % c.page = 0
    /\ Size \in Nat \ {0} /\ MaxOperations \in Nat
    /\ HostAddresses \subseteq 0..(Size - 1)

\* The callers of the SPI driver only close gaps: they move downward.
SpiMovesDown == \A c \in Chips : c.driver = "spi" => ~c.upward

VARIABLES
    build,          \* the chip the firmware is built for
    cells,          \* what is programmed
    chip,           \* ready, selected (a page is being sent) or busy (programming)
    latch, cursor,  \* the bytes of the page sent so far, and the next one's address
    op,             \* the driver's call in progress
    expected,       \* what the finished calls should have left in the chip
    result,         \* what the last write returned, and the bytes it wrote
    reply,          \* what the host last read
    operations      \* calls so far

chipVars == <<build, cells, chip, latch, cursor>>
eepromVars == <<chipVars, op, expected, result, reply, operations>>

Driver == build.driver
Page == build.page
Upward == build.upward      \* memmove is asked to move to higher addresses

Addresses == 0..(Size - 1)
Fill == 2 * Size
Garbage == -1
Values == -1..Fill
NoOp == [kind |-> "none", dst |-> 0, src |-> 0, count |-> 0, written |-> 0, polled |-> TRUE]
Kinds == {"none", "write", "memset", "page", "move", "stream"}

EepromTypeOK ==
    /\ build \in Chips
    /\ cells \in [Addresses -> Values] /\ chip \in {"ready", "selected", "busy"}
    /\ DOMAIN latch \subseteq Addresses /\ cursor \in Addresses
    /\ \A a, b \in DOMAIN latch : a \div Page = b \div Page
    /\ op \in [kind : Kinds, dst : Int, src : Int, count : 0..Size, written : 0..Size, polled : BOOLEAN]
    /\ expected \in [Addresses -> Values] /\ operations \in 0..MaxOperations

\* What the chip holds once it has programmed the page it was sent.
Contents == [a \in Addresses |-> IF a \in DOMAIN latch THEN latch[a] ELSE cells[a]]

EepromInit ==
    /\ build \in Chips
    /\ cells = [a \in Addresses |-> a] /\ chip = "ready" /\ latch = <<>> /\ cursor = 0
    /\ op = NoOp /\ expected = cells /\ operations = 0
    /\ result = [value |-> -1, written |-> 0] /\ reply = [at |-> 0, byte |-> 0]

--------------------------------------------------------------------------------
\* The chip.  A command that reaches it while it is programming is lost.

InPage(addr, i) == (addr - (addr % Page)) + (((addr % Page) + i) % Page)

\* The page sent: n bytes from addr, wrapping inside its page; b[i] is the i-th.
Sent(addr, n, b) ==
    [a \in {InPage(addr, i) : i \in 0..(n - 1)} |->
        b[CHOOSE i \in 0..(n - 1) : InPage(addr, i) = a /\ \A j \in (i + 1)..(n - 1) : InPage(addr, j) # a]]

\* start_write, continue_write, slave_off / twi_stop
write_page(addr, n, b) ==
    /\ IF chip = "busy" THEN UNCHANGED <<chip, latch>>
       ELSE chip' = "busy" /\ latch' = Sent(addr, n, b)
    /\ UNCHANGED <<build, cells, cursor>>

Read(addr) == IF chip = "busy" THEN Garbage ELSE cells[addr % Size]

ProgramPage ==
    /\ chip = "busy"
    /\ cells' = Contents /\ chip' = "ready" /\ latch' = <<>>
    /\ UNCHANGED <<build, cursor, op, expected, result, reply, operations>>

\* Mutant: nobody waits.
MutNoWait == TRUE

\* Polled with RDSR; the i2c driver repeats its start condition until it is
\* acknowledged, for longer than a page takes.
wait_for_last_write_end == chip = "ready"

--------------------------------------------------------------------------------
\* The calls.

Span(dst, n) == dst..(dst + n - 1)

Data(kind, a) == IF kind = "memset" THEN Fill ELSE Size + a

Asked(kind, dst, src, n) ==
    [a \in Addresses |->
        IF a \notin Span(dst, n) THEN Contents[a]
        ELSE IF kind = "move" THEN Contents[src + (a - dst)] ELSE Data(kind, a)]

Up(o) == o.src < o.dst

\* The i2c memmove starts an upward move behind the end of both arrays.
Start(kind, dst, src, n) ==
    LET behind == IF kind = "move" /\ src < dst /\ Driver = "i2c" THEN n ELSE 0
    IN  [kind |-> kind, dst |-> dst + behind, src |-> src + behind, count |-> n, written |-> 0,
         polled |-> FALSE]

Begin(kind, dst, src, n) ==
    /\ op = NoOp /\ operations < MaxOperations /\ dst + n <= Size /\ src + n <= Size
    /\ kind = "move" => (Up([src |-> src, dst |-> dst]) => Upward)
    /\ op' = Start(kind, dst, src, n) /\ expected' = Asked(kind, dst, src, n)
    /\ operations' = operations + 1
    /\ UNCHANGED <<chipVars, result, reply>>

\* write_short: across a page border, and always in the i2c driver, it is an
\* ordinary write.
ShortKind(dst) == IF Driver = "i2c" \/ dst % Page = Page - 1 THEN "write" ELSE "page"

AnyCall ==
    \/ \E dst \in Addresses, n \in 1..Size :
        \/ Begin("write", dst, 0, n) \/ Begin("memset", dst, 0, n)
        \/ (Driver = "i2c" => dst % Page = 0) /\ Begin("stream", dst, 0, n)
    \/ \E dst \in Addresses : Begin("page", dst, 0, 1) \/ Begin(ShortKind(dst), dst, 0, 2)
    \/ \E dst, src \in Addresses, n \in 1..Size : dst # src /\ Begin("move", dst, src, n)

\* Mutant: the last byte of a page is left for the next one.
MutRemainingShort == (Page - 1) - (op.dst % Page)

\* Bytes from dst to the border of its page, backward when moving up.
dst_page_remaining ==
    LET off == op.dst % Page
    IN  IF op.kind # "move" \/ ~Up(op) THEN Page - off
        ELSE IF Driver = "spi" THEN off + 1
        ELSE IF off = 0 THEN Page ELSE off

ChunkLength == IF op.count < dst_page_remaining THEN op.count ELSE dst_page_remaining

\* The chunk is [dst + back, dst + back + n) with back = -n when moving up.
Back(n) == IF op.kind = "move" /\ Up(op) THEN -n ELSE 0

ChunkBytes(n) ==
    [i \in 0..(n - 1) |->
        IF op.kind = "move" THEN Read(op.src + Back(n) + i) ELSE Data(op.kind, op.dst + i)]

Advanced(n) ==
    LET step == IF Back(n) = 0 THEN n ELSE -n
    IN  [op EXCEPT !.dst = @ + step, !.src = @ + (IF op.kind = "move" THEN step ELSE 0),
                   !.count = @ - n, !.written = @ + n, !.polled = (op.kind # "page")]

\* One page of spi_eeprom_write, memset, memmove, write_byte or write_short:
\* wait, read (memmove), write the page, and poll USB (USB_KeepAlive).
WriteChunk ==
    /\ op.kind \in {"write", "memset", "page", "move"} /\ op.count > 0
    /\ wait_for_last_write_end
    /\ LET n == ChunkLength
       IN  /\ write_page((op.dst + Back(n)) % Size, n, ChunkBytes(n))
           /\ op' = Advanced(n)
    /\ UNCHANGED <<expected, result, reply, operations>>

\* The call returns.
Return ==
    /\ op.kind # "none" /\ op.count = 0
    /\ op' = NoOp
    /\ result' = IF op.kind = "write" THEN [value |-> op.written, written |-> op.written] ELSE result
    /\ UNCHANGED <<chipVars, expected, reply, operations>>

\* i2c: the chip stops acknowledging after k bytes of the page; those are
\* programmed, the call returns early.
Fail(k) ==
    /\ Driver = "i2c" /\ op.kind \in {"write", "memset", "page", "move"} /\ op.count > 0
    /\ wait_for_last_write_end
    /\ LET n == ChunkLength
           at == op.dst + Back(n)
           rest == (IF Back(n) = 0 THEN Span(op.dst, op.count) ELSE Span(op.dst - op.count, op.count))
                       \ Span(at, k)
           total == op.written + k
       IN  /\ k < n
           /\ IF k = 0 THEN UNCHANGED chipVars ELSE write_page(at, k, ChunkBytes(n))
           /\ expected' = [a \in Addresses |-> IF a \in rest THEN Contents[a] ELSE expected[a]]
           /\ result' = IF op.kind = "write"
                        THEN [value |-> IF total = 0 THEN 0 ELSE -1, written |-> total] ELSE result
    /\ op' = NoOp
    /\ UNCHANGED <<reply, operations>>

\* A vendor write starts a page at each border, and at its first byte.
Selects == op.dst % Page = 0 \/ op.written = 0

\* write_step with one byte of the control transfer
StreamByte ==
    /\ op.kind = "stream" /\ op.count > 0
    /\ Selects => wait_for_last_write_end
    /\ LET from == IF Selects THEN op.dst ELSE cursor
           got == [a \in (IF Selects THEN {} ELSE DOMAIN latch) \cup {from} |->
                      IF a = from THEN Data("stream", op.dst) ELSE latch[a]]
           ends == op.count = 1 \/ (op.dst + 1) % Page = 0
       IN  IF ~Selects /\ chip # "selected" THEN UNCHANGED chipVars
           ELSE /\ latch' = got /\ cursor' = InPage(from, 1)
                /\ chip' = IF ends THEN "busy" ELSE "selected"
                /\ UNCHANGED <<build, cells>>
    /\ op' = Advanced(1)
    /\ UNCHANGED <<expected, result, reply, operations>>

\* READ_MACRO_STORAGE: one byte of the reply.  The main loop takes the request
\* between two calls, and USB_KeepAlive inside one.
HostRead(a) ==
    /\ op.polled /\ chip # "selected"
    /\ Driver = "i2c" => wait_for_last_write_end
    /\ reply' = [at |-> a, byte |-> Read(a)]
    /\ UNCHANGED <<chipVars, op, expected, result, operations>>

EepromNext ==
    \/ AnyCall \/ WriteChunk \/ StreamByte \/ Return \/ ProgramPage
    \/ \E k \in 0..(Page - 1) : Fail(k)
    \/ \E a \in HostAddresses : HostRead(a)

\* The calls are loops of the main program; the chip ends every write cycle.
EepromSpec ==
    /\ EepromInit /\ [][EepromNext]_eepromVars
    /\ WF_eepromVars(WriteChunk \/ StreamByte \/ Return) /\ WF_eepromVars(ProgramPage)

--------------------------------------------------------------------------------
\* spi_eeprom_write, memset, memmove, write_byte, write_short, write_step:
\* however a call is cut into pages and whatever page is still being
\* programmed, it leaves exactly the bytes asked for, and touches no other; a
\* call that fails leaves the bytes it did not reach.
ContentsAsAsked == op = NoOp => Contents = expected

\* spi_eeprom_write and the others: every call returns, also those that start
\* or end inside a page.
CallsReturn == (op # NoOp) ~> (op = NoOp)

\* spi_eeprom_read, "Precondition: caller must call this at least 6 ms after
\* the last write or it must call spi_eeprom_wait_for_last_write_end()": what
\* the host reads is what the chip holds.
HostReadsContents == [][reply' # reply => reply'.byte = Contents[reply'.at]]_eepromVars

\* i2c_eeprom_write "returns number of bytes written if any bytes were
\* successfully written, otherwise -1".
ReturnsWritten == result.value = (IF result.written > 0 THEN result.written ELSE -1)
================================================================================
