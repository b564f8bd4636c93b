----------------------------- MODULE ScanProofs -----------------------------
(***************************************************************************)
(* Proofs about Scan for every configuration that parse_options accepts:   *)
(* every device, region, stride, block and sector size.                    *)
(***************************************************************************)
EXTENDS Scan, TLAPS

LEMMA ProductNat == \A a, b \in Nat : a * b \in Nat
  OBVIOUS

\* Rounding down to a multiple, as C's integer division does.
LEMMA RoundDown ==
  ASSUME NEW a \in Nat, NEW s \in Nat \ {0}
  PROVE  (a \div s) * s \in 0 .. a
  OBVIOUS

LEMMA ScanFacts ==
  ASSUME NEW c \in Configs
  PROVE  /\ c.offset \in Nat /\ c.length \in Nat /\ c.device_length \in Nat
         /\ c.stride \in Nat \ {0} /\ c.block_size \in Nat \ {0}
         /\ c.workload \in {"rnd", "seq"}
         /\ c.operation \in {"read", "write", "trim"}
         /\ c.direction \in {"forward", "backward"}
         /\ c.workload = "rnd" => c.direction = "forward"
         /\ c.offset + c.length <= c.device_length
         /\ Draws(c) \subseteq Int
         /\ ~ DrawsBack(c) => Draws(c) \subseteq 0 .. c.length
<1>1. c \in ConfigType /\ Accepted(c)
  BY ConfigsAssumption
<1>2. /\ c.offset \in Nat /\ c.length \in Nat /\ c.device_length \in Nat
      /\ c.stride \in Nat \ {0} /\ c.block_size \in Nat \ {0}
      /\ c.workload \in {"rnd", "seq"}
      /\ c.operation \in {"read", "write", "trim"}
      /\ c.direction \in {"forward", "backward"}
      /\ c.dist \in {"const", "uniform", "normal", "power"} /\ c.sigma \in Int
  BY <1>1 DEF ConfigType
<1>3. /\ c.workload = "rnd" /\ ~ DrawsBack(c) => GetRandom(c) \subseteq 0 .. c.length
      /\ GetRandom(c) \subseteq Int
  <2>1. CASE c.dist \in {"const", "uniform", "normal"}
    BY <1>2, <2>1 DEF GetRandom
  <2>2. CASE c.dist = "power" /\ c.sigma >= 0
    BY <1>2, <2>2 DEF GetRandom
  <2>3. CASE c.dist = "power" /\ c.sigma < 0
    <3>1. GetRandom(c) = - Farthest(c.length, - c.sigma) .. 0
      BY <1>2, <2>3 DEF GetRandom
    <3> QED
      BY <2>3, <3>1 DEF DrawsBack
  <2> QED
    BY <1>2, <2>1, <2>2, <2>3
<1> QED
  BY <1>1, <1>2, <1>3 DEF Accepted, Misused, Clamped, Draws

\* A whole number of strides, no more than the draw.
LEMMA StridesOf ==
  ASSUME NEW c \in Configs, NEW r \in Int
  PROVE  /\ \E j \in Int : Strides(r, c) = j * c.stride
         /\ Strides(r, c) \in Int
         /\ r \in Nat => Strides(r, c) \in 0 .. r
<1>1. c.stride \in Nat \ {0}
  BY ScanFacts
<1>2. CASE r < 0
  <2> DEFINE j == (- r) \div c.stride
  <2>1. j \in Int
    BY <1>1
  <2> HIDE DEF j
  <2>2. Strides(r, c) = - (j * c.stride) /\ - (j * c.stride) = (- j) * c.stride
    BY <1>1, <1>2, <2>1 DEF Strides, j
  <2>3. - j \in Int /\ - (j * c.stride) \in Int
    BY <1>1, <2>1
  <2> QED
    BY <1>2, <2>2, <2>3
<1>3. CASE ~ (r < 0)
  <2>1. Strides(r, c) = (r \div c.stride) * c.stride
    BY <1>3 DEF Strides
  <2>2. r \in Nat /\ r \div c.stride \in Int /\ (r \div c.stride) * c.stride \in 0 .. r
    BY <1>1, <1>3, RoundDown
  <2> QED
    BY <2>1, <2>2
<1> QED
  BY <1>2, <1>3

\* Where an operation falls that is not past the end of its region.
LEMMA OffsetBounds ==
  ASSUME NEW c \in Configs, NEW k \in Nat, NEW r \in Draws(c),
         ~ IsDone(PrepareOffset(k, r, c), c)
  PROVE  LET off == PrepareOffset(k, r, c)
         IN  /\ off \in Int
             /\ ~ DrawsBack(c) => off \in Nat
             /\ c.workload = "rnd" /\ ~ DrawsBack(c) =>
                  off \in c.offset .. c.offset + c.length
             /\ c.workload = "seq" /\ c.direction = "backward" =>
                  /\ c.device_length - c.offset - c.length <= off
                  /\ off + c.block_size <= c.device_length - c.offset
             /\ c.workload = "seq" /\ c.direction = "forward" =>
                  /\ off = c.offset + k * c.stride
                  /\ ~ Endless(c) => k * c.stride < c.length
<1> DEFINE off == PrepareOffset(k, r, c)
           whole == ((c.device_length - c.offset) \div Sector) * Sector
<1>1. /\ c.offset \in Nat /\ c.length \in Nat /\ c.device_length \in Nat
      /\ c.stride \in Nat \ {0} /\ c.block_size \in Nat \ {0}
      /\ c.offset + c.length <= c.device_length
      /\ r \in Int /\ (~ DrawsBack(c) => r \in 0 .. c.length)
  BY ScanFacts
<1>2. k * c.stride \in Nat
  BY <1>1, ProductNat
<1>3. CASE c.workload = "rnd"
  <2>1. Strides(r, c) \in Int /\ (r \in Nat => Strides(r, c) \in 0 .. r)
    BY <1>1, StridesOf
  <2>2. off = c.offset + Strides(r, c)
    BY <1>3 DEF PrepareOffset
  <2> HIDE DEF off
  <2>3. off \in Int /\ (~ DrawsBack(c) => off \in c.offset .. c.offset + c.length)
    BY <1>1, <2>1, <2>2
  <2>4. ~ DrawsBack(c) => off \in Nat
    BY <1>1, <2>3
  <2> QED
    BY <1>3, <2>3, <2>4 DEF off
<1>4. CASE c.workload = "seq" /\ c.direction = "forward"
  <2>1. off = c.offset + k * c.stride
    BY <1>4 DEF PrepareOffset
  <2>2. ~ Endless(c) => off < c.offset + c.length
    BY <1>1, <1>2, <1>4, <2>1 DEF IsDone, DoneIf, PastEnd, BeforeStart, Endless
  <2> QED
    BY <1>1, <1>2, <1>4, <2>1, <2>2
<1>5. CASE c.workload = "seq" /\ c.direction = "backward"
  <2>1. whole \in 0 .. (c.device_length - c.offset)
    <3>1. c.device_length - c.offset \in Nat
      BY <1>1
    <3> QED
      BY <3>1, RoundDown, SectorAssumption
  <2>2. off = whole - c.block_size - k * c.stride
    BY <1>5 DEF PrepareOffset
  <2> HIDE DEF off, whole
  <2>3. off \in Int
    BY <1>1, <1>2, <2>1, <2>2
  <2>4. ~ (off < c.device_length - c.offset - c.length)
    BY <1>5 DEF IsDone, DoneIf, PastEnd, BeforeStart, off
  <2>5. /\ c.device_length - c.offset - c.length <= off
        /\ off + c.block_size <= c.device_length - c.offset
    BY <1>1, <1>2, <2>1, <2>2, <2>3, <2>4
  <2> QED
    BY <1>1, <1>5, <2>3, <2>5 DEF off
<1> QED
  BY <1>3, <1>4, <1>5, ScanFacts

\* An operation that is performed touches the bytes of its block, or, when it
\* discards, some bytes after its offset.
LEMMA ExtentBounds ==
  ASSUME NEW c \in Configs, NEW off \in Int
  PROVE  /\ Extent(off, c) \subseteq Int
         /\ off \in Nat => Extent(off, c) \subseteq Nat
         /\ c.operation # "trim" =>
              Extent(off, c) \subseteq off .. off + c.block_size - 1
  BY ScanFacts DEF Extent

\* Appending moves an operation after the device, and nothing else moves it.
LEMMA PlaceBounds ==
  ASSUME NEW c \in Configs, NEW k \in Nat, NEW off \in Int
  PROVE  /\ Place(k, off, c) \in Int
         /\ off \in Nat => Place(k, off, c) \in Nat
         /\ ~ Appends(c) => Place(k, off, c) = off
<1>1. k * c.block_size \in Nat
  BY ScanFacts, ProductNat
<1> QED
  BY <1>1, ScanFacts DEF Place

-----------------------------------------------------------------------------
\* The inductive invariant: what has been touched so far, and that each
\* operation but the last, the one that found the end, was in the region.
ScanInv ==
  /\ cfg \in Configs
  /\ ScanTypeOK
  /\ BackwardInside
  /\ ForwardOvershoot
  /\ RandomInside
  /\ walk = "over" => ~ Endless(cfg)
  /\ cfg.direction = "forward" /\ ~ Endless(cfg) =>
       /\ walk = "on" => n = 0 \/ (n - 1) * cfg.stride < cfg.length
       /\ walk # "on" => n = 1 \/ (n - 2) * cfg.stride < cfg.length
       /\ walk = "over" => n > 0 /\ (n - 1) * cfg.stride >= cfg.length

LEMMA ScanInvInit == ScanInit => ScanInv
<1> SUFFICES ASSUME ScanInit PROVE ScanInv
  OBVIOUS
<1> QED
  <2>1. cfg \in Configs /\ touched = {} /\ n = 0 /\ walk \in {"on", "exit"}
    BY DEF ScanInit, Begin
  <2>2. cfg.stride \in Nat \ {0} /\ cfg.length \in Nat
    BY <2>1, ScanFacts
  <2>3. (n - 2) * cfg.stride < cfg.length
    BY <2>1, <2>2
  <2> QED
    BY <2>1, <2>3
       DEF ScanInv, ScanTypeOK, BackwardInside, ForwardOvershoot, RandomInside

LEMMA ScanInvNext == ScanInv /\ [ScanNext]_scanVars => ScanInv'
<1> SUFFICES ASSUME ScanInv, [ScanNext]_scanVars PROVE ScanInv'
  OBVIOUS
<1>1. CASE UNCHANGED scanVars
  BY <1>1 DEF scanVars, ScanInv, ScanTypeOK, BackwardInside, ForwardOvershoot,
              RandomInside, Scanning
<1>2. CASE ScanNext
  <2>1. /\ cfg \in Configs /\ n \in Nat /\ touched \subseteq Int
        /\ walk = "on" /\ n' = n + 1 /\ cfg' = cfg
    BY <1>2 DEF ScanInv, ScanTypeOK, ScanNext
  <2>2. /\ cfg.offset \in Nat /\ cfg.length \in Nat
        /\ cfg.device_length \in Nat /\ cfg.stride \in Nat
        /\ cfg.block_size \in Nat \ {0}
    BY <2>1, ScanFacts
  <2>3. n' \in Nat /\ n' > 0 /\ n' - 1 = n /\ n' - 2 = n - 1
    BY <2>1
  <2>4. PICK r \in Draws(cfg) :
          LET off == PrepareOffset(n, r, cfg)
          IN  Over(off) \/ Quit(off) \/ Fail(off) \/ Perform(off)
    BY <1>2 DEF ScanNext
  <2> DEFINE off == PrepareOffset(n, r, cfg)
  <2>5. cfg.direction = "forward" /\ ~ Endless(cfg) =>
          n = 0 \/ (n - 1) * cfg.stride < cfg.length
    BY <2>1 DEF ScanInv
  <2>6. CASE Over(off)
    <3>1. walk' = "over" /\ touched' = touched
      BY <2>6 DEF Over
    <3>2. /\ ~ Endless(cfg)
          /\ cfg.direction = "forward" => n * cfg.stride >= cfg.length
      <4>1. /\ ~ Endless(cfg)
            /\ cfg.workload = "seq"
        BY <2>6 DEF Over, IsDone, DoneIf, Endless
      <4>2. cfg.direction = "forward" =>
              cfg.offset + n * cfg.stride >= cfg.offset + cfg.length
        BY <2>6, <4>1 DEF Over, IsDone, DoneIf, PastEnd, PrepareOffset
      <4>3. n * cfg.stride \in Nat
        BY <2>1, <2>2, ProductNat
      <4> QED
        BY <2>2, <4>1, <4>2, <4>3
    <3> QED
      BY <2>1, <2>3, <2>5, <3>1, <3>2
         DEF ScanInv, ScanTypeOK, BackwardInside, ForwardOvershoot, RandomInside,
             Scanning
  <2>7. CASE Quit(off) \/ Fail(off)
    <3>1. walk' \in {"quit", "exit"} /\ touched' = touched
      BY <2>7 DEF Quit, Fail
    <3> QED
      BY <2>1, <2>3, <2>5, <3>1
         DEF ScanInv, ScanTypeOK, BackwardInside, ForwardOvershoot, RandomInside,
             Scanning
  <2>8. CASE Perform(off)
    <3>1. walk' = "on" /\ touched' = touched \cup Extent(Place(n, off, cfg), cfg)
      BY <2>1, <2>8 DEF Perform
    <3>2. /\ off \in Int /\ (~ DrawsBack(cfg) => off \in Nat)
          /\ cfg.workload = "rnd" /\ ~ DrawsBack(cfg) =>
               off \in cfg.offset .. cfg.offset + cfg.length
          /\ Scanning("backward") =>
               /\ cfg.device_length - cfg.offset - cfg.length <= off
               /\ off + cfg.block_size <= cfg.device_length - cfg.offset
          /\ Scanning("forward") => off = cfg.offset + n * cfg.stride
          /\ cfg.direction = "forward" /\ ~ Endless(cfg) =>
               n * cfg.stride < cfg.length
      <4>1. ~ Endless(cfg) => cfg.workload = "seq"
        BY <2>1, ScanFacts DEF Endless
      <4> QED
        BY <2>1, <2>8, <4>1, OffsetBounds DEF Perform, Scanning
    <3> HIDE DEF off
    <3>3. /\ touched' \subseteq Int
          /\ cfg.operation # "trim" /\ ~ Appends(cfg) =>
               touched' \subseteq touched \cup off .. off + cfg.block_size - 1
      BY <2>1, <3>1, <3>2, ExtentBounds, PlaceBounds
    <3>4. ScanTypeOK'
      <4>1. CASE DrawsBack(cfg) /\ cfg.io_type = "mmap"
        BY <2>1, <2>3, <3>1, <3>3, <4>1 DEF ScanTypeOK, DrawsBack
      <4>2. CASE ~ (DrawsBack(cfg) /\ cfg.io_type = "mmap")
        <5>1. touched \subseteq Nat
          BY <4>2 DEF ScanInv, ScanTypeOK
        <5>2. cfg.io_type # "mmap" => ~ (Place(n, off, cfg) < 0)
          BY <2>8 DEF Perform, MustFail, off
        <5>3. Place(n, off, cfg) \in Nat
          BY <2>1, <3>2, <4>2, <5>2, PlaceBounds
        <5>4. Extent(Place(n, off, cfg), cfg) \subseteq Nat
          BY <2>1, <5>3, ExtentBounds
        <5>5. touched' \subseteq Nat
          BY <3>1, <5>1, <5>4
        <5> QED
          BY <2>1, <2>3, <3>1, <3>3, <5>5 DEF ScanTypeOK
      <4> QED
        BY <4>1, <4>2
    <3>5. BackwardInside'
      <4> SUFFICES ASSUME Scanning("backward"), NEW b \in touched'
                   PROVE  b \in First(cfg) .. (cfg.device_length - cfg.offset) - 1
        BY <2>1 DEF BackwardInside, Scanning
      <4>1. b \in touched \/ b \in off .. off + cfg.block_size - 1
        BY <3>3 DEF Scanning
      <4>2. First(cfg) = cfg.device_length - cfg.offset - cfg.length
        BY DEF First, Scanning
      <4> QED
        BY <2>2, <3>2, <4>1, <4>2 DEF ScanInv, BackwardInside
    <3>6. ForwardOvershoot'
      <4> SUFFICES ASSUME Scanning("forward"), ~ Endless(cfg), NEW b \in touched'
                   PROVE  b \in cfg.offset .. cfg.offset + cfg.length + cfg.block_size - 2
        BY <2>1 DEF ForwardOvershoot, Scanning
      <4>1. b \in touched \/ b \in off .. off + cfg.block_size - 1
        BY <3>3 DEF Scanning
      <4>2. n * cfg.stride \in Nat
        BY <2>1, <2>2, ProductNat
      <4> QED
        BY <2>2, <3>2, <4>1, <4>2 DEF ScanInv, ForwardOvershoot, Scanning
    <3>7. RandomInside'
      <4> SUFFICES ASSUME cfg.workload = "rnd", cfg.operation # "trim",
                          ~ DrawsBack(cfg), NEW b \in touched'
                   PROVE  b \in cfg.offset .. cfg.offset + cfg.length + cfg.block_size - 1
        BY <2>1 DEF RandomInside, DrawsBack
      <4>1. ~ Appends(cfg)
        BY <2>1, ConfigsAssumption DEF Appends, Accepted, Misused
      <4>2. b \in touched \/ b \in off .. off + cfg.block_size - 1
        BY <3>3, <4>1
      <4> QED
        BY <2>2, <3>2, <4>2 DEF ScanInv, RandomInside
    <3> QED
      BY <2>1, <2>3, <3>1, <3>2, <3>4, <3>5, <3>6, <3>7 DEF ScanInv, Scanning
  <2> QED
    BY <2>4, <2>6, <2>7, <2>8
<1> QED
  BY <1>1, <1>2

THEOREM ScanInductive == ScanSpec => []ScanInv
  BY ScanInvInit, ScanInvNext, PTL DEF ScanSpec

\* For every configuration that is accepted no operation falls before the
\* start of the device, except the copies from and to a mapping at draws of
\* the power distribution with a negative sigma, which nothing clamps.
THEOREM ScanTypeCorrect == ScanSpec => []ScanTypeOK
<1>1. ScanInv => ScanTypeOK
  BY DEF ScanInv
<1> QED
  BY <1>1, ScanInductive, PTL

\* A backward scan never touches a byte outside its region, whatever the sector
\* it is aligned to and however its stride and block divide the region.
THEOREM StaysInside == ScanSpec => []BackwardInside
<1>1. ScanInv => BackwardInside
  BY DEF ScanInv
<1> QED
  BY <1>1, ScanInductive, PTL

\* A forward scan that has an end goes past its region by less than a block.
THEOREM OvershootsLessThanABlock == ScanSpec => []ForwardOvershoot
<1>1. ScanInv => ForwardOvershoot
  BY DEF ScanInv
<1> QED
  BY <1>1, ScanInductive, PTL

\* Random operations leave their region by a block at most, whatever the
\* distribution, sigma and stride, unless the draws go backwards.
THEOREM RandomStaysInside == ScanSpec => []RandomInside
<1>1. ScanInv => RandomInside
  BY DEF ScanInv
<1> QED
  BY <1>1, ScanInductive, PTL

\* The count of a forward scan that ran to its end is the strides that fit in
\* its region, and one.
THEOREM CountsOneMore == ScanSpec => []CountsTheEnd
<1>1. ASSUME ScanInv PROVE CountsTheEnd
  <2> SUFFICES ASSUME walk = "over", cfg.direction = "forward"
               PROVE  /\ (n - 1) * cfg.stride >= cfg.length
                      /\ n > 1 => (n - 2) * cfg.stride < cfg.length
    BY DEF CountsTheEnd
  <2> QED
    BY <1>1 DEF ScanInv, ScanTypeOK
<1> QED
  BY <1>1, ScanInductive, PTL

-----------------------------------------------------------------------------
\* Multiples, by what C's remainder says of them.
LEMMA Small ==
  ASSUME NEW t \in Int, NEW s \in Nat \ {0}, 0 <= t * s, t * s < s
  PROVE  t = 0
<1>1. CASE t >= 1
  BY <1>1
<1>2. CASE t <= -1
  BY <1>2
<1> QED
  BY <1>1, <1>2

LEMMA Divides ==
  ASSUME NEW a \in Int, NEW s \in Nat \ {0}, a % s = 0
  PROVE  \E q \in Int : a = q * s
<1>1. a = (a \div s) * s + (a % s) /\ a \div s \in Int
  OBVIOUS
<1>2. a = (a \div s) * s
  BY <1>1
<1> WITNESS a \div s \in Int
<1> QED
  BY <1>2

LEMMA MultipleOf ==
  ASSUME NEW q \in Int, NEW s \in Nat \ {0}
  PROVE  (q * s) % s = 0
<1> DEFINE d == (q * s) \div s
           m == (q * s) % s
<1>1. q * s = d * s + m /\ d \in Int /\ m \in Int /\ 0 <= m /\ m < s
  OBVIOUS
<1> HIDE DEF d, m
<1>2. (q - d) * s = q * s - d * s
  BY <1>1
<1>3. (q - d) * s = m /\ q - d \in Int
  BY <1>1, <1>2
<1>4. q - d = 0
  BY <1>1, <1>3, Small
<1>5. m = 0
  BY <1>1, <1>3, <1>4
<1> QED
  BY <1>5 DEF m

LEMMA SumOfMultiples ==
  ASSUME NEW a \in Int, NEW b \in Int, NEW s \in Nat \ {0}, a % s = 0, b % s = 0
  PROVE  (a + b) % s = 0 /\ (a - b) % s = 0
<1>1. PICK q \in Int : a = q * s
  BY Divides
<1>2. PICK p \in Int : b = p * s
  BY Divides
<1>3. a + b = (q + p) * s /\ a - b = (q - p) * s /\ q + p \in Int /\ q - p \in Int
  BY <1>1, <1>2
<1> QED
  BY <1>3, MultipleOf

LEMMA ProductOfMultiple ==
  ASSUME NEW a \in Int, NEW j \in Int, NEW s \in Nat \ {0}, a % s = 0
  PROVE  (j * a) % s = 0
<1>1. PICK q \in Int : a = q * s
  BY Divides
<1>2. j * a = (j * q) * s /\ j * q \in Int
  BY <1>1
<1> QED
  BY <1>2, MultipleOf

LEMMA NextMultiple ==
  ASSUME NEW a \in Int, NEW b \in Int, NEW s \in Nat \ {0}, a % s = 0, b % s = 0, a < b
  PROVE  a + s <= b
<1>1. PICK q \in Int : a = q * s
  BY Divides
<1>2. PICK p \in Int : b = p * s
  BY Divides
<1>3. (p - q) * s = b - a /\ p - q \in Int
  BY <1>1, <1>2
<1>4. p - q >= 1
  <2> SUFFICES ASSUME p - q <= 0 PROVE FALSE
    BY <1>3
  <2>1. (p - q) * s <= 0
    BY <1>3
  <2> QED
    BY <1>3, <2>1
<1>5. (p - q) * s >= s
  BY <1>3, <1>4
<1> QED
  BY <1>3, <1>5

LEMMA RoundUp ==
  ASSUME NEW a \in Nat, NEW s \in Nat \ {0}
  PROVE  ((a + s - 1) \div s) * s >= a
<1>1. a + s - 1 = ((a + s - 1) \div s) * s + ((a + s - 1) % s)
      /\ (a + s - 1) % s < s /\ ((a + s - 1) \div s) * s \in Int /\ (a + s - 1) % s \in Int
  OBVIOUS
<1> QED
  BY <1>1

\* Where a read falls: before the end of the device, ...
LEMMA ReadStarts ==
  ASSUME NEW c \in Configs, Readable(c), NEW k \in Nat, NEW r \in Draws(c),
         ~ IsDone(PrepareOffset(k, r, c), c)
  PROVE  PrepareOffset(k, r, c) < c.device_length
<1> DEFINE off == PrepareOffset(k, r, c)
<1>1. /\ c.offset \in Nat /\ c.length \in Nat /\ c.device_length \in Nat
      /\ c.stride \in Nat \ {0} /\ c.block_size \in Nat \ {0}
      /\ c.offset + c.length <= c.device_length /\ c.offset < c.device_length
      /\ r \in Nat /\ off \in Nat
  <2>1. ~ DrawsBack(c)
    BY DEF Readable, DrawsBack
  <2> QED
    BY <2>1, ScanFacts, OffsetBounds DEF Readable
<1>2. CASE c.workload = "rnd"
  <2>1. r = 0 \/ r < c.length
    BY <1>1, <1>2 DEF Readable, Draws, GetRandom
  <2>2. Strides(r, c) \in 0 .. r
    BY <1>1, StridesOf
  <2>3. off = c.offset + Strides(r, c)
    BY <1>2 DEF PrepareOffset
  <2> HIDE DEF off
  <2>4. off < c.device_length
    BY <1>1, <2>1, <2>2, <2>3
  <2> QED
    BY <2>4 DEF off
<1>3. CASE c.workload = "seq" /\ c.direction = "forward"
  <2>1. off = c.offset + k * c.stride /\ k * c.stride < c.length
    BY <1>3, OffsetBounds DEF Readable, Endless
  <2>2. k * c.stride \in Nat
    BY <1>1, ProductNat
  <2> QED
    BY <1>1, <2>1, <2>2
<1>4. CASE c.workload = "seq" /\ c.direction = "backward"
  <2>1. off + c.block_size <= c.device_length - c.offset
    BY <1>4, OffsetBounds
  <2> QED
    BY <1>1, <2>1
<1> QED
  BY <1>2, <1>3, <1>4, ScanFacts

\* ... on a multiple of what its offset and its stride are multiples of, ...
LEMMA ReadMultiple ==
  ASSUME NEW c \in Configs, c.direction = "forward", NEW k \in Nat,
         NEW r \in Draws(c), NEW s \in Nat \ {0},
         c.offset % s = 0, c.stride % s = 0
  PROVE  PrepareOffset(k, r, c) % s = 0
<1>1. /\ c.offset \in Nat /\ c.stride \in Nat \ {0} /\ r \in Int
      /\ c.workload \in {"rnd", "seq"}
  BY ScanFacts
<1>2. \A j \in Int : (c.offset + j * c.stride) % s = 0
  <2> TAKE j \in Int
  <2>1. c.stride \in Int /\ c.offset \in Int /\ j * c.stride \in Int
    BY <1>1
  <2>2. (j * c.stride) % s = 0
    BY <2>1, ProductOfMultiple, Zenon
  <2> QED
    BY <2>1, <2>2, SumOfMultiples, Zenon
<1>3. \E j \in Int : Strides(r, c) = j * c.stride
  BY <1>1, StridesOf
<1>4. \E j \in Int : PrepareOffset(k, r, c) = c.offset + j * c.stride
  <2>1. CASE c.workload = "rnd"
    BY <1>3, <2>1 DEF PrepareOffset
  <2>2. CASE c.workload = "seq"
    BY <2>2 DEF PrepareOffset
  <2> QED
    BY <1>1, <2>1, <2>2
<1> QED
  BY <1>2, <1>4

\* ... on a sector if the configuration is aligned, ...
LEMMA ReadSectors ==
  ASSUME NEW c \in Configs, Aligned(c), NEW k \in Nat, NEW r \in Draws(c)
  PROVE  PrepareOffset(k, r, c) % Sector = 0
<1> DEFINE whole == ((c.device_length - c.offset) \div Sector) * Sector
<1>1. /\ c.offset \in Nat /\ c.length \in Nat /\ c.device_length \in Nat
      /\ c.stride \in Nat \ {0} /\ c.block_size \in Nat \ {0}
      /\ c.direction \in {"forward", "backward"}
      /\ c.workload \in {"rnd", "seq"}
      /\ c.workload = "rnd" => c.direction = "forward"
  BY ScanFacts
<1>2. CASE c.direction = "forward"
  BY <1>2, ReadMultiple, SectorAssumption DEF Aligned
<1>3. CASE c.direction = "backward"
  <2>1. PrepareOffset(k, r, c) = whole - c.block_size - k * c.stride
    BY <1>1, <1>3 DEF PrepareOffset
  <2>2. (c.device_length - c.offset) \div Sector \in Int
    BY <1>1, SectorAssumption
  <2>3. whole % Sector = 0 /\ whole \in Int
    BY <2>2, MultipleOf, SectorAssumption
  <2> HIDE DEF whole
  <2>4. /\ c.block_size \in Int /\ c.stride \in Int /\ k \in Int
        /\ whole - c.block_size \in Int /\ k * c.stride \in Int
    BY <1>1, <2>3
  <2>5. /\ (whole - c.block_size) % Sector = 0
        /\ (k * c.stride) % Sector = 0
    BY <2>3, <2>4, SumOfMultiples, ProductOfMultiple, SectorAssumption, Zenon
       DEF Aligned
  <2>6. ((whole - c.block_size) - k * c.stride) % Sector = 0
    BY <2>4, <2>5, SumOfMultiples, SectorAssumption, Zenon
  <2> QED
    BY <2>1, <2>6
<1> QED
  BY <1>1, <1>2, <1>3

\* ... and in the pages of the mapping if it is of whole blocks.
LEMMA ReadMapped ==
  ASSUME NEW c \in Configs, Readable(c), WholeBlocks(c), NEW k \in Nat,
         NEW r \in Draws(c), ~ IsDone(PrepareOffset(k, r, c), c)
  PROVE  PrepareOffset(k, r, c) + c.block_size <= Mapped(c)
<1> DEFINE off == PrepareOffset(k, r, c)
           pages == (c.device_length + Page - 1) \div Page
<1>1. /\ c.offset \in Nat /\ c.device_length \in Nat
      /\ c.stride \in Nat \ {0} /\ c.block_size \in Nat \ {0}
      /\ c.direction \in {"forward", "backward"}
      /\ c.workload = "rnd" => c.direction = "forward"
      /\ off \in Nat /\ off < c.device_length
      /\ c.workload \in {"rnd", "seq"}
  <2>1. ~ DrawsBack(c)
    BY DEF Readable, DrawsBack
  <2> QED
    BY <2>1, ScanFacts, OffsetBounds, ReadStarts
<1>2. Mapped(c) >= c.device_length
  BY <1>1, RoundUp, PageAssumption DEF Mapped
<1>3. Mapped(c) = pages * Page /\ pages \in Int /\ Mapped(c) \in Int
  <2>1. pages \in Int
    BY <1>1, PageAssumption
  <2> QED
    BY <2>1, PageAssumption DEF Mapped
<1>4. CASE c.direction = "backward"
  <2>1. off + c.block_size <= c.device_length - c.offset
    BY <1>1, <1>4, OffsetBounds
  <2> QED
    BY <1>1, <1>2, <1>3, <2>1
<1>5. CASE c.direction = "forward"
  <2>1. /\ c.offset % c.block_size = 0 /\ c.stride % c.block_size = 0
        /\ Page % c.block_size = 0
    BY <1>5 DEF WholeBlocks
  <2>2. off % c.block_size = 0
    BY <1>1, <1>5, <2>1, ReadMultiple
  <2> HIDE DEF off, pages
  <2>3. Page \in Int
    BY PageAssumption
  <2>4. (pages * Page) % c.block_size = 0
    BY <1>1, <1>3, <2>1, <2>3, ProductOfMultiple, Zenon
  <2>5. Mapped(c) % c.block_size = 0 /\ off < Mapped(c)
    BY <1>1, <1>2, <1>3, <2>4
  <2>6. off + c.block_size <= Mapped(c)
    BY <1>1, <1>3, <2>2, <2>5, NextMultiple
  <2> QED
    BY <2>6 DEF off
<1> QED
  BY <1>1, <1>4, <1>5

LEMMA ReadsSucceedNext == ScanInv /\ ReadsSucceed /\ [ScanNext]_scanVars => ReadsSucceed'
<1> SUFFICES ASSUME ScanInv, ReadsSucceed, [ScanNext]_scanVars,
                    Readable(cfg'), walk' = "exit"
             PROVE  FALSE
  BY DEF ReadsSucceed
<1>1. cfg' = cfg
  BY DEF ScanNext, scanVars
<1>2. cfg \in Configs /\ n \in Nat /\ Readable(cfg) /\ walk # "exit"
  BY <1>1 DEF ScanInv, ScanTypeOK, ReadsSucceed
<1>3. ScanNext
  BY <1>2 DEF scanVars
<1>4. PICK r \in Draws(cfg) :
        LET off == PrepareOffset(n, r, cfg)
        IN  Over(off) \/ Quit(off) \/ Fail(off) \/ Perform(off)
  BY <1>3 DEF ScanNext
<1> DEFINE off == PrepareOffset(n, r, cfg)
<1>5. ~ IsDone(off, cfg) /\ MayFail(Place(n, off, cfg), cfg)
  BY <1>2, <1>4 DEF Over, Quit, Fail, Perform
<1>6. MayFail(off, cfg) /\ off < cfg.device_length
  <2>1. ~ Appends(cfg) /\ off \in Int
    BY <1>2, <1>5, OffsetBounds DEF Appends, Readable
  <2> QED
    BY <1>2, <1>5, <2>1, PlaceBounds, ReadStarts
<1>7. off \in Nat /\ cfg.device_length \in Nat /\ cfg.block_size \in Nat
  <2>1. ~ DrawsBack(cfg)
    BY <1>2 DEF Readable, DrawsBack
  <2> QED
    BY <1>2, <1>5, <2>1, ScanFacts, OffsetBounds
<1>8. cfg.io_type = "mmap" => off + cfg.block_size <= Mapped(cfg)
  BY <1>2, <1>5, ReadMapped DEF Readable, Suits
<1>9. cfg.direct_io => off % Sector = 0 /\ cfg.block_size % Sector = 0
  BY <1>2, ReadSectors DEF Readable, Suits, Aligned
<1>10. Mapped(cfg) \in Int
  <2>1. (cfg.device_length + Page - 1) \div Page \in Int
    BY <1>7, PageAssumption
  <2> QED
    BY <2>1, PageAssumption DEF Mapped
<1> HIDE DEF off
<1> QED
  BY <1>2, <1>6, <1>7, <1>8, <1>9, <1>10 DEF MayFail, MustFail, Readable

\* No read of a configuration that suits its engine fails for its place.
THEOREM ReadsNeverFail == ScanSpec => []ReadsSucceed
<1>1. ScanInit => ReadsSucceed
  BY DEF ScanInit, Begin, ReadsSucceed, Readable, Suits
<1> QED
  BY <1>1, ReadsSucceedNext, ScanInductive, PTL DEF ScanSpec
-----------------------------------------------------------------------------
\* The part of the device that m operations of a scan sweep, and the invariant:
\* it has been touched, by all the operations but the one that found the end.
Swept(m) ==
  IF cfg.direction = "forward"
    THEN cfg.offset .. cfg.offset + m * cfg.stride - 1
    ELSE Boundary(cfg) - m * cfg.stride .. Boundary(cfg) - 1

Touched(m) == \A b \in Swept(m) : b < cfg.device_length => b \in touched

CoverInv ==
  Scanning(cfg.direction) /\ cfg.stride <= cfg.block_size =>
    /\ walk = "on" => Touched(n)
    /\ walk = "over" =>
         n > 0 /\ Touched(n - 1) /\ IsDone(PrepareOffset(n - 1, 0, cfg), cfg)

LEMMA CoverInvNext == ScanInv /\ CoverInv /\ [ScanNext]_scanVars => CoverInv'
<1> SUFFICES ASSUME ScanInv, CoverInv, [ScanNext]_scanVars PROVE CoverInv'
  OBVIOUS
<1>1. CASE UNCHANGED scanVars
  BY <1>1 DEF scanVars, CoverInv, Scanning, Touched, Swept, Boundary
<1>2. CASE ScanNext
  <2> SUFFICES ASSUME Scanning(cfg.direction), cfg.stride <= cfg.block_size
               PROVE  /\ walk' = "on" => Touched(n)'
                      /\ walk' = "over" =>
                           /\ n' > 0 /\ Touched(n - 1)'
                           /\ IsDone(PrepareOffset(n' - 1, 0, cfg), cfg)
    BY <1>2 DEF CoverInv, ScanNext, Scanning
  <2>1. /\ cfg \in Configs /\ n \in Nat /\ n' = n + 1 /\ cfg' = cfg
        /\ n' - 1 = n /\ n' > 0 /\ Touched(n)
    BY <1>2 DEF ScanInv, ScanTypeOK, ScanNext, CoverInv
  <2>2. LET off == PrepareOffset(n, 0, cfg)
        IN  Over(off) \/ Quit(off) \/ Fail(off) \/ Perform(off)
    BY <1>2 DEF ScanNext, Draws, Scanning
  <2> DEFINE off == PrepareOffset(n, 0, cfg)
  <2>3. CASE Over(off)
    BY <2>1, <2>3 DEF Over, Touched, Swept, Boundary
  <2>4. CASE Quit(off) \/ Fail(off)
    BY <2>4 DEF Quit, Fail
  <2>5. CASE Perform(off)
    <3>1. /\ cfg.offset \in Nat /\ cfg.length \in Nat
          /\ cfg.device_length \in Nat /\ cfg.stride \in Nat
          /\ cfg.block_size \in Nat /\ cfg.stride \in Int
          /\ cfg.offset + cfg.length <= cfg.device_length
          /\ cfg.direction \in {"forward", "backward"}
          /\ cfg.operation \in {"read", "write", "trim"}
          /\ n * cfg.stride \in Nat
          /\ (n + 1) * cfg.stride = n * cfg.stride + cfg.stride
      BY <2>1, ScanFacts, ProductNat
    <3>2. /\ 0 \in Draws(cfg) /\ ~ IsDone(off, cfg) /\ walk' = walk /\ walk = "on"
          /\ touched' = touched \cup Extent(Place(n, off, cfg), cfg)
      BY <1>2, <2>5 DEF Perform, Draws, Scanning, ScanNext
    <3>3. off \in Nat
      <4>1. ~ DrawsBack(cfg)
        BY DEF Scanning, DrawsBack
      <4> QED
        BY <2>1, <3>2, <4>1, OffsetBounds
    <3>4. Place(n, off, cfg) = off
      BY <2>1, <3>3, PlaceBounds DEF Scanning
    <3>5. /\ cfg.direction = "forward" => off = cfg.offset + n * cfg.stride
          /\ cfg.direction = "backward" =>
               off = Boundary(cfg) - cfg.block_size - n * cfg.stride
      BY DEF PrepareOffset, Scanning, Boundary
    <3> HIDE DEF off
    <3>6. \A b \in off .. off + cfg.block_size - 1 :
            b < cfg.device_length => b \in touched'
      BY <3>1, <3>2, <3>3, <3>4 DEF Extent, Scanning
    <3>7. Boundary(cfg) \in Int
      <4>1. (cfg.device_length - cfg.offset) \div Sector \in Int
        BY <3>1, SectorAssumption
      <4> QED
        BY <3>1, <4>1, SectorAssumption DEF Boundary
    <3>8. ASSUME NEW b \in Swept(n + 1), b < cfg.device_length
          PROVE  b \in touched'
      <4>1. CASE cfg.direction = "forward"
        <5>1. b \in cfg.offset .. cfg.offset + n * cfg.stride + cfg.stride - 1
          BY <3>1, <3>8, <4>1 DEF Swept
        <5>2. b \in Swept(n) \/ b \in off .. off + cfg.block_size - 1
          BY <3>1, <3>3, <3>5, <4>1, <5>1 DEF Swept
        <5> QED
          BY <2>1, <3>2, <3>6, <3>8, <5>2 DEF Touched
      <4>2. CASE cfg.direction = "backward"
        <5>1. b \in Boundary(cfg) - (n * cfg.stride + cfg.stride) .. Boundary(cfg) - 1
          BY <3>1, <3>8, <4>2 DEF Swept
        <5>2. b \in Swept(n) \/ b \in off .. off + cfg.block_size - 1
          BY <3>1, <3>3, <3>5, <3>7, <4>2, <5>1 DEF Swept
        <5> QED
          BY <2>1, <3>2, <3>6, <3>8, <5>2 DEF Touched
      <4> QED
        BY <3>1, <4>1, <4>2
    <3>9. Touched(n)'
      BY <2>1, <3>8 DEF Touched, Swept, Boundary
    <3> QED
      BY <3>2, <3>9
  <2> QED
    BY <2>2, <2>3, <2>4, <2>5
<1> QED
  BY <1>1, <1>2

\* A scan that came to its end left no hole, whatever its stride, as long as
\* that is no longer than its block.
THEOREM NoHoles == ScanSpec => []Covers
<1>1. ScanInit => CoverInv
  <2> SUFFICES ASSUME ScanInit PROVE Swept(0) = {}
    BY DEF ScanInit, Begin, CoverInv, Touched
  <2>1. cfg \in Configs /\ cfg.offset \in Nat /\ cfg.device_length \in Nat
        /\ 0 * cfg.stride = 0
    BY ScanFacts DEF ScanInit
  <2>2. Boundary(cfg) \in Int
    <3>1. (cfg.device_length - cfg.offset) \div Sector \in Int
      BY <2>1, ScanFacts, SectorAssumption
    <3> QED
      BY <2>1, <3>1, ScanFacts, SectorAssumption DEF Boundary
  <2> QED
    BY <2>1, <2>2 DEF Swept
<1>2. ScanInv /\ CoverInv => Covers
  <2> SUFFICES ASSUME ScanInv, CoverInv, walk = "over", Scanning(cfg.direction),
                      cfg.stride <= cfg.block_size,
                      NEW b \in First(cfg) + (IF cfg.direction = "forward" THEN 0
                                                ELSE cfg.block_size - 1)
                                  .. Boundary(cfg) - 1
               PROVE  b \in touched
    BY DEF Covers
  <2>1. /\ cfg \in Configs /\ n \in Nat /\ Touched(n - 1) /\ n - 1 \in Nat
        /\ IsDone(PrepareOffset(n - 1, 0, cfg), cfg)
    BY DEF ScanInv, ScanTypeOK, CoverInv
  <2>2. /\ cfg.offset \in Nat /\ cfg.length \in Nat
        /\ cfg.device_length \in Nat /\ cfg.stride \in Nat
        /\ cfg.block_size \in Nat
        /\ cfg.offset + cfg.length <= cfg.device_length
        /\ cfg.direction \in {"forward", "backward"}
        /\ (n - 1) * cfg.stride \in Nat
    BY <2>1, ScanFacts, ProductNat
  <2>3. CASE cfg.direction = "forward"
    <3>1. cfg.offset + (n - 1) * cfg.stride >= cfg.offset + cfg.length
      BY <2>1, <2>3 DEF IsDone, DoneIf, PastEnd, PrepareOffset, Scanning
    <3>2. b \in cfg.offset .. cfg.offset + cfg.length - 1
      BY <2>2, <2>3 DEF First, Boundary
    <3>3. b \in Swept(n - 1) /\ b < cfg.device_length
      BY <2>2, <2>3, <3>1, <3>2 DEF Swept
    <3> QED
      BY <2>1, <3>3 DEF Touched
  <2>4. CASE cfg.direction = "backward"
    <3>1. Boundary(cfg) \in 0 .. cfg.device_length - cfg.offset
      <4>1. cfg.device_length - cfg.offset \in Nat
        BY <2>2
      <4> QED
        BY <2>4, <4>1, RoundDown, SectorAssumption DEF Boundary
    <3>2. Boundary(cfg) - cfg.block_size - (n - 1) * cfg.stride
            < cfg.device_length - cfg.offset - cfg.length
      BY <2>1, <2>4
         DEF IsDone, DoneIf, BeforeStart, PrepareOffset, Scanning, Boundary
    <3>3. b \in cfg.device_length - cfg.offset - cfg.length + cfg.block_size - 1
                  .. Boundary(cfg) - 1
      BY <2>2, <2>4, <3>1 DEF First
    <3>4. b \in Swept(n - 1) /\ b < cfg.device_length
      BY <2>2, <2>4, <3>1, <3>2, <3>3 DEF Swept
    <3> QED
      BY <2>1, <3>4 DEF Touched
  <2> QED
    BY <2>2, <2>3, <2>4
<1> QED
  BY <1>1, <1>2, CoverInvNext, ScanInductive, PTL DEF ScanSpec
=============================================================================
