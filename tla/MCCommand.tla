----------------------------- MODULE MCCommand ------------------------------
(***************************************************************************)
(* Command lines for TLC.  Scans, random reads and trims of a device of    *)
(* seven bytes, with regions at its start, middle and end, and blocks and  *)
(* strides that do and do not divide them, paged, mapped and by direct     *)
(* I/O; draws of each distribution; blocks above a page; and lines with up *)
(* to three options of any kind.                                           *)
(***************************************************************************)
EXTENDS Command, TLC

Bytes(k)   == [n |-> k, unit |-> "none"]
Scaled(k, u) == [n |-> k, unit |-> u]

Line(given, sizes, device) ==
  [given |-> given, sizes |-> sizes, device |-> device]

Shape(op, dir, w, t, o, l, s, b) ==
  Line([operation |-> op, direction |-> dir, workload |-> w,
        io_type |-> t[1], direct_io |-> t[2], silent |-> TRUE],
       [offset |-> Bytes(o), length |-> Bytes(l), stride |-> Bytes(s),
        block_size |-> Bytes(b), duration |-> Scaled(1, "k")], TRUE)

Shapes(ops, dirs, ws, types) ==
  {Shape(op, dir, w, t, o, l, s, b) :
     op \in ops, dir \in dirs, w \in ws, t \in types,
     o \in 0 .. 4, l \in 0 .. 7, s \in 1 .. 3, b \in 1 .. 3}

\* A line with a distribution and a sigma as well.
Drawn(l, d) == [l EXCEPT !.given = @ @@ [dist |-> d[1], sigma |-> d[2]]]

Paged == {<<"stateful", FALSE>>}
Types == {<<"stateful", TRUE>>, <<"mmap", FALSE>>}
Ways  == {"forward", "backward"}

Scans  == Shapes({"read", "write"}, Ways, {"seq"}, Paged)
            \cup Shapes({"read"}, Ways, {"seq"}, Types)
Random == Shapes({"read"}, {"forward"}, {"rnd"}, Paged \cup Types)
\* Draws that are clamped and draws that go backwards; blocks above a page,
\* of which one is no power of two.
Dists  == {<<"normal", 50>>, <<"normal", -10>>, <<"power", 50>>, <<"power", -10>>}
Draw   == {Drawn(Shape("read", "forward", "rnd", t, o, l, s, b), d) :
             t \in Paged \cup Types, o \in {0, 3}, l \in {2, 3},
             s \in 1 .. 2, b \in 1 .. 2, d \in Dists}
Large  == {Shape("read", dir, "seq", t, o, l, s, b) :
             dir \in Ways, t \in Paged \cup Types, o \in {0, 2}, l \in {0, 3},
             s \in {2, 5, 8}, b \in {5, 8}}
Trims  == Shapes({"trim"}, {"forward"}, {"seq"}, Paged)

\* One option each: a field, ...
Fields ==
  {<<"threads", 0>>, <<"threads", 2>>, <<"io_type", "stateless">>,
   <<"io_type", "mmap">>, <<"io_type", "naio">>, <<"io_type", "paio">>,
   <<"io_type", "none">>, <<"workload", "seq">>, <<"operation", "write">>,
   <<"operation", "trim">>, <<"direction", "backward">>, <<"dist", "normal">>,
   <<"dist", "const">>, <<"sigma", 3>>, <<"queue_depth", 2>>, <<"queue_depth", 0>>,
   <<"use_eventfd", TRUE>>, <<"direct_io", FALSE>>, <<"buffered", TRUE>>,
   <<"append_only", TRUE>>, <<"local_fd", TRUE>>, <<"silent", TRUE>>,
   <<"pause_interval", 1>>}

\* ... or a size.
Sizes ==
  {<<"offset", Bytes(3)>>, <<"offset", Scaled(50, "percent")>>,
   <<"offset", Scaled(1, "k")>>, <<"length", Bytes(-1)>>,
   <<"length", Scaled(150, "percent")>>, <<"length", Bytes(5)>>,
   <<"stride", Bytes(0)>>, <<"stride", Scaled(1, "m")>>,
   <<"block_size", Scaled(1, "k")>>, <<"block_size", Scaled(2, "g")>>,
   <<"duration", Scaled(0, "i")>>, <<"duration", Scaled(1, "k")>>,
   <<"duration", Bytes(-1)>>}

\* Up to three of them, no field twice; and no device.
Few        == {{p, q, r} : p, q, r \in Fields \cup Sizes}
Single(o)  == \A p, q \in o : p[1] = q[1] => p = q
AsGiven(o) == [f \in {p[1] : p \in o} |-> (CHOOSE p \in o : p[1] = f)[2]]

AFew ==
  {Line(AsGiven(o \cap Fields), AsGiven(o \cap Sizes), TRUE) :
     o \in {q \in Few : Single(q)}}
  \cup {Line(AsGiven({p}), << >>, FALSE) : p \in Fields}

CommandLines == Scans \cup Random \cup Draw \cup Large \cup Trims \cup AFew

\* Scan's own choice of a configuration is not used: here it is parsed.
NoConfigs == {}
=============================================================================
