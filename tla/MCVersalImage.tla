--------------------------- MODULE MCVersalImage ---------------------------
(***************************************************************************)
(* Instances of VersalImage with the sizes of the source.  One group of    *)
(* inputs varies how a partition is encrypted, one the key files of three  *)
(* partitions, one the placement of the partitions.                        *)
(***************************************************************************)
EXTENDS VersalImage, TLC

\* x & y where y is the mask ~(A - 1) of a power of two A.
MCBitAnd(x, y) == x - (x % (MaskModulus - y))

MCFiles == {"a.nky", "a.1.nky", "b.nky", "meta.nky", "pmc.nky"}
MCSources == {"efuse_red_key", "bbram_red_key"}

-----------------------------------------------------------------------------
(* Partitions.                                                             *)

Part(kind, image, length) ==
    [kind |-> kind, image |-> image, source |-> "efuse_red_key", encrypted |-> FALSE,
     authentication |-> "none", checksum |-> FALSE, blocks |-> <<>>, default |-> 0,
     lengths |-> <<length>>, files |-> <<"a.nky">>]

Encrypted(part, key) == [part EXCEPT !.encrypted = TRUE, !.files = <<key>>]

MetaHeader == Part("metaheader", 9, 16320)

NoAttributes == [offset |-> 0, alignment |-> 0, reserve |-> 0]

WithSmap == [width |-> 32, lastWidth |-> 32, slaveBoot |-> FALSE]

Input(partitions, keyFiles, words, attributes) ==
    [plan |-> partitions, disk |-> keyFiles, smap |-> words,
     parts |-> [j \in DOMAIN partitions |->
                  IF j \in DOMAIN attributes THEN attributes[j] ELSE NoAttributes]]

NoFiles == << >>

Protections == {<<"none", FALSE>>, <<"none", TRUE>>, <<"delayed", FALSE>>, <<"signed", FALSE>>}

Protected(part, p) == [part EXCEPT !.authentication = p[1], !.checksum = p[2]]

-----------------------------------------------------------------------------
(* Blocks: sizes on both sides of what fits a chunk with and without hash. *)

Sizes == {4096, 16320, 32576, 32592, 32640, 32656}

BlockLists ==
    {<<>>} \cup {<<a>> : a \in Sizes}
           \cup {<<a, b>> : a \in {4096, 16320}, b \in {4096, 16320, 16272, 32640}}

Rolled ==
    {[Encrypted(Protected(Part(k, 1, n), <<a, FALSE>>), "a.nky")
        EXCEPT !.blocks = b, !.default = d] :
        k \in Kinds, a \in {"none", "delayed", "signed"}, b \in BlockLists,
        d \in {0, 4096, 16320, 32640}, n \in {16, 16320, 32656, 65296, 70000}}

BlockInputs ==
    {Input(IF part.kind = "metaheader" THEN <<part>> ELSE <<part, MetaHeader>>,
           NoFiles, WithSmap, <<>>) : part \in Rolled}

-----------------------------------------------------------------------------
(* Key files: all pairs, one pair, a seed with or without key 0 and IV 0.  *)

Literal(k) == TextOf(<<0, 0, k, FALSE>>)

AllPairs(k, n) ==
    [keys |-> [i \in 1 .. n |-> Literal(IF i = 1 THEN 1 ELSE k + i)],
     ivs |-> [i \in 1 .. n |-> Literal(k + i)], seed |-> 0, fid |-> 0, fidFirst |-> FALSE]

Seeded(k, s) == [AllPairs(k, 1) EXCEPT !.seed = s]
SeededNoIv(s) == [Seeded(0, s) EXCEPT !.ivs = <<>>, !.fid = s]
SeededNoKey(k, s) == [Seeded(k, s) EXCEPT !.keys = <<>>]
SeedOnly(s) == [SeededNoIv(s) EXCEPT !.keys = <<>>, !.fid = 0]

InCapitals(f) ==
    [f EXCEPT !.keys = [i \in DOMAIN @ |-> [@[i] EXCEPT !.upper = TRUE]],
              !.ivs = [i \in DOMAIN @ |-> [@[i] EXCEPT !.upper = TRUE]]]

KeyFiles(k) ==
    {AllPairs(k, 3), AllPairs(k, 8), AllPairs(k, 1), Seeded(k, 1), SeededNoIv(1),
     SeededNoIv(2), SeedOnly(2)}

\* A file that repeats the pairs of another in capitals, one that takes the key of the
\* file before and has its IV, and the fixed input data on either side of the seed.
MoreKeyFiles ==
    {InCapitals(AllPairs(10, 8)), SeededNoKey(10, 1), SeededNoKey(30, 2),
     [SeededNoIv(1) EXCEPT !.fidFirst = TRUE]}

Maybe(f, contents) == {NoFiles} \cup {f :> c : c \in contents}

Secured(kind, image, length, key) ==
    [Encrypted(Protected(Part(kind, image, length), <<"signed", FALSE>>), key)
        EXCEPT !.default = 16320]

WithPmcData ==
    [Secured("bootloader", 1, 32000, "a.nky")
        EXCEPT !.lengths = <<32000, 16320>>, !.files = <<"a.nky", "pmc.nky">>]

\* A bootloader, a partition and the meta header.
Several ==
    {Input(<<boot[1], Secured("partition", 2, 16320, "b.nky"),
             [Secured("metaheader", 9, 16320, "meta.nky") EXCEPT !.source = s]>>,
           f @@ boot[2] @@ h, WithSmap, <<>>) :
        boot \in {<<Secured("bootloader", 1, 64, "a.nky"), NoFiles>>} \cup
                 ({WithPmcData} \X Maybe("pmc.nky", KeyFiles(30))),
        s \in MCSources, f \in Maybe("a.nky", KeyFiles(10)), h \in Maybe("b.nky", KeyFiles(50))}

\* An image of two partitions, and one of one.
Segments ==
    {Input(<<Secured("partition", 1, 16320, "a.nky"), Secured("partition", 1, 70000, "a.1.nky"),
             [Secured("partition", 2, 16320, "b.nky") EXCEPT !.source = s], MetaHeader>>,
           f @@ g @@ h, WithSmap, <<>>) :
        s \in MCSources, f \in Maybe("a.nky", KeyFiles(10)),
        g \in Maybe("a.1.nky", KeyFiles(30) \cup MoreKeyFiles),
        h \in Maybe("b.nky", KeyFiles(50))}

-----------------------------------------------------------------------------
(* Placement: a bootloader or none, an image of two partitions of which the*)
(* second is a continuation, and one of one partition.                     *)

Words ==
    {WithSmap, [width |-> 0, lastWidth |-> 0, slaveBoot |-> FALSE],
     [width |-> 0, lastWidth |-> 32, slaveBoot |-> TRUE]}

Placed(o, a, r) == [offset |-> o, alignment |-> a, reserve |-> r]

Placements ==
    {NoAttributes, Placed(65536, 0, 0), Placed(32768, 0, 4096), Placed(0, 4096, 0),
     Placed(0, 0, 64), Placed(0, 4096, 4096)}

Behind(p, q) ==
    <<Protected(Part("partition", 2, 1600), p), Part("partition", 2, 2000),
      Protected(Part("partition", 3, 32992), q), Part("partition", 4, 160),
      Protected(MetaHeader, <<p[1], FALSE>>)>>

Booting ==
    {Input(<<Protected(Part("bootloader", 1, 8000), p)>> \o Behind(q, p), NoFiles, w,
           <<a, b, NoAttributes, c>>) :
        p \in Protections, q \in {<<"none", TRUE>>, <<"signed", FALSE>>}, w \in Words,
        a \in {NoAttributes, Placed(0, 4096, 0), Placed(0, 0, 16384)},
        b \in Placements, c \in {NoAttributes, Placed(0, 0, 64), Placed(0, 0, 40960)}}

Partial ==
    {Input(Behind(p, q), NoFiles, w, <<b, NoAttributes, c>>) :
        p \in Protections, q \in {<<"none", FALSE>>, <<"signed", FALSE>>}, w \in Words,
        b \in Placements, c \in {NoAttributes, Placed(0, 0, 64), Placed(98304, 0, 0)}}

\* Partitions at 4 GB, with and without a reservation, or that reach across it.
Beyond == {Placed(MaskModulus, 0, 0), Placed(MaskModulus, 0, 4096)}

Across == Placed(MaskModulus - 4096, 0, 0)

Far ==
    {Input(<<Protected(Part("bootloader", 1, 8000), p)>> \o Behind(q, p), NoFiles, w,
           <<NoAttributes, b[1], NoAttributes, b[2]>>) :
        p \in Protections, q \in Protections, w \in Words,
        b \in (Beyond \X {NoAttributes, Across}) \cup {<<NoAttributes, Across>>}}

MCInputs == BlockInputs \cup Several \cup Segments \cup Booting \cup Partial \cup Far
=============================================================================
