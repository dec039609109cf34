------------------------------- MODULE MCSources -------------------------------
(***************************************************************************)
(* The instance of Sources for TLC.                                        *)
(***************************************************************************)
EXTENDS Sources

Line(r, size) == [record |-> r, host |-> IF r = 11 THEN "assets" ELSE "shop", size |-> size]
Lines(s) == [kind |-> "lines", lines |-> s]
Other(kind) == [kind |-> kind, lines |-> <<>>]

\* The validation probe; two messages; an oversized line before the last; a long
\* line after one that fits.  Records are numbers, apart from the times of Exported.
Deliveries ==
    <<Other("probe"),
      Lines(<<Line(11, "fits"), Line(12, "fits")>>),
      Lines(<<Line(13, "fits"), Line(14, "oversized"), Line(15, "fits")>>),
      Lines(<<Line(16, "fits"), Line(17, "long")>>)>>

\* Without what is refused anyway.
Readable == SelectSeq(Deliveries, LAMBDA b : b.kind = "lines")

\* By the last tick the token was not rotated and no filter was saved.
QuietAtTheEnd == now = MaxTime => feed.secret <= 1 /\ everRules = {}

AssetRules == {{{"assets"}}}
=============================================================================
