--------------------------- MODULE MCSeriesRanges ---------------------------
(* Small instances of SeriesRanges: the slice size is a multiple of some   *)
(* steps, is rounded up or down to others, and is cut to the look-back in  *)
(* windows shorter than it.                                                *)
EXTENDS SeriesRanges, TLC
=============================================================================
