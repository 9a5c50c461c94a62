--------------------------- MODULE MCPreviewFormat ---------------------------
(* Four cameras: one with both formats and two sizes, one with YUYV only and a range of *)
(* intervals, one with two MJPEG formats, and a slow one without the default size.      *)
EXTENDS PreviewFormat

Listing(size, intervals)  == [size |-> size, intervals |-> intervals, lo |-> 0, hi |-> 0, step |-> 1]
Ranging(size, lo, hi, st) == [size |-> size, intervals |-> <<>>, lo |-> lo, hi |-> hi, step |-> st]

MCCameras ==
  {<<[mode |-> YUYV,  frames |-> <<Listing(1, <<333333, 666666>>), Listing(2, <<666666>>)>>],
     [mode |-> MJPEG, frames |-> <<Listing(2, <<333333>>), Listing(1, <<333333>>)>>]>>,
   <<[mode |-> YUYV,  frames |-> <<Ranging(2, 333333, 1000000, 333333), Ranging(1, 400000, 600000, 50000)>>]>>,
   <<[mode |-> MJPEG, frames |-> <<Listing(2, <<166666>>)>>],
     [mode |-> MJPEG, frames |-> <<Listing(1, <<166666, 333333>>), Listing(2, <<400000>>)>>]>>,
   <<[mode |-> YUYV,  frames |-> <<Listing(1, <<20000000>>), Listing(1, <<2000000>>)>>]>>}

MCRates == {DefaultRates, [min |-> 15, max |-> 15]}
=============================================================================
