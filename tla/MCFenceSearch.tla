---------------------------- MODULE MCFenceSearch ---------------------------
(***************************************************************************)
(* Programs for FenceSearch.                                               *)
(***************************************************************************)
EXTENDS FenceSearch

Op(kind, loc, mo, wc) == [kind |-> kind, loc |-> loc, mo |-> mo, wc |-> wc]
Load(loc, wc) == Op("load", loc, "relaxed", wc)
Store(loc, wc) == Op("store", loc, "relaxed", wc)
Rmw(loc, wc) == Op("rmw", loc, "relaxed", wc)
Fence(wc) == Op("fence", "none", "relaxed", wc)

Program(threads, wildcards) ==
  [locs |-> <<"x", "y">>, threads |-> threads, wildcards |-> wildcards, file |-> <<>>]

MessagePassing == Program(<<<<Store("x", 0), Store("y", 1)>>, <<Load("y", 2), Load("x", 0)>>>>, 2)
StoreBuffering == Program(<<<<Store("x", 1), Load("y", 2)>>, <<Store("y", 3), Load("x", 4)>>>>, 4)
RmwBuffering == Program(<<<<Rmw("x", 1), Load("y", 2)>>, <<Rmw("y", 3), Load("x", 4)>>>>, 4)
Causality == Program(<<<<Store("x", 1)>>, <<Load("x", 2), Store("y", 3)>>, <<Load("y", 4), Load("x", 0)>>>>, 4)

\* With fences.
FencedMessage ==
  Program(<<<<Store("x", 0), Fence(1), Store("y", 0)>>, <<Load("y", 0), Fence(2), Load("x", 0)>>>>, 2)
FencedBuffering ==
  Program(<<<<Store("x", 0), Fence(1), Load("y", 0)>>, <<Store("y", 0), Fence(2), Load("x", 0)>>>>, 2)
HalfFenced == Program(<<<<Store("x", 0), Fence(1), Load("y", 0)>>, <<Store("y", 2), Load("x", 3)>>>>, 3)

\* With a fixed order that is strong, and with a candidate file.
HalfFixed ==
  Program(<<<<Store("x", 0), Store("y", 1)>>, <<Op("load", "y", "acquire", 0), Load("x", 0)>>>>, 1)
OtherHalfFixed ==
  Program(<<<<Store("x", 0), Op("store", "y", "release", 0)>>, <<Load("y", 1), Load("x", 0)>>>>, 1)
FromFile ==
  [MessagePassing EXCEPT !.file =
    <<<<"release", "relaxed">>, <<"acq_rel", "acquire">>, <<"seq_cst", "seq_cst">>>>]

MCPrograms ==
  {MessagePassing, StoreBuffering, RmwBuffering, Causality, FencedMessage, FencedBuffering,
   HalfFenced, HalfFixed, OtherHalfFixed, FromFile}
=============================================================================
