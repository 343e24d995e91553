---- MODULE MCModelExecution ----
(***************************************************************************)
(* The programs TLC runs: litmus tests, each with every choice of memory   *)
(* orders that matters to it.  user_main initialises the objects, creates  *)
(* the other threads and takes part.                                       *)
(***************************************************************************)
EXTENDS MemoryModel

Op(kind, l, o, u) == [op |-> kind, loc |-> l, ord |-> o, thr |-> u]
In(l) == Op("init", l, "relaxed", 0)
Ld(l, o) == Op("load", l, o, 0)
St(l, o) == Op("store", l, o, 0)
Up(l, o) == Op("rmw", l, o, 0)
Fn(o) == Op("fence", NoLoc, o, 0)
Cr(u) == Op("create", NoLoc, "seq_cst", u)
Jn(u) == Op("join", NoLoc, "seq_cst", u)

Rlx == "relaxed"
Acq == "acquire"
Rel == "release"
AcqRel == "acq_rel"
Sc == "seq_cst"

(* Two threads on x and y, and three on x alone or on both. *)
Two(a, b) == << <<In("x"), In("y"), Cr(2)>> \o a, b >>
Three(a, b, c) == << <<In("x"), In("y"), Cr(2), Cr(3)>> \o a, b, c >>
ThreeOnX(a, b, c) == << <<In("x"), Cr(2), Cr(3)>> \o a, b, c >>

MessagePassing ==
    {Two(<<St("x", Rlx), St("y", w)>>, <<Ld("y", r), Ld("x", Rlx)>>) :
        w \in {Rlx, Rel, Sc}, r \in {Rlx, Acq, Sc}}
FencedMessagePassing ==
    {Two(<<St("x", Rlx), Fn(f), St("y", Rlx)>>, <<Ld("y", Rlx), Fn(g), Ld("x", Rlx)>>) :
        f \in {Rel, Sc}, g \in {Acq, AcqRel}}
StoreBuffering ==
    {Two(<<St("x", w), Ld("y", r)>>, <<St("y", w), Ld("x", r)>>) :
        w \in {Rlx, Sc}, r \in {Rlx, Sc}}
FencedStoreBuffering ==
    {Two(<<St("x", Rlx), Fn(f), Ld("y", r)>>, <<St("y", Rlx), Fn(Sc), Ld("x", Rlx)>>) :
        f \in {AcqRel, Sc}, r \in {Rlx, Sc}}
FencedWrites ==
    {Two(<<St("x", w), Fn(Sc), St("y", Rlx)>>, <<St("y", w), Fn(Sc), St("x", Rlx), Ld("y", Rlx)>>) :
        w \in {Rlx, Sc}}
Joined ==
    {<< <<In("x"), Cr(2), St("x", Rlx), Jn(2), Ld("x", Rlx)>>, <<St("x", Rlx), Up("x", Rlx)>> >>}
Coherence ==
    {ThreeOnX(<<St("x", o)>>, <<St("x", o)>>, <<Ld("x", o), Ld("x", Rlx)>>) : o \in {Rlx, Sc}}
Updates ==
    {ThreeOnX(<<Up("x", o)>>, <<Up("x", o)>>, <<St("x", o), Ld("x", Rlx)>>) : o \in {Rlx, Sc}}
ReleaseSequence ==
    {ThreeOnX(<<St("x", Rel), St("x", Rlx)>>, <<q>>, <<Ld("x", Acq)>>) :
        q \in {St("x", Rlx), Up("x", Rlx)}}
LateSynchronization ==
    {<< <<In("x"), In("y"), Cr(2), Cr(3)>>,
        <<St("y", Rlx), St("x", Rel), St("x", Rlx)>>,
        <<Ld("x", Acq), Ld("y", Rlx), St("y", Rlx)>> >>}
Causality ==
    {Three(<<St("x", Rlx)>>, <<Ld("x", r), St("y", w)>>, <<Ld("y", r), Ld("x", Rlx)>>) :
        r \in {Acq}, w \in {Rel}}

FencedRelease ==
    {ThreeOnX(<<Fn(Rel), Up("x", Rlx)>>, <<Up("x", Rlx)>>, <<Ld("x", Rlx), Fn(Acq)>>)}

(* Thread 2 learns late, while thread 3 might still write x, that the      *)
(* relaxed store to y comes before its own.                                *)
LateScWrite ==
    {Three(<<St("y", Rlx), St("x", Rel), St("x", Rlx)>>, <<Ld("x", Acq), St("y", Sc)>>,
           <<Ld("y", Sc)>>)}

Litmus == UNION {MessagePassing, FencedMessagePassing, StoreBuffering, FencedStoreBuffering,
                 FencedWrites, Joined, Coherence, Updates, ReleaseSequence,
                 LateSynchronization, LateScWrite, Causality, FencedRelease}

====
