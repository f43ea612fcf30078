------------------------------ MODULE MCDataset ------------------------------
(* Plans for TLC.  Each is about one thing a dataset has to get right, so     *)
(* that its traces can be long enough for it.                                 *)
EXTENDS DatasetProps

Symmetry == Permutations(Streams)

OpenFor(m, tr) == [op |-> "OPEN", mode |-> m, trunc |-> tr]
Part(kind, off, len) == [op |-> kind, off |-> off, len |-> len]
Plainly(kind) == [op |-> kind]

MCNames == (0 :> <<"a">>) @@ (1 :> <<"a", "b">>)

Readers == {OpenFor("r", FALSE), Part("READ", 0, 2), Part("READ", 2, 2)}
Writers == {OpenFor("rw", FALSE), Part("READ", 0, 4), Part("WRITE", 1, 1), Part("WRITE", 4, 1)}

Plan(engine, modes, calls, most) ==
  [engine |-> engine, modes |-> modes, calls |-> calls, most |-> most,
   cache |-> "none", rules |-> <<>>, passthrough |-> TRUE, bucket |-> None, root |-> <<>>,
   known |-> FALSE, sizes |-> {3}, faults |-> FALSE]

To(from, to, bucket) == [from |-> from, to |-> to, bucket |-> bucket]

(* Sizes from short reads. *)
ShortReads ==
  {[Plan(e, {"synthetic"}, Readers \cup {Plainly("CLOSE")}, 4) EXCEPT !.sizes = {1, 3}] :
     e \in {"local", "object", "mem"}}

(* One attempt after the other, each failing or cancelled anywhere. *)
Attempts ==
  {[Plan(e, {"synthetic", "source", "existing"}, {OpenFor("r", FALSE), Part("READ", 0, 2)}, 3)
      EXCEPT !.known = TRUE, !.faults = TRUE, !.cache = "warm"] : e \in {"local", "object"}}

(* Files that grow, through the page cache and past it. *)
Growing ==
  {Plan("local", {"synthetic"}, Writers, 4), Plan("direct", {"synthetic"}, Writers, 5),
   [Plan("direct", {"synthetic"}, Writers, 3) EXCEPT !.faults = TRUE]}

(* Two files that become one, or that an earlier attempt left too short.      *)
Short == {OpenFor("rw", FALSE), Part("WRITE", 0, 3), Part("WRITE", 4, 3)}

Shortened ==
  {[Plan(e, {"synthetic"}, Short, 4)
      EXCEPT !.rules = <<To(<<"a", "b">>, <<"x">>, None), To(<<"a">>, <<"x">>, None)>>] :
     e \in {"local", "direct"}} \cup
  {[Plan("direct", {"synthetic", "existing"}, Short, 3)
      EXCEPT !.known = k, !.faults = TRUE] : k \in BOOLEAN}

(* What is refused, or lands elsewhere than it was recorded. *)
Mapping ==
  {[Plan(e, {"synthetic", "existing"},
         {OpenFor("r", FALSE), OpenFor("rw", TRUE), Part("READ", 0, 2), Part("WRITE", 0, 1),
          Plainly("FSYNC"), Plainly("CLOSE")}, 3)
      EXCEPT !.rules = r, !.passthrough = p, !.root = root] :
     e \in {"local", "mem"}, p \in BOOLEAN, root \in {<<>>, <<"x">>},
     r \in {<<To(<<"a">>, <<"x">>, None), To(<<"a", "b">>, <<"x", "c">>, None)>>,
            <<To(<<"a", "b">>, <<"x">>, None), To(<<"a">>, <<"x">>, None)>>,
            <<To(<<"a">>, <<"x">>, "other")>>}} \cup
  {[Plan("object", {"synthetic"}, {OpenFor("r", FALSE), Part("READ", 0, 2)}, 2)
      EXCEPT !.rules = <<To(<<"a">>, <<"x">>, b)>>, !.bucket = "mine", !.root = <<"x">>] :
     b \in {None, "mine", "other"}}

AllPlans == ShortReads \cup Attempts \cup Growing \cup Shortened \cup Mapping
=============================================================================
