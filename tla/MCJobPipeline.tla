--------------------------- MODULE MCJobPipeline ---------------------------
(* Instances of JobPipeline for TLC. *)
EXTENDS JobPipeline

CONSTANTS m1, m2

OneMessage == {m1}
TwoMessages == {m1, m2}

J(fn, outs, metered) == [fn |-> fn, outs |-> outs, metered |-> metered]
B(jobs) == [parsed |-> TRUE, jobs |-> jobs]
NotAList == [parsed |-> FALSE, jobs |-> <<>>]

Blend == J("raster", <<"tif", "png">>, TRUE)
Contours == J("vector", <<"other">>, TRUE)
Scalar == J("scalar", <<"scalar">>, TRUE)
NoUrl == J("scalar", <<>>, TRUE)
Grid == J("grid", <<"png">>, FALSE)
Helper == J("helper", <<"tif">>, TRUE)
Unknown == J("unknown", <<"tif">>, TRUE)
Nameless == J("missing", <<"tif">>, TRUE)
BadSlot == J("raster", <<"tif", "other">>, TRUE)

(* Every family, alone or before and after a sibling. *)
AllBodies ==
    {NotAList, B(<<>>), B(<<Scalar, Blend>>), B(<<Grid, NoUrl>>),
     B(<<Unknown, Contours>>), B(<<Contours, Nameless>>), B(<<Nameless, Contours>>),
     B(<<BadSlot, Contours>>), B(<<Helper, Contours>>)}

(* What two messages in flight at once are made of: a bundle that can      *)
(* succeed, and every reason for one never to, alone or behind a sibling.  *)
(* What they would post is of no account there.                            *)
Bare(fn) == J(fn, <<>>, FALSE)
QueueBodies ==
    {B(<<>>), NotAList, B(<<Bare("unknown")>>), B(<<Bare("unknown"), Bare("missing")>>)}

ScalarBodies == {B(<<Scalar>>)}
PairBodies == {B(<<Contours, Unknown>>)}

AnyAnswer == Answers
NoRedirect == Answers \ {"3xx"}
PlainAnswers == {"2xx", "raised"}

=============================================================================
