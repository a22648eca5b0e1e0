-------------------------- MODULE MCProjectImport --------------------------
(* Two imports: the draft of the first is good, cyclic, cannot be read for a  *)
(* unit or has a task without a name; the second, under review already, names *)
(* a task of the first in another spelling.  Somebody creates a material.     *)
EXTENDS ProjectImport, TLC

CONSTANTS i1, i2, t1, t2

Task(id, name, phase) ==
  [id |-> id, name |-> name, phase |-> phase, status |-> "proposed", completed |-> None]
Cement(unit, onHand) == <<[id |-> "c", name |-> <<"cement", "Cement">>, unit |-> unit, onHand |-> onHand]>>
Edge(pred, succ) == [pred |-> pred, succ |-> succ]
Need(unit) == <<[task |-> "b", material |-> "c", quantity |-> 5, unit |-> unit]>>

Dig == Task("a", <<"dig", "Dig">>, "p")
Pour == Task("b", <<"pour", "Pour">>, None)
Phase == <<[id |-> "p", name |-> <<"ground", "Ground">>]>>

Good == Draft("villa", Phase, <<Dig, Pour>>, <<Edge("a", "b")>>, Cement(<<"bags", "bag">>, 2), Need(<<"bags", "BAGS">>),
              <<[id |-> "m", name |-> <<"handover", "Handover">>, date |-> 9]>>)
Cycle == [Good EXCEPT !.deps = <<Edge("a", "b"), Edge("b", "a")>>]
Alien == [Good EXCEPT !.materials = Cement(<<Unknown, "heaps">>, 2)]
Again == Draft("annex", <<>>, <<Task("x", <<"pour", "POUR">>, None)>>, <<>>, <<>>, <<>>, <<>>)
Nameless == [Good EXCEPT !.tasks = <<Dig, Pour, Task("x", <<Blank, "--">>, None)>>]

MCImport == {i1, i2}
MCText == i1 :> {t1} @@ i2 :> {t2}
MCAnswers == t1 :> {Good, Cycle, Alien, Nameless} @@ t2 :> {Again}
MCReviewed == i1 :> None @@ i2 :> Again
MCNewMaterial == {<<"cement", "CEMENT">>}
=============================================================================
