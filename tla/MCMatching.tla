------------------------------ MODULE MCMatching ------------------------------
\* The street of the matching run: two houses at first, of which the second import moves
\* one away; a fix between them with a good and a poor accuracy, and none; and a landmark.
EXTENDS Matching, TLC
MCSources == [old |-> [b1 |-> [lo |-> 0, hi |-> 10], b2 |-> [lo |-> 60, hi |-> 70]],
              new |-> [b1 |-> [lo |-> 30, hi |-> 40]]]
MCForms == {[fix |-> 22, accuracy |-> 10, landmark |-> "market"],
            [fix |-> 22, accuracy |-> 80, landmark |-> None],
            [fix |-> None, accuracy |-> None, landmark |-> "market"]}
MCOtherFixes == {None, 22, 38, 39}
MCSymmetry == Permutations(Workers)
=============================================================================
