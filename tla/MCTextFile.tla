----------------------------- MODULE MCTextFile -----------------------------
(* TLC instance of TextFile: texts with every kind of line break, and bytes *)
(* that make every encoding and byte-order mark, with surrogates alone, in  *)
(* pairs and in the wrong order.                                            *)
EXTENDS TextFile

CONSTANTS MaxText, MaxBytes

MCInputs ==
    BoundedSeq({97, 98, LF, CR}, MaxText) \cup BoundedSeq({0, LF, 97, 254, 255}, MaxBytes)
        \cup {BOMUTF8 \o s : s \in BoundedSeq({97, LF}, 2)}
        \cup {m \o s : m \in {BOMUTF16LE, BOMUTF16BE}, s \in BoundedSeq({97, 216, 220}, MaxBytes)}

Single(old, new, once) == [old |-> old, new |-> new, once |-> once]
Edits == {Single(<<97>>, <<98>>, FALSE), Single(<<97, 97>>, << >>, TRUE),
          Single(<<97>>, <<98, LF, 97>>, TRUE), Single(<<98>>, <<97, CR, LF>>, FALSE),
          Single(<<LF>>, <<97>>, FALSE), Single(<<98, CR>>, << >>, TRUE)}
MCEditLists == {<<e>> : e \in Edits} \cup {<<e, f>> : e \in Edits, f \in Edits}
=============================================================================
