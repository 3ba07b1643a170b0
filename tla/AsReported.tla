------------------------------ MODULE AsReported -----------------------------
(***************************************************************************)
(* The tree of an as-reported statement: service/asreported.go             *)
(* (parseStatementRow and asReportedTreeBuilder).                          *)
(*                                                                         *)
(* EDGAR prints a statement as a flat list of rows.  The builder nests     *)
(* them by their element names: a name is the sequence of its words, and a *)
(* heading's ends in "Abstract".  Rows are known by their numbers, and a   *)
(* tree is the row each row was put under, 0 at the root.                  *)
(***************************************************************************)
EXTENDS Naturals, SequencesExt

(* [element, kind]: a "member" heading of a breakdown and a "heading" have *)
(* no value of their own, everything else is a "line".                     *)
Printed(element, kind) == [element |-> element, kind |-> kind]
Heading(base) == Printed(Append(base, "Abstract"), "heading")
Base(row) == IF row.kind = "heading" THEN Front(row.element) ELSE <<>>

NewTree == [under |-> <<>>, open |-> <<>>, bases |-> <<>>]

(* The depth of the open section the element is the total of, or 0: the    *)
(* innermost of its very name, or else the innermost whose name goes on    *)
(* where the element's stops.                                              *)
SectionClosedBy(tree, element) ==
    LET exact == {d \in DOMAIN tree.bases : tree.bases[d] = element}
        longer == {d \in DOMAIN tree.bases :
                      tree.bases[d] # <<>> /\ IsPrefix(element, tree.bases[d])}
    IN IF element = <<>> THEN 0
       ELSE Max({0} \cup (IF exact # {} THEN exact ELSE longer))

AppendTo(tree, depth) ==
    [tree EXCEPT !.under = Append(@, IF depth = 0 THEN 0 ELSE tree.open[depth])]
Open(tree, depth, base) ==
    LET appended == AppendTo(tree, depth)
    IN [appended EXCEPT !.open = Append(SubSeq(@, 1, depth), Len(appended.under)),
                        !.bases = Append(SubSeq(@, 1, depth), base)]

(* Slip: the sections inside are closed, the section itself is not.        *)
CloseInside(tree, depth) ==
    [tree EXCEPT !.open = SubSeq(@, 1, depth), !.bases = SubSeq(@, 1, depth)]
CloseTo(tree, depth) ==
    [tree EXCEPT !.open = SubSeq(@, 1, depth - 1), !.bases = SubSeq(@, 1, depth - 1)]

Add(tree, row) ==
    LET depth == SectionClosedBy(tree, row.element)
        innermost == Len(tree.bases)
    IN IF row.kind = "member" THEN Open(tree, 0, <<>>)
       ELSE IF depth > 0 THEN CloseTo(AppendTo(tree, depth), depth)
       ELSE IF row.kind = "heading" THEN Open(tree, innermost, Base(row))
       ELSE AppendTo(tree, innermost)

(* The tree after each of the rows, and after the last.                    *)
Grown(rows) ==
    LET tree[n \in 0 .. Len(rows)] ==
            IF n = 0 THEN NewTree ELSE Add(tree[n - 1], rows[n])
    IN tree
Tree(rows) == Grown(rows)[Len(rows)].under
=============================================================================
