----------------------------- MODULE FilingItems -----------------------------
(***************************************************************************)
(* The items of a filing: providers/filingitems.go (findHeadings,          *)
(* sectionEnd, bestHeading and ParseFilingSections).                       *)
(*                                                                         *)
(* A document is a sequence of lines.  An item's heading is found three    *)
(* times over: in a table of contents, which may or may not be titled so,  *)
(* in the body, and wherever the text refers to it on a line of its own.   *)
(***************************************************************************)
EXTENDS Naturals, SequencesExt

CONSTANT Catalog     \* the items of the form, in order: [part, number]

Unnamed == ""        \* a part or a number that is not there

(* A 10-Q's items are each of a part and may share numbers; a 10-K's and an*)
(* 8-K's are of none.                                                      *)
ASSUME CatalogAssumption ==
    /\ Catalog \in Seq([part : STRING \cup {Unnamed}, number : STRING])
    /\ \/ \A c \in ToSet(Catalog) : c.part # Unnamed
       \/ /\ \A c \in ToSet(Catalog) : c.part = Unnamed
          /\ \A c, d \in ToSet(Catalog) : c.number = d.number => c = d

(* A "part" line begins with a part, and is marked where it is the part's  *)
(* title and no sentence (the code does not ask); an "item" line may name  *)
(* its part first, and is marked where its title, its markup or its        *)
(* capitals make it a heading, dotted where its title ends in a page       *)
(* number.  "text" is long enough to be a section (80 characters), a "note"*)
(* is not.  (An item line that names its part after two underscores, which *)
(* partHeadingRE does not know for bold, is left out.)                     *)
Lines == {line \in [kind : {"contents", "part", "item", "text", "note"}, part : STRING \cup {Unnamed},
                    number : STRING \cup {Unnamed}, marked : BOOLEAN, dotted : BOOLEAN] :
             /\ line.kind = "part" => line.part # Unnamed
             /\ line.part # Unnamed => line.kind \in {"part", "item"}}
Line(kind) == [kind |-> kind, part |-> Unnamed, number |-> Unnamed, marked |-> FALSE, dotted |-> FALSE]
PartLine(part) == [Line("part") EXCEPT !.part = part, !.marked = TRUE]
ItemLine(item) == [Line("item") EXCEPT !.number = item.number, !.marked = TRUE]
Dotted(line) == [line EXCEPT !.dotted = TRUE]

Lookup(part, number) ==
    LET numbered == {c \in ToSet(Catalog) : c.number = number}
        exact == {c \in numbered : c.part = part}
    IN IF exact # {} THEN exact ELSE {c \in numbered : numbered = {c}}

(* The scan: the part it is in, whether it is in a table of contents, what *)
(* that table has listed, and the headings found.                          *)
Start == [at |-> 0, part |-> Unnamed, contents |-> FALSE, items |-> {}, parts |-> {}, headings |-> {}]

ReadContents(scan) == [scan EXCEPT !.contents = TRUE, !.items = {}, !.parts = {}]

(* Slips: the table goes on past a part, or an item, that it lists twice.  *)
ReadPartInContents(scan, part) ==
    [scan EXCEPT !.part = part, !.parts = IF scan.contents THEN @ \cup {part} ELSE @]
ReadItemInContents(scan, line, item) ==
    IF line.marked
    THEN [scan EXCEPT !.items = IF scan.contents THEN @ \cup {item} ELSE @,
                      !.headings = @ \cup {[item |-> item, start |-> scan.at,
                                            toc |-> scan.contents \/ line.dotted]}]
    ELSE scan

(* The table ends with the first part or item that it lists twice: the     *)
(* body has begun.                                                         *)
ReadPart(scan, part) ==
    [scan EXCEPT !.part = part,
                 !.contents = @ /\ part \notin scan.parts,
                 !.parts = IF scan.contents THEN @ \cup {part} ELSE @]
ReadItem(scan, line, item) ==
    LET contents == scan.contents /\ item \notin scan.items
    IN IF line.marked
       THEN [scan EXCEPT !.contents = contents,
                         !.items = IF contents THEN @ \cup {item} ELSE @,
                         !.headings = @ \cup {[item |-> item, start |-> scan.at,
                                               toc |-> contents \/ line.dotted]}]
       ELSE [scan EXCEPT !.contents = contents]

(* A line that names a part sets it, an item's line too, which is then     *)
(* looked up in the part it names.                                         *)
ReadLine(scan, line) ==
    LET next == [scan EXCEPT !.at = @ + 1]
        placed == IF line.part # Unnamed THEN ReadPart(next, line.part) ELSE next
        found == Lookup(placed.part, line.number)
    IN CASE line.kind = "contents" -> ReadContents(next)
         [] line.kind = "item" /\ found # {} -> ReadItem(placed, line, CHOOSE c \in found : TRUE)
         [] OTHER -> placed

(* The scan after each of the lines.                                       *)
Scan(lines) ==
    LET scan[n \in 0 .. Len(lines)] ==
            IF n = 0 THEN Start ELSE ReadLine(scan[n - 1], lines[n])
    IN scan
FindHeadings(lines) == Scan(lines)[Len(lines)].headings

-----------------------------------------------------------------------------
SectionEnd(lines, headings, h) ==
    Min({Len(lines) + 1} \cup {g.start : g \in {x \in headings : x.start > h.start}})
Content(lines, headings, h) == (h.start + 1) .. (SectionEnd(lines, headings, h) - 1)
LongEnough(lines, content) == \E i \in content : lines[i].kind = "text"

(* Of the headings outside the table that have something under them, one   *)
(* with enough under it, and of these the last.                            *)
BestHeading(lines, headings, item) ==
    LET usable == {h \in headings : h.item = item /\ ~h.toc /\ Content(lines, headings, h) # {}}
        long == {h \in usable : LongEnough(lines, Content(lines, headings, h))}
        best == IF long # {} THEN long ELSE usable
    IN {h \in best : \A g \in best : g.start <= h.start}

(* item -> the lines of its section.                                       *)
ParseFilingSections(lines) ==
    LET headings == FindHeadings(lines)
        best == UNION {BestHeading(lines, headings, item) : item \in ToSet(Catalog)}
    IN [item \in {h.item : h \in best} |->
           Content(lines, headings, CHOOSE h \in best : h.item = item)]
=============================================================================
