------------------------------- MODULE MCReflow -------------------------------
(***************************************************************************)
(* A window with a box and a panel; in the box two labels. For TLC.        *)
(***************************************************************************)
EXTENDS Reflow

CONSTANTS win, box, panel, name, unit

Elems == {win, box, panel, name, unit}
Parents == [e \in Elems \ {win} |-> IF e \in {name, unit} THEN box ELSE win]
Aligns == [e \in Elems |-> CASE e = name -> "middle" [] e = panel -> "end" [] OTHER -> "start"]
Size(w, h) == [h |-> w, v |-> h]
TextSizes == {Size(1, 2), Size(4, 1)}
Windows == {Size(7, 8), Size(16, 11)}
BoxSizes == {"hfit", "vfit", "hfill", "vfill", "fill"}
Layouts == {"vpack_top", "vpack_middle", "vpack_bottom", "hpack_left", "hpack_center",
            "hpack_right", "hdistribute", "unmanaged"}
SizeCbs == {[e \in Elems |-> IF e = box THEN s ELSE "self"] : s \in BoxSizes}
LayoutCbs == {[e \in Elems |-> CASE e = box -> l [] e = win -> w [] OTHER -> "hpack_left"] :
                l \in Layouts, w \in {"vpack_top", "hpack_right"}}
===============================================================================
