---------------------------------- MODULE Lists ----------------------------------
(***************************************************************************)
(* Lists as the code keeps them beside its maps.  InsertAt and RemoveAt    *)
(* are those of SequencesExt, on their own: what else that module brings   *)
(* with it stands in the way of the provers.                               *)
(***************************************************************************)
EXTENDS Naturals, Sequences

InsertAt(s, i, e) == SubSeq(s, 1, i - 1) \o <<e>> \o SubSeq(s, i, Len(s))
RemoveAt(s, i) == SubSeq(s, 1, i - 1) \o SubSeq(s, i + 1, Len(s))

(* A list filtered: what is left without those that are gone.               *)
Filtered(order, gone) ==
  LET kept[n \in 0..Len(order)] ==
        IF n = 0 THEN <<>>
        ELSE IF order[n] \in gone THEN kept[n - 1] ELSE Append(kept[n - 1], order[n])
  IN kept[Len(order)]
================================================================================
