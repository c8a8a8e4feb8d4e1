------------------------------- MODULE Absent -------------------------------
(***************************************************************************)
(* The one value the modules of this project use for something that is     *)
(* not there: an undefined field, a null column, an absent header; and how *)
(* one record or map is laid over another.                                 *)
(***************************************************************************)
CONSTANT Missing

(* { ...under, ...top }: the fields of both, top's where both have one.    *)
(* TLC's @@, which the provers do not know.                                *)
Over(top, under) ==
    [x \in DOMAIN top \cup DOMAIN under |-> IF x \in DOMAIN top THEN top[x] ELSE under[x]]

(* A map with one key set. *)
With(map, key, value) == [x \in DOMAIN map \cup {key} |-> IF x = key THEN value ELSE map[x]]
=============================================================================
