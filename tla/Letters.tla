-------------------------------- MODULE Letters --------------------------------
(* Names that differ in the case of their letters. *)
CONSTANT
    LowerCase   \* each name with capitals, mapped to its lower-case form

to_lowercase(name) == IF name \in DOMAIN LowerCase THEN LowerCase[name] ELSE name

eq_ignore_ascii_case(a, b) == to_lowercase(a) = to_lowercase(b)

===============================================================================
