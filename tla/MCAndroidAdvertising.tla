------------------------ MODULE MCAndroidAdvertising ------------------------
(* Instances of AndroidAdvertising for TLC: a few starts, with and without a *)
(* name, beside stops and a rename.                                          *)
EXTENDS AndroidAdvertising

CONSTANTS stop, rename, a, b, none

\* Every choice of names for the starts; the rename asks for b.
AnyNames == {d \in [1..MaxStarts \cup {rename} -> {a, b, none}] : d[rename] = b}

\* One advertisement without a name.
Unnamed == {[r \in 1..MaxStarts \cup {rename} |-> IF r = rename THEN b ELSE none]}
=============================================================================
