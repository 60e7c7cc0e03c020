--------------------------- MODULE MCFieldWriters ---------------------------
(* An agent with two changes to make and an app with one.                  *)
EXTENDS FieldWriters, TLC

CONSTANTS a1, p1, c1, c2, c3

AllWriters == Agents \union Apps

Makers == (c1 :> a1) @@ (c2 :> a1) @@ (c3 :> p1)

MakersOf == [c \in Changes |-> Makers[c]]
=============================================================================
