------------------------------ MODULE MCBackup ------------------------------
(***************************************************************************)
(* Trees for Backup.  Root takes one element, MaxPath is 5 and openDir can *)
(* open 4: directories three levels deep, a fourth that is pushed and does *)
(* not open, and a name of two elements that fits near the root only.      *)
(***************************************************************************)
EXTENDS BackupProps

MCRoot == <<"C:">>

Dot   == [name |-> <<".">>, kind |-> "dot"]
F     == [name |-> <<"f">>, kind |-> "file"]
G     == [name |-> <<"g">>, kind |-> "file"]
Long  == [name |-> <<"l", "m">>, kind |-> "file"]
A     == [name |-> <<"a">>, kind |-> "dir"]
B     == [name |-> <<"b">>, kind |-> "dir"]
E     == [name |-> <<"e">>, kind |-> "dir"]
I     == [name |-> <<"i">>, kind |-> "dir"]

MCEntry == {Dot, F, G, Long, A, B, E, I}
MCElem  == {"C:", ".", "f", "g", "l", "m", "a", "b", "e", "i"}

\* Nested, empty and neighbouring directories; a directory that is the last
\* entry of its parent, so that two close at once; a directory with the name of
\* its parent, and files of one name at two places.
Tree1 == << >>        :> <<A, Long>>
      @@ <<"a">>      :> <<Dot, A, F, B>>
      @@ <<"a", "a">> :> <<Dot>>
      @@ <<"a", "b">> :> <<Dot, F>>

\* Neighbours with the same in them.
Twins == << >>   :> <<A, B>>
      @@ <<"a">> :> <<Dot, F>>
      @@ <<"b">> :> <<Dot, F>>

\* Four levels: the last is pushed into the last entry and cannot be opened.
Chain == << >>            :> <<A>>
      @@ <<"a">>           :> <<Dot, B>>
      @@ <<"a", "b">>      :> <<Dot, E>>
      @@ <<"a", "b", "e">> :> <<Dot, I>>

\* A name too long for its place.
TooLong == << >>            :> <<A>>
        @@ <<"a">>           :> <<Dot, B>>
        @@ <<"a", "b">>      :> <<Dot, Long, E>>
        @@ <<"a", "b", "e">> :> <<Dot, Long>>

\* The root of an empty drive, and a directory with nothing in it.
Nothing == << >> :> << >>
OnlyDot == << >> :> <<Dot>>

MCWorlds == {Tree1, Twins, Chain, TooLong, Nothing, OnlyDot}
MCStrays == {<< >>, <<G>>}

ASSUME \A w \in MCWorlds : \A d \in DOMAIN w : \A e \in Range(w[d]) :
         e.kind = "dir" => d \o e.name \in DOMAIN w \/ Len(d \o e.name) > 3
=============================================================================
