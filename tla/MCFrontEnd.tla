------------------------------ MODULE MCFrontEnd ------------------------------
(* Instances: cards that collide in every way a UID allows (in the last bit of a *)
(* level, in its size, with a common first level), and a 2 by 2 keypad.          *)
EXTENDS FrontEnd, TLC

McCards == 1..4
McUids == << <<1, 2, 3, 4>>, <<4, 2, 3, 4, 5, 6, 7>>, <<1, 2, 3, 132>>,
             <<4, 2, 3, 9, 9, 9, 9, 9, 9, 9>> >>

McKeyAt == (<<0, 0>> :> "1" @@ <<0, 1>> :> "0" @@ <<1, 0>> :> "*" @@ <<1, 1>> :> "#")

\* A short text, and one that is cut and has characters of every kind.
McMessages == {<< <<65>>, <<98, 50, 99, 200, 7>> >>}

=============================================================================
