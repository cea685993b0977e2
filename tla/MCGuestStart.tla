----------------------------- MODULE MCGuestStart -----------------------------
(***************************************************************************)
(* Instances of GuestStart for TLC: codes U/X-X-X-X of four digits.        *)
(***************************************************************************)
EXTENDS GuestStart, TLC

FourChars == <<"0", "1", "A", "U">>
Lower == ("a" :> "A") @@ ("u" :> "U") @@ ("i" :> "I") @@ ("o" :> "O")

\* What a guest types: a code, with something in front of it or behind it, in
\* small letters, cut short, or with a wrong character.
Small(c) == CASE c = "A" -> "a" [] c = "U" -> "u" [] c = "0" -> "o" [] c = "1" -> "i" [] OTHER -> c

Around(code) ==
  {front \o code \o back : front \in {<<>>, <<"U", "/">>, Code(8), Code(14)}, back \in {<<>>, <<"1">>}}

TypedTexts ==
  LET codes == {Code(n) : n \in Numbers}
      copies == UNION {Around(code) : code \in codes}
  IN  copies \cup {[i \in DOMAIN t |-> Small(t[i])] : t \in codes}
             \cup {Front(t) : t \in codes}
             \cup {[t EXCEPT ![i] = c] : t \in Around(Code(63)) \cup Around(Code(64)), i \in 1 .. 7, c \in {"-", "/", "I", "O", "U", "?"}}

SomeRandoms == {0, 65, 255}

=============================================================================
